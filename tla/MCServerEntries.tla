--------------------------- MODULE MCServerEntries ---------------------------
(* s1 is an embedded server without a tag whose address is recycled; s2 is  *)
(* an embedded server that a remote list updates, and its address starts    *)
(* with that of s1.                                                         *)
EXTENDS ServerEntries

CONSTANTS s1, s2, t1, t2, t3, r1, r2

C(id, tag, tagged, version, region, source) ==
  [id |-> id, tag |-> tag, tagged |-> tagged, version |-> version,
   region |-> region, source |-> source]

MCCatalog == {C(s1, t1, FALSE, 0, r1, "embedded"), C(s1, t2, TRUE, 1, r2, "remote"),
              C(s2, t3, TRUE, 0, r1, "embedded"), C(s2, t3, TRUE, 1, r1, "remote")}

MCPrefix == {<<s1, s2>>}
==============================================================================
