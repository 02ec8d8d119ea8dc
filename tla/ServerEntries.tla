---------------------------- MODULE ServerEntries ----------------------------
(***************************************************************************)
(* The server entries of the client's datastore (psiphon/dataStore.go):    *)
(* the buckets of entries, tags, tombstones and dial parameters, the       *)
(* affinity server, and the ServerEntryIterator that establishment walks   *)
(* while imports, promotions, prunes and data corruption change the        *)
(* buckets under it.  Every datastoreUpdate and datastoreView transaction  *)
(* is one step; Next of the iterator is two or three of them.              *)
(*                                                                         *)
(* Catalog is the set of entries that the sources offer.  An entry's tag   *)
(* is its Tag field or, when that is empty (tagged = FALSE), the one that  *)
(* GenerateServerEntryTag derives from its address and web server secret.  *)
(* The age check of a prune, which time decides, is left open: a prune of  *)
(* a young entry is a stuttering step.                                     *)
(***************************************************************************)
EXTENDS Integers, FiniteSets, Functions

CONSTANTS ID,               \* server entry IDs: the servers' IP addresses
          Tag,              \* server entry tags
          Region,           \* egress regions
          Egress,           \* the regions a configuration may ask for
          Catalog,          \* entries that may be imported
          Prefix,           \* pairs <<s, x>>: address s is a prefix of address x
          MaxMoveToFront,   \* ServerEntryIteratorMaxMoveToFront
          MaxCorrupt,       \* bound: records corrupt at the same time
          NoID, NoRegion    \* no affinity server; no region (any, or not set)

CatalogEntry == [id : ID, tag : Tag, tagged : BOOLEAN, version : {0, 1},
                 region : Region, source : {"embedded", "remote"}]

\* A tag is derived from the address, so it names one server.
ASSUME CatalogAssumption ==
  /\ Catalog \subseteq CatalogEntry
  /\ \A c, d \in Catalog : c.tag = d.tag => c.id = d.id
  /\ ID \cap Tag = {} /\ Prefix \subseteq ID \X ID
  /\ NoID \notin ID \cup Tag /\ NoRegion \notin Region
  /\ Egress \subseteq Region \cup {NoRegion}
  /\ MaxMoveToFront \in Nat /\ MaxCorrupt \in Nat

VARIABLES entries,      \* datastoreServerEntriesBucket: ID -> entry, partial
          tags,         \* datastoreServerEntryTagsBucket: Tag -> record, partial
          tombstones,   \* datastoreServerEntryTombstoneTagsBucket
          dialParams,   \* keys of datastoreDialParametersBucket
          affinity,     \* datastoreAffinityServerEntryIDKey
          filter,       \* datastoreLastServerEntryFilterKey
          egress,       \* config.EgressRegion
          it,           \* the ServerEntryIterator and the state of its Next
          owed          \* history: servers with an entry that was valid and
                        \* matched all this round, not returned by Next yet

store == <<entries, tags, tombstones, dialParams, affinity, filter>>
vars  == <<entries, tags, tombstones, dialParams, affinity, filter, egress,
           it, owed>>

\* The stored bytes of an entry: an altered record unmarshals but fails its
\* signature, a garbled one does not unmarshal.
Data == {"intact", "altered", "garbled"}

Entry == [tag : Tag, tagged : BOOLEAN, version : {0, 1}, region : Region,
          source : {"embedded", "remote"}, data : Data]

\* getServerEntryTagRecord: a record that an older client wrote has no
\* version and reads as version 0.
TagRecord == [id : ID \cup Tag, version : {0, 1}, versioned : BOOLEAN]

Unset == "unset"   \* no filter has been stored

\* No iterator; first, front and rest are the parts of serverEntryIDs that
\* are still ahead of serverEntryIndex.  Each part is shuffled by reset, so
\* its order is chosen as it is consumed.
NoIterator == [kind |-> "none", affine |-> FALSE, first |-> {}, front |-> {},
               rest |-> {}, pc |-> "idle", cur |-> NoID, matches |-> FALSE,
               cut |-> FALSE]

Ahead == it.first \cup it.front \cup it.rest

\* Type correctness; a closed iterator holds no server entry IDs (Close).
TypeOK ==
  /\ DOMAIN entries \subseteq ID /\ \A s \in DOMAIN entries : entries[s] \in Entry
  /\ DOMAIN tags \subseteq Tag /\ \A t \in DOMAIN tags : tags[t] \in TagRecord
  /\ tombstones \subseteq Tag
  /\ dialParams \subseteq ID \cup Tag
  /\ affinity \in ID \cup {NoID}
  /\ filter \in Egress \cup {Unset}
  /\ egress \in Egress
  /\ it.kind \in {"none", "establish", "prune"}
  /\ it.pc \in {"idle", "new", "delete", "tag", "end"}
  /\ it.cur \in ID \cup {NoID}
  /\ it.affine \in BOOLEAN /\ it.matches \in BOOLEAN /\ it.cut \in BOOLEAN
  /\ Ahead \subseteq ID
  /\ it.kind = "none" => it = NoIterator
  /\ owed \subseteq ID

------------------------------------------------------------------------------
(* Initially the store is one that an older client may have left: entries   *)
(* without a tag, or with a tag record without a version.                   *)

StoredAs(c) == [tag |-> c.tag, tagged |-> c.tagged, version |-> c.version,
                region |-> c.region, source |-> c.source, data |-> "intact"]

Init ==
  /\ \E old \in SUBSET {c \in Catalog : c.version = 0} :
       /\ \A c, d \in old : c.id = d.id => c = d
       /\ entries = [s \in {c.id : c \in old} |->
                       StoredAs(CHOOSE c \in old : c.id = s)]
       /\ tags = [t \in {c.tag : c \in {d \in old : d.tagged}} |->
                    [id |-> (CHOOSE c \in old : c.tag = t).id,
                     version |-> 0, versioned |-> FALSE]]
  /\ tombstones = {} /\ dialParams = {}
  /\ affinity = NoID /\ filter = Unset
  /\ egress \in Egress
  /\ it = NoIterator
  /\ owed = {}

Drop(f, S) == Restrict(f, DOMAIN f \ S)
Put(f, k, v) == [x \in DOMAIN f \cup {k} |-> IF x = k THEN v ELSE f[x]]

\* The filter of Next: none for the prune iterator, else the egress region.
Matches(e) == it.kind = "prune" \/ egress = NoRegion \/ e.region = egress

\* History: a server is owed until it is returned, while its entry is there,
\* valid and matching.
KeepOwed(returned) ==
  owed' = {s \in owed \ returned : /\ s \in DOMAIN entries'
                                   /\ entries'[s].data = "intact"
                                   /\ Matches(entries'[s])}

\* A transaction outside the iterator.
StoreStep == KeepOwed({}) /\ UNCHANGED <<egress, it>>

------------------------------------------------------------------------------
(* storeServerEntry.  Every source but the embedded list replaces an        *)
(* existing entry, and a record that does not unmarshal does not exist.     *)

Exists(s) == s \in DOMAIN entries /\ entries[s].data # "garbled"

Updates(c) == (Exists(c.id) /\ c.source = "embedded")
                => entries[c.id].version < c.version

Mutant_BuriedTagged(c) == c.tagged /\ c.source = "embedded" /\ c.tag \in tombstones

\* A tombstone holds an embedded entry off, whether its tag is given or derived.
Buried(c) == c.source = "embedded" /\ c.tag \in tombstones

\* setServerEntryTagRecord
VersionedRecord(id, version) ==
  [id |-> id, version |-> version, versioned |-> TRUE]

Mutant_StoreKeepsTagRecord(c, prioritize) ==
  /\ Updates(c) /\ ~ Buried(c)
  /\ entries' = Put(entries, c.id, [StoredAs(c) EXCEPT !.tagged = TRUE])
  /\ tags' = IF c.tag \in DOMAIN tags THEN tags
             ELSE Put(tags, c.tag, VersionedRecord(c.id, c.version))
  /\ dialParams' = dialParams \cup (IF prioritize THEN {c.id} ELSE {})
  /\ UNCHANGED <<tombstones, affinity, filter>>
  /\ StoreStep

\* StoreServerEntry, or DSLStoreServerEntry with prioritizeDial, which adds
\* the placeholder dial parameters in the same transaction.
StoreServerEntry(c, prioritize) ==
  /\ Updates(c) /\ ~ Buried(c)
  /\ entries' = Put(entries, c.id, [StoredAs(c) EXCEPT !.tagged = TRUE])
  /\ tags' = Put(tags, c.tag, VersionedRecord(c.id, c.version))
  /\ dialParams' = dialParams \cup (IF prioritize THEN {c.id} ELSE {})
  /\ UNCHANGED <<tombstones, affinity, filter>>
  /\ StoreStep

\* DSLHasServerEntry with prioritizeDial.  The key of the placeholder is the
\* ID that the tag record holds, which need not be the ID of an entry.
DSLHasServerEntry(t, version) ==
  /\ t \in DOMAIN tags /\ tags[t].version = version
  /\ dialParams' = dialParams \cup {tags[t].id}
  /\ UNCHANGED <<entries, tags, tombstones, affinity, filter>>
  /\ StoreStep

\* SetDialParameters, when a dial succeeds
SetDialParameters(s) ==
  /\ dialParams' = dialParams \cup {s}
  /\ UNCHANGED <<entries, tags, tombstones, affinity, filter>>
  /\ StoreStep

\* DeleteDialParameters
DeleteDialParameters(s) ==
  /\ dialParams' = dialParams \ {s}
  /\ UNCHANGED <<entries, tags, tombstones, affinity, filter>>
  /\ StoreStep

------------------------------------------------------------------------------
(* Affinity                                                                 *)

\* PromoteServerEntry: only an entry that exists is promoted, under the
\* filter of the current configuration.
PromoteServerEntry(s) ==
  /\ s \in DOMAIN entries
  /\ affinity' = s /\ filter' = egress
  /\ UNCHANGED <<entries, tags, tombstones, dialParams>>
  /\ StoreStep

\* DeleteServerEntryAffinity
DeleteServerEntryAffinity(s) ==
  /\ affinity = s
  /\ affinity' = NoID /\ filter' = Unset
  /\ UNCHANGED <<entries, tags, tombstones, dialParams>>
  /\ StoreStep

------------------------------------------------------------------------------
(* Deleting entries                                                         *)

\* deleteServerEntryHelper.  A dial parameters key is the address followed by
\* the network ID, and keys go by the prefix, so those of a server whose
\* address continues this one go as well.
DeleteServerEntryHelper(s) ==
  /\ entries' = Drop(entries, {s})
  /\ affinity' = IF affinity = s THEN NoID ELSE affinity
  /\ filter' = IF affinity = s THEN Unset ELSE filter
  /\ dialParams' = dialParams \ ({s} \cup {x \in ID : <<s, x>> \in Prefix})

\* deleteServerEntry.  The record must equal the ID, which holds only for a
\* record without a version: the others are left behind.
DeleteServerEntry(s) ==
  /\ DeleteServerEntryHelper(s)
  /\ tags' = Drop(tags, {t \in DOMAIN tags : ~ tags[t].versioned /\ tags[t].id = s})
  /\ UNCHANGED tombstones

\* pruneServerEntry, for a tag that the server reports as invalid.  The entry
\* goes only when the tag is still its own (the server may be recycled), and
\* a tombstone keeps an embedded entry from being imported again.
PruneServerEntry(t) ==
  /\ t \in DOMAIN tags
  /\ LET s == tags[t].id IN
     /\ Exists(s)
     /\ IF entries[s].tagged /\ entries[s].tag = t
        THEN DeleteServerEntryHelper(s)
        ELSE UNCHANGED <<entries, affinity, filter, dialParams>>
     /\ tags' = Drop(tags, {t})
     /\ tombstones' = tombstones \cup
                        (IF entries[s].source = "embedded" THEN {t} ELSE {})
  /\ StoreStep

\* The entry passes the checks of Next: it unmarshals, and its signature, with
\* ServerEntrySignaturePublicKey configured, is good.
Valid(s) == s \in DOMAIN entries /\ entries[s].data = "intact"

\* A fault: the record of an entry no longer verifies, or no longer unmarshals.
Corrupt(s, damage) ==
  /\ Valid(s)
  /\ Cardinality({x \in DOMAIN entries : ~ Valid(x)}) < MaxCorrupt
  /\ entries' = [entries EXCEPT ![s].data = damage]
  /\ UNCHANGED <<tags, tombstones, dialParams, affinity, filter>>
  /\ StoreStep

------------------------------------------------------------------------------
(* The iterator                                                             *)

\* NewServerEntryIterator: affinity applies when hasServerEntryFilterChanged
\* says no; that is a transaction of its own, and reset follows.
NewServerEntryIterator ==
  /\ it.kind = "none"
  /\ it' = [NoIterator EXCEPT !.kind = "establish", !.pc = "new",
                              !.affine = (filter = egress)]
  /\ owed' = {}
  /\ UNCHANGED <<store, egress>>

\* NewPruneServerEntryIterator
NewPruneServerEntryIterator ==
  /\ it.kind = "none"
  /\ it' = [NoIterator EXCEPT !.kind = "prune", !.pc = "new"]
  /\ owed' = {}
  /\ UNCHANGED <<store, egress>>

\* The servers that may be moved to the front: those with dial parameters.
Candidates(first) == (dialParams \cap DOMAIN entries) \ first

\* A random choice of at most ServerEntryIteratorMaxMoveToFront candidates.
FrontChoices(first) ==
  LET cand == Candidates(first)
      n == IF Cardinality(cand) < MaxMoveToFront THEN Cardinality(cand)
           ELSE MaxMoveToFront
  IN {S \in SUBSET cand : Cardinality(S) = n}

Mutant_RestLessCandidates(first, front) == DOMAIN entries \ (first \cup Candidates(first))

\* The entries that are neither first nor moved to the front.
Rest(first, front) == DOMAIN entries \ (first \cup front)

\* reset: the affinity server first, in the initial round; then candidates
\* for replay, in the initial round or, later, by a coin; then the rest.
\* Nothing reads applyServerAffinity after the initial round.
Reset ==
  /\ it.pc \in {"new", "end"} /\ (it.pc = "end" => it.kind = "establish")
  /\ LET initial == it.pc = "new"
         first == IF it.kind = "establish" /\ initial /\ it.affine /\ affinity # NoID
                  THEN {affinity} ELSE {}
     IN \E front \in FrontChoices(first) \cup (IF initial THEN {} ELSE {{}}) :
          LET moved == IF it.kind = "prune" THEN {} ELSE front
          IN it' = [it EXCEPT !.first = first, !.front = moved,
                              !.rest = Rest(first, moved), !.affine = FALSE,
                              !.pc = "idle", !.cut = FALSE]
  /\ owed' = {s \in DOMAIN entries : Valid(s) /\ Matches(entries[s])}
  /\ UNCHANGED <<store, egress>>

\* The server at serverEntryIndex.
IsNext(s) == s \in IF it.first # {} THEN it.first
                   ELSE IF it.front # {} THEN it.front ELSE it.rest

\* serverEntryIndex += 1
Advance(s) == [it EXCEPT !.first = @ \ {s}, !.front = @ \ {s}, !.rest = @ \ {s}]

\* Next, up to the end of its view transaction.
NextView(s) ==
  /\ it.kind # "none" /\ it.pc = "idle" /\ IsNext(s)
  /\ UNCHANGED <<store, egress>>

\* The entry is gone: the loop goes on.
NextMissing(s) ==
  /\ NextView(s)
  /\ s \notin DOMAIN entries
  /\ it' = Advance(s)
  /\ UNCHANGED owed

\* The entry is corrupt: it is to be deleted.
NextCorrupt(s) ==
  /\ NextView(s)
  /\ s \in DOMAIN entries /\ ~ Valid(s)
  /\ it' = [Advance(s) EXCEPT !.pc = "delete", !.cur = s]
  /\ UNCHANGED owed

\* The entry has no tag: it is to be given one.
NextUntagged(s) ==
  /\ NextView(s)
  /\ Valid(s) /\ ~ entries[s].tagged
  /\ it' = [Advance(s) EXCEPT !.pc = "tag", !.cur = s,
                              !.matches = Matches(entries[s])]
  /\ UNCHANGED owed

\* The entry is returned if it matches, or the loop goes on.
NextReturn(s) ==
  /\ NextView(s)
  /\ Valid(s) /\ entries[s].tagged
  /\ it' = Advance(s)
  /\ owed' = owed \ (IF Matches(entries[s]) THEN {s} ELSE {})

\* The deletion of a corrupt entry; the loop goes on.
NextDelete ==
  /\ it.pc = "delete"
  /\ DeleteServerEntry(it.cur)
  /\ it' = [it EXCEPT !.pc = "idle", !.cur = NoID]
  /\ KeepOwed({})
  /\ UNCHANGED egress

\* The deletion fails: the entry stays, and the loop goes on all the same.
NextDeleteFails ==
  /\ it.pc = "delete"
  /\ it' = [it EXCEPT !.pc = "idle", !.cur = NoID]
  /\ UNCHANGED <<store, egress, owed>>

\* The end of an iteration of Next that went through the tag transaction.
Tagged(close) ==
  /\ it' = [it EXCEPT !.pc = "idle", !.cur = NoID, !.matches = FALSE,
                      !.first = IF close THEN {} ELSE @,
                      !.front = IF close THEN {} ELSE @,
                      !.rest = IF close THEN {} ELSE @,
                      !.cut = @ \/ close]
  /\ KeepOwed(IF it.matches THEN {it.cur} ELSE {})
  /\ UNCHANGED egress

\* The entry is read again and given its derived tag, unless it is gone or
\* tagged by now.  The record holds the tag where the ID is expected.
NextTag ==
  /\ it.pc = "tag"
  /\ it.cur \in DOMAIN entries => Exists(it.cur)
  /\ IF it.cur \in DOMAIN entries /\ ~ entries[it.cur].tagged
     THEN /\ entries' = [entries EXCEPT ![it.cur].tagged = TRUE]
          /\ LET e == entries[it.cur] IN
             tags' = Put(tags, e.tag, VersionedRecord(e.tag, e.version))
     ELSE UNCHANGED <<entries, tags>>
  /\ UNCHANGED <<tombstones, dialParams, affinity, filter>>
  /\ Tagged(FALSE)

\* The tag transaction fails, as it does on a garbled record.  The entry is
\* returned all the same, but then the error that is still in err closes the
\* iterator.
NextTagFails ==
  /\ it.pc = "tag"
  /\ UNCHANGED store
  /\ Tagged(it.matches)

\* There is no next item.
NextEnd ==
  /\ it.kind # "none" /\ it.pc = "idle" /\ Ahead = {}
  /\ it' = [it EXCEPT !.pc = "end"]
  /\ UNCHANGED <<store, egress, owed>>

\* Close
Close ==
  /\ it.pc \in {"idle", "end"} /\ it.kind # "none"
  /\ it' = NoIterator
  /\ owed' = {}
  /\ UNCHANGED <<store, egress>>

\* The client stops at any point and starts with another configuration; the
\* transactions it committed stay.
Restart(region) ==
  /\ egress' = region
  /\ it' = NoIterator
  /\ owed' = {}
  /\ UNCHANGED store

Next ==
  \/ \E c \in Catalog : \E prioritize \in (IF c.source = "embedded" THEN {FALSE} ELSE BOOLEAN) :
       StoreServerEntry(c, prioritize)
  \/ \E t \in Tag : PruneServerEntry(t) \/ \E v \in {0, 1} : DSLHasServerEntry(t, v)
  \/ \E s \in ID : \/ SetDialParameters(s) \/ DeleteDialParameters(s)
                   \/ PromoteServerEntry(s) \/ DeleteServerEntryAffinity(s)
                   \/ \E damage \in Data \ {"intact"} : Corrupt(s, damage)
                   \/ NextMissing(s) \/ NextCorrupt(s)
                   \/ NextUntagged(s) \/ NextReturn(s)
  \/ NewServerEntryIterator \/ NewPruneServerEntryIterator \/ Reset
  \/ NextDelete \/ NextDeleteFails \/ NextTag \/ NextTagFails \/ NextEnd \/ Close
  \/ \E r \in Egress : Restart(r)

Spec == Init /\ [][Next]_vars

------------------------------------------------------------------------------
(* Properties                                                               *)

\* No embedded entry has a tag that a prune buried: not by importing it again
\* with or without its tag, not in a record that was recycled in between, and
\* not by the iterator tagging it later.
PrunedStaysPruned ==
  \A s \in DOMAIN entries :
    entries[s].source = "embedded" => entries[s].tag \notin tombstones

\* The tag of an entry has a record with the version of that entry, which is
\* what DSLHasServerEntry answers from without reading the entry.  The record
\* leads to the entry, but for one that the iterator wrote, which holds the
\* tag in place of the ID.
TagRecordsCurrent ==
  \A s \in DOMAIN entries : entries[s].tagged =>
    LET e == entries[s] IN
      /\ e.tag \in DOMAIN tags
      /\ tags[e.tag].version = e.version
      /\ tags[e.tag].id \in {s, e.tag}

\* A round that runs to its end has returned every server whose entry was
\* valid and matched the filter all along, whatever was stored, pruned or
\* corrupted meanwhile, unless a failing tag update closed the iterator.
RoundComplete ==
  it.pc = "end" /\ ~ it.cut => owed = {}

==============================================================================
