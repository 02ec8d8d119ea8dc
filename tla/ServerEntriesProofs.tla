------------------------- MODULE ServerEntriesProofs -------------------------
(***************************************************************************)
(* Theorems about ServerEntries, for any catalog of entries in which a tag *)
(* names one server, and for any address prefixes, regions and limits.     *)
(***************************************************************************)
EXTENDS ServerEntries, TLAPS

Iterator == [kind : {"none", "establish", "prune"}, affine : BOOLEAN,
             first : SUBSET ID, front : SUBSET ID, rest : SUBSET ID,
             pc : {"idle", "new", "delete", "tag", "end"}, cur : ID \cup {NoID},
             matches : BOOLEAN, cut : BOOLEAN]

StoreTypes ==
  /\ entries \in [DOMAIN entries -> Entry] /\ DOMAIN entries \subseteq ID
  /\ tags \in [DOMAIN tags -> TagRecord] /\ DOMAIN tags \subseteq Tag
  /\ tombstones \subseteq Tag
  /\ dialParams \subseteq ID \cup Tag
  /\ affinity \in ID \cup {NoID}
  /\ filter \in Egress \cup {Unset}

\* A transaction that follows a view is about a server.
RoundTypes ==
  /\ egress \in Egress
  /\ it \in Iterator
  /\ it.kind = "none" => it = NoIterator
  /\ it.pc \in {"delete", "tag"} => it.cur \in ID
  /\ owed \subseteq ID

Types == StoreTypes /\ RoundTypes

\* The tag of an entry is one that the catalog has for its server.
FromCatalog ==
  \A s \in DOMAIN entries : \E c \in Catalog : c.id = s /\ c.tag = entries[s].tag

\* The derived tag of an entry that has none yet has no record.
UntaggedUnrecorded ==
  \A s \in DOMAIN entries : ~ entries[s].tagged => entries[s].tag \notin DOMAIN tags

\* While a round is on, every server that is owed is still ahead, or the one
\* that the iterator is giving a tag before it returns it.
RoundCovers ==
  /\ ~ it.cut => owed \subseteq Ahead
                     \cup (IF it.pc = "tag" /\ it.matches THEN {it.cur} ELSE {})
  /\ it.pc = "end" => Ahead = {}

\* A server that is owed is one that Next would return now.
OwedNow ==
  \A s \in owed : s \in DOMAIN entries /\ entries[s].data = "intact" /\ Matches(entries[s])

EntriesInv ==
  /\ Types
  /\ FromCatalog
  /\ UntaggedUnrecorded
  /\ TagRecordsCurrent
  /\ PrunedStaysPruned
  /\ RoundCovers
  /\ OwedNow

------------------------------------------------------------------------------
(* Lemmas about the operators                                               *)

\* The type of a bucket after a put.
LEMMA PutType ==
  ASSUME NEW f, NEW k, NEW v, NEW S, \A x \in DOMAIN f : f[x] \in S, v \in S
  PROVE  Put(f, k, v) \in [DOMAIN f \cup {k} -> S]
BY DEF Put

\* What a delete leaves in a bucket.
LEMMA DropFacts ==
  ASSUME NEW f, NEW T
  PROVE  /\ DOMAIN Drop(f, T) = DOMAIN f \ T
         /\ \A x \in DOMAIN f \ T : Drop(f, T)[x] = f[x]
BY DEF Drop, Restrict

\* The type of a bucket after a delete.
LEMMA DropType ==
  ASSUME NEW f, NEW T, NEW S, \A x \in DOMAIN f : f[x] \in S
  PROVE  Drop(f, T) \in [DOMAIN f \ T -> S]
BY DEF Drop, Restrict

\* A tag is the tag of one entry at most.
LEMMA TagOfOne ==
  ASSUME FromCatalog, NEW s \in DOMAIN entries, NEW c \in Catalog, c.tag = entries[s].tag
  PROVE  c.id = s
BY CatalogAssumption DEF FromCatalog

\* A tag belongs to one server entry.
LEMMA OneOfTag ==
  ASSUME FromCatalog, NEW s \in DOMAIN entries, NEW u \in DOMAIN entries,
         entries[s].tag = entries[u].tag
  PROVE  s = u
<1>1. PICK c \in Catalog : c.id = u /\ c.tag = entries[u].tag
  BY DEF FromCatalog
<1> QED
  BY <1>1, TagOfOne

\* What is stored of a server entry.
LEMMA CatalogFields ==
  ASSUME NEW c \in Catalog
  PROVE  /\ c.id \in ID /\ c.tag \in Tag /\ c.version \in {0, 1}
         /\ c.source \in {"embedded", "remote"}
         /\ [StoredAs(c) EXCEPT !.tagged = TRUE] \in Entry
         /\ [StoredAs(c) EXCEPT !.tagged = TRUE].tagged = TRUE
         /\ [StoredAs(c) EXCEPT !.tagged = TRUE].tag = c.tag
         /\ [StoredAs(c) EXCEPT !.tagged = TRUE].version = c.version
         /\ [StoredAs(c) EXCEPT !.tagged = TRUE].source = c.source
         /\ StoredAs(c) \in Entry
         /\ StoredAs(c).tagged = c.tagged /\ StoredAs(c).tag = c.tag
         /\ StoredAs(c).version = c.version
<1>1. c \in CatalogEntry
  BY CatalogAssumption
<1>2. /\ c.id \in ID /\ c.tag \in Tag /\ c.tagged \in BOOLEAN /\ c.version \in {0, 1}
      /\ c.region \in Region /\ c.source \in {"embedded", "remote"}
  BY <1>1 DEF CatalogEntry
<1> QED
  BY <1>2 DEF StoredAs, Entry, Data

\* What the entries and the tags are, field by field.
LEMMA EntryFields ==
  ASSUME Types
  PROVE  /\ \A s \in DOMAIN entries :
              /\ s \in ID /\ entries[s] \in Entry /\ entries[s].tag \in Tag
              /\ entries[s].tagged \in BOOLEAN /\ entries[s].version \in {0, 1}
              /\ entries[s].data \in Data
         /\ \A t \in DOMAIN tags :
              /\ t \in Tag /\ tags[t] \in TagRecord /\ tags[t].id \in ID \cup Tag
BY DEF Types, StoreTypes, Entry, TagRecord

------------------------------------------------------------------------------
(* The store                                                                *)

\* The part of the invariant that the transactions keep.
StoreInv == FromCatalog /\ UntaggedUnrecorded /\ TagRecordsCurrent /\ PrunedStaysPruned

\* Nothing of the store's entries, tags and tombstones changes.
LEMMA SameStore ==
  ASSUME StoreInv, UNCHANGED <<entries, tags, tombstones>>
  PROVE  StoreInv'
BY DEF StoreInv, FromCatalog, UntaggedUnrecorded, TagRecordsCurrent, PrunedStaysPruned

\* storeServerEntry
LEMMA StoreEntry ==
  ASSUME Types, StoreInv, NEW c \in Catalog, ~ Buried(c),
         entries' = Put(entries, c.id, [StoredAs(c) EXCEPT !.tagged = TRUE]),
         tags' = Put(tags, c.tag, VersionedRecord(c.id, c.version)),
         UNCHANGED tombstones
  PROVE  /\ entries' \in [DOMAIN entries' -> Entry] /\ DOMAIN entries' \subseteq ID
         /\ tags' \in [DOMAIN tags' -> TagRecord] /\ DOMAIN tags' \subseteq Tag
         /\ StoreInv'
<1> DEFINE e == [StoredAs(c) EXCEPT !.tagged = TRUE]
           r == VersionedRecord(c.id, c.version)
<1>1. /\ c.id \in ID /\ c.tag \in Tag /\ c.version \in {0, 1}
      /\ e \in Entry /\ e.tagged = TRUE /\ e.tag = c.tag /\ e.version = c.version
      /\ e.source = c.source
  BY CatalogFields
<1>2. r \in TagRecord /\ r.id = c.id /\ r.version = c.version
  BY <1>1 DEF VersionedRecord, TagRecord
<1>0. entries' = Put(entries, c.id, e) /\ tags' = Put(tags, c.tag, r)
  OBVIOUS
<1> HIDE DEF e, r
<1>3. /\ DOMAIN entries' = DOMAIN entries \cup {c.id} /\ entries'[c.id] = e
      /\ \A s \in DOMAIN entries : s # c.id => entries'[s] = entries[s]
  BY ONLY <1>0 DEF Put
<1>4. /\ DOMAIN tags' = DOMAIN tags \cup {c.tag} /\ tags'[c.tag] = r
      /\ \A t \in DOMAIN tags : t # c.tag => tags'[t] = tags[t]
  BY ONLY <1>0 DEF Put
<1>5. entries' \in [DOMAIN entries' -> Entry] /\ DOMAIN entries' \subseteq ID
  <2>1. \A s \in DOMAIN entries : entries[s] \in Entry /\ s \in ID
    BY EntryFields
  <2>2. entries' \in [DOMAIN entries \cup {c.id} -> Entry]
    BY ONLY <1>0, <1>1, <2>1, PutType
  <2> QED
    BY ONLY <1>1, <1>3, <2>1, <2>2
<1>6. tags' \in [DOMAIN tags' -> TagRecord] /\ DOMAIN tags' \subseteq Tag
  <2>1. \A t \in DOMAIN tags : tags[t] \in TagRecord /\ t \in Tag
    BY EntryFields
  <2>2. tags' \in [DOMAIN tags \cup {c.tag} -> TagRecord]
    BY ONLY <1>0, <1>2, <2>1, PutType
  <2> QED
    BY ONLY <1>1, <1>4, <2>1, <2>2
<1>7. \A s \in DOMAIN entries : s # c.id => entries[s].tag # c.tag
  BY TagOfOne DEF StoreInv
<1>8. FromCatalog'
  <2>1. FromCatalog
    BY DEF StoreInv
  <2> SUFFICES ASSUME NEW s \in DOMAIN entries'
               PROVE  \E d \in Catalog : d.id = s /\ d.tag = entries'[s].tag
    BY DEF FromCatalog
  <2>2. CASE s = c.id
    BY ONLY <1>1, <1>3, <2>2, c \in Catalog
  <2>3. CASE s # c.id
    BY ONLY <1>3, <2>1, <2>3, s \in DOMAIN entries' DEF FromCatalog
  <2> QED
    BY <2>2, <2>3
<1>9. UntaggedUnrecorded'
  BY <1>1, <1>3, <1>4, <1>7 DEF StoreInv, UntaggedUnrecorded
<1>10. TagRecordsCurrent'
  <2> SUFFICES ASSUME NEW s \in DOMAIN entries', entries'[s].tagged
               PROVE  /\ entries'[s].tag \in DOMAIN tags'
                      /\ tags'[entries'[s].tag].version = entries'[s].version
                      /\ tags'[entries'[s].tag].id \in {s, entries'[s].tag}
    BY DEF TagRecordsCurrent
  <2>1. CASE s = c.id
    BY ONLY <1>1, <1>2, <1>3, <1>4, <2>1
  <2>2. CASE s # c.id
    <3>1. TagRecordsCurrent
      BY DEF StoreInv
    <3>2. s \in DOMAIN entries /\ entries'[s] = entries[s] /\ entries[s].tag # c.tag
      BY <1>3, <1>7, <2>2
    <3> QED
      BY ONLY <1>4, <3>1, <3>2, entries'[s].tagged DEF TagRecordsCurrent
  <2> QED
    BY <2>1, <2>2
<1>11. PrunedStaysPruned'
  BY <1>1, <1>3 DEF StoreInv, PrunedStaysPruned, Buried
<1> QED
  BY <1>5, <1>6, <1>8, <1>9, <1>10, <1>11 DEF StoreInv

\* deleteServerEntry: the tags that go with the entry are of no other entry.
LEMMA DeleteEntry ==
  ASSUME Types, StoreInv, NEW s \in ID \cup {NoID}, DeleteServerEntry(s)
  PROVE  /\ entries' \in [DOMAIN entries' -> Entry] /\ DOMAIN entries' \subseteq ID
         /\ tags' \in [DOMAIN tags' -> TagRecord] /\ DOMAIN tags' \subseteq Tag
         /\ StoreInv'
<1> DEFINE T == {t \in DOMAIN tags : ~ tags[t].versioned /\ tags[t].id = s}
<1>1. /\ entries' = Drop(entries, {s}) /\ tags' = Drop(tags, T)
      /\ UNCHANGED tombstones
  BY DEF DeleteServerEntry, DeleteServerEntryHelper
<1>2. /\ DOMAIN entries' = DOMAIN entries \ {s}
      /\ \A u \in DOMAIN entries \ {s} : entries'[u] = entries[u]
  BY <1>1, DropFacts
<1>3. /\ DOMAIN tags' = DOMAIN tags \ T
      /\ \A t \in DOMAIN tags \ T : tags'[t] = tags[t]
  BY <1>1, DropFacts
<1>4. entries' \in [DOMAIN entries' -> Entry] /\ DOMAIN entries' \subseteq ID
  <2>1. \A u \in DOMAIN entries : entries[u] \in Entry /\ u \in ID
    BY EntryFields
  <2> QED
    BY ONLY <1>1, <1>2, <2>1, DropType
<1>5. tags' \in [DOMAIN tags' -> TagRecord] /\ DOMAIN tags' \subseteq Tag
  <2>1. \A t \in DOMAIN tags : tags[t] \in TagRecord /\ t \in Tag
    BY EntryFields
  <2> QED
    BY ONLY <1>1, <1>3, <2>1, DropType
<1>6. FromCatalog' /\ UntaggedUnrecorded' /\ PrunedStaysPruned'
  <2>1. FromCatalog'
    BY <1>2 DEF StoreInv, FromCatalog
  <2>2. UntaggedUnrecorded'
    BY <1>2, <1>3 DEF StoreInv, UntaggedUnrecorded
  <2>3. PrunedStaysPruned'
    BY <1>1, <1>2 DEF StoreInv, PrunedStaysPruned
  <2> QED
    BY <2>1, <2>2, <2>3
<1>7. TagRecordsCurrent'
  <2> SUFFICES ASSUME NEW u \in DOMAIN entries, u # s, entries[u].tagged
               PROVE  entries[u].tag \notin T
    BY <1>2, <1>3 DEF StoreInv, TagRecordsCurrent
  <2>1. entries[u].tag \in Tag /\ entries[u].tag # s
    BY EntryFields, CatalogAssumption
  <2>2. tags[entries[u].tag].id \in {u, entries[u].tag}
    BY DEF StoreInv, TagRecordsCurrent
  <2> QED
    BY <2>1, <2>2
<1> QED
  BY <1>4, <1>5, <1>6, <1>7 DEF StoreInv

\* pruneServerEntry: a buried tag is of no embedded entry that stays.
LEMMA PruneEntry ==
  ASSUME Types, StoreInv, NEW t, PruneServerEntry(t)
  PROVE  /\ entries' \in [DOMAIN entries' -> Entry] /\ DOMAIN entries' \subseteq ID
         /\ tags' \in [DOMAIN tags' -> TagRecord] /\ DOMAIN tags' \subseteq Tag
         /\ tombstones' \subseteq Tag
         /\ StoreInv'
<1> DEFINE s == tags[t].id
<1>1. /\ t \in DOMAIN tags /\ s \in DOMAIN entries
      /\ tags' = Drop(tags, {t})
      /\ tombstones' = tombstones \/ tombstones' = tombstones \cup {t}
      /\ IF entries[s].tagged /\ entries[s].tag = t
         THEN entries' = Drop(entries, {s}) ELSE UNCHANGED entries
  BY DEF PruneServerEntry, Exists, DeleteServerEntryHelper
<1>2. s \in ID /\ t \in Tag /\ s # t
  BY <1>1, EntryFields, CatalogAssumption
<1> HIDE DEF s
<1>3. /\ DOMAIN tags' = DOMAIN tags \ {t}
      /\ \A x \in DOMAIN tags \ {t} : tags'[x] = tags[x]
  BY <1>1, DropFacts
<1>4. /\ DOMAIN entries' \subseteq DOMAIN entries
      /\ \A u \in DOMAIN entries' : entries'[u] = entries[u]
      /\ \A u \in DOMAIN entries' : ~ (u = s /\ entries[s].tagged /\ entries[s].tag = t)
      /\ entries' \in [DOMAIN entries' -> Entry]
  <2>0. \A u \in DOMAIN entries : entries[u] \in Entry
    BY EntryFields
  <2>1. CASE entries[s].tagged /\ entries[s].tag = t
    <3>1. entries' = Drop(entries, {s})
      BY <1>1, <2>1
    <3>2. /\ DOMAIN entries' = DOMAIN entries \ {s}
          /\ \A u \in DOMAIN entries \ {s} : entries'[u] = entries[u]
      BY ONLY <3>1, DropFacts
    <3>3. entries' \in [DOMAIN entries \ {s} -> Entry]
      BY ONLY <3>1, <2>0, DropType
    <3> QED
      BY ONLY <3>2, <3>3
  <2>2. CASE ~ (entries[s].tagged /\ entries[s].tag = t)
    <3>1. entries' = entries
      BY <1>1, <2>2
    <3> QED
      BY <2>2, <3>1 DEF Types, StoreTypes
  <2> QED
    BY <2>1, <2>2
<1>5. entries' \in [DOMAIN entries' -> Entry] /\ DOMAIN entries' \subseteq ID
  BY <1>4, EntryFields
<1>6. tags' \in [DOMAIN tags' -> TagRecord] /\ DOMAIN tags' \subseteq Tag
  <2>1. \A x \in DOMAIN tags : tags[x] \in TagRecord /\ x \in Tag
    BY EntryFields
  <2> QED
    BY ONLY <1>1, <1>3, <2>1, DropType
<1>7. tombstones' \subseteq Tag
  BY <1>1, <1>2 DEF Types, StoreTypes
<1>8. \A u \in DOMAIN entries' : entries[u].tag # t
  <2> SUFFICES ASSUME NEW u \in DOMAIN entries', entries[u].tag = t
               PROVE  FALSE
    OBVIOUS
  <2>1. u \in DOMAIN entries /\ entries[u].tagged
    BY <1>1, <1>4, EntryFields DEF StoreInv, UntaggedUnrecorded
  <2>2. s \in {u, t}
    BY <2>1 DEF StoreInv, TagRecordsCurrent, s
  <2> QED
    BY <1>2, <1>4, <2>1, <2>2
<1>9. FromCatalog' /\ UntaggedUnrecorded'
  BY <1>3, <1>4 DEF StoreInv, FromCatalog, UntaggedUnrecorded
<1>10. TagRecordsCurrent'
  BY <1>3, <1>4, <1>8 DEF StoreInv, TagRecordsCurrent
<1>11. PrunedStaysPruned'
  BY <1>1, <1>4, <1>8 DEF StoreInv, PrunedStaysPruned
<1> QED
  BY <1>5, <1>6, <1>7, <1>9, <1>10, <1>11 DEF StoreInv

\* A fault changes nothing but the data field of an entry.
LEMMA CorruptEntry ==
  ASSUME Types, StoreInv, NEW s \in DOMAIN entries, NEW damage \in Data,
         entries' = [entries EXCEPT ![s].data = damage], UNCHANGED <<tags, tombstones>>
  PROVE  /\ entries' \in [DOMAIN entries' -> Entry] /\ DOMAIN entries' \subseteq ID
         /\ StoreInv'
<1> DEFINE e == [entries[s] EXCEPT !.data = damage]
<1>1. entries[s] \in Entry
  BY EntryFields
<1>2. /\ e \in Entry /\ e.tag = entries[s].tag /\ e.tagged = entries[s].tagged
      /\ e.version = entries[s].version /\ e.source = entries[s].source
  BY <1>1 DEF Entry
<1>3. /\ DOMAIN entries' = DOMAIN entries
      /\ \A u \in DOMAIN entries : entries'[u] = IF u = s THEN e ELSE entries[u]
  BY DEF Types, StoreTypes
<1> HIDE DEF e
<1>4. entries' \in [DOMAIN entries' -> Entry] /\ DOMAIN entries' \subseteq ID
  <2>1. entries' \in [DOMAIN entries -> Entry]
    BY <1>2 DEF Types, StoreTypes, e
  <2> QED
    BY <1>3, <2>1 DEF Types, StoreTypes
<1>5. \A u \in DOMAIN entries :
        /\ entries'[u].tag = entries[u].tag /\ entries'[u].tagged = entries[u].tagged
        /\ entries'[u].version = entries[u].version /\ entries'[u].source = entries[u].source
  BY <1>2, <1>3
<1>6. FromCatalog' /\ UntaggedUnrecorded' /\ PrunedStaysPruned'
  BY <1>3, <1>5 DEF StoreInv, FromCatalog, UntaggedUnrecorded, PrunedStaysPruned
<1>7. TagRecordsCurrent'
  BY <1>3, <1>5 DEF StoreInv, TagRecordsCurrent
<1> QED
  BY <1>4, <1>6, <1>7 DEF StoreInv

\* A server entry that gets its tag.
LEMMA TagEntry ==
  ASSUME Types, StoreInv, NEW s \in DOMAIN entries,
         entries' = [entries EXCEPT ![s].tagged = TRUE],
         tags' = Put(tags, entries[s].tag, VersionedRecord(entries[s].tag, entries[s].version)),
         UNCHANGED tombstones
  PROVE  /\ entries' \in [DOMAIN entries' -> Entry] /\ DOMAIN entries' \subseteq ID
         /\ tags' \in [DOMAIN tags' -> TagRecord] /\ DOMAIN tags' \subseteq Tag
         /\ StoreInv'
<1> DEFINE e == [entries[s] EXCEPT !.tagged = TRUE]
           t == entries[s].tag
           r == VersionedRecord(t, entries[s].version)
<1>1. entries[s] \in Entry /\ t \in Tag /\ entries[s].version \in {0, 1}
  BY EntryFields
<1>2. /\ e \in Entry /\ e.tag = t /\ e.tagged = TRUE
      /\ e.version = entries[s].version /\ e.source = entries[s].source
  BY <1>1 DEF Entry
<1>3. r \in TagRecord /\ r.id = t /\ r.version = entries[s].version
  BY <1>1 DEF VersionedRecord, TagRecord
<1>4. /\ DOMAIN entries' = DOMAIN entries
      /\ \A u \in DOMAIN entries : entries'[u] = IF u = s THEN e ELSE entries[u]
  BY DEF Types, StoreTypes
<1>0. tags' = Put(tags, t, r)
  OBVIOUS
<1> HIDE DEF e, t, r
<1>5. /\ DOMAIN tags' = DOMAIN tags \cup {t} /\ tags'[t] = r
      /\ \A x \in DOMAIN tags : x # t => tags'[x] = tags[x]
  BY ONLY <1>0 DEF Put
<1>6. entries' \in [DOMAIN entries' -> Entry] /\ DOMAIN entries' \subseteq ID
  <2>1. entries' \in [DOMAIN entries -> Entry]
    BY <1>2 DEF Types, StoreTypes, e
  <2> QED
    BY <1>4, <2>1 DEF Types, StoreTypes
<1>7. tags' \in [DOMAIN tags' -> TagRecord] /\ DOMAIN tags' \subseteq Tag
  <2>1. \A x \in DOMAIN tags : tags[x] \in TagRecord /\ x \in Tag
    BY EntryFields
  <2>2. tags' \in [DOMAIN tags \cup {t} -> TagRecord]
    BY ONLY <1>0, <1>3, <2>1, PutType
  <2> QED
    BY ONLY <1>1, <1>5, <2>1, <2>2
<1>8. \A u \in DOMAIN entries : u # s => entries[u].tag # t
  BY OneOfTag DEF StoreInv, t
<1>9. FromCatalog' /\ PrunedStaysPruned'
  BY <1>2, <1>4 DEF StoreInv, FromCatalog, PrunedStaysPruned, t
<1>10. UntaggedUnrecorded'
  BY <1>2, <1>4, <1>5, <1>8 DEF StoreInv, UntaggedUnrecorded
<1>11. TagRecordsCurrent'
  <2> SUFFICES ASSUME NEW u \in DOMAIN entries, entries'[u].tagged
               PROVE  /\ entries'[u].tag \in DOMAIN tags'
                      /\ tags'[entries'[u].tag].version = entries'[u].version
                      /\ tags'[entries'[u].tag].id \in {u, entries'[u].tag}
    BY <1>4 DEF TagRecordsCurrent
  <2>1. CASE u = s
    BY <1>2, <1>3, <1>4, <1>5, <2>1
  <2>2. CASE u # s
    BY <1>4, <1>5, <1>8, <2>2 DEF StoreInv, TagRecordsCurrent
  <2> QED
    BY <2>1, <2>2
<1> QED
  BY <1>6, <1>7, <1>9, <1>10, <1>11 DEF StoreInv

------------------------------------------------------------------------------
(* The round of the iterator                                                *)

RoundInv == RoundTypes /\ RoundCovers /\ OwedNow

\* The fields of the iterator are typed.
LEMMA IteratorFields ==
  ASSUME RoundTypes
  PROVE  /\ it.kind \in {"none", "establish", "prune"} /\ it.affine \in BOOLEAN
         /\ it.first \subseteq ID /\ it.front \subseteq ID /\ it.rest \subseteq ID
         /\ it.pc \in {"idle", "new", "delete", "tag", "end"}
         /\ it.cur \in ID \cup {NoID} /\ it.matches \in BOOLEAN /\ it.cut \in BOOLEAN
         /\ it.pc \in {"delete", "tag"} => it.cur \in ID
BY DEF RoundTypes, Iterator

\* An iterator that is not there has nothing ahead, and its round is not on.
LEMMA NoRound ==
  ASSUME it' = NoIterator, egress' \in Egress, owed' = {}
  PROVE  RoundInv'
<1>1. NoIterator \in Iterator
  BY DEF NoIterator, Iterator
<1>2. it'.pc = "idle"
  BY DEF NoIterator
<1>3. RoundTypes'
  BY <1>1, <1>2 DEF RoundTypes
<1>4. RoundCovers' /\ OwedNow'
  BY <1>2 DEF RoundCovers, OwedNow
<1> QED
  BY <1>3, <1>4 DEF RoundInv

\* What KeepOwed leaves was owed, was not returned, and would be returned now.
LEMMA OwedKept ==
  ASSUME NEW S, KeepOwed(S), it'.kind = it.kind, egress' = egress
  PROVE  owed' \subseteq owed \ S /\ OwedNow'
<1>1. owed' \subseteq owed \ S
  BY DEF KeepOwed
<1>2. \A s \in owed' : s \in DOMAIN entries' /\ entries'[s].data = "intact" /\ Matches(entries'[s])
  BY DEF KeepOwed
<1>3. OwedNow'
  BY <1>2 DEF OwedNow, Matches
<1> QED
  BY <1>1, <1>3

\* What changes the datastore behind the iterator leaves its round right.
LEMMA StoreStepRound ==
  ASSUME RoundInv, StoreStep
  PROVE  RoundInv'
<1>1. it' = it /\ egress' = egress /\ KeepOwed({})
  BY DEF StoreStep
<1>2. owed' \subseteq owed /\ OwedNow'
  BY <1>1, OwedKept
<1>3. RoundTypes'
  BY <1>1, <1>2 DEF RoundInv, RoundTypes
<1>4. RoundCovers'
  BY <1>1, <1>2 DEF RoundInv, RoundCovers, Ahead
<1> QED
  BY <1>2, <1>3, <1>4 DEF RoundInv

\* The iterator moves past one ID.
LEMMA AdvanceFacts ==
  ASSUME RoundTypes, NEW s
  PROVE  /\ Advance(s) \in Iterator
         /\ Advance(s).kind = it.kind /\ Advance(s).pc = it.pc
         /\ Advance(s).cut = it.cut
         /\ Advance(s).first \cup Advance(s).front \cup Advance(s).rest = Ahead \ {s}
BY DEF RoundTypes, Iterator, Advance, Ahead

\* The view of a server that is then returned, passed by, or handed to the
\* transaction that follows.
LEMMA ViewRound ==
  ASSUME RoundInv, NEW s \in ID, NextView(s), it' \in Iterator,
         it'.kind = it.kind, it'.cut = it.cut, Ahead' = Ahead \ {s},
         it'.pc \in {"idle", "delete", "tag"},
         it'.pc \in {"delete", "tag"} => it'.cur = s,
         owed' \subseteq owed, s \in owed' => it'.pc = "tag" /\ it'.matches
  PROVE  RoundInv'
<1>1. /\ egress' = egress /\ entries' = entries
      /\ it.kind # "none" /\ it.pc = "idle"
  BY DEF NextView, store
<1>2. RoundTypes'
  BY <1>1 DEF RoundInv, RoundTypes
<1>3. OwedNow'
  BY <1>1 DEF RoundInv, OwedNow, Matches
<1>4. ASSUME ~ it'.cut, NEW u \in owed'
      PROVE  u \in Ahead' \cup (IF it'.pc = "tag" /\ it'.matches THEN {it'.cur} ELSE {})
  <2>1. u \in Ahead
    BY <1>1, <1>4 DEF RoundInv, RoundCovers
  <2>2. CASE u = s
    BY <1>4, <2>2
  <2>3. CASE u # s
    BY <2>1, <2>3
  <2> QED
    BY <2>2, <2>3
<1>5. RoundCovers'
  BY <1>1, <1>4 DEF RoundCovers
<1> QED
  BY <1>2, <1>3, <1>5 DEF RoundInv

\* Next, at an ID that was deleted meanwhile.
LEMMA NextMissingRound ==
  ASSUME RoundInv, NEW s \in ID, NextMissing(s)
  PROVE  RoundInv'
<1>1. NextView(s) /\ it' = Advance(s) /\ owed' = owed /\ s \notin DOMAIN entries
  BY DEF NextMissing
<1>2. it.pc = "idle" /\ s \notin owed
  BY <1>1 DEF NextView, RoundInv, OwedNow, RoundTypes
<1>3. /\ it' \in Iterator /\ it'.kind = it.kind /\ it'.pc = "idle" /\ it'.cut = it.cut
      /\ Ahead' = Ahead \ {s}
  BY <1>1, <1>2, AdvanceFacts DEF RoundInv, Ahead
<1> QED
  BY <1>1, <1>2, <1>3, ViewRound

\* Next, at a record it cannot read.
LEMMA NextCorruptRound ==
  ASSUME RoundInv, NEW s \in ID, NextCorrupt(s)
  PROVE  RoundInv'
<1> DEFINE a == Advance(s)
<1>1. /\ NextView(s) /\ it' = [a EXCEPT !.pc = "delete", !.cur = s]
      /\ owed' = owed /\ ~ (s \in DOMAIN entries /\ entries[s].data = "intact")
  BY DEF NextCorrupt, Valid
<1>2. s \notin owed
  BY <1>1 DEF RoundInv, OwedNow, RoundTypes
<1>3. /\ a \in Iterator /\ a.kind = it.kind /\ a.cut = it.cut
      /\ a.first \cup a.front \cup a.rest = Ahead \ {s}
  BY AdvanceFacts DEF RoundInv
<1> HIDE DEF a
<1>4. /\ it' \in Iterator /\ it'.kind = a.kind /\ it'.pc = "delete" /\ it'.cut = a.cut
      /\ it'.cur = s
      /\ it'.first = a.first /\ it'.front = a.front /\ it'.rest = a.rest
  BY <1>1, <1>3 DEF Iterator
<1>5. Ahead' = Ahead \ {s}
  BY <1>3, <1>4 DEF Ahead
<1> QED
  BY <1>1, <1>2, <1>3, <1>4, <1>5, ViewRound

\* Next, at an entry without a tag.
LEMMA NextUntaggedRound ==
  ASSUME RoundInv, NEW s \in ID, NextUntagged(s)
  PROVE  RoundInv'
<1> DEFINE a == Advance(s)
           m == Matches(entries[s])
<1>1. /\ NextView(s) /\ it' = [a EXCEPT !.pc = "tag", !.cur = s, !.matches = m]
      /\ owed' = owed
  BY DEF NextUntagged
<1>2. s \in owed => m
  BY DEF RoundInv, OwedNow
<1>3. /\ a \in Iterator /\ a.kind = it.kind /\ a.cut = it.cut
      /\ a.first \cup a.front \cup a.rest = Ahead \ {s}
  BY AdvanceFacts DEF RoundInv
<1>4. m \in BOOLEAN
  BY <1>1 DEF Matches, RoundInv, RoundTypes
<1> HIDE DEF a, m
<1>5. /\ it' \in Iterator /\ it'.kind = a.kind /\ it'.pc = "tag" /\ it'.cut = a.cut
      /\ it'.cur = s /\ it'.matches = m
      /\ it'.first = a.first /\ it'.front = a.front /\ it'.rest = a.rest
  BY <1>1, <1>3, <1>4 DEF Iterator
<1>6. Ahead' = Ahead \ {s}
  BY <1>3, <1>5 DEF Ahead
<1> QED
  BY <1>1, <1>2, <1>3, <1>4, <1>5, <1>6, ViewRound

\* Next, at the entry it returns.
LEMMA NextReturnRound ==
  ASSUME RoundInv, NEW s \in ID, NextReturn(s)
  PROVE  RoundInv'
<1>1. /\ NextView(s) /\ it' = Advance(s)
      /\ owed' = owed \ (IF Matches(entries[s]) THEN {s} ELSE {})
  BY DEF NextReturn
<1>2. it.pc = "idle" /\ s \notin owed'
  BY <1>1 DEF NextView, RoundInv, OwedNow
<1>3. owed' \subseteq owed
  BY <1>1
<1>4. /\ it' \in Iterator /\ it'.kind = it.kind /\ it'.pc = "idle" /\ it'.cut = it.cut
      /\ Ahead' = Ahead \ {s}
  BY <1>1, <1>2, AdvanceFacts DEF RoundInv, Ahead
<1> QED
  BY <1>1, <1>2, <1>3, <1>4, ViewRound

\* A new iterator has nothing ahead until it is reset.
LEMMA NewRound ==
  ASSUME RoundInv, it' \in Iterator, it'.kind # "none", it'.pc = "new",
         owed' = {}, egress' = egress
  PROVE  RoundInv'
<1>1. RoundTypes'
  BY DEF RoundInv, RoundTypes
<1>2. RoundCovers' /\ OwedNow'
  BY DEF RoundCovers, OwedNow
<1> QED
  BY <1>1, <1>2 DEF RoundInv

\* A round starts with every entry ahead, whatever is moved to the front.
LEMMA ResetRound ==
  ASSUME StoreTypes, RoundInv, Reset
  PROVE  RoundInv'
<1> DEFINE first == IF it.kind = "establish" /\ it.pc = "new" /\ it.affine /\ affinity # NoID
                    THEN {affinity} ELSE {}
<1>1. PICK front \in FrontChoices(first) \cup (IF it.pc = "new" THEN {} ELSE {{}}) :
        it' = [it EXCEPT !.first = first,
                         !.front = IF it.kind = "prune" THEN {} ELSE front,
                         !.rest = Rest(first, IF it.kind = "prune" THEN {} ELSE front),
                         !.affine = FALSE, !.pc = "idle", !.cut = FALSE]
  BY DEF Reset
<1> DEFINE moved == IF it.kind = "prune" THEN {} ELSE front
           rest == Rest(first, moved)
<1>2. it' = [it EXCEPT !.first = first, !.front = moved, !.rest = rest,
                       !.affine = FALSE, !.pc = "idle", !.cut = FALSE]
  BY <1>1
<1>3. first \subseteq ID
  BY DEF StoreTypes
<1>4. DOMAIN entries \subseteq ID
  BY DEF StoreTypes
<1>5. front \subseteq ID
  BY <1>1, <1>4 DEF FrontChoices, Candidates
<1>6. moved \subseteq ID /\ rest \subseteq ID /\ DOMAIN entries \subseteq first \cup moved \cup rest
  BY <1>4, <1>5 DEF Rest
<1>7. it.kind # "none"
  BY DEF Reset, RoundInv, RoundTypes, NoIterator
<1> HIDE DEF first, moved, rest
<1>8. /\ it' \in Iterator /\ it'.kind = it.kind /\ it'.pc = "idle"
      /\ it'.first = first /\ it'.front = moved /\ it'.rest = rest
  BY <1>2, <1>3, <1>6 DEF RoundInv, RoundTypes, Iterator
<1>9. /\ egress' = egress /\ entries' = entries
      /\ owed' = {s \in DOMAIN entries : Valid(s) /\ Matches(entries[s])}
  BY DEF Reset, store
<1>10. RoundTypes'
  BY <1>4, <1>7, <1>8, <1>9 DEF RoundInv, RoundTypes
<1>11. OwedNow'
  <2>1. \A s \in owed' : /\ s \in DOMAIN entries /\ entries[s].data = "intact"
                            /\ Matches(entries[s])
    BY <1>9 DEF Valid
  <2> QED
    BY <1>8, <1>9, <2>1 DEF OwedNow, Matches
<1>12. RoundCovers'
  <2>1. owed' \subseteq Ahead'
    BY <1>6, <1>8, <1>9 DEF Ahead
  <2> QED
    BY <1>8, <2>1 DEF RoundCovers
<1> QED
  BY <1>10, <1>11, <1>12 DEF RoundInv

\* Next, when it deletes the record, or fails to.
LEMMA NextDeleteRound ==
  ASSUME RoundInv, NextDelete \/ NextDeleteFails
  PROVE  RoundInv'
<1>1. /\ it.pc = "delete" /\ it' = [it EXCEPT !.pc = "idle", !.cur = NoID]
      /\ egress' = egress
      /\ KeepOwed({}) \/ (owed' = owed /\ entries' = entries)
  BY DEF NextDelete, NextDeleteFails, store
<1>2. /\ it' \in Iterator /\ it'.kind = it.kind /\ it'.pc = "idle" /\ it'.cut = it.cut
      /\ it'.first = it.first /\ it'.front = it.front /\ it'.rest = it.rest
  BY <1>1 DEF RoundInv, RoundTypes, Iterator
<1>3. it.kind # "none"
  BY <1>1 DEF RoundInv, RoundTypes, NoIterator
<1>4. owed' \subseteq owed /\ OwedNow'
  <2>1. CASE KeepOwed({})
    BY <1>1, <1>2, <2>1, OwedKept
  <2>2. CASE owed' = owed /\ entries' = entries
    BY <1>1, <1>2, <2>2 DEF RoundInv, OwedNow, Matches
  <2> QED
    BY <1>1, <2>1, <2>2
<1>5. RoundTypes'
  BY <1>1, <1>2, <1>3, <1>4 DEF RoundInv, RoundTypes
<1>6. RoundCovers'
  <2>1. Ahead' = Ahead
    BY <1>2 DEF Ahead
  <2>2. ~ it.cut => owed \subseteq Ahead
    BY <1>1 DEF RoundInv, RoundCovers
  <2> QED
    BY <1>1, <1>2, <1>4, <2>1, <2>2 DEF RoundCovers
<1> QED
  BY <1>4, <1>5, <1>6 DEF RoundInv

\* The server that is given its tag is returned with what is ahead unchanged,
\* unless the iterator closes.
LEMMA TaggedRound ==
  ASSUME RoundInv, it.pc = "tag", NEW close \in BOOLEAN, Tagged(close)
  PROVE  RoundInv'
<1> DEFINE first == IF close THEN {} ELSE it.first
           front == IF close THEN {} ELSE it.front
           rest == IF close THEN {} ELSE it.rest
           cut == it.cut \/ close
<1>1. /\ it' = [it EXCEPT !.pc = "idle", !.cur = NoID, !.matches = FALSE,
                          !.first = first, !.front = front, !.rest = rest, !.cut = cut]
      /\ KeepOwed(IF it.matches THEN {it.cur} ELSE {}) /\ egress' = egress
  BY DEF Tagged
<1>2. /\ first \subseteq ID /\ front \subseteq ID /\ rest \subseteq ID /\ cut \in BOOLEAN
      /\ it.cur \in ID
  BY IteratorFields DEF RoundInv
<1>3. ~ close => first = it.first /\ front = it.front /\ rest = it.rest
  OBVIOUS
<1>4. (cut <=> it.cut \/ close)
  OBVIOUS
<1> HIDE DEF first, front, rest, cut
<1>5. /\ it' \in Iterator /\ it'.kind = it.kind /\ it'.pc = "idle" /\ it'.cut = cut
      /\ it'.first = first /\ it'.front = front /\ it'.rest = rest
  BY <1>1, <1>2 DEF RoundInv, RoundTypes, Iterator
<1>6. it.kind # "none"
  BY <1>1 DEF RoundInv, RoundTypes, NoIterator
<1>7. owed' \subseteq owed \ (IF it.matches THEN {it.cur} ELSE {}) /\ OwedNow'
  BY <1>1, <1>5, OwedKept
<1>8. RoundTypes'
  BY <1>1, <1>2, <1>5, <1>6, <1>7 DEF RoundInv, RoundTypes
<1>9. ASSUME ~ it'.cut
      PROVE  owed' \subseteq Ahead'
  <2>1. ~ it.cut /\ ~ close
    BY <1>4, <1>5, <1>9
  <2>2. Ahead' = Ahead
    BY <1>3, <1>5, <2>1 DEF Ahead
  <2>3. owed \subseteq Ahead \cup (IF it.matches THEN {it.cur} ELSE {})
    BY <2>1 DEF RoundInv, RoundCovers
  <2> QED
    BY <1>1, <1>7, <2>2, <2>3
<1>10. RoundCovers'
  BY <1>5, <1>9 DEF RoundCovers
<1> QED
  BY <1>7, <1>8, <1>10 DEF RoundInv

\* Next, when no ID is left.
LEMMA NextEndRound ==
  ASSUME RoundInv, NextEnd
  PROVE  RoundInv'
<1>1. /\ it.kind # "none" /\ it.pc = "idle" /\ Ahead = {} /\ it' = [it EXCEPT !.pc = "end"]
      /\ egress' = egress /\ owed' = owed /\ entries' = entries
  BY DEF NextEnd, store
<1>2. /\ it' \in Iterator /\ it'.kind = it.kind /\ it'.pc = "end" /\ it'.cut = it.cut
      /\ it'.first = it.first /\ it'.front = it.front /\ it'.rest = it.rest
  BY <1>1 DEF RoundInv, RoundTypes, Iterator
<1>3. RoundTypes'
  BY <1>1, <1>2 DEF RoundInv, RoundTypes
<1>4. OwedNow'
  BY <1>1, <1>2 DEF RoundInv, OwedNow, Matches
<1>5. Ahead' = Ahead
  BY <1>2 DEF Ahead
<1>6. RoundCovers'
  BY <1>1, <1>2, <1>5 DEF RoundInv, RoundCovers
<1> QED
  BY <1>3, <1>4, <1>6 DEF RoundInv

------------------------------------------------------------------------------
(* The invariant                                                            *)

\* The parts of the invariant.
LEMMA EntriesInvParts ==
  /\ EntriesInv <=> StoreTypes /\ StoreInv /\ RoundInv
  /\ EntriesInv' <=> StoreTypes' /\ StoreInv' /\ RoundInv'
BY DEF EntriesInv, Types, StoreInv, RoundInv

\* The store that an older client left has one catalog entry for each server.
LEMMA InitStore ==
  ASSUME Init
  PROVE  StoreTypes /\ StoreInv
<1>1. PICK old \in SUBSET {c \in Catalog : c.version = 0} :
        /\ \A c, d \in old : c.id = d.id => c = d
        /\ entries = [s \in {c.id : c \in old} |-> StoredAs(CHOOSE c \in old : c.id = s)]
        /\ tags = [t \in {c.tag : c \in {d \in old : d.tagged}} |->
                    [id |-> (CHOOSE c \in old : c.tag = t).id,
                     version |-> 0, versioned |-> FALSE]]
  BY DEF Init
<1> DEFINE oldOf(s) == CHOOSE c \in old : c.id = s
           withTag(t) == CHOOSE c \in old : c.tag = t
<1>2. old \subseteq Catalog /\ \A c \in old : c.version = 0
  BY <1>1
<1>3. DOMAIN entries = {c.id : c \in old}
  BY <1>1
<1>4. \A s \in DOMAIN entries : entries[s] = StoredAs(oldOf(s))
  BY <1>1
<1>5. \A s \in DOMAIN entries : oldOf(s) \in old /\ oldOf(s).id = s
  BY <1>3
<1>6. DOMAIN tags = {c.tag : c \in {d \in old : d.tagged}}
  BY <1>1
<1>7. \A t \in DOMAIN tags :
        tags[t] = [id |-> withTag(t).id, version |-> 0, versioned |-> FALSE]
  BY <1>1
<1>8. \A t \in DOMAIN tags : withTag(t) \in old /\ withTag(t).tag = t
  BY <1>6
<1> HIDE DEF oldOf, withTag
<1>9. \A s \in DOMAIN entries :
        /\ oldOf(s) \in Catalog /\ s \in ID /\ entries[s] \in Entry
        /\ entries[s].tag = oldOf(s).tag /\ entries[s].tagged = oldOf(s).tagged
        /\ entries[s].version = 0
  <2> TAKE s \in DOMAIN entries
  <2>1. oldOf(s) \in Catalog /\ oldOf(s).id = s /\ oldOf(s).version = 0
    BY <1>2, <1>5
  <2> QED
    BY <1>4, <2>1, CatalogFields
<1>10. \A t \in DOMAIN tags : withTag(t).id \in ID /\ t \in Tag
  BY <1>2, <1>8, CatalogFields
<1>11. entries \in [DOMAIN entries -> Entry] /\ DOMAIN entries \subseteq ID
  <2>1. entries = [s \in DOMAIN entries |-> entries[s]]
    BY <1>1
  <2> QED
    BY <1>9, <2>1
<1>12. tags \in [DOMAIN tags -> TagRecord] /\ DOMAIN tags \subseteq Tag
  <2>1. tags = [t \in DOMAIN tags |-> tags[t]]
    BY <1>1
  <2>2. ASSUME NEW t \in DOMAIN tags
        PROVE  tags[t] \in TagRecord
    <3> DEFINE i == withTag(t).id
    <3>1. i \in ID /\ tags[t] = [id |-> i, version |-> 0, versioned |-> FALSE]
      BY <1>7, <1>10
    <3> HIDE DEF i
    <3> QED
      BY <3>1 DEF TagRecord
  <2> QED
    BY <1>10, <2>1, <2>2
<1>13. StoreTypes
  BY <1>11, <1>12 DEF Init, StoreTypes
<1>14. FromCatalog
  BY <1>5, <1>9 DEF FromCatalog
<1>15. UntaggedUnrecorded
  <2> SUFFICES ASSUME NEW s \in DOMAIN entries, ~ entries[s].tagged,
                      entries[s].tag \in DOMAIN tags
               PROVE  FALSE
    BY DEF UntaggedUnrecorded
  <2>1. PICK c \in old : c.tagged /\ c.tag = entries[s].tag
    BY <1>6
  <2>2. c.id = s
    BY <1>2, <1>14, <2>1, TagOfOne
  <2>3. c = oldOf(s)
    BY <1>1, <1>5, <2>2
  <2> QED
    BY <1>9, <2>1, <2>3
<1>16. TagRecordsCurrent
  <2> SUFFICES ASSUME NEW s \in DOMAIN entries, entries[s].tagged
               PROVE  /\ entries[s].tag \in DOMAIN tags
                      /\ tags[entries[s].tag].version = entries[s].version
                      /\ tags[entries[s].tag].id = s
    BY DEF TagRecordsCurrent
  <2> DEFINE t == entries[s].tag
  <2>1. t \in DOMAIN tags
    BY <1>5, <1>6, <1>9
  <2>2. withTag(t) \in Catalog /\ withTag(t).tag = entries[s].tag
    BY <1>2, <1>8, <2>1
  <2>3. withTag(t).id = s
    BY <1>14, <2>2, TagOfOne
  <2>4. tags[t].id = s /\ tags[t].version = 0
    BY <1>7, <2>1, <2>3
  <2> QED
    BY <1>9, <2>1, <2>4
<1>17. PrunedStaysPruned
  BY DEF Init, PrunedStaysPruned
<1> QED
  BY <1>13, <1>14, <1>15, <1>16, <1>17 DEF StoreInv

\* Init leaves no iterator.
LEMMA InitRound ==
  ASSUME Init
  PROVE  RoundInv
<1>1. it = NoIterator /\ egress \in Egress /\ owed = {}
  BY DEF Init
<1>2. NoIterator \in Iterator /\ NoIterator.pc = "idle"
  BY DEF NoIterator, Iterator
<1>3. RoundTypes
  BY <1>1, <1>2 DEF RoundTypes
<1>4. RoundCovers /\ OwedNow
  BY <1>1, <1>2 DEF RoundCovers, OwedNow
<1> QED
  BY <1>3, <1>4 DEF RoundInv

\* deleteServerEntryHelper on the parts that the invariant only types.
LEMMA HelperTypes ==
  ASSUME StoreTypes, NEW s, DeleteServerEntryHelper(s)
  PROVE  /\ dialParams' \subseteq ID \cup Tag /\ affinity' \in ID \cup {NoID}
         /\ filter' \in Egress \cup {Unset}
BY DEF StoreTypes, DeleteServerEntryHelper

\* Every step preserves it.
LEMMA EntriesInductive ==
  ASSUME EntriesInv, [Next]_vars
  PROVE  EntriesInv'
<1>0. StoreTypes /\ StoreInv /\ RoundInv /\ Types /\ RoundTypes
  BY EntriesInvParts DEF EntriesInv, RoundInv
<1> SUFFICES StoreTypes' /\ StoreInv' /\ RoundInv'
  BY EntriesInvParts
<1>s. ASSUME UNCHANGED store
      PROVE  StoreTypes' /\ StoreInv'
  <2>1. UNCHANGED <<entries, tags, tombstones, dialParams, affinity, filter>>
    BY <1>s DEF store
  <2>2. StoreTypes'
    BY <1>0, <2>1 DEF StoreTypes
  <2> QED
    BY <1>0, <2>1, <2>2, SameStore
<1>1. ASSUME NEW c \in Catalog, NEW p \in BOOLEAN, StoreServerEntry(c, p)
      PROVE  StoreTypes' /\ StoreInv' /\ RoundInv'
  <2>1. /\ ~ Buried(c)
        /\ entries' = Put(entries, c.id, [StoredAs(c) EXCEPT !.tagged = TRUE])
        /\ tags' = Put(tags, c.tag, VersionedRecord(c.id, c.version))
        /\ UNCHANGED <<tombstones, affinity, filter>>
        /\ dialParams' = dialParams \cup (IF p THEN {c.id} ELSE {})
        /\ StoreStep
    BY <1>1 DEF StoreServerEntry
  <2>2. /\ entries' \in [DOMAIN entries' -> Entry] /\ DOMAIN entries' \subseteq ID
        /\ tags' \in [DOMAIN tags' -> TagRecord] /\ DOMAIN tags' \subseteq Tag
        /\ StoreInv'
    BY <1>0, <2>1, StoreEntry
  <2>3. c.id \in ID
    BY CatalogFields
  <2>4. StoreTypes'
    BY <1>0, <2>1, <2>2, <2>3 DEF StoreTypes
  <2> QED
    BY <1>0, <2>1, <2>2, <2>4, StoreStepRound
<1>2. ASSUME NEW t \in Tag, PruneServerEntry(t)
      PROVE  StoreTypes' /\ StoreInv' /\ RoundInv'
  <2>1. /\ entries' \in [DOMAIN entries' -> Entry] /\ DOMAIN entries' \subseteq ID
        /\ tags' \in [DOMAIN tags' -> TagRecord] /\ DOMAIN tags' \subseteq Tag
        /\ tombstones' \subseteq Tag
        /\ StoreInv'
    BY <1>0, <1>2, PruneEntry
  <2>2. StoreStep
    BY <1>2 DEF PruneServerEntry
  <2>3. \/ DeleteServerEntryHelper(tags[t].id)
        \/ UNCHANGED <<entries, affinity, filter, dialParams>>
    BY <1>2 DEF PruneServerEntry
  <2>4. /\ dialParams' \subseteq ID \cup Tag /\ affinity' \in ID \cup {NoID}
        /\ filter' \in Egress \cup {Unset}
    <3>1. CASE DeleteServerEntryHelper(tags[t].id)
      BY <1>0, <3>1, HelperTypes
    <3>2. CASE UNCHANGED <<entries, affinity, filter, dialParams>>
      BY <1>0, <3>2 DEF StoreTypes
    <3> QED
      BY <2>3, <3>1, <3>2
  <2>5. StoreTypes'
    BY <2>1, <2>4 DEF StoreTypes
  <2> QED
    BY <1>0, <2>1, <2>2, <2>5, StoreStepRound
<1>3. ASSUME NEW t \in Tag, NEW v \in {0, 1}, DSLHasServerEntry(t, v)
      PROVE  StoreTypes' /\ StoreInv' /\ RoundInv'
  <2>1. /\ t \in DOMAIN tags /\ dialParams' = dialParams \cup {tags[t].id} /\ StoreStep
        /\ UNCHANGED <<entries, tags, tombstones, affinity, filter>>
    BY <1>3 DEF DSLHasServerEntry
  <2>2. tags[t].id \in ID \cup Tag
    BY <1>0, <2>1, EntryFields
  <2>3. StoreTypes'
    BY <1>0, <2>1, <2>2 DEF StoreTypes
  <2> QED
    BY <1>0, <2>1, <2>3, SameStore, StoreStepRound
<1>4. ASSUME NEW s \in ID, SetDialParameters(s) \/ DeleteDialParameters(s)
      PROVE  StoreTypes' /\ StoreInv' /\ RoundInv'
  <2>1. /\ dialParams' \subseteq dialParams \cup {s} /\ StoreStep
        /\ UNCHANGED <<entries, tags, tombstones, affinity, filter>>
    BY <1>4 DEF SetDialParameters, DeleteDialParameters
  <2>2. StoreTypes'
    BY <1>0, <2>1 DEF StoreTypes
  <2> QED
    BY <1>0, <2>1, <2>2, SameStore, StoreStepRound
<1>5. ASSUME NEW s \in ID, PromoteServerEntry(s) \/ DeleteServerEntryAffinity(s)
      PROVE  StoreTypes' /\ StoreInv' /\ RoundInv'
  <2>1. /\ affinity' \in {s, NoID} /\ filter' \in {egress, Unset} /\ StoreStep
        /\ UNCHANGED <<entries, tags, tombstones, dialParams>>
    BY <1>5 DEF PromoteServerEntry, DeleteServerEntryAffinity
  <2>2. egress \in Egress
    BY <1>0 DEF RoundTypes
  <2>3. StoreTypes'
    BY <1>0, <2>1, <2>2 DEF StoreTypes
  <2> QED
    BY <1>0, <2>1, <2>3, SameStore, StoreStepRound
<1>6. ASSUME NEW s \in ID, NEW damage \in Data, Corrupt(s, damage)
      PROVE  StoreTypes' /\ StoreInv' /\ RoundInv'
  <2>1. /\ s \in DOMAIN entries /\ entries' = [entries EXCEPT ![s].data = damage]
        /\ UNCHANGED <<tags, tombstones, dialParams, affinity, filter>> /\ StoreStep
    BY <1>6 DEF Corrupt, Valid
  <2>2. /\ entries' \in [DOMAIN entries' -> Entry] /\ DOMAIN entries' \subseteq ID
        /\ StoreInv'
    BY <1>0, <2>1, CorruptEntry
  <2>3. StoreTypes'
    BY <1>0, <2>1, <2>2 DEF StoreTypes
  <2> QED
    BY <1>0, <2>1, <2>2, <2>3, StoreStepRound
<1>7. ASSUME NEW s \in ID,
             NextMissing(s) \/ NextCorrupt(s) \/ NextUntagged(s) \/ NextReturn(s)
      PROVE  StoreTypes' /\ StoreInv' /\ RoundInv'
  <2>1. UNCHANGED store
    BY <1>7 DEF NextMissing, NextCorrupt, NextUntagged, NextReturn, NextView
  <2> QED
    BY <1>0, <1>7, <1>s, <2>1, NextMissingRound, NextCorruptRound, NextUntaggedRound,
       NextReturnRound
<1>8. CASE NewServerEntryIterator \/ NewPruneServerEntryIterator
  <2>1. UNCHANGED store /\ egress' = egress /\ owed' = {}
    BY <1>8 DEF NewServerEntryIterator, NewPruneServerEntryIterator
  <2>2. it' \in Iterator /\ it'.kind # "none" /\ it'.pc = "new"
    <3>1. CASE NewServerEntryIterator
      BY <3>1 DEF NewServerEntryIterator, NoIterator, Iterator
    <3>2. CASE NewPruneServerEntryIterator
      BY <3>2 DEF NewPruneServerEntryIterator, NoIterator, Iterator
    <3> QED
      BY <1>8, <3>1, <3>2
  <2> QED
    BY <1>0, <1>s, <2>1, <2>2, NewRound
<1>9. CASE Reset
  <2>1. UNCHANGED store
    BY <1>9 DEF Reset
  <2> QED
    BY <1>0, <1>9, <1>s, <2>1, ResetRound
<1>10. CASE NextDelete
  <2>1. it.pc = "delete" /\ DeleteServerEntry(it.cur)
    BY <1>10 DEF NextDelete
  <2>2. it.cur \in ID \cup {NoID}
    BY <1>0, IteratorFields
  <2>3. /\ entries' \in [DOMAIN entries' -> Entry] /\ DOMAIN entries' \subseteq ID
        /\ tags' \in [DOMAIN tags' -> TagRecord] /\ DOMAIN tags' \subseteq Tag
        /\ StoreInv'
    BY <1>0, <2>1, <2>2, DeleteEntry
  <2>4. DeleteServerEntryHelper(it.cur) /\ tombstones' = tombstones
    BY <2>1 DEF DeleteServerEntry
  <2>5. StoreTypes'
    BY <1>0, <2>3, <2>4, HelperTypes DEF StoreTypes
  <2> QED
    BY <1>0, <1>10, <2>3, <2>5, NextDeleteRound
<1>11. CASE NextDeleteFails
  <2>1. UNCHANGED store
    BY <1>11 DEF NextDeleteFails
  <2> QED
    BY <1>0, <1>11, <1>s, <2>1, NextDeleteRound
<1>12. CASE NextTag
  <2>1. /\ it.pc = "tag" /\ Tagged(FALSE)
        /\ UNCHANGED <<tombstones, dialParams, affinity, filter>>
    BY <1>12 DEF NextTag
  <2>2. /\ entries' \in [DOMAIN entries' -> Entry] /\ DOMAIN entries' \subseteq ID
        /\ tags' \in [DOMAIN tags' -> TagRecord] /\ DOMAIN tags' \subseteq Tag
        /\ StoreInv'
    <3>1. CASE it.cur \in DOMAIN entries /\ ~ entries[it.cur].tagged
      <4>1. /\ entries' = [entries EXCEPT ![it.cur].tagged = TRUE]
            /\ tags' = Put(tags, entries[it.cur].tag,
                           VersionedRecord(entries[it.cur].tag, entries[it.cur].version))
        BY <1>12, <3>1 DEF NextTag
      <4> QED
        BY <1>0, <2>1, <3>1, <4>1, TagEntry
    <3>2. CASE ~ (it.cur \in DOMAIN entries /\ ~ entries[it.cur].tagged)
      <4>1. UNCHANGED <<entries, tags>>
        BY <1>12, <3>2 DEF NextTag
      <4>2. StoreInv'
        BY <1>0, <2>1, <4>1, SameStore
      <4> QED
        BY <1>0, <4>1, <4>2 DEF StoreTypes
    <3> QED
      BY <3>1, <3>2
  <2>3. StoreTypes'
    BY <1>0, <2>1, <2>2 DEF StoreTypes
  <2> QED
    BY <1>0, <2>1, <2>2, <2>3, TaggedRound
<1>13. CASE NextTagFails
  <2>1. it.pc = "tag" /\ UNCHANGED store /\ Tagged(it.matches) /\ it.matches \in BOOLEAN
    BY <1>0, <1>13, IteratorFields DEF NextTagFails
  <2> QED
    BY <1>0, <1>s, <2>1, TaggedRound
<1>14. CASE NextEnd
  <2>1. UNCHANGED store
    BY <1>14 DEF NextEnd
  <2> QED
    BY <1>0, <1>14, <1>s, <2>1, NextEndRound
<1>15. CASE Close
  <2>1. /\ UNCHANGED store /\ it' = NoIterator /\ egress' = egress
        /\ owed' = {}
    BY <1>15 DEF Close
  <2>2. egress' \in Egress
    BY <1>0, <2>1 DEF RoundTypes
  <2> QED
    BY <1>s, <2>1, <2>2, NoRound
<1>16. ASSUME NEW r \in Egress, Restart(r)
       PROVE  StoreTypes' /\ StoreInv' /\ RoundInv'
  BY <1>16, <1>s, NoRound DEF Restart
<1>17. CASE UNCHANGED vars
  <2>1. UNCHANGED store /\ it' = it /\ egress' = egress /\ owed' = owed
        /\ entries' = entries
    BY <1>17 DEF vars, store
  <2>2. RoundTypes' /\ RoundCovers'
    BY <1>0, <2>1 DEF RoundInv, RoundTypes, RoundCovers, Ahead
  <2>3. OwedNow'
    BY <1>0, <2>1 DEF RoundInv, OwedNow, Matches
  <2> QED
    BY <1>s, <2>1, <2>2, <2>3 DEF RoundInv
<1>18. CASE \E c \in Catalog :
              \E p \in (IF c.source = "embedded" THEN {FALSE} ELSE BOOLEAN) :
                StoreServerEntry(c, p)
  BY <1>1, <1>18
<1>19. CASE \E t \in Tag : PruneServerEntry(t) \/ \E v \in {0, 1} : DSLHasServerEntry(t, v)
  BY <1>2, <1>3, <1>19
<1>20. CASE \E s \in ID : \/ SetDialParameters(s) \/ DeleteDialParameters(s)
                          \/ PromoteServerEntry(s) \/ DeleteServerEntryAffinity(s)
                          \/ \E damage \in Data \ {"intact"} : Corrupt(s, damage)
                          \/ NextMissing(s) \/ NextCorrupt(s)
                          \/ NextUntagged(s) \/ NextReturn(s)
  BY <1>4, <1>5, <1>6, <1>7, <1>20
<1>21. CASE \E r \in Egress : Restart(r)
  BY <1>16, <1>21
<1> QED
  BY <1>8, <1>9, <1>10, <1>12, <1>13, <1>14, <1>15, <1>17, <1>18, <1>19, <1>20, <1>21, <1>11
  DEF Next

------------------------------------------------------------------------------
(* Theorems                                                                 *)

\* The inductive invariant of the store and of the round over it.
THEOREM EntriesInvariant == Spec => []EntriesInv
<1>1. Init => EntriesInv
  BY InitStore, InitRound, EntriesInvParts
<1>2. EntriesInv /\ [Next]_vars => EntriesInv'
  BY EntriesInductive
<1> QED
  BY <1>1, <1>2, PTL DEF Spec

\* Every bucket, the iterator and the history hold what they are meant to hold,
\* and a closed iterator holds no server entry IDs.
THEOREM EntriesTypeCorrect == Spec => []TypeOK
<1>1. ASSUME EntriesInv PROVE TypeOK
  <2>1. Types /\ RoundTypes /\ StoreTypes
    BY <1>1 DEF EntriesInv, Types
  <2> QED
    BY <2>1, EntryFields, IteratorFields DEF TypeOK, StoreTypes, RoundTypes, Ahead
<1> QED
  BY <1>1, EntriesInvariant, PTL

\* No embedded entry ever has a tag that pruneServerEntry buried: neither an
\* import, nor a recycled record, nor the iterator's tag update brings it back.
THEOREM EntriesPrunedStaysPruned == Spec => []PrunedStaysPruned
<1>1. EntriesInv => PrunedStaysPruned
  BY DEF EntriesInv
<1> QED
  BY <1>1, EntriesInvariant, PTL

\* The tag record that DSLHasServerEntry answers from has the version of the
\* entry, after every order of imports, deletions, prunes and tag updates.
THEOREM EntriesTagRecordsCurrent == Spec => []TagRecordsCurrent
<1>1. EntriesInv => TagRecordsCurrent
  BY DEF EntriesInv
<1> QED
  BY <1>1, EntriesInvariant, PTL

\* A round of the iterator that runs to its end has returned every server whose
\* entry was valid and matching all along, whatever changed under it.
THEOREM EntriesRoundComplete == Spec => []RoundComplete
<1>1. EntriesInv => RoundComplete
  BY DEF EntriesInv, RoundCovers, RoundComplete
<1> QED
  BY <1>1, EntriesInvariant, PTL

==============================================================================
