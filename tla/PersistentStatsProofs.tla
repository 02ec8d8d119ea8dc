------------------------ MODULE PersistentStatsProofs ------------------------
(***************************************************************************)
(* Theorems about PersistentStats, for any finite numbers of users,        *)
(* requests and stats and any number of faults.                            *)
(***************************************************************************)
EXTENDS PersistentStats, FiniteSetTheorems, TLAPS

\* The types of the records, the requests and the history; the reference
\* count is treated apart from them.
RecordTypes ==
  /\ user \in [User -> {"out", "opening", "in"}]
  /\ record \in [Stats -> {"none", "unreported", "reporting", "cleared", "discarded"}]
  /\ request \in [Request -> [step : {"idle", "taken", "sent", "answered", "failed"},
                              stats : SUBSET Stats]]
  /\ \A q \in Request : request[q].step = "idle" <=> request[q].stats = {}
  /\ processed \in [Stats -> 0..2]
  /\ doubtful \subseteq Stats /\ stranded \subseteq Stats
  /\ raced \in BOOLEAN /\ faults \in 0..MaxFaults

\* A request holds no damaged record, so none that a take out deletes.
HeldValid == \A q \in Request : request[q].stats \cap Invalid = {}

\* The users that hold a reference to the datastore.
Users == {u \in User : user[u] # "out"}

\* The datastore is open exactly while it has users, and the count is theirs.
OpenWhileUsed ==
  /\ refCount = Cardinality(Users)
  /\ db \in BOOLEAN /\ (db <=> refCount > 0)

\* A record that a request holds is in the reporting state and held by no
\* other request: always before a reset came late, and in any case for a
\* record that is not in doubt.
HeldOnce ==
  \A r \in Stats : (~ raced \/ r \notin doubtful) =>
    \A q \in Request : r \in request[q].stats =>
      /\ record[r] = "reporting"
      /\ \A p \in Request : r \in request[p].stats => p = q

\* What an answered request holds the server has processed.
AnsweredProcessed ==
  \A q \in Request : request[q].step = "answered" =>
    \A r \in request[q].stats : processed[r] > 0

\* A record the server has processed, and that is not in doubt, is cleared or
\* about to be: it is in the hand of a request that has its answer.
Settled ==
  \A r \in Stats : processed[r] > 0 /\ r \notin doubtful =>
    \/ record[r] = "cleared"
    \/ \E q \in Request : request[q].step = "answered" /\ r \in request[q].stats

StatsInv ==
  /\ RecordTypes
  /\ HeldValid
  /\ HeldOnce
  /\ AnsweredProcessed
  /\ Settled
  /\ NoStatLost
  /\ DuplicatesExplained

------------------------------------------------------------------------------
(* Lemmas about the operators                                               *)

\* What the server's processing of the requests in G does to one record.
LEMMA ProcessCounts ==
  ASSUME RecordTypes, NEW G \in SUBSET Request, NEW r \in Stats
  PROVE  /\ Process(G) \in [Stats -> 0..2]
         /\ Process(G)[r] >= processed[r]
         /\ (\A q \in G : r \notin request[q].stats) => Process(G)[r] = processed[r]
         /\ (\E q \in G : r \in request[q].stats) => Process(G)[r] > 0
<1> DEFINE H(x) == {q \in G : x \in request[q].stats}
<1>1. ASSUME NEW x \in Stats
      PROVE  /\ IsFiniteSet(H(x)) /\ Cardinality(H(x)) \in Nat
             /\ Cardinality(H(x)) = 0 <=> H(x) = {}
  <2>1. IsFiniteSet(G)
    BY StatsAssumption, FS_Subset
  <2>2. IsFiniteSet(H(x))
    BY <2>1, FS_Subset, H(x) \in SUBSET G
  <2> QED
    BY <2>2, FS_CardinalityType, FS_EmptySet
<1>2. \A x \in Stats : processed[x] \in 0..2
  BY DEF RecordTypes
<1>3. Process(G) = [x \in Stats |-> IF processed[x] + Cardinality(H(x)) > 2
                                    THEN 2 ELSE processed[x] + Cardinality(H(x))]
  BY DEF Process
<1>4. \A x \in Stats : Cardinality(H(x)) \in Nat
  BY <1>1
<1> HIDE DEF H
<1>5. Process(G) \in [Stats -> 0..2] /\ Process(G)[r] >= processed[r]
  BY <1>2, <1>3, <1>4
<1>6. /\ H(r) = {} => Process(G)[r] = processed[r]
      /\ H(r) # {} => Process(G)[r] > 0
  BY <1>1, <1>2, <1>3, <1>4
<1> QED
  BY <1>5, <1>6 DEF H

\* The processing of one request counts a record once at most.
LEMMA ProcessOne ==
  ASSUME RecordTypes, NEW p \in Request, NEW r \in Stats, processed[r] = 0
  PROVE  Process({p})[r] <= 1
<1> DEFINE H == {q \in {p} : r \in request[q].stats}
<1>1. H = {} \/ H = {p}
  OBVIOUS
<1>2. Cardinality(H) = 0 \/ Cardinality(H) = 1
  BY <1>1, FS_EmptySet, FS_Singleton
<1>3. Process({p})[r] = IF processed[r] + Cardinality(H) > 2 THEN 2
                        ELSE processed[r] + Cardinality(H)
  BY DEF Process
<1> HIDE DEF H
<1> QED
  BY <1>2, <1>3

\* A request moves on to step s with the records it holds.
LEMMA NextStep ==
  ASSUME RecordTypes, NEW p \in Request, NEW s \in {"sent", "answered", "failed"},
         request[p].step # "idle", request' = [request EXCEPT ![p].step = s]
  PROVE  /\ request' \in [Request -> [step : {"idle", "taken", "sent", "answered", "failed"},
                                       stats : SUBSET Stats]]
         /\ \A q \in Request : request'[q].stats = request[q].stats
         /\ \A q \in Request : request'[q].step = IF q = p THEN s ELSE request[q].step
         /\ \A q \in Request : request'[q].step = "idle" <=> request'[q].stats = {}
<1>1. \A q \in Request : request[q] \in [step : {"idle", "taken", "sent", "answered", "failed"},
                                         stats : SUBSET Stats]
  BY DEF RecordTypes
<1>2. \A q \in Request : request'[q] = IF q = p THEN [request[p] EXCEPT !.step = s]
                                       ELSE request[q]
  BY DEF RecordTypes
<1>3. /\ [request[p] EXCEPT !.step = s] \in
            [step : {"idle", "taken", "sent", "answered", "failed"}, stats : SUBSET Stats]
      /\ [request[p] EXCEPT !.step = s].step = s
      /\ [request[p] EXCEPT !.step = s].stats = request[p].stats
  BY <1>1
<1>4. request' \in [Request -> [step : {"idle", "taken", "sent", "answered", "failed"},
                               stats : SUBSET Stats]]
  BY <1>1, <1>3 DEF RecordTypes
<1>5. \A q \in Request : /\ request'[q].stats = request[q].stats
                         /\ request'[q].step = IF q = p THEN s ELSE request[q].step
  BY <1>2, <1>3
<1> QED
  BY <1>4, <1>5 DEF RecordTypes

\* The records taken out are unreported records of the datastore.
LEMMA TakenOutUnreported ==
  TakenOut \subseteq {r \in Stats \ Invalid : record[r] = "unreported"}
BY DEF TakenOut, Sendable

\* The cursor comes to records in the datastore only.
LEMMA VisitedStored == AllVisited \subseteq Stored
BY DEF AllVisited, Visited

\* Set changes the records in S and no others.
LEMMA SetRecords ==
  ASSUME RecordTypes, NEW S, NEW v, NEW r \in Stats
  PROVE  /\ Set(record, S, v)[r] = IF r \in S THEN v ELSE record[r]
         /\ v \in {"none", "unreported", "reporting", "cleared", "discarded"} =>
              Set(record, S, v) \in
                [Stats -> {"none", "unreported", "reporting", "cleared", "discarded"}]
BY DEF RecordTypes, Set

------------------------------------------------------------------------------
(* StatsInv is inductive                                                    *)

\* Opening and closing leave the records and the requests alone.
LEMMA UserSteps ==
  ASSUME StatsInv, NEW u \in User, OpenNested(u) \/ OpenFirst(u) \/ CloseDataStore(u)
  PROVE  StatsInv'
<1>1. RecordTypes'
  BY DEF StatsInv, RecordTypes, OpenNested, OpenFirst, CloseDataStore
<1>2. UNCHANGED <<record, request, processed, doubtful, raced>>
  BY DEF OpenNested, OpenFirst, CloseDataStore
<1> QED
  BY <1>1, <1>2 DEF StatsInv, HeldValid, HeldOnce, AnsweredProcessed, Settled, NoStatLost,
     DuplicatesExplained

\* So does a reset that fails.
LEMMA ResetFailsStep ==
  ASSUME StatsInv, NEW u \in User, ResetFails(u)
  PROVE  StatsInv'
<1>1. RecordTypes'
  <2>1. faults' \in 0..MaxFaults
    BY StatsAssumption DEF StatsInv, RecordTypes, ResetFails
  <2>2. stranded' \subseteq Stats /\ user' \in [User -> {"out", "opening", "in"}]
    BY DEF StatsInv, RecordTypes, ResetFails
  <2> QED
    BY <2>1, <2>2 DEF StatsInv, RecordTypes, ResetFails
<1>2. UNCHANGED <<record, request, processed, doubtful, raced>>
  BY DEF ResetFails
<1> QED
  BY <1>1, <1>2 DEF StatsInv, HeldValid, HeldOnce, AnsweredProcessed, Settled, NoStatLost,
     DuplicatesExplained

\* The reset when the datastore opens preserves the invariant.
LEMMA ResetStep ==
  ASSUME StatsInv, NEW u \in User, ResetAll(u)
  PROVE  StatsInv'
<1> USE DEF StatsInv
<1>1. RecordTypes'
  <2>1. InFlight \subseteq Stats
    BY DEF InFlight, RecordTypes
  <2>2. record' \in [Stats -> {"none", "unreported", "reporting", "cleared", "discarded"}]
    BY DEF ResetAll, RecordTypes, Set
  <2> QED
    BY <2>1, <2>2 DEF RecordTypes, ResetAll
<1>2. \A r \in Stats : record'[r] = IF r \in Stored THEN "unreported" ELSE record[r]
  BY SetRecords DEF ResetAll
<1>3. \A q \in Request : \A r \in request[q].stats : r \in doubtful' /\ raced'
  BY DEF ResetAll, InFlight
<1>4. doubtful \subseteq doubtful' /\ UNCHANGED <<request, processed>>
  BY DEF ResetAll
<1>5. HeldValid' /\ HeldOnce'
  BY <1>3, <1>4 DEF HeldValid, HeldOnce
<1>6. AnsweredProcessed' /\ DuplicatesExplained'
  BY <1>4 DEF AnsweredProcessed, DuplicatesExplained
<1>7. Settled' /\ NoStatLost'
  BY <1>2, <1>3, <1>4 DEF Settled, NoStatLost, Stored
<1> QED
  BY <1>1, <1>5, <1>6, <1>7

\* So does storing a statistic.
LEMMA StoreStep ==
  ASSUME StatsInv, NEW s \in Stats, StorePersistentStat(s)
  PROVE  StatsInv'
<1> USE DEF StatsInv
<1>1. /\ record[s] = "none"
      /\ \E v \in {"discarded", "unreported"} : record' = [record EXCEPT ![s] = v]
      /\ UNCHANGED <<user, request, processed, doubtful, stranded, raced, faults>>
  BY Zenon DEF StorePersistentStat
<1>2. PICK v \in {"discarded", "unreported"} : record' = [record EXCEPT ![s] = v]
  BY <1>1
<1>3. RecordTypes'
  BY <1>1, <1>2 DEF RecordTypes
<1>4. \A r \in Stats : record'[r] = IF r = s THEN v ELSE record[r]
  BY <1>2 DEF RecordTypes
<1>5. HeldValid' /\ HeldOnce'
  BY <1>1, <1>4 DEF HeldValid, HeldOnce
<1>6. AnsweredProcessed' /\ DuplicatesExplained' /\ NoStatLost'
  BY <1>1, <1>4 DEF AnsweredProcessed, DuplicatesExplained, NoStatLost
<1>7. Settled'
  BY <1>1, <1>4 DEF Settled
<1> QED
  BY <1>3, <1>5, <1>6, <1>7

\* So does taking statistics out for a request.
LEMMA TakeOutStep ==
  ASSUME StatsInv, NEW p \in Request, TakeOut(p)
  PROVE  StatsInv'
<1>0. RecordTypes
  BY DEF StatsInv
<1> DEFINE D == AllVisited \cap Invalid
<1>1. /\ request[p].stats = {} /\ request[p].step = "idle"
      /\ UNCHANGED <<user, processed, doubtful, stranded, raced, faults>>
  BY DEF TakeOut, Idle
<1>2. /\ TakenOut \subseteq {r \in Stats \ Invalid : record[r] = "unreported"}
      /\ D \subseteq {r \in Stats : r \in Invalid /\ record[r] \in {"unreported", "reporting"}}
  BY TakenOutUnreported, VisitedStored DEF Stored
<1>3. /\ record' \in [Stats -> {"none", "unreported", "reporting", "cleared", "discarded"}]
      /\ \A r \in Stats : record'[r] = IF r \in TakenOut THEN "reporting"
                                       ELSE IF r \in D THEN "discarded" ELSE record[r]
  <2>1. record' = [r \in Stats |-> CASE r \in TakenOut -> "reporting"
                                     [] r \in D -> "discarded"
                                     [] OTHER -> record[r]]
    BY DEF TakeOut
  <2>2. D \cap TakenOut = {}
    BY <1>2
  <2> HIDE DEF D
  <2>3. \A r \in Stats : record'[r] = IF r \in TakenOut THEN "reporting"
                                     ELSE IF r \in D THEN "discarded" ELSE record[r]
    BY <2>1, <2>2
  <2>4. DOMAIN record' = Stats /\ record' = [r \in Stats |-> record'[r]]
    BY <2>1
  <2> QED
    BY <1>0, <2>3, <2>4 DEF RecordTypes
<1> HIDE DEF D
<1>4. /\ request' = [request EXCEPT ![p] = Taken(TakenOut)]
      /\ Taken(TakenOut).stats = TakenOut /\ Taken(TakenOut).step \in {"idle", "taken"}
      /\ Taken(TakenOut).step = "idle" <=> TakenOut = {}
      /\ Taken(TakenOut) \in [step : {"idle", "taken", "sent", "answered", "failed"},
                               stats : SUBSET Stats]
  BY <1>2 DEF TakeOut, Taken, Idle
<1>5. /\ \A q \in Request : request'[q].stats = IF q = p THEN TakenOut ELSE request[q].stats
      /\ \A q \in Request : request'[q].step = IF q = p THEN Taken(TakenOut).step
                                                ELSE request[q].step
  BY <1>0, <1>4 DEF RecordTypes
<1>6. RecordTypes'
  BY <1>0, <1>1, <1>3, <1>4, <1>5 DEF RecordTypes
<1>7. HeldValid'
  BY <1>2, <1>5 DEF HeldValid, StatsInv
<1>8. HeldOnce'
  <2>1. \A q \in Request : \A r \in request[q].stats : r \notin D
    BY <1>2 DEF HeldValid, StatsInv
  <2>2. \A r \in TakenOut : r \notin D /\ r \in Stats /\ record[r] = "unreported"
    BY <1>2
  <2> QED
    BY <1>1, <1>3, <1>5, <2>1, <2>2 DEF HeldOnce, StatsInv
<1>9. AnsweredProcessed' /\ DuplicatesExplained' /\ NoStatLost'
  BY <1>1, <1>2, <1>3, <1>4, <1>5 DEF AnsweredProcessed, DuplicatesExplained, NoStatLost, StatsInv
<1>10. Settled'
  BY <1>1, <1>2, <1>3, <1>5 DEF Settled, StatsInv
<1> QED
  BY <1>6, <1>7, <1>8, <1>9, <1>10 DEF StatsInv

\* The steps of a request that neither touch a record nor get an answer.
LEMMA SendSteps ==
  ASSUME StatsInv, NEW p \in Request, Send(p) \/ SendFails(p)
  PROVE  StatsInv'
<1>0. RecordTypes
  BY DEF StatsInv
<1> DEFINE Moved(s) ==
      /\ request' \in [Request -> [step : {"idle", "taken", "sent", "answered", "failed"},
                                   stats : SUBSET Stats]]
      /\ \A q \in Request : request'[q].stats = request[q].stats
      /\ \A q \in Request : request'[q].step = IF q = p THEN s ELSE request[q].step
      /\ \A q \in Request : request'[q].step = "idle" <=> request'[q].stats = {}
<1>1. request[p].step # "idle" /\ request[p].step # "answered"
  BY DEF Send, SendFails
<1>2. Send(p) => Moved("sent")
  <2> HAVE Send(p)
  <2>1. request' = [request EXCEPT ![p].step = "sent"]
    BY DEF Send
  <2> QED
    BY <1>0, <1>1, <2>1, NextStep
<1>3. SendFails(p) => Moved("failed")
  <2> HAVE SendFails(p)
  <2>1. request' = [request EXCEPT ![p].step = "failed"]
    BY DEF SendFails
  <2> QED
    BY <1>0, <1>1, <2>1, NextStep
<1> HIDE DEF Moved
<1>4. PICK s \in {"sent", "failed"} : Moved(s)
  BY <1>2, <1>3
<1>5. UNCHANGED <<user, record, processed, doubtful, stranded, raced>>
  BY DEF Send, SendFails
<1>6. RecordTypes'
  <2>1. faults' \in 0..MaxFaults
    BY <1>0, StatsAssumption DEF RecordTypes, Send, SendFails
  <2> QED
    BY <1>0, <1>4, <1>5, <2>1 DEF RecordTypes, Moved
<1>7. /\ \A q \in Request : request'[q].stats = request[q].stats
      /\ \A q \in Request : request'[q].step = "answered" <=> request[q].step = "answered"
  BY <1>1, <1>4 DEF Moved
<1>8. HeldValid' /\ HeldOnce'
  BY <1>5, <1>7 DEF HeldValid, HeldOnce, StatsInv
<1>9. AnsweredProcessed' /\ DuplicatesExplained' /\ NoStatLost'
  BY <1>5, <1>7 DEF AnsweredProcessed, DuplicatesExplained, NoStatLost, StatsInv
<1>10. Settled'
  BY <1>5, <1>7 DEF Settled, StatsInv
<1> QED
  BY <1>6, <1>8, <1>9, <1>10 DEF StatsInv

\* So does the answer of the server.
LEMMA AnswerStep ==
  ASSUME StatsInv, NEW p \in Request, Answer(p)
  PROVE  StatsInv'
<1>0. RecordTypes
  BY DEF StatsInv
<1>1. /\ request[p].step = "sent"
      /\ processed' = Process({p})
      /\ request' = [request EXCEPT ![p].step = "answered"]
      /\ UNCHANGED <<user, record, doubtful, stranded, raced, faults>>
  BY DEF Answer
<1>2. \A r \in Stats :
        /\ processed'[r] >= processed[r]
        /\ r \notin request[p].stats => processed'[r] = processed[r]
        /\ r \in request[p].stats => processed'[r] > 0
  BY <1>0, <1>1, ProcessCounts
<1>3. RecordTypes'
  <2>1. processed' \in [Stats -> 0..2]
    BY <1>0, <1>1, ProcessCounts DEF Process, RecordTypes
  <2> QED
    BY <1>0, <1>1, <2>1, NextStep DEF RecordTypes
<1>4. /\ \A q \in Request : request'[q].stats = request[q].stats
      /\ \A q \in Request : request'[q].step = IF q = p THEN "answered" ELSE request[q].step
  BY <1>0, <1>1, NextStep
<1>9. /\ \A q \in Request : request[q].stats \subseteq Stats
      /\ \A r \in Stats : processed[r] \in Nat /\ processed'[r] \in Nat
  BY <1>0, <1>3 DEF RecordTypes
<1>5. HeldValid' /\ HeldOnce'
  BY <1>1, <1>4 DEF HeldValid, HeldOnce, StatsInv
<1>6. AnsweredProcessed' /\ NoStatLost'
  <2>1. \A r \in Stats : processed[r] > 0 => processed'[r] > 0
    BY <1>2, <1>9
  <2>2. NoStatLost'
    BY <1>1, <2>1 DEF NoStatLost, StatsInv
  <2>3. AnsweredProcessed'
    BY <1>2, <1>4, <1>9, <2>1 DEF AnsweredProcessed, StatsInv
  <2> QED
    BY <2>2, <2>3
<1>7. Settled'
  <2> SUFFICES ASSUME NEW r \in Stats, processed'[r] > 0, r \notin doubtful,
                      record[r] # "cleared"
               PROVE  \E q \in Request : request'[q].step = "answered" /\ r \in request'[q].stats
    BY <1>1 DEF Settled
  <2>1. CASE r \in request[p].stats
    BY <1>4, <2>1
  <2>2. CASE r \notin request[p].stats
    <3>1. PICK q \in Request : request[q].step = "answered" /\ r \in request[q].stats
      BY <1>2, <2>2 DEF Settled, StatsInv
    <3> QED
      BY <1>4, <3>1
  <2> QED
    BY <2>1, <2>2
<1>8. DuplicatesExplained'
  <2> SUFFICES ASSUME NEW r \in Stats, processed'[r] > 1, r \notin doubtful
               PROVE  FALSE
    BY <1>1 DEF DuplicatesExplained
  <2>1. r \in request[p].stats
    BY <1>2 DEF DuplicatesExplained, StatsInv
  <2>2. record[r] = "reporting" /\ \A q \in Request : r \in request[q].stats => q = p
    BY <2>1 DEF HeldOnce, StatsInv
  <2>3. processed[r] = 0
    BY <1>1, <1>9, <2>2 DEF Settled, StatsInv
  <2>4. processed'[r] <= 1
    BY <1>0, <1>1, <2>3, ProcessOne
  <2> QED
    BY <1>9, <2>4
<1> QED
  BY <1>3, <1>5, <1>6, <1>7, <1>8 DEF StatsInv

\* The answer is lost after the server processed the request: its records
\* are in doubt from here on.
LEMMA AnswerLostStep ==
  ASSUME StatsInv, NEW p \in Request, AnswerLost(p)
  PROVE  StatsInv'
<1>0. RecordTypes
  BY DEF StatsInv
<1>1. /\ request[p].step = "sent"
      /\ processed' = Process({p})
      /\ request' = [request EXCEPT ![p].step = "failed"]
      /\ doubtful' = doubtful \cup request[p].stats
      /\ UNCHANGED <<user, record, stranded, raced>>
  BY DEF AnswerLost
<1>2. \A r \in Stats :
        /\ processed'[r] >= processed[r]
        /\ r \notin request[p].stats => processed'[r] = processed[r]
  BY <1>0, <1>1, ProcessCounts
<1>3. RecordTypes'
  <2>1. processed' \in [Stats -> 0..2]
    BY <1>0, <1>1, ProcessCounts DEF Process, RecordTypes
  <2>2. faults' \in 0..MaxFaults
    BY <1>0, StatsAssumption DEF RecordTypes, AnswerLost
  <2>3. doubtful' \subseteq Stats
    BY <1>0, <1>1 DEF RecordTypes
  <2> QED
    BY <1>0, <1>1, <2>1, <2>2, <2>3, NextStep DEF RecordTypes
<1>4. /\ \A q \in Request : request'[q].stats = request[q].stats
      /\ \A q \in Request : request'[q].step = IF q = p THEN "failed" ELSE request[q].step
  BY <1>0, <1>1, NextStep
<1>5. /\ \A q \in Request : request[q].stats \subseteq Stats
      /\ \A r \in Stats : processed[r] \in Nat /\ processed'[r] \in Nat
  BY <1>0, <1>3 DEF RecordTypes
<1>6. HeldValid' /\ HeldOnce'
  BY <1>1, <1>4 DEF HeldValid, HeldOnce, StatsInv
<1>7. AnsweredProcessed' /\ NoStatLost'
  <2>1. \A r \in Stats : processed[r] > 0 => processed'[r] > 0
    BY <1>2, <1>5
  <2>2. NoStatLost'
    BY <1>1, <2>1 DEF NoStatLost, StatsInv
  <2>3. AnsweredProcessed'
    BY <1>4, <1>5, <2>1 DEF AnsweredProcessed, StatsInv
  <2> QED
    BY <2>2, <2>3
<1>8. Settled' /\ DuplicatesExplained'
  <2>1. \A q \in Request : request[q].step = "answered" => request'[q].step = "answered"
    BY <1>1, <1>4
  <2>2. \A r \in Stats : r \notin doubtful' => r \notin doubtful /\ processed'[r] = processed[r]
    BY <1>1, <1>2
  <2>3. Settled'
    BY <1>1, <1>4, <2>1, <2>2 DEF Settled, StatsInv
  <2>4. DuplicatesExplained'
    BY <2>2 DEF DuplicatesExplained, StatsInv
  <2> QED
    BY <2>3, <2>4
<1> QED
  BY <1>3, <1>6, <1>7, <1>8 DEF StatsInv

\* A request ends without a change of the records it holds, or with the
\* state v for each of them.
LEMMA EndRequest ==
  ASSUME RecordTypes, NEW p \in Request, request' = [request EXCEPT ![p] = Idle]
  PROVE  /\ request' \in [Request -> [step : {"idle", "taken", "sent", "answered", "failed"},
                                       stats : SUBSET Stats]]
         /\ \A q \in Request : request'[q].stats = IF q = p THEN {} ELSE request[q].stats
         /\ \A q \in Request : request'[q].step = IF q = p THEN "idle" ELSE request[q].step
         /\ \A q \in Request : request'[q].step = "idle" <=> request'[q].stats = {}
<1>1. Idle \in [step : {"idle", "taken", "sent", "answered", "failed"}, stats : SUBSET Stats]
  BY DEF Idle
<1>2. \A q \in Request : request'[q] = IF q = p THEN Idle ELSE request[q]
  BY DEF RecordTypes
<1>3. Idle.step = "idle" /\ Idle.stats = {}
  BY DEF Idle
<1> QED
  BY <1>1, <1>2, <1>3 DEF RecordTypes

\* So does putting them back.
LEMMA PutBackStep ==
  ASSUME StatsInv, NEW p \in Request, PutBack(p)
  PROVE  StatsInv'
<1>0. RecordTypes
  BY DEF StatsInv
<1>1. /\ request[p].step = "failed"
      /\ request' = [request EXCEPT ![p] = Idle]
      /\ record' = Set(record, request[p].stats, "unreported")
      /\ UNCHANGED <<user, processed, doubtful, stranded, raced, faults>>
  BY DEF PutBack
<1>2. /\ \A q \in Request : request'[q].stats = IF q = p THEN {} ELSE request[q].stats
      /\ \A q \in Request : request'[q].step = IF q = p THEN "idle" ELSE request[q].step
  BY <1>0, <1>1, EndRequest
<1>3. \A r \in Stats : record'[r] = IF r \in request[p].stats THEN "unreported" ELSE record[r]
  BY <1>0, <1>1, SetRecords
<1>4. RecordTypes'
  <2>1. record' \in [Stats -> {"none", "unreported", "reporting", "cleared", "discarded"}]
    BY <1>0, <1>1 DEF RecordTypes, Set
  <2> QED
    BY <1>0, <1>1, <2>1, EndRequest DEF RecordTypes
<1>5. HeldValid' /\ HeldOnce'
  BY <1>1, <1>2, <1>3 DEF HeldValid, HeldOnce, StatsInv
<1>6. AnsweredProcessed' /\ NoStatLost' /\ DuplicatesExplained'
  BY <1>1, <1>2, <1>3 DEF AnsweredProcessed, NoStatLost, DuplicatesExplained, StatsInv
<1>7. Settled'
  <2> SUFFICES ASSUME NEW r \in Stats, processed[r] > 0, r \notin doubtful
               PROVE  \/ record'[r] = "cleared"
                      \/ \E q \in Request : request'[q].step = "answered" /\ r \in request'[q].stats
    BY <1>1 DEF Settled
  <2>1. r \notin request[p].stats
    BY <1>1 DEF Settled, HeldOnce, StatsInv
  <2>2. record'[r] = record[r]
    BY <1>3, <2>1
  <2>3. CASE record[r] = "cleared"
    BY <2>2, <2>3
  <2>4. CASE record[r] # "cleared"
    <3>1. PICK q \in Request : request[q].step = "answered" /\ r \in request[q].stats
      BY <2>4 DEF Settled, StatsInv
    <3> QED
      BY <1>1, <1>2, <3>1
  <2> QED
    BY <2>3, <2>4
<1> QED
  BY <1>4, <1>5, <1>6, <1>7 DEF StatsInv

\* So does clearing them.
LEMMA ClearStep ==
  ASSUME StatsInv, NEW p \in Request, Clear(p)
  PROVE  StatsInv'
<1>0. RecordTypes
  BY DEF StatsInv
<1>1. /\ request[p].step = "answered"
      /\ request' = [request EXCEPT ![p] = Idle]
      /\ record' = Set(record, request[p].stats, "cleared")
      /\ UNCHANGED <<user, processed, doubtful, stranded, raced, faults>>
  BY DEF Clear
<1>2. /\ \A q \in Request : request'[q].stats = IF q = p THEN {} ELSE request[q].stats
      /\ \A q \in Request : request'[q].step = IF q = p THEN "idle" ELSE request[q].step
  BY <1>0, <1>1, EndRequest
<1>3. \A r \in Stats : record'[r] = IF r \in request[p].stats THEN "cleared" ELSE record[r]
  BY <1>0, <1>1, SetRecords
<1>4. RecordTypes'
  <2>1. record' \in [Stats -> {"none", "unreported", "reporting", "cleared", "discarded"}]
    BY <1>0, <1>1 DEF RecordTypes, Set
  <2> QED
    BY <1>0, <1>1, <2>1, EndRequest DEF RecordTypes
<1>5. HeldValid' /\ HeldOnce'
  BY <1>1, <1>2, <1>3 DEF HeldValid, HeldOnce, StatsInv
<1>6. AnsweredProcessed' /\ NoStatLost' /\ DuplicatesExplained'
  BY <1>1, <1>2, <1>3 DEF AnsweredProcessed, NoStatLost, DuplicatesExplained, StatsInv
<1>7. Settled'
  BY <1>1, <1>2, <1>3 DEF Settled, StatsInv
<1> QED
  BY <1>4, <1>5, <1>6, <1>7 DEF StatsInv

\* So does a datastore update that fails.
LEMMA UpdateFailsStep ==
  ASSUME StatsInv, NEW p \in Request, UpdateFails(p)
  PROVE  StatsInv'
<1>0. RecordTypes
  BY DEF StatsInv
<1>1. /\ request' = [request EXCEPT ![p] = Idle]
      /\ doubtful' = doubtful \cup request[p].stats
      /\ stranded' = stranded \cup request[p].stats
      /\ UNCHANGED <<user, record, processed, raced>>
  BY DEF UpdateFails
<1>2. /\ \A q \in Request : request'[q].stats = IF q = p THEN {} ELSE request[q].stats
      /\ \A q \in Request : request'[q].step = IF q = p THEN "idle" ELSE request[q].step
  BY <1>0, <1>1, EndRequest
<1>3. RecordTypes'
  <2>1. doubtful' \subseteq Stats /\ stranded' \subseteq Stats
    BY <1>0, <1>1 DEF RecordTypes
  <2>2. faults' \in 0..MaxFaults
    BY <1>0, StatsAssumption DEF RecordTypes, UpdateFails
  <2> QED
    BY <1>0, <1>1, <2>1, <2>2, EndRequest DEF RecordTypes
<1>4. HeldValid' /\ HeldOnce'
  BY <1>1, <1>2 DEF HeldValid, HeldOnce, StatsInv
<1>5. AnsweredProcessed' /\ NoStatLost' /\ DuplicatesExplained'
  BY <1>1, <1>2 DEF AnsweredProcessed, NoStatLost, DuplicatesExplained, StatsInv
<1>6. Settled'
  BY <1>1, <1>2 DEF Settled, StatsInv
<1> QED
  BY <1>3, <1>4, <1>5, <1>6 DEF StatsInv

\* A crash puts in doubt whatever a request held.
LEMMA CrashStep ==
  ASSUME StatsInv, NEW G \in SUBSET Request, Crash(G)
  PROVE  StatsInv'
<1>0. RecordTypes
  BY DEF StatsInv
<1>1. /\ request' = [q \in Request |-> Idle]
      /\ processed' = Process(G)
      /\ doubtful' = doubtful \cup InFlight
      /\ user' = [u \in User |-> "out"]
      /\ UNCHANGED <<record, stranded, raced>>
  BY DEF Crash
<1>2. /\ \A q \in Request : request'[q].step = "idle" /\ request'[q].stats = {}
      /\ \A q \in Request : request[q].stats \subseteq InFlight
      /\ InFlight \subseteq Stats
  BY <1>0, <1>1 DEF Idle, InFlight, RecordTypes
<1>3. \A r \in Stats :
        /\ processed'[r] >= processed[r]
        /\ r \notin InFlight => processed'[r] = processed[r]
  BY <1>0, <1>1, <1>2, ProcessCounts
<1>4. RecordTypes'
  <2>1. processed' \in [Stats -> 0..2]
    BY <1>0, <1>1, ProcessCounts DEF Process, RecordTypes
  <2>2. faults' \in 0..MaxFaults
    BY <1>0, StatsAssumption DEF RecordTypes, Crash
  <2>3. request' \in [Request -> [step : {"idle", "taken", "sent", "answered", "failed"},
                                  stats : SUBSET Stats]]
    BY <1>1 DEF Idle
  <2> QED
    BY <1>0, <1>1, <1>2, <2>1, <2>2, <2>3 DEF RecordTypes
<1>5. \A r \in Stats : processed[r] \in Nat /\ processed'[r] \in Nat
  BY <1>0, <1>4 DEF RecordTypes
<1>6. HeldValid' /\ HeldOnce' /\ AnsweredProcessed'
  BY <1>2 DEF HeldValid, HeldOnce, AnsweredProcessed
<1>7. NoStatLost'
  BY <1>1, <1>3, <1>5 DEF NoStatLost, StatsInv
<1>8. Settled' /\ DuplicatesExplained'
  BY <1>1, <1>2, <1>3 DEF Settled, DuplicatesExplained, StatsInv
<1> QED
  BY <1>4, <1>6, <1>7, <1>8 DEF StatsInv

\* Every step preserves the invariant.
LEMMA StatsInvInductive == StatsInv /\ [Next]_vars => StatsInv'
<1> SUFFICES ASSUME StatsInv, [Next]_vars
             PROVE  StatsInv'
  OBVIOUS
<1>1. CASE \E u \in User : \/ OpenNested(u) \/ OpenFirst(u) \/ ResetAll(u) \/ ResetFails(u)
                           \/ CloseDataStore(u)
  BY <1>1, UserSteps, ResetStep, ResetFailsStep
<1>2. CASE \E r \in Stats : StorePersistentStat(r)
  BY <1>2, StoreStep
<1>3. CASE \E q \in Request : \/ TakeOut(q) \/ Send(q) \/ Answer(q) \/ SendFails(q)
                              \/ AnswerLost(q) \/ PutBack(q) \/ Clear(q) \/ UpdateFails(q)
  BY <1>3, TakeOutStep, SendSteps, AnswerStep, AnswerLostStep, PutBackStep, ClearStep,
     UpdateFailsStep
<1>4. CASE \E G \in SUBSET Request : Crash(G)
  BY <1>4, CrashStep
<1>5. CASE UNCHANGED vars
  BY <1>5 DEF vars, StatsInv, RecordTypes, HeldValid, HeldOnce, AnsweredProcessed,
     Settled, NoStatLost, DuplicatesExplained
<1> QED
  BY <1>1, <1>2, <1>3, <1>4, <1>5 DEF Next

\* It holds initially.
LEMMA InitStatsInv == Init => StatsInv
<1> SUFFICES ASSUME Init PROVE StatsInv
  OBVIOUS
<1>1. \A q \in Request : request[q].step = "idle" /\ request[q].stats = {}
  BY DEF Init, Idle
<1>2. RecordTypes
  <2>1. request \in [Request -> [step : {"idle", "taken", "sent", "answered", "failed"},
                                 stats : SUBSET Stats]]
    BY DEF Init, Idle
  <2>2. processed \in [Stats -> 0..2] /\ faults \in 0..MaxFaults
    BY StatsAssumption DEF Init
  <2> QED
    BY <1>1, <2>1, <2>2 DEF Init, RecordTypes
<1>3. \A r \in Stats : record[r] = "none" /\ processed[r] = 0
  BY DEF Init
<1> QED
  BY <1>1, <1>2, <1>3 DEF StatsInv, HeldValid, HeldOnce, AnsweredProcessed, Settled,
     NoStatLost, DuplicatesExplained

\* The inductive invariant holds in every state the client reaches.
THEOREM StatsInvariant == Spec => []StatsInv
BY InitStatsInv, StatsInvInductive, PTL DEF Spec

\* A persistent stat leaves the datastore only after the server processed it:
\* whatever requests fail, and wherever the client crashes between taking
\* records out, sending them and clearing them.
THEOREM StatsNoStatLost == Spec => []NoStatLost
<1>1. StatsInv => NoStatLost
  BY DEF StatsInv
<1> QED
  BY <1>1, StatsInvariant, PTL

\* Status requests of several tunnels never have the same record in their
\* hands, unless resetAllPersistentStatsToUnreported ran late.
THEOREM StatsNotReportedTwiceAtOnce == Spec => []NotReportedTwiceAtOnce
<1>1. StatsInv => NotReportedTwiceAtOnce
  <2> SUFFICES ASSUME StatsInv, ~ raced, NEW p \in Request, NEW q \in Request, p # q,
                      NEW r \in request[p].stats, r \in request[q].stats
               PROVE  FALSE
    BY DEF NotReportedTwiceAtOnce
  <2>1. r \in Stats
    BY DEF StatsInv, RecordTypes
  <2> QED
    BY <2>1 DEF StatsInv, HeldOnce
<1> QED
  BY <1>1, StatsInvariant, PTL

\* The server processes a record twice only after a step that left the client
\* in doubt: a lost response, a failed update, a crash, or a late reset.
THEOREM StatsDuplicatesExplained == Spec => []DuplicatesExplained
<1>1. StatsInv => DuplicatesExplained
  BY DEF StatsInv
<1> QED
  BY <1>1, StatsInvariant, PTL

------------------------------------------------------------------------------
(* The reference count                                                      *)

\* The users are finite in number.
LEMMA UsersFinite == IsFiniteSet(Users) /\ Cardinality(Users) \in 0..Cardinality(User)
<1>1. Users \in SUBSET User
  BY DEF Users
<1>2. IsFiniteSet(Users) /\ Cardinality(Users) <= Cardinality(User)
  BY <1>1, StatsAssumption, FS_Subset
<1> QED
  BY <1>2, StatsAssumption, FS_CardinalityType

\* The datastore is closed by its last user only.
LEMMA OpenWhileUsedInductive ==
  ASSUME RecordTypes, OpenWhileUsed, [Next]_vars
  PROVE  OpenWhileUsed'
<1> DEFINE n == Cardinality(Users)
<1>1. IsFiniteSet(Users) /\ n \in Nat /\ (n = 0 <=> Users = {})
  BY UsersFinite, FS_EmptySet, FS_CardinalityType
<1>2. ASSUME NEW u \in User, user[u] = "out", NEW s \in {"opening", "in"},
             user' = [user EXCEPT ![u] = s]
      PROVE  Cardinality(Users') = n + 1
  <2>1. Users' = Users \cup {u} /\ u \notin Users
    BY <1>2 DEF Users, RecordTypes
  <2> QED
    BY <1>1, <2>1, FS_AddElement
<1>3. ASSUME NEW u \in User, OpenNested(u)
      PROVE  OpenWhileUsed'
  <2>1. Cardinality(Users') = n + 1
    BY <1>2, <1>3 DEF OpenNested
  <2> HIDE DEF n
  <2>2. refCount = n
    BY DEF OpenWhileUsed, n
  <2> QED
    BY <1>1, <1>3, <2>1, <2>2 DEF OpenWhileUsed, OpenNested
<1>4. ASSUME NEW u \in User, OpenFirst(u)
      PROVE  OpenWhileUsed'
  <2>1. Cardinality(Users') = n + 1
    BY <1>2, <1>4 DEF OpenFirst
  <2> HIDE DEF n
  <2>2. refCount = n
    BY DEF OpenWhileUsed, n
  <2> QED
    BY <1>1, <1>4, <2>1, <2>2 DEF OpenWhileUsed, OpenFirst
<1>5. ASSUME NEW u \in User, ResetAll(u) \/ ResetFails(u)
      PROVE  OpenWhileUsed'
  <2>1. Users' = Users
    BY <1>5 DEF Users, RecordTypes, ResetAll, ResetFails
  <2> QED
    BY <1>5, <2>1 DEF OpenWhileUsed, ResetAll, ResetFails
<1>6. ASSUME NEW u \in User, CloseDataStore(u)
      PROVE  OpenWhileUsed'
  <2>1. Users' = Users \ {u} /\ u \in Users
    BY <1>6 DEF Users, RecordTypes, CloseDataStore
  <2>2. Cardinality(Users') = n - 1 /\ n # 0
    BY <1>1, <2>1, FS_RemoveElement
  <2> HIDE DEF n
  <2>3. refCount = n
    BY DEF OpenWhileUsed, n
  <2>4. refCount' = n - 1 /\ db' = (refCount > 1)
    BY <1>6, <2>3 DEF CloseDataStore
  <2>5. db' \in BOOLEAN
    BY <2>4
  <2>6. refCount > 1 <=> n - 1 > 0
    BY <1>1, <2>3
  <2>7. db' <=> n - 1 > 0
    BY <2>4, <2>6, Zenon
  <2> QED
    BY <2>2, <2>4, <2>5, <2>7 DEF OpenWhileUsed
<1>7. ASSUME NEW G \in SUBSET Request, Crash(G)
      PROVE  OpenWhileUsed'
  <2>1. Users' = {}
    BY <1>7 DEF Users, Crash
  <2>2. Cardinality(Users') = 0
    BY <2>1, FS_EmptySet
  <2>3. refCount' = 0 /\ db' = FALSE
    BY <1>7 DEF Crash
  <2>4. ~ (refCount' > 0)
    BY <2>3
  <2> QED
    BY <2>2, <2>3, <2>4, Zenon DEF OpenWhileUsed
<1>8. ASSUME UNCHANGED <<user, refCount, db>>
      PROVE  OpenWhileUsed'
  BY <1>8 DEF OpenWhileUsed, Users
<1>9. CASE \E r \in Stats : StorePersistentStat(r)
  BY <1>8, <1>9, Zenon DEF StorePersistentStat
<1>10. CASE \E q \in Request : \/ TakeOut(q) \/ Send(q) \/ Answer(q) \/ SendFails(q)
                               \/ AnswerLost(q) \/ PutBack(q) \/ Clear(q) \/ UpdateFails(q)
  BY <1>8, <1>10 DEF TakeOut, Send, Answer, SendFails, AnswerLost, PutBack, Clear, UpdateFails
<1>11. CASE UNCHANGED vars
  BY <1>8, <1>11 DEF vars
<1> QED
  BY <1>3, <1>4, <1>5, <1>6, <1>7, <1>9, <1>10, <1>11 DEF Next

\* The datastore is open exactly while someone holds a reference, and its
\* count is the number of those that do: no sequence of opens, nested opens,
\* closes and crashes leaves it closed under a user or open with none.
THEOREM StatsOpenWhileUsed == Spec => []OpenWhileUsed
<1>1. Init => OpenWhileUsed
  <2>1. Init => Users = {}
    BY DEF Init, Users
  <2>2. Init => Cardinality(Users) = 0
    BY <2>1, FS_EmptySet
  <2>3. Init => refCount = 0 /\ ~ (refCount > 0)
    BY DEF Init
  <2> QED
    BY <2>2, <2>3, Zenon DEF Init, OpenWhileUsed
<1>2. StatsInv /\ OpenWhileUsed /\ [Next]_vars => OpenWhileUsed'
  BY OpenWhileUsedInductive DEF StatsInv
<1> QED
  BY <1>1, <1>2, StatsInvariant, PTL DEF Spec

\* Every variable keeps its type; the reference count never exceeds the
\* number of users.
THEOREM StatsTypeCorrect == Spec => []TypeOK
<1>1. StatsInv /\ OpenWhileUsed => TypeOK
  BY UsersFinite DEF StatsInv, RecordTypes, OpenWhileUsed, TypeOK
<1> QED
  BY <1>1, StatsInvariant, StatsOpenWhileUsed, PTL

==============================================================================
