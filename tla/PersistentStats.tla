--------------------------- MODULE PersistentStats ---------------------------
(***************************************************************************)
(* The persistent stats of the client: the reference counted datastore     *)
(* (openDataStore and CloseDataStore of psiphon/dataStore.go), the records *)
(* in it, and the status requests (psiphon/serverApi.go) that take records *)
(* out, send them, and clear them or put them back.  Requests of several   *)
(* tunnels run at the same time; a request or its response may be lost, a  *)
(* transaction may fail, and the client may crash at any step.             *)
(*                                                                         *)
(* The datastore is opened by the tunnelling client (Client) and by others *)
(* that run beside it: feedback upload and stand-alone tactics (User).     *)
(* Records are unique, as StorePersistentStat assumes.                     *)
(***************************************************************************)
EXTENDS Integers, FiniteSets

CONSTANTS User,              \* callers of OpenDataStore
          Client,            \* the user whose tunnels make status requests
          Request,           \* tunnels, each with at most one status request
          Stats,             \* the records: numbers, in the order of their keys
          FailedTunnel,      \* those of type failed tunnel; the others are
                             \* of type remote server list
          Invalid,           \* those whose key is damaged in the datastore
          MaxStoreRecords,   \* PersistentStatsMaxStoreRecords, per type
          MaxSendRecords,    \* PersistentStatsMaxSendBytes less the size of the
                             \* tags to check, in records of equal size
          MaxFaults          \* bound: crashes, lost messages, failed updates

ASSUME StatsAssumption ==
  /\ Client \in User /\ IsFiniteSet(User) /\ IsFiniteSet(Request)
  /\ Stats \subseteq Nat /\ IsFiniteSet(Stats) /\ FailedTunnel \subseteq Stats
  /\ Invalid \subseteq Stats
  /\ MaxStoreRecords \in Nat \ {0} /\ MaxSendRecords \in Nat /\ MaxFaults \in Nat

VARIABLES user,        \* per user: "out", "opening" (reset to come) or "in"
          refCount,    \* datastoreReferenceCount
          db,          \* activeDatastoreDB # nil
          record,      \* per record: its state in the datastore
          request,     \* per request: its step and the records it took out
          processed,   \* history: how often (up to twice) the server
                       \* processed a record
          doubtful,    \* history: records that may be reported again
          stranded,    \* history: records an update that failed left in
                       \* StateReporting, with no reset since
          raced,       \* history: a reset hit records of a running request
          faults       \* number of faults so far

vars == <<user, refCount, db, record, request, processed, doubtful, stranded,
          raced, faults>>

persistentStatTypes == {Stats \ FailedTunnel, FailedTunnel}

Stored == {r \in Stats : record[r] \in {"unreported", "reporting"}}

Idle == [step |-> "idle", stats |-> {}]

\* Type correctness; a tunnel without a status request holds no records.
TypeOK ==
  /\ user \in [User -> {"out", "opening", "in"}]
  /\ refCount \in 0..Cardinality(User) /\ db \in BOOLEAN
  /\ record \in [Stats -> {"none", "unreported", "reporting", "cleared", "discarded"}]
  /\ request \in [Request -> [step : {"idle", "taken", "sent", "answered", "failed"},
                              stats : SUBSET Stats]]
  /\ \A q \in Request : request[q].step = "idle" <=> request[q].stats = {}
  /\ processed \in [Stats -> 0..2]
  /\ doubtful \subseteq Stats /\ stranded \subseteq Stats
  /\ raced \in BOOLEAN /\ faults \in 0..MaxFaults

Init ==
  /\ user = [u \in User |-> "out"]
  /\ refCount = 0 /\ db = FALSE
  /\ record = [r \in Stats |-> "none"]
  /\ request = [q \in Request |-> Idle]
  /\ processed = [r \in Stats |-> 0]
  /\ doubtful = {} /\ stranded = {}
  /\ raced = FALSE /\ faults = 0

Set(f, S, v) == [r \in DOMAIN f |-> IF r \in S THEN v ELSE f[r]]

\* The records that running requests took out.
InFlight == UNION {request[q].stats : q \in Request}

------------------------------------------------------------------------------
(* Opening and closing the datastore: each runs under                       *)
(* datastoreReferenceCountMutex.                                            *)

\* openDataStore when the datastore is open: a reference is added.
OpenNested(u) ==
  /\ user[u] = "out" /\ refCount > 0 /\ db
  /\ refCount' = refCount + 1
  /\ user' = [user EXCEPT ![u] = "in"]
  /\ UNCHANGED <<db, record, request, processed, doubtful, stranded, raced, faults>>

\* openDataStore by the first user; the locks are released before the reset.
OpenFirst(u) ==
  /\ user[u] = "out" /\ refCount = 0 /\ ~ db
  /\ refCount' = 1 /\ db' = TRUE
  /\ user' = [user EXCEPT ![u] = "opening"]
  /\ UNCHANGED <<record, request, processed, doubtful, stranded, raced, faults>>

Mutant_ResetNone(u) ==
  /\ user[u] = "opening"
  /\ user' = [user EXCEPT ![u] = "in"]
  /\ stranded' = {}
  /\ UNCHANGED <<refCount, db, record, request, processed, doubtful, raced, faults>>

\* resetAllPersistentStatsToUnreported, before openDataStore returns.
ResetAll(u) ==
  /\ user[u] = "opening"
  /\ user' = [user EXCEPT ![u] = "in"]
  /\ record' = Set(record, Stored, "unreported")
  /\ doubtful' = doubtful \cup InFlight
  /\ stranded' = {}
  /\ raced' = (raced \/ InFlight # {})
  /\ UNCHANGED <<refCount, db, request, processed, faults>>

\* The transaction of the reset fails.  openDataStore ignores the error: what
\* an earlier run of the client left in StateReporting stays there.
ResetFails(u) ==
  /\ user[u] = "opening" /\ faults < MaxFaults
  /\ faults' = faults + 1
  /\ user' = [user EXCEPT ![u] = "in"]
  /\ stranded' = stranded \cup {r \in Stats \ InFlight : record[r] = "reporting"}
  /\ UNCHANGED <<refCount, db, record, request, processed, doubtful, raced>>

\* CloseDataStore; the client's tunnels are closed, and waited for, before.
CloseDataStore(u) ==
  /\ user[u] = "in"
  /\ u = Client => \A q \in Request : request[q] = Idle
  /\ user' = [user EXCEPT ![u] = "out"]
  /\ refCount' = refCount - 1
  /\ db' = (refCount > 1)
  /\ UNCHANGED <<record, request, processed, doubtful, stranded, raced, faults>>

------------------------------------------------------------------------------
(* Records and status requests.  A transaction needs the open datastore.    *)

\* StorePersistentStat: a record beyond the limit of its type is discarded.
StorePersistentStat(r) ==
  /\ user[Client] = "in" /\ db
  /\ record[r] = "none"
  /\ LET type == CHOOSE T \in persistentStatTypes : r \in T
     IN record' = [record EXCEPT ![r] =
          IF Cardinality(Stored \cap type) >= MaxStoreRecords
          THEN "discarded" ELSE "unreported"]
  /\ UNCHANGED <<user, refCount, db, request, processed, doubtful, stranded,
                 raced, faults>>

\* The size limit is looked at after a record was taken, so one is.
AtLeastOne(n) == IF n < 1 THEN 1 ELSE n

Sendable(T) == {r \in T \ Invalid : record[r] = "unreported"}

\* The records of type T that the cursor comes to before the size limit, of n
\* records, leaves the loop over this type.
Visited(T, n) == {r \in Stored \cap T : Cardinality({x \in Sendable(T) : x < r}) < n}

\* The types are visited in turn, and share the limit.
AllVisited ==
  LET A == Visited(Stats \ FailedTunnel, AtLeastOne(MaxSendRecords))
      sent == Cardinality(A \cap Sendable(Stats))
  IN A \cup Visited(FailedTunnel, AtLeastOne(MaxSendRecords - sent))

TakenOut == AllVisited \cap Sendable(Stats)

\* The request that holds the records S, if there are any.
Taken(S) == IF S = {} THEN Idle ELSE [step |-> "taken", stats |-> S]

Mutant_TakeOutUnmarked(q) ==
  /\ user[Client] = "in" /\ db
  /\ request[q] = Idle /\ TakenOut # {}
  /\ request' = [request EXCEPT ![q] = Taken(TakenOut)]
  /\ UNCHANGED <<user, refCount, db, record, processed, doubtful, stranded,
                 raced, faults>>

\* TakeOutUnreportedPersistentStats, for makeStatusRequestPayload.  A record
\* whose key does not unmarshal is skipped, and deleted.
TakeOut(q) ==
  /\ user[Client] = "in" /\ db
  /\ request[q] = Idle /\ TakenOut \cup (AllVisited \cap Invalid) # {}
  /\ record' = [r \in Stats |-> CASE r \in TakenOut -> "reporting"
                                  [] r \in AllVisited \cap Invalid -> "discarded"
                                  [] OTHER -> record[r]]
  /\ request' = [request EXCEPT ![q] = Taken(TakenOut)]
  /\ UNCHANGED <<user, refCount, db, processed, doubtful, stranded, raced, faults>>

\* DoStatusRequest sends the payload.
Send(q) ==
  /\ request[q].step = "taken"
  /\ request' = [request EXCEPT ![q].step = "sent"]
  /\ UNCHANGED <<user, refCount, db, record, processed, doubtful, stranded,
                 raced, faults>>

\* The server processes the requests in G.
Process(G) == [r \in Stats |->
  LET n == processed[r] + Cardinality({q \in G : r \in request[q].stats})
  IN IF n > 2 THEN 2 ELSE n]

\* The server processes the request, and its response arrives.
Answer(q) ==
  /\ request[q].step = "sent"
  /\ processed' = Process({q})
  /\ request' = [request EXCEPT ![q].step = "answered"]
  /\ UNCHANGED <<user, refCount, db, record, doubtful, stranded, raced, faults>>

\* The payload cannot be built or sent.
SendFails(q) ==
  /\ request[q].step \in {"taken", "sent"} /\ faults < MaxFaults
  /\ faults' = faults + 1
  /\ request' = [request EXCEPT ![q].step = "failed"]
  /\ UNCHANGED <<user, refCount, db, record, processed, doubtful, stranded, raced>>

\* The server processes the request, but the client receives no response.
AnswerLost(q) ==
  /\ request[q].step = "sent" /\ faults < MaxFaults
  /\ faults' = faults + 1
  /\ processed' = Process({q})
  /\ doubtful' = doubtful \cup request[q].stats
  /\ request' = [request EXCEPT ![q].step = "failed"]
  /\ UNCHANGED <<user, refCount, db, record, stranded, raced>>

Mutant_PutBackAnswered(q) ==
  /\ request[q].step \in {"failed", "answered"} /\ db
  /\ record' = Set(record, request[q].stats, "unreported")
  /\ request' = [request EXCEPT ![q] = Idle]
  /\ UNCHANGED <<user, refCount, db, processed, doubtful, stranded, raced, faults>>

\* PutBackUnreportedPersistentStats
PutBack(q) ==
  /\ request[q].step = "failed" /\ db
  /\ record' = Set(record, request[q].stats, "unreported")
  /\ request' = [request EXCEPT ![q] = Idle]
  /\ UNCHANGED <<user, refCount, db, processed, doubtful, stranded, raced, faults>>

Mutant_ClearAny(q) ==
  /\ request[q].step \in {"answered", "failed"} /\ db
  /\ record' = Set(record, request[q].stats, "cleared")
  /\ request' = [request EXCEPT ![q] = Idle]
  /\ UNCHANGED <<user, refCount, db, processed, doubtful, stranded, raced, faults>>

\* ClearReportedPersistentStats
Clear(q) ==
  /\ request[q].step = "answered" /\ db
  /\ record' = Set(record, request[q].stats, "cleared")
  /\ request' = [request EXCEPT ![q] = Idle]
  /\ UNCHANGED <<user, refCount, db, processed, doubtful, stranded, raced, faults>>

\* The transaction of a put back or of a clear fails; only a warning is
\* logged, and the records stay in StateReporting until the next reset.
UpdateFails(q) ==
  /\ request[q].step \in {"answered", "failed"} /\ faults < MaxFaults
  /\ faults' = faults + 1
  /\ stranded' = stranded \cup request[q].stats
  /\ doubtful' = doubtful \cup request[q].stats
  /\ request' = [request EXCEPT ![q] = Idle]
  /\ UNCHANGED <<user, refCount, db, record, processed, raced>>

\* The client crashes: the records stay, all else is lost.  The server may
\* still process the requests G among those already sent.
Crash(G) ==
  /\ faults < MaxFaults
  /\ \A q \in G : request[q].step = "sent"
  /\ faults' = faults + 1
  /\ user' = [u \in User |-> "out"]
  /\ refCount' = 0 /\ db' = FALSE
  /\ request' = [q \in Request |-> Idle]
  /\ processed' = Process(G)
  /\ doubtful' = doubtful \cup InFlight
  /\ UNCHANGED <<record, stranded, raced>>

Next ==
  \/ \E u \in User : \/ OpenNested(u) \/ OpenFirst(u) \/ ResetAll(u) \/ ResetFails(u)
                     \/ CloseDataStore(u)
  \/ \E r \in Stats : StorePersistentStat(r)
  \/ \E q \in Request : \/ TakeOut(q) \/ Send(q) \/ Answer(q) \/ SendFails(q)
                        \/ AnswerLost(q) \/ PutBack(q) \/ Clear(q) \/ UpdateFails(q)
  \/ \E G \in SUBSET Request : Crash(G)

Spec == Init /\ [][Next]_vars

\* The client runs again and again and long enough for a status request,
\* which operateTunnel makes periodically, and a request runs to its end.
Fairness ==
  /\ \A u \in User : WF_vars(ResetAll(u))
  /\ WF_vars(OpenFirst(Client) \/ OpenNested(Client))
  /\ \A q \in Request : /\ SF_vars(TakeOut(q))
                        /\ WF_vars(Send(q) \/ Answer(q) \/ PutBack(q) \/ Clear(q))

FairSpec == Spec /\ Fairness

------------------------------------------------------------------------------
(* Properties                                                               *)

\* A record leaves the datastore only after the server processed it: not by a
\* failed request, a crash between two of its steps, or a reset.
NoStatLost == \A r \in Stats : record[r] = "cleared" => processed[r] > 0

\* Requests that run at the same time report different records, unless the
\* reset of a slow first open came after their take out.
NotReportedTwiceAtOnce ==
  ~ raced => \A p, q \in Request : p # q => request[p].stats \cap request[q].stats = {}

\* The server processes a record twice only when the client could not know:
\* the response was lost, an update failed, or it crashed with the request
\* running (or the reset came late).
DuplicatesExplained == \A r \in Stats : processed[r] > 1 => r \in doubtful

\* Every stored record that is not damaged is reported in the end, through any
\* number of restarts and a bounded number of faults.  The one exception is a
\* record that a failed update left in StateReporting in a client that is never
\* started again; what a crash leaves there is reset when the datastore opens.
EventuallyReported ==
  \A r \in Stats \ Invalid : record[r] = "unreported" ~>
    (processed[r] > 0 \/ [](r \in stranded /\ record[r] = "reporting"))

==============================================================================
