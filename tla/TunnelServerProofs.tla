------------------------- MODULE TunnelServerProofs -------------------------
(***************************************************************************)
(* Theorems about TunnelServer: for any number of clients of a session,    *)
(* any finite number of port forwards and any limits.                      *)
(***************************************************************************)
EXTENDS TunnelServer, FiniteSetTheorems, SequenceTheorems, TLAPS

-----------------------------------------------------------------------------
(* The registry of established clients.                                    *)

RegistryTypes ==
    /\ client \in [Client -> {"handshake", "evict", "await", "register", "running",
                              "draining", "drained", "exited"}]
    /\ registered \in Client \cup {None}
    /\ stopping \in BOOLEAN

RegistryInv == RegistryTypes /\ OneTunnelPerSession

\* The invariant of the client registry holds initially.
LEMMA InitRegistryInv == Init => RegistryInv
<1> SUFFICES ASSUME Init PROVE RegistryInv
    OBVIOUS
<1>1. client \in [Client -> {"handshake", "evict", "await", "register", "running",
                             "draining", "drained", "exited"}]
    BY DEF Init
<1>2. registered = None /\ stopping \in BOOLEAN
    BY DEF Init
<1>3. \A c \in Client : client[c] = "handshake" /\ registered # c
    BY ServerAssumption DEF Init
<1> QED
    BY <1>1, <1>2, <1>3 DEF RegistryInv, RegistryTypes, OneTunnelPerSession

\* What the change of phase of one client leaves of the others.
LEMMA GoOne ==
    ASSUME RegistryTypes, NEW c \in Client,
           NEW p \in {"handshake", "evict", "await", "register", "running",
                      "draining", "drained", "exited"}, Go(c, p)
    PROVE  /\ client' \in [Client -> {"handshake", "evict", "await", "register", "running",
                                      "draining", "drained", "exited"}]
           /\ \A d \in Client : client'[d] = IF d = c THEN p ELSE client[d]
BY DEF RegistryTypes, Go

\* Every step preserves it.
LEMMA RegistryInductive == RegistryInv /\ [Next]_vars => RegistryInv'
<1> SUFFICES ASSUME RegistryInv, [Next]_vars
             PROVE  RegistryInv'
    OBVIOUS
<1> USE ServerAssumption DEF RegistryInv
<1>1. ASSUME NEW c \in Client, HandshakeFails(c) \/ RegisterBegin(c) \/ Evict(c) \/ Evicted(c)
      PROVE  RegistryInv'
    <2>1. /\ client[c] \notin {"running", "draining", "drained"}
          /\ UNCHANGED <<registered, stopping>>
        BY <1>1 DEF HandshakeFails, RegisterBegin, Evict, Evicted
    <2>2. \E p \in {"evict", "await", "register", "exited"} : Go(c, p)
        BY <1>1 DEF HandshakeFails, RegisterBegin, Evict, Evicted
    <2>3. PICK p \in {"evict", "await", "register", "exited"} : Go(c, p)
        BY <2>2
    <2>4. RegistryTypes' /\ \A d \in Client : client'[d] = IF d = c THEN p ELSE client[d]
        BY <2>1, <2>3, GoOne DEF RegistryTypes
    <2> QED
        BY <2>1, <2>4 DEF OneTunnelPerSession
<1>2. ASSUME NEW c \in Client, Register(c), UNCHANGED registered, Go(c, "exited")
      PROVE  RegistryInv'
    <2>1. client[c] = "register" /\ UNCHANGED <<registered, stopping>>
        BY <1>2 DEF Register
    <2>2. RegistryTypes' /\ \A d \in Client : client'[d] = IF d = c THEN "exited" ELSE client[d]
        BY <1>2, <2>1, GoOne DEF RegistryTypes
    <2> QED
        BY <2>1, <2>2 DEF OneTunnelPerSession
<1>3. ASSUME NEW c \in Client, Register(c)
      PROVE  RegistryInv'
    <2>1. CASE registered = None /\ registered' = c /\ Go(c, "running")
        <3>1. UNCHANGED stopping
            BY <1>3 DEF Register
        <3>2. RegistryTypes' /\ \A d \in Client : client'[d] = IF d = c THEN "running" ELSE client[d]
            BY <2>1, <3>1, GoOne DEF RegistryTypes
        <3> QED
            BY <2>1, <3>1, <3>2 DEF OneTunnelPerSession
    <2>2. CASE UNCHANGED registered /\ Go(c, "exited")
        BY <1>2, <1>3, <2>2
    <2> QED
        BY <1>3, <2>1, <2>2 DEF Register
<1>4. ASSUME NEW c \in Client, ChannelsEnd(c) \/ Drained(c)
      PROVE  RegistryInv'
    <2>1. /\ client[c] \in {"running", "draining"}
          /\ UNCHANGED <<registered, stopping>>
        BY <1>4 DEF ChannelsEnd, Drained
    <2>2. \E p \in {"draining", "drained"} : Go(c, p)
        BY <1>4 DEF ChannelsEnd, Drained
    <2>3. PICK p \in {"draining", "drained"} : Go(c, p)
        BY <2>2
    <2>4. RegistryTypes' /\ \A d \in Client : client'[d] = IF d = c THEN p ELSE client[d]
        BY <2>1, <2>3, GoOne DEF RegistryTypes
    <2> QED
        BY <2>1, <2>4 DEF OneTunnelPerSession
<1>5. ASSUME NEW c \in Client, Unregister(c)
      PROVE  RegistryInv'
    <2>1. /\ client[c] = "drained" /\ Go(c, "exited") /\ UNCHANGED stopping
          /\ registered' = IF registered = c THEN None ELSE registered
        BY <1>5 DEF Unregister
    <2>2. RegistryTypes' /\ \A d \in Client : client'[d] = IF d = c THEN "exited" ELSE client[d]
        BY <2>1, GoOne DEF RegistryTypes
    <2> QED
        BY <2>1, <2>2 DEF OneTunnelPerSession
<1>6. CASE StopClients
    BY <1>6 DEF StopClients, RegistryTypes, OneTunnelPerSession
<1>7. ASSUME UNCHANGED <<client, registered, stopping>>
      PROVE  RegistryInv'
    BY <1>7 DEF RegistryTypes, OneTunnelPerSession
<1>8. CASE StopClientsReturns
    BY <1>7, <1>8 DEF StopClientsReturns
<1>9. ASSUME NEW c \in Client, Disconnect(c)
      PROVE  RegistryInv'
    BY <1>7, <1>9 DEF Disconnect
<1>10. ASSUME NEW c \in Client, NEW i \in Forward,
              ForwardStep(c, i) \/ Request(c, i) \/ EndRelay(c, i) \/ Touch(c, i)
       PROVE  RegistryInv'
    <2>1. UNCHANGED clientVars
        BY <1>10 DEF ForwardStep, Request, EndRelay, Touch, Dequeue, CheckDialing, SetDialSignal,
           Unblock, DialFails, DialSucceeds, Establish, CloseOldest, CondLock, CondCheck,
           CondWait, StartRelay, ClosedPortForward, Signal
    <2> QED
        BY <1>7, <2>1 DEF clientVars
<1>11. CASE UNCHANGED vars
    BY <1>7, <1>11 DEF vars, clientVars
<1> QED
    BY <1>1, <1>3, <1>4, <1>5, <1>6, <1>8, <1>9, <1>10, <1>11 DEF Next, ClientStep

\* Until the shutdown the registry holds exactly the client of the session
\* whose tunnel runs or winds down, however many clients of the session evict
\* it and one another: registerEstablishedClient looks again after its wait.
THEOREM ServerOneTunnelPerSession == Spec => []OneTunnelPerSession
<1>1. RegistryInv => OneTunnelPerSession
    BY DEF RegistryInv
<1> QED
    BY <1>1, InitRegistryInv, RegistryInductive, PTL DEF Spec

-----------------------------------------------------------------------------
(* The slots of the port forwards.                                         *)

\* Types of what the slots depend on; lru, whose entries are taken out with
\* SelectSeq, only decides which port forward is closed.
ForwardTypes ==
    /\ client \in [Client -> {"handshake", "evict", "await", "register", "running",
                              "draining", "drained", "exited"}]
    /\ fwd \in [Forward -> {"new", "queued", "reserved", "limited", "blocked", "dialing", "dialed",
                            "full", "locking", "checking", "sleeping", "asleep", "established",
                            "relaying", "ended", "signalling", "finished"}]
    /\ owner \in [Forward -> Client \cup {None}]
    /\ queue \in [Client -> Seq(Forward)]
    /\ manager \in [Client -> Forward \cup {None}]
    /\ dialSignal \in [Client -> {"none", "armed", "fired"}]
    /\ dialing \in [Client -> Nat]
    /\ count \in [Client -> Nat]
    /\ condWait \in [Client -> Seq(Forward)]

DialPhases == {"reserved", "limited", "blocked", "dialing", "dialed", "full", "locking",
               "checking", "sleeping", "asleep"}
SlotPhases == {"established", "relaying", "ended"}
ManagedPhases == {"reserved", "limited", "blocked"}

\* A client whose tunnel does not run yet has no port forward.
OwnerRan ==
    \A i \in Forward : owner[i] # None =>
        client[owner[i]] \in {"running", "draining", "drained", "exited"}

\* The queue of a client holds its own queued requests, each once.
QueueOwn ==
    \A c \in Client : \A k \in 1..Len(queue[c]) :
        /\ fwd[queue[c][k]] = "queued" /\ owner[queue[c][k]] = c
        /\ \A m \in 1..Len(queue[c]) : queue[c][k] = queue[c][m] => k = m

\* The waiters of a client's condition variable are its own sleepers.
WaitOwn ==
    \A c \in Client : \A k \in 1..Len(condWait[c]) :
        /\ fwd[condWait[c][k]] = "asleep" /\ owner[condWait[c][k]] = c
        /\ \A m \in 1..Len(condWait[c]) : condWait[c][k] = condWait[c][m] => k = m

\* The manager works on one request, and knows it.
ManagerOne ==
    /\ \A i \in Forward : fwd[i] \in ManagedPhases => \E c \in Client : manager[c] = i
    /\ \A c \in Client : manager[c] # None =>
         fwd[manager[c]] \in ManagedPhases /\ owner[manager[c]] = c
    /\ \A c \in Client : dialSignal[c] # "none" =>
         manager[c] # None /\ fwd[manager[c]] = "blocked"

\* The counters are the slots held.
Exact ==
    \A c \in Client :
        /\ dialing[c] = Cardinality(HoldsDialing(c))
        /\ count[c] = Cardinality(HoldsSlot(c))

\* There is room for a dial before the manager takes a request and after a
\* slot was signalled to it.
WithinLimits ==
    \A c \in Client :
        /\ MaxForwards > 0 => count[c] <= MaxForwards
        /\ MaxDialing > 0 /\ client[c] \notin {"draining", "drained", "exited"} =>
             /\ dialing[c] <= MaxDialing
             /\ manager[c] = None \/ dialSignal[c] = "fired" => dialing[c] < MaxDialing

ForwardInv ==
    /\ ForwardTypes
    /\ OwnerRan
    /\ QueueOwn
    /\ WaitOwn
    /\ ManagerOne
    /\ Exact
    /\ WithinLimits

\* The invariant of the port forwards holds initially.
LEMMA InitForwardInv == Init => ForwardInv
<1> SUFFICES ASSUME Init PROVE ForwardInv
    OBVIOUS
<1>1. ForwardTypes
    BY EmptySeq DEF Init, ForwardTypes
<1>2. /\ \A i \in Forward : fwd[i] = "new" /\ owner[i] = None
      /\ \A c \in Client : /\ queue[c] = <<>> /\ condWait[c] = <<>> /\ manager[c] = None
                           /\ dialSignal[c] = "none" /\ dialing[c] = 0 /\ count[c] = 0
    BY DEF Init
<1>3. OwnerRan /\ QueueOwn /\ WaitOwn /\ ManagerOne
    BY <1>2 DEF OwnerRan, QueueOwn, WaitOwn, ManagerOne, ManagedPhases
<1>4. \A c \in Client : HoldsDialing(c) = {} /\ HoldsSlot(c) = {}
    BY <1>2 DEF HoldsDialing, HoldsSlot
<1>5. Exact
    BY <1>2, <1>4, FS_EmptySet DEF Exact
<1>6. WithinLimits
    BY <1>2, ServerAssumption DEF WithinLimits
<1> QED
    BY <1>1, <1>3, <1>5, <1>6 DEF ForwardInv

\* How the move of one port forward from phase to phase changes the slots
\* held: only those of its client, by one at most.
LEMMA MoveHolds ==
    ASSUME ForwardTypes, NEW i \in Forward, NEW b, Move(i, b), UNCHANGED owner,
           NEW c \in Client
    PROVE  /\ HoldsDialing(c)' = IF owner[i] = c /\ b \in DialPhases
                                 THEN HoldsDialing(c) \cup {i}
                                 ELSE HoldsDialing(c) \ {i}
           /\ HoldsSlot(c)' = IF owner[i] = c /\ b \in SlotPhases
                              THEN HoldsSlot(c) \cup {i}
                              ELSE HoldsSlot(c) \ {i}
           /\ i \in HoldsDialing(c) <=> owner[i] = c /\ fwd[i] \in DialPhases
           /\ i \in HoldsSlot(c) <=> owner[i] = c /\ fwd[i] \in SlotPhases
<1>1. \A j \in Forward : fwd'[j] = IF j = i THEN b ELSE fwd[j]
    BY DEF Move, ForwardTypes
<1> QED
    BY <1>1 DEF HoldsDialing, HoldsSlot, DialPhases, SlotPhases

\* A client has finitely many port forwards.
LEMMA HoldsFinite ==
    ASSUME NEW c \in Client
    PROVE  /\ IsFiniteSet(HoldsDialing(c)) /\ Cardinality(HoldsDialing(c)) \in Nat
           /\ IsFiniteSet(HoldsSlot(c)) /\ Cardinality(HoldsSlot(c)) \in Nat
<1>1. HoldsDialing(c) \in SUBSET Forward /\ HoldsSlot(c) \in SUBSET Forward
    BY DEF HoldsDialing, HoldsSlot
<1> QED
    BY <1>1, ServerAssumption, FS_Subset, FS_CardinalityType

\* How the counts change when one port forward goes from phase to phase.
LEMMA MoveCounts ==
    ASSUME ForwardTypes, NEW i \in Forward, NEW b, Move(i, b), UNCHANGED owner,
           NEW c \in Client
    PROVE  /\ Cardinality(HoldsDialing(c)') =
                IF owner[i] # c \/ (fwd[i] \in DialPhases <=> b \in DialPhases)
                THEN Cardinality(HoldsDialing(c))
                ELSE IF b \in DialPhases THEN Cardinality(HoldsDialing(c)) + 1
                     ELSE Cardinality(HoldsDialing(c)) - 1
           /\ Cardinality(HoldsSlot(c)') =
                IF owner[i] # c \/ (fwd[i] \in SlotPhases <=> b \in SlotPhases)
                THEN Cardinality(HoldsSlot(c))
                ELSE IF b \in SlotPhases THEN Cardinality(HoldsSlot(c)) + 1
                     ELSE Cardinality(HoldsSlot(c)) - 1
           /\ owner[i] = c /\ fwd[i] \in DialPhases => Cardinality(HoldsDialing(c)) >= 1
           /\ owner[i] = c /\ fwd[i] \in SlotPhases => Cardinality(HoldsSlot(c)) >= 1
<1> DEFINE D == HoldsDialing(c)
           S == HoldsSlot(c)
<1>1. /\ HoldsDialing(c)' = IF owner[i] = c /\ b \in DialPhases THEN D \cup {i} ELSE D \ {i}
      /\ HoldsSlot(c)' = IF owner[i] = c /\ b \in SlotPhases THEN S \cup {i} ELSE S \ {i}
      /\ i \in D <=> owner[i] = c /\ fwd[i] \in DialPhases
      /\ i \in S <=> owner[i] = c /\ fwd[i] \in SlotPhases
    BY MoveHolds
<1>2. IsFiniteSet(D) /\ Cardinality(D) \in Nat /\ IsFiniteSet(S) /\ Cardinality(S) \in Nat
    BY HoldsFinite
<1> HIDE DEF D, S
<1>3. /\ Cardinality(D \cup {i}) = IF i \in D THEN Cardinality(D) ELSE Cardinality(D) + 1
      /\ Cardinality(D \ {i}) = IF i \in D THEN Cardinality(D) - 1 ELSE Cardinality(D)
      /\ i \in D => Cardinality(D) # 0
    BY <1>2, FS_AddElement, FS_RemoveElement, FS_EmptySet
<1>4. /\ Cardinality(S \cup {i}) = IF i \in S THEN Cardinality(S) ELSE Cardinality(S) + 1
      /\ Cardinality(S \ {i}) = IF i \in S THEN Cardinality(S) - 1 ELSE Cardinality(S)
      /\ i \in S => Cardinality(S) # 0
    BY <1>2, FS_AddElement, FS_RemoveElement, FS_EmptySet
<1>5. /\ owner[i] = c /\ fwd[i] \in DialPhases => Cardinality(D) >= 1
      /\ owner[i] = c /\ fwd[i] \in SlotPhases => Cardinality(S) >= 1
    BY <1>1, <1>2, <1>3, <1>4
<1>6. Cardinality(HoldsDialing(c)') =
        IF owner[i] # c \/ (fwd[i] \in DialPhases <=> b \in DialPhases)
        THEN Cardinality(D)
        ELSE IF b \in DialPhases THEN Cardinality(D) + 1 ELSE Cardinality(D) - 1
    BY <1>1, <1>3
<1>7. Cardinality(HoldsSlot(c)') =
        IF owner[i] # c \/ (fwd[i] \in SlotPhases <=> b \in SlotPhases)
        THEN Cardinality(S)
        ELSE IF b \in SlotPhases THEN Cardinality(S) + 1 ELSE Cardinality(S) - 1
    BY <1>1, <1>4
<1> QED
    BY <1>5, <1>6, <1>7 DEF D, S

\* The queue, or the waiters, are as they were when a port forward moves that
\* is not among them.
LEMMA MoveUnqueued ==
    ASSUME ForwardInv, NEW i \in Forward, NEW b, Move(i, b), fwd[i] # "queued",
           UNCHANGED <<owner, queue>>
    PROVE  QueueOwn'
<1>1. \A j \in Forward : fwd'[j] = IF j = i THEN b ELSE fwd[j]
    BY DEF Move, ForwardInv, ForwardTypes
<1>2. \A c \in Client : queue[c] \in Seq(Forward)
    BY DEF ForwardInv, ForwardTypes
<1>3. \A c \in Client : \A k \in 1..Len(queue[c]) : queue[c][k] \in Forward /\ queue[c][k] # i
    BY <1>2, ElementOfSeq DEF ForwardInv, QueueOwn
<1> QED
    BY <1>1, <1>3 DEF ForwardInv, QueueOwn

\* A port forward that is not asleep leaves the waiters alone.
LEMMA MoveAwake ==
    ASSUME ForwardInv, NEW i \in Forward, NEW b, Move(i, b), fwd[i] # "asleep",
           UNCHANGED <<owner, condWait>>
    PROVE  WaitOwn'
<1>1. \A j \in Forward : fwd'[j] = IF j = i THEN b ELSE fwd[j]
    BY DEF Move, ForwardInv, ForwardTypes
<1>2. \A c \in Client : condWait[c] \in Seq(Forward)
    BY DEF ForwardInv, ForwardTypes
<1>3. \A c \in Client : \A k \in 1..Len(condWait[c]) :
        condWait[c][k] \in Forward /\ condWait[c][k] # i
    BY <1>2, ElementOfSeq DEF ForwardInv, WaitOwn
<1> QED
    BY <1>1, <1>3 DEF ForwardInv, WaitOwn

\* The same for the manager's request.
LEMMA MoveUnmanaged ==
    ASSUME ForwardInv, NEW i \in Forward, NEW b, Move(i, b),
           fwd[i] \notin ManagedPhases, b \notin ManagedPhases,
           UNCHANGED <<owner, manager>>,
           \A c \in Client : dialSignal'[c] # "none" => dialSignal[c] # "none"
    PROVE  ManagerOne'
<1>1. \A j \in Forward : fwd'[j] = IF j = i THEN b ELSE fwd[j]
    BY DEF Move, ForwardInv, ForwardTypes
<1>2. \A c \in Client : manager[c] # None => manager[c] \in Forward /\ manager[c] # i
    BY DEF ForwardInv, ForwardTypes, ManagerOne
<1> QED
    BY <1>1, <1>2 DEF ForwardInv, ManagerOne

\* A port forward moves within its kind of slot.
LEMMA PlainMove ==
    ASSUME ForwardInv, NEW i \in Forward, NEW b, Move(i, b),
           \/ /\ fwd[i] \in {"dialing", "dialed", "full", "locking", "checking"}
              /\ b \in {"dialed", "full", "locking", "checking", "sleeping"}
           \/ /\ fwd[i] \in {"established", "relaying"}
              /\ b \in {"relaying", "ended"},
           UNCHANGED <<client, owner, requestVars, slotVars, condWait>>
    PROVE  ForwardInv'
<1>1. UNCHANGED <<client, owner, queue, manager, dialSignal, dialing, count, condWait>>
    BY DEF requestVars, slotVars
<1>2. ForwardTypes'
    <2>1. fwd' \in [Forward -> {"new", "queued", "reserved", "limited", "blocked", "dialing", "dialed",
                            "full", "locking", "checking", "sleeping", "asleep", "established",
                            "relaying", "ended", "signalling", "finished"}]
        BY DEF ForwardInv, ForwardTypes, Move
    <2> QED
        BY <1>1, <2>1 DEF ForwardInv, ForwardTypes
<1>3. OwnerRan'
    BY <1>1 DEF ForwardInv, OwnerRan
<1>4. QueueOwn' /\ WaitOwn'
    BY <1>1, MoveUnqueued, MoveAwake
<1>5. ManagerOne'
    BY <1>1, MoveUnmanaged DEF ManagedPhases
<1>6. \A c \in Client : /\ Cardinality(HoldsDialing(c)') = Cardinality(HoldsDialing(c))
                        /\ Cardinality(HoldsSlot(c)') = Cardinality(HoldsSlot(c))
    <2>1. /\ fwd[i] \in DialPhases <=> b \in DialPhases
          /\ fwd[i] \in SlotPhases <=> b \in SlotPhases
        BY DEF DialPhases, SlotPhases
    <2> QED
        BY <1>1, <2>1, MoveCounts DEF ForwardInv
<1>7. Exact'
    BY <1>1, <1>6 DEF ForwardInv, Exact
<1>8. WithinLimits'
    BY <1>1 DEF ForwardInv, WithinLimits
<1> QED
    BY <1>2, <1>3, <1>4, <1>5, <1>7, <1>8 DEF ForwardInv

\* The phase of one port forward changes to one of the phases.
LEMMA MoveType ==
    ASSUME ForwardTypes, NEW i \in Forward, Move(i, "finished") \/ Move(i, "reserved")
             \/ Move(i, "limited") \/ Move(i, "blocked") \/ Move(i, "dialing")
             \/ Move(i, "established") \/ Move(i, "asleep") \/ Move(i, "signalling")
    PROVE  fwd' \in [Forward -> {"new", "queued", "reserved", "limited", "blocked", "dialing", "dialed",
                            "full", "locking", "checking", "sleeping", "asleep", "established",
                            "relaying", "ended", "signalling", "finished"}]
BY DEF ForwardTypes, Move

\* A new port forward request preserves the invariant.
LEMMA RequestStep ==
    ASSUME ForwardInv, NEW c \in Client, NEW i \in Forward, Request(c, i)
    PROVE  ForwardInv'
<1>1. /\ client[c] = "running" /\ fwd[i] = "new"
      /\ owner' = [owner EXCEPT ![i] = c]
      /\ queue' = [queue EXCEPT ![c] = Append(queue[c], i)]
      /\ fwd' = [fwd EXCEPT ![i] = "queued"]
      /\ UNCHANGED <<client, manager, dialSignal, dialing, count, condWait>>
    BY DEF Request, clientVars, slotVars, condVars, Move
<1>2. \A j \in Forward : /\ fwd'[j] = IF j = i THEN "queued" ELSE fwd[j]
                         /\ owner'[j] = IF j = i THEN c ELSE owner[j]
    BY <1>1 DEF ForwardInv, ForwardTypes
<1>3. \A d \in Client : /\ queue[d] \in Seq(Forward) /\ condWait[d] \in Seq(Forward)
                        /\ queue'[d] = IF d = c THEN Append(queue[c], i) ELSE queue[d]
    BY <1>1 DEF ForwardInv, ForwardTypes
<1>4. /\ Append(queue[c], i) \in Seq(Forward)
      /\ Len(Append(queue[c], i)) = Len(queue[c]) + 1
      /\ \A k \in 1..Len(queue[c]) : Append(queue[c], i)[k] = queue[c][k]
      /\ Append(queue[c], i)[Len(queue[c]) + 1] = i
      /\ Len(queue[c]) \in Nat
    BY <1>3, AppendProperties, LenProperties
<1>5. ForwardTypes'
    <2>1. queue' \in [Client -> Seq(Forward)]
        BY <1>1, <1>4 DEF ForwardInv, ForwardTypes
    <2> QED
        BY <1>1, <2>1 DEF ForwardInv, ForwardTypes
<1>6. OwnerRan'
    BY <1>1, <1>2 DEF ForwardInv, OwnerRan
<1>7. \A d \in Client : \A k \in 1..Len(queue[d]) : queue[d][k] \in Forward /\ queue[d][k] # i
    BY <1>1, <1>3, ElementOfSeq DEF ForwardInv, QueueOwn
<1>8. QueueOwn'
    <2> SUFFICES ASSUME NEW d \in Client, NEW k \in 1..Len(queue'[d])
                 PROVE  /\ fwd'[queue'[d][k]] = "queued" /\ owner'[queue'[d][k]] = d
                        /\ \A m \in 1..Len(queue'[d]) : queue'[d][k] = queue'[d][m] => k = m
        BY DEF QueueOwn
    <2>0. d = c => Len(queue'[d]) = Len(queue[c]) + 1
        BY <1>3, <1>4
    <2>1. CASE d # c
        <3>1. queue'[d] = queue[d] /\ k \in 1..Len(queue[d])
            BY <1>3, <2>1
        <3>2. queue[d][k] \in Forward /\ queue[d][k] # i
            BY <1>7, <3>1
        <3> QED
            BY <1>2, <3>1, <3>2 DEF ForwardInv, QueueOwn
    <2>2. CASE d = c /\ k = Len(queue[c]) + 1
        <3>1. queue'[d][k] = i
            BY <1>3, <1>4, <2>2
        <3>2. \A m \in 1..Len(queue'[d]) : m # k => m \in 1..Len(queue[c])
            BY <1>4, <2>0, <2>2
        <3>3. \A m \in 1..Len(queue'[d]) : m # k => queue'[d][m] # i
            BY <1>3, <1>4, <1>7, <2>2, <3>2
        <3> QED
            BY <1>2, <2>2, <3>1, <3>3
    <2>3. CASE d = c /\ k \in 1..Len(queue[c])
        <3>1. /\ fwd[queue[c][k]] = "queued" /\ owner[queue[c][k]] = c
              /\ \A m \in 1..Len(queue[c]) : queue[c][k] = queue[c][m] => k = m
            BY <2>3 DEF ForwardInv, QueueOwn
        <3>2. queue'[d][k] = queue[c][k] /\ queue[c][k] \in Forward /\ queue[c][k] # i
            BY <1>3, <1>4, <1>7, <2>3
        <3>3. \A m \in 1..Len(queue'[d]) : m = Len(queue[c]) + 1 \/ m \in 1..Len(queue[c])
            BY <1>4, <2>0, <2>3
        <3>4. \A m \in 1..Len(queue'[d]) : queue'[d][k] = queue'[d][m] => k = m
            BY <1>3, <1>4, <2>3, <3>1, <3>2, <3>3
        <3> QED
            BY <1>2, <2>3, <3>1, <3>2, <3>4
    <2>4. k = Len(queue[c]) + 1 \/ k \in 1..Len(queue[c]) \/ d # c
        BY <1>4, <2>0
    <2> QED
        BY <2>1, <2>2, <2>3, <2>4
<1>9. WaitOwn'
    <2>1. \A d \in Client : \A k \in 1..Len(condWait[d]) :
            condWait[d][k] \in Forward /\ condWait[d][k] # i
        BY <1>1, <1>3, ElementOfSeq DEF ForwardInv, WaitOwn
    <2> QED
        BY <1>1, <1>2, <2>1 DEF ForwardInv, WaitOwn
<1>10. ManagerOne'
    <2>0. fwd[i] \notin ManagedPhases
        BY <1>1 DEF ManagedPhases
    <2>1. \A d \in Client : manager[d] # None => manager[d] \in Forward /\ manager[d] # i
        BY <2>0 DEF ForwardInv, ForwardTypes, ManagerOne
    <2> QED
        BY <1>1, <1>2, <2>1 DEF ForwardInv, ManagerOne, ManagedPhases
<1>11. \A d \in Client : HoldsDialing(d)' = HoldsDialing(d) /\ HoldsSlot(d)' = HoldsSlot(d)
    BY <1>1, <1>2 DEF HoldsDialing, HoldsSlot
<1>12. Exact'
    BY <1>1, <1>11 DEF ForwardInv, Exact
<1>13. WithinLimits'
    BY <1>1 DEF ForwardInv, WithinLimits
<1> QED
    BY <1>5, <1>6, <1>8, <1>9, <1>10, <1>12, <1>13 DEF ForwardInv

\* What a request that leaves the queue leaves behind.
LEMMA QueueTail ==
    ASSUME ForwardInv, NEW c \in Client, NEW i, queue[c] # <<>>, i = Head(queue[c]), NEW b,
           Move(i, b), queue' = [queue EXCEPT ![c] = Tail(queue[c])], UNCHANGED owner
    PROVE  /\ i \in Forward /\ fwd[i] = "queued" /\ owner[i] = c
           /\ queue' \in [Client -> Seq(Forward)]
           /\ QueueOwn'
<1>1. \A d \in Client : queue[d] \in Seq(Forward)
    BY DEF ForwardInv, ForwardTypes
<1>2. /\ i \in Forward /\ i = queue[c][1] /\ 1 \in 1..Len(queue[c])
      /\ Tail(queue[c]) \in Seq(Forward)
      /\ Len(Tail(queue[c])) = Len(queue[c]) - 1 /\ Len(queue[c]) \in Nat
      /\ \A k \in 1..Len(Tail(queue[c])) : Tail(queue[c])[k] = queue[c][k + 1]
    BY <1>1, HeadTailProperties, EmptySeq
<1>3. fwd[i] = "queued" /\ owner[i] = c
    BY <1>2 DEF ForwardInv, QueueOwn
<1>4. \A d \in Client : queue'[d] = IF d = c THEN Tail(queue[c]) ELSE queue[d]
    BY DEF ForwardInv, ForwardTypes
<1>5. \A j \in Forward : fwd'[j] = IF j = i THEN b ELSE fwd[j]
    BY <1>2 DEF Move, ForwardInv, ForwardTypes
<1>6. QueueOwn'
    <2> SUFFICES ASSUME NEW d \in Client, NEW k \in 1..Len(queue'[d])
                 PROVE  /\ fwd'[queue'[d][k]] = "queued" /\ owner'[queue'[d][k]] = d
                        /\ \A m \in 1..Len(queue'[d]) : queue'[d][k] = queue'[d][m] => k = m
        BY DEF QueueOwn
    <2>1. CASE d # c
        <3>1. queue[d][k] \in Forward /\ queue[d][k] # i
            BY <1>1, <1>3, <1>4, <2>1, ElementOfSeq DEF ForwardInv, QueueOwn
        <3> QED
            BY <1>4, <1>5, <2>1, <3>1 DEF ForwardInv, QueueOwn
    <2>2. CASE d = c
        <3>0. Len(queue'[c]) = Len(queue[c]) - 1
            BY <1>2, <1>4
        <3>1. /\ k + 1 \in 1..Len(queue[c]) /\ k + 1 # 1
              /\ \A m \in 1..Len(queue'[c]) : m + 1 \in 1..Len(queue[c])
            BY <1>2, <2>2, <3>0
        <3>2. /\ fwd[queue[c][k + 1]] = "queued" /\ owner[queue[c][k + 1]] = c
              /\ \A m \in 1..Len(queue[c]) : queue[c][k + 1] = queue[c][m] => k + 1 = m
            BY <3>1 DEF ForwardInv, QueueOwn
        <3>3. queue[c][k + 1] \in Forward /\ queue[c][k + 1] # i
            BY <1>1, <1>2, <3>1, <3>2, ElementOfSeq
        <3>4. \A m \in 1..Len(queue'[c]) : queue'[c][m] = queue[c][m + 1]
            BY <1>2, <1>4
        <3>5. \A m \in 1..Len(queue'[c]) : queue'[c][k] = queue'[c][m] => k = m
            BY <2>2, <3>1, <3>2, <3>4
        <3> QED
            BY <1>5, <2>2, <3>2, <3>3, <3>4, <3>5
    <2> QED
        BY <2>1, <2>2
<1> QED
    BY <1>1, <1>2, <1>3, <1>4, <1>6 DEF ForwardInv, ForwardTypes

\* A request is rejected from the queue.
LEMMA RejectStep ==
    ASSUME ForwardInv, NEW c \in Client, NEW i \in Forward, Dequeue(c, i),
           Move(i, "finished"), UNCHANGED <<manager, dialing>>
    PROVE  ForwardInv'
<1>1. /\ queue[c] # <<>> /\ i = Head(queue[c])
      /\ queue' = [queue EXCEPT ![c] = Tail(queue[c])]
      /\ UNCHANGED <<client, owner, dialSignal, count, condWait>>
    BY DEF Dequeue, clientVars, condVars
<1>2. fwd[i] = "queued" /\ owner[i] = c /\ queue' \in [Client -> Seq(Forward)] /\ QueueOwn'
    BY <1>1, QueueTail
<1>3. ForwardTypes'
    BY <1>1, <1>2, MoveType DEF ForwardInv, ForwardTypes
<1>4. OwnerRan' /\ WaitOwn'
    BY <1>1, <1>2, MoveAwake DEF ForwardInv, OwnerRan
<1>5. ManagerOne'
    BY <1>1, <1>2, MoveUnmanaged DEF ManagedPhases
<1>6. \A d \in Client : /\ Cardinality(HoldsDialing(d)') = Cardinality(HoldsDialing(d))
                        /\ Cardinality(HoldsSlot(d)') = Cardinality(HoldsSlot(d))
    <2>1. fwd[i] \notin DialPhases \cup SlotPhases /\ "finished" \notin DialPhases \cup SlotPhases
        BY <1>2 DEF DialPhases, SlotPhases
    <2> QED
        BY <1>1, <2>1, MoveCounts DEF ForwardInv
<1>7. Exact'
    BY <1>1, <1>6 DEF ForwardInv, Exact
<1>8. WithinLimits'
    BY <1>1 DEF ForwardInv, WithinLimits
<1> QED
    BY <1>2, <1>3, <1>4, <1>5, <1>7, <1>8 DEF ForwardInv

\* The manager takes a request from the queue and reserves its dialing slot.
LEMMA ReserveStep ==
    ASSUME ForwardInv, NEW c \in Client, NEW i \in Forward, Dequeue(c, i),
           Move(i, "reserved"),
           manager' = [manager EXCEPT ![c] = i],
           dialing' = [dialing EXCEPT ![c] = dialing[c] + 1]
    PROVE  ForwardInv'
<1>1. /\ manager[c] = None /\ queue[c] # <<>> /\ i = Head(queue[c])
      /\ queue' = [queue EXCEPT ![c] = Tail(queue[c])]
      /\ UNCHANGED <<client, owner, dialSignal, count, condWait>>
    BY DEF Dequeue, clientVars, condVars
<1>2. fwd[i] = "queued" /\ owner[i] = c /\ queue' \in [Client -> Seq(Forward)] /\ QueueOwn'
    BY <1>1, QueueTail
<1>3. /\ dialing' \in [Client -> Nat]
      /\ \A d \in Client : dialing[d] \in Nat
      /\ \A d \in Client : dialing'[d] = IF d = c THEN dialing[c] + 1 ELSE dialing[d]
    BY DEF ForwardInv, ForwardTypes
<1>4. \A d \in Client : manager'[d] = IF d = c THEN i ELSE manager[d]
    BY DEF ForwardInv, ForwardTypes
<1>5. ForwardTypes'
    BY <1>1, <1>2, <1>3, MoveType DEF ForwardInv, ForwardTypes
<1>6. OwnerRan' /\ WaitOwn'
    BY <1>1, <1>2, MoveAwake DEF ForwardInv, OwnerRan
<1>7. ManagerOne'
    <2>1. \A j \in Forward : fwd'[j] = IF j = i THEN "reserved" ELSE fwd[j]
        BY DEF Move, ForwardInv, ForwardTypes
    <2>2. "reserved" \in ManagedPhases /\ fwd[i] \notin ManagedPhases /\ i # None
        BY <1>2, ServerAssumption DEF ManagedPhases
    <2>3. \A d \in Client : manager[d] # None => manager[d] \in Forward /\ manager[d] # i /\ d # c
        BY <1>1, <2>2 DEF ForwardInv, ForwardTypes, ManagerOne
    <2>4. dialSignal[c] = "none"
        BY <1>1 DEF ForwardInv, ManagerOne
    <2>5. \A j \in Forward : fwd'[j] \in ManagedPhases => \E d \in Client : manager'[d] = j
        <3> SUFFICES ASSUME NEW j \in Forward, fwd'[j] \in ManagedPhases, j # i
                     PROVE  \E d \in Client : manager'[d] = j
            BY <1>4
        <3>1. PICK d \in Client : manager[d] = j
            BY <2>1 DEF ForwardInv, ManagerOne
        <3> QED
            BY <1>1, <1>4, <3>1, ServerAssumption
    <2>6. \A d \in Client : manager'[d] # None =>
            fwd'[manager'[d]] \in ManagedPhases /\ owner'[manager'[d]] = d
        BY <1>1, <1>2, <1>4, <2>1, <2>2, <2>3 DEF ForwardInv, ManagerOne
    <2>7. \A d \in Client : dialSignal'[d] # "none" =>
            manager'[d] # None /\ fwd'[manager'[d]] = "blocked"
        BY <1>1, <1>4, <2>1, <2>3, <2>4 DEF ForwardInv, ManagerOne
    <2> QED
        BY <2>5, <2>6, <2>7 DEF ManagerOne
<1>8. Exact'
    <2>1. /\ fwd[i] \notin DialPhases \cup SlotPhases
          /\ "reserved" \in DialPhases /\ "reserved" \notin SlotPhases
        BY <1>2 DEF DialPhases, SlotPhases
    <2>2. \A d \in Client :
            /\ Cardinality(HoldsDialing(d)') = IF d = c THEN Cardinality(HoldsDialing(d)) + 1
                                               ELSE Cardinality(HoldsDialing(d))
            /\ Cardinality(HoldsSlot(d)') = Cardinality(HoldsSlot(d))
        BY <1>1, <1>2, <2>1, MoveCounts DEF ForwardInv
    <2> QED
        BY <1>1, <1>3, <2>2 DEF ForwardInv, Exact
<1>9. WithinLimits'
    <2>1. manager'[c] # None /\ dialSignal[c] = "none"
        BY <1>1, <1>4, ServerAssumption DEF ForwardInv, ManagerOne
    <2> QED
        BY <1>1, <1>3, <1>4, <2>1, ServerAssumption DEF ForwardInv, WithinLimits
<1> QED
    BY <1>2, <1>5, <1>6, <1>7, <1>8, <1>9 DEF ForwardInv

\* The manager's request is the one of its client in its hands.
LEMMA ManagedBy ==
    ASSUME ForwardInv, NEW c \in Client, NEW i \in Forward, owner[i] = c,
           fwd[i] \in ManagedPhases
    PROVE  manager[c] = i /\ i # None
BY ServerAssumption DEF ForwardInv, ManagerOne

\* The manager lets its request go, with or without its dialing slot.
LEMMA ReleaseManager ==
    ASSUME ForwardInv, NEW c \in Client, NEW i \in Forward, owner[i] = c,
           fwd[i] \in ManagedPhases, NEW b, Move(i, b), b \notin ManagedPhases,
           manager' = [manager EXCEPT ![c] = None], UNCHANGED owner,
           \A d \in Client : d # c => dialSignal'[d] = dialSignal[d],
           dialSignal'[c] = "none"
    PROVE  ManagerOne'
<1>1. \A j \in Forward : fwd'[j] = IF j = i THEN b ELSE fwd[j]
    BY DEF Move, ForwardInv, ForwardTypes
<1>2. \A d \in Client : manager'[d] = IF d = c THEN None ELSE manager[d]
    BY DEF ForwardInv, ForwardTypes
<1>3. \A d \in Client : d # c /\ manager[d] # None => manager[d] \in Forward /\ manager[d] # i
    BY DEF ForwardInv, ForwardTypes, ManagerOne
<1>4. manager[c] = i
    BY ManagedBy
<1>5. \A j \in Forward : fwd'[j] \in ManagedPhases => \E d \in Client : manager'[d] = j
    <2> SUFFICES ASSUME NEW j \in Forward, fwd'[j] \in ManagedPhases
                 PROVE  \E d \in Client : manager'[d] = j
        OBVIOUS
    <2>1. j # i
        BY <1>1
    <2>2. PICK d \in Client : manager[d] = j
        BY <1>1, <2>1 DEF ForwardInv, ManagerOne
    <2> QED
        BY <1>2, <1>4, <2>1, <2>2
<1>6. \A d \in Client : manager'[d] # None =>
        fwd'[manager'[d]] \in ManagedPhases /\ owner'[manager'[d]] = d
    BY <1>1, <1>2, <1>3 DEF ForwardInv, ManagerOne
<1>7. \A d \in Client : dialSignal'[d] # "none" =>
        manager'[d] # None /\ fwd'[manager'[d]] = "blocked"
    BY <1>1, <1>2, <1>3 DEF ForwardInv, ManagerOne
<1> QED
    BY <1>5, <1>6, <1>7 DEF ManagerOne

\* The manager dispatches its request to a goroutine of its own.
LEMMA DispatchStep ==
    ASSUME ForwardInv, NEW c \in Client, NEW i \in Forward, owner[i] = c,
           fwd[i] \in ManagedPhases, Dispatch(c, i),
           dialSignal' \in [Client -> {"none", "armed", "fired"}],
           \A d \in Client : d # c => dialSignal'[d] = dialSignal[d],
           dialSignal'[c] = "none",
           MaxDialing > 0 /\ client[c] = "running" => dialing[c] < MaxDialing,
           UNCHANGED <<client, owner, queue, dialing, count, condWait>>
    PROVE  ForwardInv'
<1>1. Move(i, "dialing") /\ manager' = [manager EXCEPT ![c] = None]
    BY DEF Dispatch
<1>2. /\ fwd[i] \notin {"queued", "asleep"} /\ fwd[i] \in DialPhases /\ fwd[i] \notin SlotPhases
      /\ "dialing" \notin ManagedPhases /\ "dialing" \in DialPhases /\ "dialing" \notin SlotPhases
    BY DEF ManagedPhases, DialPhases, SlotPhases
<1>3. ForwardTypes'
    BY <1>1, MoveType DEF ForwardInv, ForwardTypes
<1>4. OwnerRan' /\ QueueOwn' /\ WaitOwn'
    BY <1>1, <1>2, MoveUnqueued, MoveAwake DEF ForwardInv, OwnerRan
<1>5. ManagerOne'
    BY <1>1, <1>2, ReleaseManager
<1>6. Exact'
    <2>1. \A d \in Client : /\ Cardinality(HoldsDialing(d)') = Cardinality(HoldsDialing(d))
                            /\ Cardinality(HoldsSlot(d)') = Cardinality(HoldsSlot(d))
        BY <1>1, <1>2, MoveCounts DEF ForwardInv
    <2> QED
        BY <2>1 DEF ForwardInv, Exact
<1>7. WithinLimits'
    <2>1. client[c] \in {"running", "draining", "drained", "exited"}
        BY ServerAssumption DEF ForwardInv, OwnerRan
    <2>2. \A d \in Client : d # c => manager'[d] = manager[d]
        BY <1>1 DEF ForwardInv, ForwardTypes
    <2> SUFFICES ASSUME NEW d \in Client
                 PROVE  WithinLimits!(d)'
        BY DEF WithinLimits
    <2>3. CASE d = c
        BY <2>1, <2>3 DEF ForwardInv, WithinLimits
    <2>4. CASE d # c
        BY <2>2, <2>4 DEF ForwardInv, WithinLimits
    <2> QED
        BY <2>3, <2>4
<1> QED
    BY <1>3, <1>4, <1>5, <1>6, <1>7 DEF ForwardInv

\* The manager keeps its request: the limit is exceeded, or it waits.
LEMMA KeepManaged ==
    ASSUME ForwardInv, NEW c \in Client, NEW i \in Forward, owner[i] = c,
           NEW a, NEW b, fwd[i] = a, Move(i, b),
           \/ a = "reserved" /\ b = "limited" /\ UNCHANGED dialSignal
           \/ /\ a = "limited" /\ b = "blocked"
              /\ dialSignal' = [dialSignal EXCEPT ![c] = "armed"],
           UNCHANGED <<client, owner, queue, manager, dialing, count, condWait>>
    PROVE  ForwardInv'
<1>1. /\ a \in ManagedPhases /\ b \in ManagedPhases /\ a \notin {"queued", "asleep", "blocked"}
      /\ a \in DialPhases /\ b \in DialPhases /\ a \notin SlotPhases /\ b \notin SlotPhases
    BY DEF ManagedPhases, DialPhases, SlotPhases
<1>2. manager[c] = i /\ i # None
    BY <1>1, ManagedBy
<1>3. dialSignal[c] = "none"
    BY <1>1, <1>2 DEF ForwardInv, ManagerOne
<1>4. /\ dialSignal' \in [Client -> {"none", "armed", "fired"}]
      /\ \A d \in Client : d # c => dialSignal'[d] = dialSignal[d]
      /\ dialSignal'[c] = IF b = "blocked" THEN "armed" ELSE "none"
    BY <1>3 DEF ForwardInv, ForwardTypes
<1>5. ForwardTypes'
    BY <1>4, MoveType DEF ForwardInv, ForwardTypes
<1>6. OwnerRan' /\ QueueOwn' /\ WaitOwn'
    BY <1>1, MoveUnqueued, MoveAwake DEF ForwardInv, OwnerRan
<1>7. ManagerOne'
    <2>1. \A j \in Forward : fwd'[j] = IF j = i THEN b ELSE fwd[j]
        BY DEF Move, ForwardInv, ForwardTypes
    <2>2. \A d \in Client : d # c /\ manager[d] # None => manager[d] \in Forward /\ manager[d] # i
        BY DEF ForwardInv, ForwardTypes, ManagerOne
    <2>3. \A j \in Forward : fwd'[j] \in ManagedPhases => \E d \in Client : manager'[d] = j
        BY <1>2, <2>1 DEF ForwardInv, ManagerOne
    <2>4. \A d \in Client : manager'[d] # None =>
            fwd'[manager'[d]] \in ManagedPhases /\ owner'[manager'[d]] = d
        BY <1>1, <1>2, <2>1, <2>2 DEF ForwardInv, ManagerOne
    <2>5. \A d \in Client : dialSignal'[d] # "none" =>
            manager'[d] # None /\ fwd'[manager'[d]] = "blocked"
        BY <1>2, <1>4, <2>1, <2>2 DEF ForwardInv, ManagerOne
    <2> QED
        BY <2>3, <2>4, <2>5 DEF ManagerOne
<1>8. Exact'
    <2>1. \A d \in Client : /\ Cardinality(HoldsDialing(d)') = Cardinality(HoldsDialing(d))
                            /\ Cardinality(HoldsSlot(d)') = Cardinality(HoldsSlot(d))
        BY <1>1, MoveCounts DEF ForwardInv
    <2> QED
        BY <2>1 DEF ForwardInv, Exact
<1>9. WithinLimits'
    BY <1>2, <1>3, <1>4 DEF ForwardInv, WithinLimits
<1> QED
    BY <1>5, <1>6, <1>7, <1>8, <1>9 DEF ForwardInv

\* So does the check of the dialing limit.
LEMMA CheckDialingStep ==
    ASSUME ForwardInv, NEW c \in Client, NEW i \in Forward, CheckDialing(c, i)
    PROVE  ForwardInv'
<1>1. /\ fwd[i] = "reserved" /\ owner[i] = c
      /\ UNCHANGED <<client, owner, queue, dialing, count, condWait, dialSignal>>
    BY DEF CheckDialing, clientVars, slotVars, condVars
<1>2. CASE DialingExceeded(c)
    <2>1. Move(i, "limited") /\ UNCHANGED manager
        BY <1>2 DEF CheckDialing
    <2> QED
        BY <1>1, <2>1, KeepManaged
<1>3. CASE ~ DialingExceeded(c)
    <2>1. Dispatch(c, i)
        BY <1>3 DEF CheckDialing
    <2>2. fwd[i] \in ManagedPhases
        BY <1>1 DEF ManagedPhases
    <2>3. manager[c] = i
        BY <1>1, <2>2, ManagedBy
    <2>4. dialSignal[c] = "none"
        BY <1>1, <2>3 DEF ForwardInv, ManagerOne
    <2>5. MaxDialing > 0 => dialing[c] < MaxDialing
        BY <1>3, ServerAssumption DEF DialingExceeded, ForwardInv, ForwardTypes
    <2>6. dialSignal' \in [Client -> {"none", "armed", "fired"}]
        BY <1>1 DEF ForwardInv, ForwardTypes
    <2> QED
        BY <1>1, <2>1, <2>2, <2>4, <2>5, <2>6, DispatchStep
<1> QED
    BY <1>2, <1>3

\* So does the wait for the signal of a dialing slot.
LEMMA SetDialSignalStep ==
    ASSUME ForwardInv, NEW c \in Client, NEW i \in Forward, SetDialSignal(c, i)
    PROVE  ForwardInv'
<1>1. /\ fwd[i] = "limited" /\ owner[i] = c /\ Move(i, "blocked")
      /\ dialSignal' = [dialSignal EXCEPT ![c] = "armed"]
      /\ UNCHANGED <<client, owner, queue, manager, dialing, count, condWait>>
    BY DEF SetDialSignal, clientVars, requestVars, condVars
<1> QED
    BY <1>1, KeepManaged

\* So does the end of the wait for a dialing slot.
LEMMA UnblockStep ==
    ASSUME ForwardInv, NEW c \in Client, NEW i \in Forward, Unblock(c, i)
    PROVE  ForwardInv'
<1>1. /\ fwd[i] = "blocked" /\ owner[i] = c
      /\ dialSignal' = [dialSignal EXCEPT ![c] = "none"]
      /\ UNCHANGED <<client, owner, queue, count, condWait>>
    BY DEF Unblock, clientVars, condVars
<1>2. /\ dialSignal' \in [Client -> {"none", "armed", "fired"}]
      /\ \A d \in Client : d # c => dialSignal'[d] = dialSignal[d]
      /\ dialSignal'[c] = "none"
    BY <1>1 DEF ForwardInv, ForwardTypes
<1>3. fwd[i] \in ManagedPhases
    BY <1>1 DEF ManagedPhases
<1>4. CASE (dialSignal[c] = "fired" \/ client[c] # "running") /\ Dispatch(c, i) /\ UNCHANGED dialing
    <2>1. MaxDialing > 0 /\ client[c] = "running" => dialing[c] < MaxDialing
        BY <1>4 DEF ForwardInv, WithinLimits
    <2> QED
        BY <1>1, <1>2, <1>3, <1>4, <2>1, DispatchStep
<1>5. CASE /\ Move(i, "finished") /\ manager' = [manager EXCEPT ![c] = None]
           /\ dialing' = [dialing EXCEPT ![c] = dialing[c] - 1]
    <2>1. /\ fwd[i] \notin {"queued", "asleep"} /\ fwd[i] \in DialPhases /\ fwd[i] \notin SlotPhases
          /\ "finished" \notin ManagedPhases \cup DialPhases \cup SlotPhases
        BY <1>1 DEF ManagedPhases, DialPhases, SlotPhases
    <2>2. \A d \in Client :
            /\ Cardinality(HoldsDialing(d)') = IF d = c THEN Cardinality(HoldsDialing(d)) - 1
                                               ELSE Cardinality(HoldsDialing(d))
            /\ Cardinality(HoldsSlot(d)') = Cardinality(HoldsSlot(d))
        BY <1>1, <1>5, <2>1, MoveCounts DEF ForwardInv
    <2>3. dialing[c] \in Nat /\ dialing[c] >= 1
        BY <1>1, <1>5, <2>1, MoveCounts DEF ForwardInv, ForwardTypes, Exact
    <2>4. /\ dialing' \in [Client -> Nat]
          /\ \A d \in Client : dialing'[d] = IF d = c THEN dialing[c] - 1 ELSE dialing[d]
        BY <1>5, <2>3 DEF ForwardInv, ForwardTypes
    <2>5. ForwardTypes'
        BY <1>1, <1>2, <1>5, <2>4, MoveType DEF ForwardInv, ForwardTypes
    <2>6. OwnerRan' /\ QueueOwn' /\ WaitOwn'
        BY <1>1, <1>5, <2>1, MoveUnqueued, MoveAwake DEF ForwardInv, OwnerRan
    <2>7. ManagerOne'
        BY <1>1, <1>2, <1>3, <1>5, <2>1, ReleaseManager
    <2>8. Exact'
        BY <1>1, <2>2, <2>4 DEF ForwardInv, Exact
    <2>9. WithinLimits'
        <3>1. \A d \in Client : d # c => manager'[d] = manager[d] /\ dialing'[d] = dialing[d]
            BY <1>5, <2>4 DEF ForwardInv, ForwardTypes
        <3>2. dialing'[c] = dialing[c] - 1
            BY <2>4
        <3> QED
            BY <1>1, <1>2, <2>3, <3>1, <3>2, ServerAssumption DEF ForwardInv, WithinLimits
    <2> QED
        BY <2>5, <2>6, <2>7, <2>8, <2>9 DEF ForwardInv
<1> QED
    BY <1>4, <1>5 DEF Unblock

\* A dial ends without a slot.
LEMMA DialFailsStep ==
    ASSUME ForwardInv, NEW c \in Client, NEW i \in Forward, DialFails(c, i)
    PROVE  ForwardInv'
<1>1. /\ fwd[i] = "dialing" /\ owner[i] = c /\ Move(i, "finished")
      /\ dialing' = [dialing EXCEPT ![c] = dialing[c] - 1]
      /\ UNCHANGED <<client, owner, queue, manager, dialSignal, count, condWait>>
    BY DEF DialFails, clientVars, requestVars, condVars
<1>2. /\ fwd[i] \notin {"queued", "asleep"} /\ fwd[i] \in DialPhases
      /\ fwd[i] \notin SlotPhases \cup ManagedPhases
      /\ "finished" \notin ManagedPhases \cup DialPhases \cup SlotPhases
    BY <1>1 DEF ManagedPhases, DialPhases, SlotPhases
<1>3. \A d \in Client :
        /\ Cardinality(HoldsDialing(d)') = IF d = c THEN Cardinality(HoldsDialing(d)) - 1
                                           ELSE Cardinality(HoldsDialing(d))
        /\ Cardinality(HoldsSlot(d)') = Cardinality(HoldsSlot(d))
    BY <1>1, <1>2, MoveCounts DEF ForwardInv
<1>4. dialing[c] \in Nat /\ dialing[c] >= 1
    BY <1>1, <1>2, MoveCounts DEF ForwardInv, ForwardTypes, Exact
<1>5. /\ dialing' \in [Client -> Nat]
      /\ \A d \in Client : dialing'[d] = IF d = c THEN dialing[c] - 1 ELSE dialing[d]
    BY <1>1, <1>4 DEF ForwardInv, ForwardTypes
<1>6. ForwardTypes'
    BY <1>1, <1>5, MoveType DEF ForwardInv, ForwardTypes
<1>7. OwnerRan' /\ QueueOwn' /\ WaitOwn' /\ ManagerOne'
    BY <1>1, <1>2, MoveUnqueued, MoveAwake, MoveUnmanaged DEF ForwardInv, OwnerRan
<1>8. Exact'
    BY <1>1, <1>3, <1>5 DEF ForwardInv, Exact
<1>9. WithinLimits'
    BY <1>1, <1>4, <1>5, ServerAssumption DEF ForwardInv, WithinLimits
<1> QED
    BY <1>6, <1>7, <1>8, <1>9 DEF ForwardInv

\* A dialed port forward turns its dialing slot into an established one; a
\* manager that waits is signalled only when a dial fits.
LEMMA AllocateStep ==
    ASSUME ForwardInv, NEW c \in Client, NEW i \in Forward, owner[i] = c,
           fwd[i] \in {"dialed", "checking"}, SlotAvailable(c), AllocatePortForward(c),
           Move(i, "established"), UNCHANGED <<client, owner, queue, manager, condWait>>
    PROVE  ForwardInv'
<1>1. /\ fwd[i] \notin {"queued", "asleep"} /\ fwd[i] \in DialPhases
      /\ fwd[i] \notin SlotPhases \cup ManagedPhases
      /\ "established" \notin ManagedPhases \cup DialPhases /\ "established" \in SlotPhases
    BY DEF ManagedPhases, DialPhases, SlotPhases
<1>2. \A d \in Client :
        /\ Cardinality(HoldsDialing(d)') = IF d = c THEN Cardinality(HoldsDialing(d)) - 1
                                           ELSE Cardinality(HoldsDialing(d))
        /\ Cardinality(HoldsSlot(d)') = IF d = c THEN Cardinality(HoldsSlot(d)) + 1
                                        ELSE Cardinality(HoldsSlot(d))
    BY <1>1, MoveCounts DEF ForwardInv
<1>3. dialing[c] \in Nat /\ dialing[c] >= 1 /\ count[c] \in Nat
    BY <1>1, MoveCounts DEF ForwardInv, ForwardTypes, Exact
<1>4. /\ dialing' \in [Client -> Nat] /\ count' \in [Client -> Nat]
      /\ \A d \in Client : dialing'[d] = IF d = c THEN dialing[c] - 1 ELSE dialing[d]
      /\ \A d \in Client : count'[d] = IF d = c THEN count[c] + 1 ELSE count[d]
    BY <1>3 DEF AllocatePortForward, ForwardInv, ForwardTypes
<1>5. /\ dialSignal' \in [Client -> {"none", "armed", "fired"}]
      /\ \A d \in Client : d # c => dialSignal'[d] = dialSignal[d]
      /\ dialSignal'[c] # "none" => dialSignal[c] # "none"
      /\ dialSignal'[c] = "fired" =>
           dialSignal[c] = "fired" \/ MaxDialing = 0 \/ dialing[c] - 1 < MaxDialing
    BY DEF AllocatePortForward, ForwardInv, ForwardTypes
<1>6. ForwardTypes'
    BY <1>4, <1>5, MoveType DEF ForwardInv, ForwardTypes
<1>7. OwnerRan' /\ QueueOwn' /\ WaitOwn'
    BY <1>1, MoveUnqueued, MoveAwake DEF ForwardInv, OwnerRan
<1>8. ManagerOne'
    BY <1>1, <1>5, MoveUnmanaged
<1>9. Exact'
    BY <1>2, <1>4 DEF ForwardInv, Exact
<1>10. WithinLimits'
    <2>1. MaxForwards > 0 => count[c] + 1 <= MaxForwards
        BY <1>3, ServerAssumption DEF SlotAvailable
    <2> SUFFICES ASSUME NEW d \in Client
                 PROVE  WithinLimits!(d)'
        BY DEF WithinLimits
    <2>2. CASE d # c
        BY <1>4, <1>5, <2>2 DEF ForwardInv, WithinLimits
    <2>3. CASE d = c
        <3>1. dialing'[c] = dialing[c] - 1 /\ count'[c] = count[c] + 1
            BY <1>4
        <3>2. MaxDialing > 0 /\ client[c] \notin {"draining", "drained", "exited"} =>
                /\ dialing[c] <= MaxDialing
                /\ manager[c] = None \/ dialSignal[c] = "fired" => dialing[c] < MaxDialing
            BY DEF ForwardInv, WithinLimits
        <3>3. MaxDialing > 0 /\ client[c] \notin {"draining", "drained", "exited"} =>
                dialing[c] - 1 < MaxDialing /\ dialing[c] - 1 <= MaxDialing
            BY <1>3, <3>2, ServerAssumption
        <3> QED
            BY <2>1, <2>3, <3>1, <3>3
    <2> QED
        BY <2>2, <2>3
<1> QED
    BY <1>6, <1>7, <1>8, <1>9, <1>10 DEF ForwardInv

\* So does the first try to establish a port forward.
LEMMA EstablishStep ==
    ASSUME ForwardInv, NEW c \in Client, NEW i \in Forward, Establish(c, i)
    PROVE  ForwardInv'
<1>1. /\ fwd[i] = "dialed" /\ owner[i] = c
      /\ UNCHANGED <<client, owner, requestVars, condWait>>
    BY DEF Establish, clientVars, condVars
<1>2. CASE SlotAvailable(c)
    <2>1. AllocatePortForward(c) /\ Move(i, "established") /\ UNCHANGED <<queue, manager>>
        BY <1>1, <1>2 DEF Establish, requestVars
    <2> QED
        BY <1>1, <1>2, <2>1, AllocateStep
<1>3. CASE ~ SlotAvailable(c)
    <2>1. UNCHANGED slotVars /\ Move(i, "full")
        BY <1>3 DEF Establish
    <2> QED
        BY <1>1, <2>1, PlainMove
<1> QED
    BY <1>2, <1>3

\* So does the check of the established limit under the lock.
LEMMA CondCheckStep ==
    ASSUME ForwardInv, NEW c \in Client, NEW i \in Forward, CondCheck(c, i)
    PROVE  ForwardInv'
<1>1. /\ fwd[i] = "checking" /\ owner[i] = c
      /\ UNCHANGED <<client, owner, requestVars, condWait>>
    BY DEF CondCheck, clientVars
<1>2. CASE SlotAvailable(c)
    <2>1. AllocatePortForward(c) /\ Move(i, "established") /\ UNCHANGED <<queue, manager>>
        BY <1>1, <1>2 DEF CondCheck, requestVars
    <2> QED
        BY <1>1, <1>2, <2>1, AllocateStep
<1>3. CASE ~ SlotAvailable(c)
    <2>1. UNCHANGED slotVars /\ Move(i, "sleeping")
        BY <1>3 DEF CondCheck
    <2> QED
        BY <1>1, <2>1, PlainMove
<1> QED
    BY <1>2, <1>3

\* So does the wait.
LEMMA CondWaitStep ==
    ASSUME ForwardInv, NEW c \in Client, NEW i \in Forward, CondWait(c, i)
    PROVE  ForwardInv'
<1>1. /\ fwd[i] = "sleeping" /\ owner[i] = c /\ Move(i, "asleep")
      /\ condWait' = [condWait EXCEPT ![c] = Append(condWait[c], i)]
      /\ UNCHANGED <<client, owner, queue, manager, dialSignal, dialing, count>>
    BY DEF CondWait, clientVars, requestVars, slotVars
<1>2. /\ fwd[i] \in DialPhases /\ fwd[i] \notin SlotPhases \cup ManagedPhases
      /\ "asleep" \in DialPhases /\ "asleep" \notin SlotPhases \cup ManagedPhases
    BY <1>1 DEF ManagedPhases, DialPhases, SlotPhases
<1>3. \A j \in Forward : fwd'[j] = IF j = i THEN "asleep" ELSE fwd[j]
    BY <1>1 DEF Move, ForwardInv, ForwardTypes
<1>4. \A d \in Client : /\ condWait[d] \in Seq(Forward)
                        /\ condWait'[d] = IF d = c THEN Append(condWait[c], i) ELSE condWait[d]
    BY <1>1 DEF ForwardInv, ForwardTypes
<1>5. /\ Append(condWait[c], i) \in Seq(Forward)
      /\ Len(Append(condWait[c], i)) = Len(condWait[c]) + 1
      /\ \A k \in 1..Len(condWait[c]) : Append(condWait[c], i)[k] = condWait[c][k]
      /\ Append(condWait[c], i)[Len(condWait[c]) + 1] = i
      /\ Len(condWait[c]) \in Nat
    BY <1>4, AppendProperties, LenProperties
<1>6. ForwardTypes'
    <2>1. condWait' \in [Client -> Seq(Forward)]
        BY <1>1, <1>5 DEF ForwardInv, ForwardTypes
    <2> QED
        BY <1>1, <2>1, MoveType DEF ForwardInv, ForwardTypes
<1>7. OwnerRan' /\ QueueOwn' /\ ManagerOne'
    BY <1>1, <1>2, MoveUnqueued, MoveUnmanaged DEF ForwardInv, OwnerRan
<1>8. \A d \in Client : \A k \in 1..Len(condWait[d]) :
        condWait[d][k] \in Forward /\ condWait[d][k] # i
    BY <1>1, <1>4, ElementOfSeq DEF ForwardInv, WaitOwn
<1>9. WaitOwn'
    <2> SUFFICES ASSUME NEW d \in Client, NEW k \in 1..Len(condWait'[d])
                 PROVE  /\ fwd'[condWait'[d][k]] = "asleep" /\ owner'[condWait'[d][k]] = d
                        /\ \A m \in 1..Len(condWait'[d]) : condWait'[d][k] = condWait'[d][m] => k = m
        BY DEF WaitOwn
    <2>0. d = c => Len(condWait'[d]) = Len(condWait[c]) + 1
        BY <1>4, <1>5
    <2>1. CASE d # c
        <3>1. condWait'[d] = condWait[d] /\ k \in 1..Len(condWait[d])
            BY <1>4, <2>1
        <3>2. condWait[d][k] \in Forward /\ condWait[d][k] # i
            BY <1>8, <3>1
        <3> QED
            BY <1>1, <1>3, <3>1, <3>2 DEF ForwardInv, WaitOwn
    <2>2. CASE d = c /\ k = Len(condWait[c]) + 1
        <3>1. condWait'[d][k] = i
            BY <1>4, <1>5, <2>2
        <3>2. \A m \in 1..Len(condWait'[d]) : m # k => m \in 1..Len(condWait[c])
            BY <1>5, <2>0, <2>2
        <3>3. \A m \in 1..Len(condWait'[d]) : m # k => condWait'[d][m] # i
            BY <1>4, <1>5, <1>8, <2>2, <3>2
        <3> QED
            BY <1>1, <1>3, <2>2, <3>1, <3>3
    <2>3. CASE d = c /\ k \in 1..Len(condWait[c])
        <3>1. /\ fwd[condWait[c][k]] = "asleep" /\ owner[condWait[c][k]] = c
              /\ \A m \in 1..Len(condWait[c]) : condWait[c][k] = condWait[c][m] => k = m
            BY <2>3 DEF ForwardInv, WaitOwn
        <3>2. condWait'[d][k] = condWait[c][k] /\ condWait[c][k] \in Forward /\ condWait[c][k] # i
            BY <1>4, <1>5, <1>8, <2>3
        <3>3. \A m \in 1..Len(condWait'[d]) : m = Len(condWait[c]) + 1 \/ m \in 1..Len(condWait[c])
            BY <1>5, <2>0, <2>3
        <3>5. \A m \in 1..Len(condWait[c]) : condWait'[d][m] = condWait[c][m]
            BY <1>4, <1>5, <2>3
        <3>6. condWait'[d][Len(condWait[c]) + 1] = i
            BY <1>4, <1>5, <2>3
        <3>4. \A m \in 1..Len(condWait'[d]) : condWait'[d][k] = condWait'[d][m] => k = m
            BY <3>1, <3>2, <3>3, <3>5, <3>6
        <3> QED
            BY <1>1, <1>3, <2>3, <3>1, <3>2, <3>4
    <2>4. k = Len(condWait[c]) + 1 \/ k \in 1..Len(condWait[c]) \/ d # c
        BY <1>5, <2>0
    <2> QED
        BY <2>1, <2>2, <2>3, <2>4
<1>10. Exact'
    <2>1. \A d \in Client : /\ Cardinality(HoldsDialing(d)') = Cardinality(HoldsDialing(d))
                            /\ Cardinality(HoldsSlot(d)') = Cardinality(HoldsSlot(d))
        BY <1>1, <1>2, MoveCounts DEF ForwardInv
    <2> QED
        BY <1>1, <2>1 DEF ForwardInv, Exact
<1>11. WithinLimits'
    BY <1>1 DEF ForwardInv, WithinLimits
<1> QED
    BY <1>6, <1>7, <1>9, <1>10, <1>11 DEF ForwardInv

\* So does the end of a port forward.
LEMMA ClosedStep ==
    ASSUME ForwardInv, NEW c \in Client, NEW i \in Forward, ClosedPortForward(c, i)
    PROVE  ForwardInv'
<1>1. /\ fwd[i] = "ended" /\ owner[i] = c /\ Move(i, "signalling")
      /\ count' = [count EXCEPT ![c] = count[c] - 1]
      /\ UNCHANGED <<client, owner, queue, manager, dialSignal, dialing, condWait>>
    BY DEF ClosedPortForward, clientVars, requestVars, condVars
<1>2. /\ fwd[i] \notin {"queued", "asleep"} /\ fwd[i] \in SlotPhases
      /\ fwd[i] \notin DialPhases \cup ManagedPhases
      /\ "signalling" \notin ManagedPhases \cup DialPhases \cup SlotPhases
    BY <1>1 DEF ManagedPhases, DialPhases, SlotPhases
<1>3. \A d \in Client :
        /\ Cardinality(HoldsDialing(d)') = Cardinality(HoldsDialing(d))
        /\ Cardinality(HoldsSlot(d)') = IF d = c THEN Cardinality(HoldsSlot(d)) - 1
                                        ELSE Cardinality(HoldsSlot(d))
    BY <1>1, <1>2, MoveCounts DEF ForwardInv
<1>4. count[c] \in Nat /\ count[c] >= 1
    BY <1>1, <1>2, MoveCounts DEF ForwardInv, ForwardTypes, Exact
<1>5. /\ count' \in [Client -> Nat]
      /\ \A d \in Client : count'[d] = IF d = c THEN count[c] - 1 ELSE count[d]
    BY <1>1, <1>4 DEF ForwardInv, ForwardTypes
<1>6. ForwardTypes'
    BY <1>1, <1>5, MoveType DEF ForwardInv, ForwardTypes
<1>7. OwnerRan' /\ QueueOwn' /\ WaitOwn' /\ ManagerOne'
    BY <1>1, <1>2, MoveUnqueued, MoveAwake, MoveUnmanaged DEF ForwardInv, OwnerRan
<1>8. Exact'
    BY <1>1, <1>3, <1>5 DEF ForwardInv, Exact
<1>9. WithinLimits'
    BY <1>1, <1>4, <1>5, ServerAssumption DEF ForwardInv, WithinLimits
<1> QED
    BY <1>6, <1>7, <1>8, <1>9 DEF ForwardInv

\* The signal wakes the oldest waiter, which keeps its dialing slot.
LEMMA WakeStep ==
    ASSUME ForwardInv, NEW c \in Client, NEW i \in Forward, Signal(c, i), condWait[c] # <<>>
    PROVE  ForwardInv'
<1> DEFINE h == Head(condWait[c])
<1>1. /\ fwd[i] = "signalling" /\ owner[i] = c
      /\ fwd' = [fwd EXCEPT ![i] = "finished", ![h] = "locking"]
      /\ condWait' = [condWait EXCEPT ![c] = Tail(condWait[c])]
      /\ UNCHANGED <<client, owner, queue, manager, dialSignal, dialing, count>>
    BY DEF Signal, clientVars, requestVars, slotVars
<1>2. \A d \in Client : condWait[d] \in Seq(Forward) /\ queue[d] \in Seq(Forward)
    BY DEF ForwardInv, ForwardTypes
<1>3. /\ h \in Forward /\ h = condWait[c][1] /\ 1 \in 1..Len(condWait[c])
      /\ Tail(condWait[c]) \in Seq(Forward)
      /\ Len(Tail(condWait[c])) = Len(condWait[c]) - 1 /\ Len(condWait[c]) \in Nat
      /\ \A k \in 1..Len(Tail(condWait[c])) : Tail(condWait[c])[k] = condWait[c][k + 1]
    BY <1>2, HeadTailProperties, EmptySeq
<1>4. fwd[h] = "asleep" /\ owner[h] = c
    BY <1>3 DEF ForwardInv, WaitOwn
<1> HIDE DEF h
<1>5. /\ fwd' \in [Forward -> {"new", "queued", "reserved", "limited", "blocked", "dialing", "dialed",
                            "full", "locking", "checking", "sleeping", "asleep", "established",
                            "relaying", "ended", "signalling", "finished"}]
      /\ \A j \in Forward : fwd'[j] = IF j = h THEN "locking"
                                      ELSE IF j = i THEN "finished" ELSE fwd[j]
    BY <1>1, <1>3 DEF ForwardInv, ForwardTypes
<1>6. \A d \in Client : condWait'[d] = IF d = c THEN Tail(condWait[c]) ELSE condWait[d]
    BY <1>1 DEF ForwardInv, ForwardTypes
<1>7. ForwardTypes'
    <2>1. condWait' \in [Client -> Seq(Forward)]
        BY <1>1, <1>3 DEF ForwardInv, ForwardTypes
    <2> QED
        BY <1>1, <1>5, <2>1 DEF ForwardInv, ForwardTypes
<1>8. QueueOwn'
    <2>1. \A d \in Client : \A k \in 1..Len(queue[d]) :
            queue[d][k] \in Forward /\ queue[d][k] # i /\ queue[d][k] # h
        BY <1>1, <1>2, <1>4, ElementOfSeq DEF ForwardInv, QueueOwn
    <2> QED
        BY <1>1, <1>5, <2>1 DEF ForwardInv, QueueOwn
<1>9. WaitOwn'
    <2> SUFFICES ASSUME NEW d \in Client, NEW k \in 1..Len(condWait'[d])
                 PROVE  /\ fwd'[condWait'[d][k]] = "asleep" /\ owner'[condWait'[d][k]] = d
                        /\ \A m \in 1..Len(condWait'[d]) : condWait'[d][k] = condWait'[d][m] => k = m
        BY DEF WaitOwn
    <2>1. CASE d # c
        <3>1. condWait'[d] = condWait[d] /\ k \in 1..Len(condWait[d])
            BY <1>6, <2>1
        <3>2. /\ fwd[condWait[d][k]] = "asleep" /\ owner[condWait[d][k]] = d
              /\ condWait[d][k] \in Forward
            BY <1>2, <3>1, ElementOfSeq DEF ForwardInv, WaitOwn
        <3>3. condWait[d][k] # i /\ condWait[d][k] # h
            BY <1>1, <1>4, <2>1, <3>2
        <3>4. fwd'[condWait[d][k]] = "asleep" /\ owner'[condWait[d][k]] = d
            BY <1>1, <1>5, <3>2, <3>3
        <3>5. \A m \in 1..Len(condWait[d]) : condWait[d][k] = condWait[d][m] => k = m
            BY <3>1 DEF ForwardInv, WaitOwn
        <3> QED
            BY <3>1, <3>4, <3>5
    <2>2. CASE d = c
        <3>0. Len(condWait'[c]) = Len(condWait[c]) - 1
            BY <1>3, <1>6
        <3>1. /\ k + 1 \in 1..Len(condWait[c]) /\ k + 1 # 1
              /\ \A m \in 1..Len(condWait'[c]) : m + 1 \in 1..Len(condWait[c])
            BY <1>3, <2>2, <3>0
        <3>2. /\ fwd[condWait[c][k + 1]] = "asleep" /\ owner[condWait[c][k + 1]] = c
              /\ \A m \in 1..Len(condWait[c]) : condWait[c][k + 1] = condWait[c][m] => k + 1 = m
            BY <3>1 DEF ForwardInv, WaitOwn
        <3>3. condWait[c][k + 1] \in Forward /\ condWait[c][k + 1] # h /\ condWait[c][k + 1] # i
            BY <1>1, <1>2, <1>3, <3>1, <3>2, ElementOfSeq
        <3>4. \A m \in 1..Len(condWait'[c]) : condWait'[c][m] = condWait[c][m + 1]
            BY <1>3, <1>6
        <3>5. \A m \in 1..Len(condWait'[c]) : condWait'[c][k] = condWait'[c][m] => k = m
            BY <2>2, <3>1, <3>2, <3>4
        <3>6. condWait'[c][k] = condWait[c][k + 1]
            BY <2>2, <3>4
        <3> QED
            BY <1>1, <1>5, <2>2, <3>2, <3>3, <3>5, <3>6
    <2> QED
        BY <2>1, <2>2
<1>10. OwnerRan'
    BY <1>1 DEF ForwardInv, OwnerRan
<1>11. ManagerOne'
    <2>1. /\ fwd[i] \notin ManagedPhases /\ fwd[h] \notin ManagedPhases
          /\ "finished" \notin ManagedPhases /\ "locking" \notin ManagedPhases
        BY <1>1, <1>4 DEF ManagedPhases
    <2>2. \A d \in Client : manager[d] # None =>
            manager[d] \in Forward /\ manager[d] # i /\ manager[d] # h
        BY <2>1 DEF ForwardInv, ForwardTypes, ManagerOne
    <2> QED
        BY <1>1, <1>5, <2>1, <2>2 DEF ForwardInv, ManagerOne
<1>12. \A d \in Client : HoldsDialing(d)' = HoldsDialing(d) /\ HoldsSlot(d)' = HoldsSlot(d)
    BY <1>1, <1>3, <1>4, <1>5 DEF HoldsDialing, HoldsSlot
<1>13. Exact'
    BY <1>1, <1>12 DEF ForwardInv, Exact
<1>14. WithinLimits'
    BY <1>1 DEF ForwardInv, WithinLimits
<1> QED
    BY <1>7, <1>8, <1>9, <1>10, <1>11, <1>13, <1>14 DEF ForwardInv

\* Nobody waits: the signal has no effect.
LEMMA NoWaiterStep ==
    ASSUME ForwardInv, NEW c \in Client, NEW i \in Forward, Signal(c, i), condWait[c] = <<>>
    PROVE  ForwardInv'
<1>1. /\ fwd[i] = "signalling" /\ Move(i, "finished")
      /\ UNCHANGED <<client, owner, queue, manager, dialSignal, dialing, count, condWait>>
    BY DEF Signal, clientVars, requestVars, slotVars
<1>2. /\ fwd[i] \notin DialPhases \cup SlotPhases \cup ManagedPhases
      /\ "finished" \notin ManagedPhases \cup DialPhases \cup SlotPhases
    BY <1>1 DEF ManagedPhases, DialPhases, SlotPhases
<1>3. ForwardTypes'
    BY <1>1, MoveType DEF ForwardInv, ForwardTypes
<1>4. OwnerRan' /\ QueueOwn' /\ WaitOwn' /\ ManagerOne'
    BY <1>1, <1>2, MoveUnqueued, MoveAwake, MoveUnmanaged DEF ForwardInv, OwnerRan
<1>5. Exact'
    <2>1. \A d \in Client : /\ Cardinality(HoldsDialing(d)') = Cardinality(HoldsDialing(d))
                            /\ Cardinality(HoldsSlot(d)') = Cardinality(HoldsSlot(d))
        BY <1>1, <1>2, MoveCounts DEF ForwardInv
    <2> QED
        BY <1>1, <2>1 DEF ForwardInv, Exact
<1>6. WithinLimits'
    BY <1>1 DEF ForwardInv, WithinLimits
<1> QED
    BY <1>3, <1>4, <1>5, <1>6 DEF ForwardInv

\* The port forwards stay as they are, and clients go on: none that has run
\* is before its run again.
LEMMA ClientMoves ==
    ASSUME ForwardInv,
           client' \in [Client -> {"handshake", "evict", "await", "register", "running",
                                   "draining", "drained", "exited"}],
           \A c \in Client : client[c] \in {"running", "draining", "drained", "exited"} =>
             client'[c] \in {"running", "draining", "drained", "exited"},
           \A c \in Client : client[c] \in {"draining", "drained", "exited"} =>
             client'[c] \in {"draining", "drained", "exited"},
           UNCHANGED <<fwd, owner, queue, manager, dialSignal, dialing, count, condWait>>
    PROVE  ForwardInv'
<1>1. ForwardTypes'
    BY DEF ForwardInv, ForwardTypes
<1>2. OwnerRan'
    BY DEF ForwardInv, ForwardTypes, OwnerRan
<1>3. QueueOwn' /\ WaitOwn'
    BY DEF ForwardInv, QueueOwn, WaitOwn
<1>4. ManagerOne'
    BY DEF ForwardInv, ManagerOne
<1>5. Exact'
    BY DEF ForwardInv, Exact, HoldsDialing, HoldsSlot
<1>6. WithinLimits'
    BY DEF ForwardInv, WithinLimits
<1> QED
    BY <1>1, <1>2, <1>3, <1>4, <1>5, <1>6 DEF ForwardInv

\* Every step preserves the invariant.
LEMMA ForwardInductive == ForwardInv /\ [Next]_vars => ForwardInv'
<1> SUFFICES ASSUME ForwardInv, [Next]_vars
             PROVE  ForwardInv'
    OBVIOUS
<1>1. ASSUME NEW c \in Client, ClientStep(c)
      PROVE  ForwardInv'
    <2>1. UNCHANGED <<fwd, owner, queue, manager, dialSignal, dialing, count, condWait>>
        BY <1>1 DEF ClientStep, HandshakeFails, RegisterBegin, Evict, Evicted, Register,
           ChannelsEnd, Drained, Unregister, fwdVars, requestVars, slotVars, condVars
    <2>2. \/ /\ client[c] \notin {"running", "draining", "drained", "exited"}
             /\ \E p \in {"evict", "await", "register", "running", "exited"} : Go(c, p)
          \/ /\ client[c] \in {"running", "draining", "drained"}
             /\ \E p \in {"draining", "drained", "exited"} : Go(c, p)
        BY <1>1 DEF ClientStep, HandshakeFails, RegisterBegin, Evict, Evicted, Register,
           ChannelsEnd, Drained, Unregister
    <2>3. PICK p \in {"evict", "await", "register", "running", "draining", "drained", "exited"} :
             /\ client' = [client EXCEPT ![c] = p]
             /\ client[c] # "exited"
             /\ client[c] \in {"running", "draining", "drained"} => p \in {"draining", "drained", "exited"}
        BY <2>2 DEF Go
    <2>4. /\ client' \in [Client -> {"handshake", "evict", "await", "register", "running",
                                     "draining", "drained", "exited"}]
          /\ \A d \in Client : client'[d] = IF d = c THEN p ELSE client[d]
        BY <2>3 DEF ForwardInv, ForwardTypes
    <2>5. \A d \in Client : client[d] \in {"running", "draining", "drained", "exited"} =>
            client'[d] \in {"running", "draining", "drained", "exited"}
        BY <2>3, <2>4
    <2>6. \A d \in Client : client[d] \in {"draining", "drained", "exited"} =>
            client'[d] \in {"draining", "drained", "exited"}
        BY <2>3, <2>4
    <2> QED
        BY <2>1, <2>4, <2>5, <2>6, ClientMoves
<1>2. ASSUME UNCHANGED <<client, fwd, owner, queue, manager, dialSignal, dialing, count, condWait>>
      PROVE  ForwardInv'
    <2>1. client' \in [Client -> {"handshake", "evict", "await", "register", "running",
                                  "draining", "drained", "exited"}]
        BY <1>2 DEF ForwardInv, ForwardTypes
    <2> QED
        BY <1>2, <2>1, ClientMoves
<1>3. ASSUME NEW c \in Client, Disconnect(c) \/ \E i \in Forward : Touch(c, i)
      PROVE  ForwardInv'
    BY <1>2, <1>3 DEF Disconnect, Touch, clientVars, fwdVars, requestVars, slotVars, condVars
<1>4. CASE StopClients \/ StopClientsReturns
    BY <1>2, <1>4 DEF StopClients, StopClientsReturns, fwdVars, requestVars, slotVars, condVars
<1>5. ASSUME NEW c \in Client, NEW i \in Forward, Dequeue(c, i)
      PROVE  ForwardInv'
    <2>1. CASE Move(i, "finished") /\ UNCHANGED <<manager, dialing>>
        BY <1>5, <2>1, RejectStep
    <2>2. CASE /\ Move(i, "reserved") /\ manager' = [manager EXCEPT ![c] = i]
               /\ dialing' = [dialing EXCEPT ![c] = dialing[c] + 1]
        BY <1>5, <2>2, ReserveStep
    <2> QED
        BY <1>5, <2>1, <2>2 DEF Dequeue
<1>6. ASSUME NEW c \in Client, NEW i \in Forward,
             DialSucceeds(c, i) \/ CloseOldest(c, i) \/ CondLock(c, i)
             \/ StartRelay(c, i) \/ EndRelay(c, i)
      PROVE  ForwardInv'
    <2>1. UNCHANGED <<client, owner, requestVars, slotVars, condWait>>
        BY <1>6 DEF DialSucceeds, CloseOldest, CondLock, StartRelay, EndRelay, clientVars, condVars
    <2>2. CASE DialSucceeds(c, i)
        BY <2>1, <2>2, PlainMove DEF DialSucceeds
    <2>3. CASE CloseOldest(c, i)
        BY <2>1, <2>3, PlainMove DEF CloseOldest
    <2>4. CASE CondLock(c, i)
        BY <2>1, <2>4, PlainMove DEF CondLock
    <2>5. CASE StartRelay(c, i)
        BY <2>1, <2>5, PlainMove DEF StartRelay
    <2>6. CASE EndRelay(c, i)
        BY <2>1, <2>6, PlainMove DEF EndRelay
    <2> QED
        BY <1>6, <2>2, <2>3, <2>4, <2>5, <2>6
<1>7. ASSUME NEW c \in Client, NEW i \in Forward, ForwardStep(c, i) \/ Request(c, i) \/ EndRelay(c, i)
      PROVE  ForwardInv'
    BY <1>5, <1>6, <1>7, RequestStep, CheckDialingStep, SetDialSignalStep, UnblockStep,
       DialFailsStep, EstablishStep, CondCheckStep, CondWaitStep, ClosedStep, WakeStep,
       NoWaiterStep DEF ForwardStep
<1>8. CASE UNCHANGED vars
    BY <1>2, <1>8 DEF vars, clientVars, fwdVars, requestVars, slotVars, condVars
<1> QED
    BY <1>1, <1>3, <1>4, <1>7, <1>8 DEF Next

\* The inductive invariant behind SlotsExact.
THEOREM ServerForwardInvariant == Spec => []ForwardInv
BY InitForwardInv, ForwardInductive, PTL DEF Spec

\* On every path a port forward can take (rejected, timed out while the
\* manager waits, failed in the dial, waiting for a slot, relayed, closed as
\* the oldest) the two counters of its client are the slots held, and neither
\* exceeds its limit while the tunnel runs.
THEOREM ServerSlotsExact == Spec => []SlotsExact
<1>1. ForwardInv => SlotsExact
    <2>1. ForwardInv => \A c \in Client : client[c] = "running" =>
            client[c] \notin {"draining", "drained", "exited"}
        OBVIOUS
    <2> QED
        BY <2>1 DEF ForwardInv, Exact, WithinLimits, SlotsExact
<1> QED
    BY <1>1, ServerForwardInvariant, PTL

=============================================================================
