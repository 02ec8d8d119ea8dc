---------------------------- MODULE TunnelServer ----------------------------
(***************************************************************************)
(* The server's tunnels (psiphon/server/tunnelServer.go): the registry of  *)
(* established clients of one session ID, each client's run from the end   *)
(* of its SSH handshake to its exit, the TCP port forwards each client may *)
(* have, limited in number while they dial and once they are established,  *)
(* and the shutdown that stops all clients.                                *)
(*                                                                         *)
(* A client reconnects with the session ID of its previous tunnel, so two  *)
(* or more clients of the same session may be alive together.              *)
(***************************************************************************)
EXTENDS Naturals, FiniteSets, Sequences, SequencesExt

CONSTANTS
    Client,         \* tunnels that present the session ID
    Forward,        \* TCP port forwards (a bound)
    MaxDialing,     \* MaxTCPDialingPortForwardCount; 0 is unlimited
    MaxForwards,    \* MaxTCPPortForwardCount; 0 is unlimited
    None            \* no client, no port forward

ASSUME ServerAssumption ==
    /\ {MaxDialing, MaxForwards} \subseteq Nat
    /\ None \notin Client \cup Forward
    /\ IsFiniteSet(Forward)

VARIABLES
    client,     \* per client: where sshClient.run is
    connClosed, \* clients whose SSH connection is closed
    registered, \* sshServer.clients[sessionID]
    existing,   \* per client: the existingClient it evicts
    stopping,   \* stoppingClients
    stopper,    \* stopClients: "idle", "waiting" or "done"
    snapshot,   \* the clients stopClients stops
    fwd,        \* per port forward: where its goroutine is
    owner,      \* per port forward: its client
    fwdClosed,  \* port forwards whose upstream connection is closed
    queue,      \* per client: newTCPPortForwards
    manager,    \* per client: the request handleTCPPortForwards works on
    dialSignal, \* per client: tcpPortForwardDialingAvailableSignal
    dialing,    \* per client: concurrentDialingPortForwardCount
    count,      \* per client: concurrentPortForwardCount
    lru,        \* per client: tcpPortForwardLRU, the oldest last
    condLock,   \* per client: the holder of availablePortForwardCond.L
    condWait    \* per client: the waiters of availablePortForwardCond, oldest first

clientVars == <<client, connClosed, registered, existing, stopping, stopper, snapshot>>
requestVars == <<queue, manager>>
slotVars == <<dialSignal, dialing, count>>
condVars == <<condLock, condWait>>
fwdVars == <<fwd, owner, fwdClosed, lru, requestVars, slotVars, condVars>>
vars == <<clientVars, fwdVars>>

Init ==
    /\ client = [c \in Client |-> "handshake"]
    /\ connClosed = {}
    /\ registered = None
    /\ existing = [c \in Client |-> None]
    /\ stopping = FALSE
    /\ stopper = "idle"
    /\ snapshot = {}
    /\ fwd = [i \in Forward |-> "new"]
    /\ owner = [i \in Forward |-> None]
    /\ fwdClosed = {}
    /\ queue = [c \in Client |-> <<>>]
    /\ manager = [c \in Client |-> None]
    /\ dialSignal = [c \in Client |-> "none"]
    /\ dialing = [c \in Client |-> 0]
    /\ count = [c \in Client |-> 0]
    /\ lru = [c \in Client |-> <<>>]
    /\ condLock = [c \in Client |-> None]
    /\ condWait = [c \in Client |-> <<>>]

-----------------------------------------------------------------------------
(* sshClient.run, registration and shutdown.                               *)

Go(c, phase) == client' = [client EXCEPT ![c] = phase]

\* The handshake fails, times out, or is interrupted by the shutdown.
HandshakeFails(c) ==
    /\ client[c] = "handshake"
    /\ Go(c, "exited")
    /\ UNCHANGED <<connClosed, registered, existing, stopping, stopper, snapshot, fwdVars>>

\* registerEstablishedClient, up to the first unlock.
RegisterBegin(c) ==
    /\ client[c] = "handshake"
    /\ existing' = [existing EXCEPT ![c] = IF stopping THEN None ELSE registered]
    /\ Go(c, CASE stopping -> "exited"
               [] registered = None -> "register"
               [] OTHER -> "evict")
    /\ UNCHANGED <<connClosed, registered, stopping, stopper, snapshot, fwdVars>>

\* existingClient.stop
Evict(c) ==
    /\ client[c] = "evict"
    /\ connClosed' = connClosed \cup {existing[c]}
    /\ Go(c, "await")
    /\ UNCHANGED <<registered, existing, stopping, stopper, snapshot, fwdVars>>

\* existingClient.awaitStopped
Evicted(c) ==
    /\ client[c] = "await"
    /\ client[existing[c]] = "exited"
    /\ existing' = [existing EXCEPT ![c] = None]
    /\ Go(c, "register")
    /\ UNCHANGED <<connClosed, registered, stopping, stopper, snapshot, fwdVars>>

\* Mutant: the registry is not looked at again after the wait.
Mutant_RegisterUnchecked(c) ==
    /\ client[c] = "register"
    /\ registered' = c
    /\ Go(c, "running")
    /\ UNCHANGED <<connClosed, existing, stopping, stopper, snapshot, fwdVars>>

\* The second part.  The new client is turned away when one of its session came
\* first, or when the clients of all sessions, most of them outside the model,
\* have reached SSH_MAX_CLIENT_COUNT.
Register(c) ==
    /\ client[c] = "register"
    /\ \/ registered = None /\ registered' = c /\ Go(c, "running")
       \/ UNCHANGED registered /\ Go(c, "exited")
    /\ UNCHANGED <<connClosed, existing, stopping, stopper, snapshot, fwdVars>>

\* The client disconnects, or its connection fails.
Disconnect(c) ==
    /\ client[c] = "running"
    /\ c \notin connClosed
    /\ connClosed' = connClosed \cup {c}
    /\ UNCHANGED <<client, registered, existing, stopping, stopper, snapshot, fwdVars>>

\* runTunnel leaves its channel loop: it closes newTCPPortForwards, cancels
\* runCtx and closes the upstream connections of the port forwards.
ChannelsEnd(c) ==
    /\ client[c] = "running"
    /\ c \in connClosed
    /\ Go(c, "draining")
    /\ fwdClosed' = fwdClosed \cup ToSet(lru[c])
    /\ lru' = [lru EXCEPT ![c] = <<>>]
    /\ UNCHANGED <<connClosed, registered, existing, stopping, stopper, snapshot,
                   fwd, owner, requestVars, slotVars, condVars>>

\* A port forward goroutine, or its request in the manager, is still there.
Pending(c) == {i \in Forward : owner[i] = c /\ fwd[i] # "finished"}

\* waitGroup.Wait returns; run stops the connection and logs the tunnel.
Drained(c) ==
    /\ client[c] = "draining"
    /\ Pending(c) = {}
    /\ Go(c, "drained")
    /\ UNCHANGED <<connClosed, registered, existing, stopping, stopper, snapshot, fwdVars>>

\* unregisterEstablishedClient, and run returns.
Unregister(c) ==
    /\ client[c] = "drained"
    /\ registered' = IF registered = c THEN None ELSE registered
    /\ Go(c, "exited")
    /\ UNCHANGED <<connClosed, existing, stopping, stopper, snapshot, fwdVars>>

\* stopClients
StopClients ==
    /\ stopper = "idle"
    /\ stopper' = "waiting"
    /\ stopping' = TRUE
    /\ snapshot' = {registered} \ {None}
    /\ registered' = None
    /\ connClosed' = connClosed \cup snapshot'
    /\ UNCHANGED <<client, existing, fwdVars>>

StopClientsReturns ==
    /\ stopper = "waiting"
    /\ \A c \in snapshot : client[c] = "exited"
    /\ stopper' = "done"
    /\ UNCHANGED <<client, connClosed, registered, existing, stopping, snapshot, fwdVars>>

-----------------------------------------------------------------------------
(* The TCP port forward manager, handleTCPPortForwards.                    *)

Move(i, phase) == fwd' = [fwd EXCEPT ![i] = phase]

\* handleNewTCPPortForwardChannel enqueues the request.
Request(c, i) ==
    /\ client[c] = "running"
    /\ fwd[i] = "new"
    /\ Move(i, "queued")
    /\ owner' = [owner EXCEPT ![i] = c]
    /\ queue' = [queue EXCEPT ![c] = Append(@, i)]
    /\ UNCHANGED <<clientVars, fwdClosed, lru, manager, slotVars, condVars>>

\* A request that timed out in the queue is rejected; the next one reserves its
\* dialing slot before the limit is checked.
Dequeue(c, i) ==
    /\ manager[c] = None
    /\ queue[c] # <<>>
    /\ i = Head(queue[c])
    /\ queue' = [queue EXCEPT ![c] = Tail(@)]
    /\ \/ Move(i, "finished") /\ UNCHANGED <<manager, dialing>>
       \/ /\ Move(i, "reserved")
          /\ manager' = [manager EXCEPT ![c] = i]
          /\ dialing' = [dialing EXCEPT ![c] = @ + 1]
    /\ UNCHANGED <<clientVars, owner, fwdClosed, lru, dialSignal, count, condVars>>

\* Dispatches i to its own goroutine, handleTCPChannel.
Dispatch(c, i) == Move(i, "dialing") /\ manager' = [manager EXCEPT ![c] = None]

\* isTCPDialingPortForwardLimitExceeded
DialingExceeded(c) == MaxDialing > 0 /\ dialing[c] >= MaxDialing

CheckDialing(c, i) ==
    /\ fwd[i] = "reserved" /\ owner[i] = c
    /\ IF DialingExceeded(c)
       THEN Move(i, "limited") /\ UNCHANGED manager
       ELSE Dispatch(c, i)
    /\ UNCHANGED <<clientVars, owner, fwdClosed, lru, queue, slotVars, condVars>>

SetDialSignal(c, i) ==
    /\ fwd[i] = "limited" /\ owner[i] = c
    /\ Move(i, "blocked")
    /\ dialSignal' = [dialSignal EXCEPT ![c] = "armed"]
    /\ UNCHANGED <<clientVars, owner, fwdClosed, lru, requestVars, dialing, count, condVars>>

\* The manager's wait ends: a slot was signalled, runCtx is cancelled, or the
\* time is up and the request is rejected.
Unblock(c, i) ==
    /\ fwd[i] = "blocked" /\ owner[i] = c
    /\ dialSignal' = [dialSignal EXCEPT ![c] = "none"]
    /\ \/ /\ dialSignal[c] = "fired" \/ client[c] # "running"
          /\ Dispatch(c, i)
          /\ UNCHANGED dialing
       \/ /\ Move(i, "finished")
          /\ manager' = [manager EXCEPT ![c] = None]
          /\ dialing' = [dialing EXCEPT ![c] = @ - 1]
    /\ UNCHANGED <<clientVars, owner, fwdClosed, lru, queue, count, condVars>>

-----------------------------------------------------------------------------
(* handleTCPChannel: dial, get an established slot, relay.                 *)

\* Mutant: a failed dial keeps its dialing slot.
Mutant_AbortKeepsSlot(c, i) ==
    /\ fwd[i] = "dialing" /\ owner[i] = c
    /\ Move(i, "finished")
    /\ UNCHANGED <<clientVars, owner, fwdClosed, lru, requestVars, slotVars, condVars>>

\* The port forward is not permitted, the dial fails or the channel is gone;
\* abortedTCPPortForward gives the dialing slot back.
DialFails(c, i) ==
    /\ fwd[i] = "dialing" /\ owner[i] = c
    /\ Move(i, "finished")
    /\ dialing' = [dialing EXCEPT ![c] = @ - 1]
    /\ UNCHANGED <<clientVars, owner, fwdClosed, lru, requestVars, dialSignal, count, condVars>>

DialSucceeds(c, i) ==
    /\ fwd[i] = "dialing" /\ owner[i] = c
    /\ Move(i, "dialed")
    /\ UNCHANGED <<clientVars, owner, fwdClosed, lru, requestVars, slotVars, condVars>>

\* allocatePortForward
SlotAvailable(c) == MaxForwards = 0 \/ count[c] < MaxForwards

AllocatePortForward(c) ==
    /\ count' = [count EXCEPT ![c] = @ + 1]
    /\ dialing' = [dialing EXCEPT ![c] = @ - 1]
    /\ dialSignal' =
        IF dialSignal[c] = "armed" /\ (MaxDialing = 0 \/ dialing[c] - 1 < MaxDialing)
        THEN [dialSignal EXCEPT ![c] = "fired"]
        ELSE dialSignal

\* establishedPortForward: the first try.
Establish(c, i) ==
    /\ fwd[i] = "dialed" /\ owner[i] = c
    /\ IF SlotAvailable(c)
       THEN AllocatePortForward(c) /\ Move(i, "established")
       ELSE UNCHANGED slotVars /\ Move(i, "full")
    /\ UNCHANGED <<clientVars, owner, fwdClosed, lru, requestVars, condVars>>

CloseOldest(c, i) ==
    /\ fwd[i] = "full" /\ owner[i] = c
    /\ Move(i, "locking")
    /\ IF lru[c] = <<>>
       THEN UNCHANGED <<lru, fwdClosed>>
       ELSE /\ lru' = [lru EXCEPT ![c] = Front(@)]
            /\ fwdClosed' = fwdClosed \cup {Last(lru[c])}
    /\ UNCHANGED <<clientVars, owner, requestVars, slotVars, condVars>>

CondLock(c, i) ==
    /\ fwd[i] = "locking" /\ owner[i] = c
    /\ condLock[c] = None
    /\ condLock' = [condLock EXCEPT ![c] = i]
    /\ Move(i, "checking")
    /\ UNCHANGED <<clientVars, owner, fwdClosed, lru, requestVars, slotVars, condWait>>

\* The condition of the wait loop, under the condition variable's own mutex.
CondCheck(c, i) ==
    /\ fwd[i] = "checking" /\ owner[i] = c
    /\ IF SlotAvailable(c)
       THEN /\ AllocatePortForward(c)
            /\ condLock' = [condLock EXCEPT ![c] = None]
            /\ Move(i, "established")
       ELSE /\ Move(i, "sleeping")
            /\ UNCHANGED <<slotVars, condLock>>
    /\ UNCHANGED <<clientVars, owner, fwdClosed, lru, requestVars, condWait>>

\* Cond.Wait adds the goroutine to the waiters and unlocks.
CondWait(c, i) ==
    /\ fwd[i] = "sleeping" /\ owner[i] = c
    /\ condWait' = [condWait EXCEPT ![c] = Append(@, i)]
    /\ condLock' = [condLock EXCEPT ![c] = None]
    /\ Move(i, "asleep")
    /\ UNCHANGED <<clientVars, owner, fwdClosed, lru, requestVars, slotVars>>

\* LRUConns.Add
StartRelay(c, i) ==
    /\ fwd[i] = "established" /\ owner[i] = c
    /\ Move(i, "relaying")
    /\ lru' = [lru EXCEPT ![c] = <<i>> \o @]
    /\ UNCHANGED <<clientVars, owner, fwdClosed, requestVars, slotVars, condVars>>

\* LRUConnsEntry.Touch, which has no effect on an entry that was removed.
Touch(c, i) ==
    /\ fwd[i] = "relaying" /\ owner[i] = c
    /\ i \in ToSet(lru[c])
    /\ lru' = [lru EXCEPT ![c] = <<i>> \o SelectSeq(@, LAMBDA j : j # i)]
    /\ UNCHANGED <<clientVars, fwd, owner, fwdClosed, requestVars, slotVars, condVars>>

\* The relay ends: the peer closes, or the upstream or the SSH connection is
\* closed.  The deferred LRUConnsEntry.Remove runs first.
EndRelay(c, i) ==
    /\ fwd[i] = "relaying" /\ owner[i] = c
    /\ Move(i, "ended")
    /\ fwdClosed' = fwdClosed \cup {i}
    /\ lru' = [lru EXCEPT ![c] = SelectSeq(@, LAMBDA j : j # i)]
    /\ UNCHANGED <<clientVars, owner, requestVars, slotVars, condVars>>

\* closedPortForward frees the slot, and signals after it has unlocked.
ClosedPortForward(c, i) ==
    /\ fwd[i] = "ended" /\ owner[i] = c
    /\ Move(i, "signalling")
    /\ count' = [count EXCEPT ![c] = @ - 1]
    /\ UNCHANGED <<clientVars, owner, fwdClosed, lru, requestVars, dialSignal, dialing, condVars>>

Signal(c, i) ==
    /\ fwd[i] = "signalling" /\ owner[i] = c
    /\ IF condWait[c] = <<>>
       THEN Move(i, "finished") /\ UNCHANGED condWait
       ELSE /\ fwd' = [fwd EXCEPT ![i] = "finished", ![Head(condWait[c])] = "locking"]
            /\ condWait' = [condWait EXCEPT ![c] = Tail(@)]
    /\ UNCHANGED <<clientVars, owner, fwdClosed, lru, requestVars, slotVars, condLock>>

-----------------------------------------------------------------------------
\* What the goroutines do by themselves.
ClientStep(c) ==
    \/ HandshakeFails(c) \/ RegisterBegin(c)
    \/ Evict(c) \/ Evicted(c) \/ Register(c)
    \/ ChannelsEnd(c) \/ Drained(c) \/ Unregister(c)

\* A relay need not end while both its connections are open.
ForwardStep(c, i) ==
    \/ Dequeue(c, i) \/ CheckDialing(c, i) \/ SetDialSignal(c, i) \/ Unblock(c, i)
    \/ DialFails(c, i) \/ DialSucceeds(c, i)
    \/ Establish(c, i) \/ CloseOldest(c, i)
    \/ CondLock(c, i) \/ CondCheck(c, i) \/ CondWait(c, i)
    \/ StartRelay(c, i)
    \/ ClosedPortForward(c, i) \/ Signal(c, i)

Next ==
    \/ \E c \in Client :
        \/ ClientStep(c)
        \/ Disconnect(c)
        \/ \E i \in Forward :
            \/ ForwardStep(c, i)
            \/ Request(c, i) \/ EndRelay(c, i) \/ Touch(c, i)
    \/ StopClients
    \/ StopClientsReturns

Spec == Init /\ [][Next]_vars

\* Goroutines run, dials end within their timeout, and a relay ends once one of
\* its connections is closed.  The cond mutex is held for a few steps only, so
\* a goroutine that keeps asking for it gets it.
FairSpec ==
    /\ Spec
    /\ \A c \in Client : WF_vars(ClientStep(c))
    /\ \A c \in Client, i \in Forward :
        /\ WF_vars(ForwardStep(c, i))
        /\ SF_vars(CondLock(c, i))
        /\ WF_vars((i \in fwdClosed \/ c \in connClosed) /\ EndRelay(c, i))
    /\ WF_vars(StopClientsReturns)

-----------------------------------------------------------------------------
(* Properties.                                                             *)

\* Type correctness of the registry, the port forwards and their counters.
TypeOK ==
    /\ client \in [Client -> {"handshake", "evict", "await", "register", "running",
                              "draining", "drained", "exited"}]
    /\ connClosed \subseteq Client
    /\ registered \in Client \cup {None}
    /\ existing \in [Client -> Client \cup {None}]
    /\ stopping \in BOOLEAN
    /\ stopper \in {"idle", "waiting", "done"}
    /\ snapshot \subseteq Client
    /\ fwd \in [Forward -> {"new", "queued", "reserved", "limited", "blocked", "dialing", "dialed",
                            "full", "locking", "checking", "sleeping", "asleep", "established",
                            "relaying", "ended", "signalling", "finished"}]
    /\ owner \in [Forward -> Client \cup {None}]
    /\ fwdClosed \subseteq Forward
    /\ queue \in [Client -> Seq(Forward)]
    /\ manager \in [Client -> Forward \cup {None}]
    /\ dialSignal \in [Client -> {"none", "armed", "fired"}]
    /\ dialing \in [Client -> Nat]
    /\ count \in [Client -> Nat]
    /\ lru \in [Client -> Seq(Forward)]
    /\ condLock \in [Client -> Forward \cup {None}]
    /\ condWait \in [Client -> Seq(Forward)]

\* The port forwards of c that hold a dialing slot, and an established one.
HoldsDialing(c) ==
    {i \in Forward : owner[i] = c /\ fwd[i] \in
        {"reserved", "limited", "blocked", "dialing", "dialed", "full", "locking",
         "checking", "sleeping", "asleep"}}
HoldsSlot(c) ==
    {i \in Forward : owner[i] = c /\ fwd[i] \in {"established", "relaying", "ended"}}

\* The counters are the slots held, on every path a port forward can take, and
\* never exceed the limits of the traffic rules: a reservation is made before
\* the dialing limit is checked and still stays within it, until the tunnel
\* ends and the manager lets every waiting request go.
SlotsExact ==
    \A c \in Client :
        /\ dialing[c] = Cardinality(HoldsDialing(c))
        /\ count[c] = Cardinality(HoldsSlot(c))
        /\ MaxForwards > 0 => count[c] <= MaxForwards
        /\ MaxDialing > 0 /\ client[c] = "running" => dialing[c] <= MaxDialing

\* Until the shutdown the registry holds exactly the one client of the session
\* whose tunnel runs or winds down: a new client is registered only after all
\* port forwards and handlers of the previous one have ended, also when several
\* new clients evict the same one.
OneTunnelPerSession ==
    ~stopping => \A c \in Client :
        client[c] \in {"running", "draining", "drained"} <=> registered = c

\* What closedPortForward says: it signals "any goroutine waiting in
\* establishedPortForward that an established port forward slot is available",
\* so a tunnel whose connection is closed ends, as the client that evicts it
\* requires.  The code breaks it: the slot is not guarded by the condition
\* variable's mutex, so the signal may come between the check and the wait.
ClosedTunnelExits ==
    \A c \in Client : client[c] = "running" /\ c \in connClosed ~> client[c] = "exited"

=============================================================================
