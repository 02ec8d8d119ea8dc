----------------------------- MODULE Controller -----------------------------
(***************************************************************************)
(* The tunnel pool and the establishment of tunnels in the client          *)
(* controller (psiphon/controller.go).                                     *)
(*                                                                         *)
(* Goroutines: runTunnels, the main loop, which alone starts and stops     *)
(* establishing; launchEstablishing, establishCandidateGenerator and the   *)
(* establishTunnelWorkers of one establishment; one operateTunnel per      *)
(* activated tunnel (tunnel.go); establishTunnelWatcher; and the host's    *)
(* calls: Dial, NetworkChanged / ReconnectTunnel, ImportExchangePayload /  *)
(* ImportPushPayload, and the end of the run context.                      *)
(*                                                                         *)
(* tunnelMutex is explicit because terminateTunnel and terminateAllTunnels *)
(* hold it while Tunnel.Close waits for operateTunnel.  The other sections *)
(* under tunnelMutex or concurrentEstablishTunnelsMutex are single steps.  *)
(* Server entries are an abstract set from which the iterator may yield    *)
(* any element at any time; what a dial does is its outcome.  The tactics  *)
(* goroutine of launchEstablishing, notices, metrics and garbage           *)
(* collection have no effect on this state and are left out.               *)
(***************************************************************************)
EXTENDS Integers, FiniteSets, Sequences, SequencesExt

CONSTANTS
    Tunnel,            \* tunnel objects; one is reused once nothing refers to it
    Server,            \* the known server entries
    Worker,            \* establishTunnelWorker goroutines (ConnectionWorkerPoolSize)
    NoTunnel,          \* the nil *Tunnel
    NoServer,          \* no server entry
    MaxPoolSize,       \* MAX_TUNNEL_POOL_SIZE: pool ceiling and channel capacity
    TunnelPoolSizes,   \* values of the TunnelPoolSize parameter at a launch
    LimitIntensive,    \* LimitIntensiveConnectionWorkers, 0 for no limit
    MaxSignals         \* bound on the host's failure and restart signals

ASSUME ControllerAssumption ==
    /\ NoTunnel \notin Tunnel
    /\ NoServer \notin Server
    /\ MaxPoolSize \in Nat \ {0}
    /\ TunnelPoolSizes \subseteq Nat
    /\ LimitIntensive \in Nat
    /\ MaxSignals \in Nat

VARIABLES
    \* the pool, under tunnelMutex
    tunnels, nextTunnel, tunnelPoolSize, establishedOnce, tunnelMutex,
    \* the buffered channels read by runTunnels
    connectedTunnels, failedTunnels,
    \* each tunnel: its server, "open"/"closing"/"closed" (also: not connected
    \* yet), where its operateTunnel is, and whether it sends status requests
    server, conn, op, reporter,
    \* the establishment in progress
    isEstablishing, establishStopped, launch, gen, genAffinity, affinityDone,
    worker, concurrentEstablish, concurrentIntensive,
    \* runTunnels: program counter, where it continues, the tunnel in hand
    rt, rtNext, rtTunnel, isFirstTunnel, isLastTunnel,
    \* the host's TerminateNextActiveTunnel call, the restart signal (buffer 1),
    \* the establishTunnelWatcher timer and the run context
    host, hostTunnel, signals, restartSignal, watcher, runDone,
    \* Go run-time panics: channels closed twice or sent on after their close,
    \* "host" for the send of a TerminateNextActiveTunnel call
    fault

poolVars == <<tunnels, nextTunnel, tunnelPoolSize, establishedOnce, tunnelMutex>>
channelVars == <<connectedTunnels, failedTunnels>>
tunnelVars == <<server, conn, op, reporter>>
establishVars == <<isEstablishing, establishStopped, launch, gen, genAffinity, affinityDone>>
workerVars == <<worker, concurrentEstablish, concurrentIntensive>>
rtVars == <<rt, rtNext, rtTunnel, isFirstTunnel, isLastTunnel>>
hostVars == <<host, hostTunnel, signals, restartSignal, watcher>>
vars == <<poolVars, channelVars, tunnelVars, establishVars, workerVars, rtVars,
          hostVars, runDone, fault>>

IdleWorker == [pc |-> "none", server |-> NoServer, affinity |-> FALSE,
               intensive |-> FALSE, tunnel |-> NoTunnel]

WorkerState ==
    [pc : {"none", "receive", "check", "dial", "deliver"},
     server : Server \cup {NoServer}, affinity : BOOLEAN,
     intensive : BOOLEAN, tunnel : Tunnel \cup {NoTunnel}]

\* The Boolean variables.
FlagsOK ==
    /\ establishedOnce \in BOOLEAN
    /\ isEstablishing \in BOOLEAN /\ establishStopped \in BOOLEAN
    /\ genAffinity \in BOOLEAN /\ affinityDone \in BOOLEAN
    /\ isFirstTunnel \in BOOLEAN /\ isLastTunnel \in BOOLEAN
    /\ restartSignal \in BOOLEAN /\ watcher \in BOOLEAN /\ runDone \in BOOLEAN

\* The pool, the channels and the tunnels.
PoolOK ==
    /\ tunnels \in Seq(Tunnel)
    /\ nextTunnel \in Nat
    /\ tunnelPoolSize \in 1..MaxPoolSize
    /\ tunnelMutex \in {"free", "runTunnels", "operateTunnel", "host"}
    /\ connectedTunnels \in Seq(Tunnel)
    /\ failedTunnels \in Seq(Tunnel)

TunnelsOK ==
    /\ server \in [Tunnel -> Server \cup {NoServer}]
    /\ conn \in [Tunnel -> {"open", "closing", "closed"}]
    /\ op \in [Tunnel -> {"none", "run", "failed", "full", "self"}]
    /\ reporter \in [Tunnel -> BOOLEAN]

\* The establishment.
EstablishOK ==
    /\ launch \in {"none", "tactics", "poolSize", "scan", "spawn"}
    /\ gen \in {"none", "start", "offer", "grace", "pause"}
    /\ worker \in [Worker -> WorkerState]
    /\ concurrentEstablish \in Int
    /\ concurrentIntensive \in Int
    /\ fault \subseteq {"affinity", "connectedTunnels", "failedTunnels", "host"}

\* runTunnels and the host's call.
RunOK ==
    /\ rt \in {"start", "loop", "stopping", "terminate", "terminating", "count",
               "activate", "register", "reject", "discard", "discarding",
               "registered", "terminateAll", "closingAll", "drainConnected",
               "drainFailed", "exited"}
    /\ rtNext \in {"start", "loop", "activate", "terminateAll", "drainConnected",
                   "drainFailed"}
    /\ rtTunnel \in Tunnel \cup {NoTunnel}
    /\ host \in {"idle", "got", "full", "terminating"}
    /\ hostTunnel \in Tunnel \cup {NoTunnel}
    /\ signals \in 0..MaxSignals

\* Type correctness: every program counter, channel and counter of the
\* controller stays in its range, the pool size within MAX_TUNNEL_POOL_SIZE.
TypeOK == FlagsOK /\ PoolOK /\ TunnelsOK /\ EstablishOK /\ RunOK

\* NewController, and Run up to the start of runTunnels.
Init ==
    /\ tunnels = <<>> /\ nextTunnel = 0 /\ tunnelPoolSize = 1
    /\ establishedOnce = FALSE /\ tunnelMutex = "free"
    /\ connectedTunnels = <<>> /\ failedTunnels = <<>>
    /\ server = [t \in Tunnel |-> NoServer]
    /\ conn = [t \in Tunnel |-> "closed"]
    /\ op = [t \in Tunnel |-> "none"]
    /\ reporter = [t \in Tunnel |-> FALSE]
    /\ isEstablishing = FALSE /\ establishStopped = FALSE
    /\ launch = "none" /\ gen = "none"
    /\ genAffinity = FALSE /\ affinityDone = FALSE
    /\ worker = [w \in Worker |-> IdleWorker]
    /\ concurrentEstablish = 0 /\ concurrentIntensive = 0
    /\ rt = "start" /\ rtNext = "loop" /\ rtTunnel = NoTunnel
    /\ isFirstTunnel = FALSE /\ isLastTunnel = FALSE
    /\ host = "idle" /\ hostTunnel = NoTunnel /\ signals = 0
    /\ restartSignal = FALSE /\ watcher = TRUE
    /\ runDone = FALSE /\ fault = {}

----------------------------------------------------------------------------
(* The pool *)

InPool(t) == \E i \in DOMAIN tunnels : tunnels[i] = t

IsActiveServer(s) == \E i \in DOMAIN tunnels : server[tunnels[i]] = s

IsFullyEstablished == Len(tunnels) >= tunnelPoolSize

\* Mutant: the pool size parameter is taken as it is.
Mutant_NoClamp(n) == n

\* setTunnelPoolSize clamps its argument.
ClampPoolSize(n) == IF n < 1 THEN 1 ELSE IF n > MaxPoolSize THEN MaxPoolSize ELSE n

\* Mutant: nextTunnel is shifted and does not wrap.
Mutant_NextNotWrapped(i) == IF nextTunnel > i - 1 THEN nextTunnel - 1 ELSE nextTunnel

\* nextTunnel (0-based) after the tunnel at position i (1-based) is removed.
NextAfterRemove(i) ==
    LET shifted == IF nextTunnel > i - 1 THEN nextTunnel - 1 ELSE nextTunnel
    IN  IF shifted >= Len(tunnels) - 1 THEN 0 ELSE shifted

\* Mutant: off by one, the tunnel after the one that is closed is removed.
Mutant_RemoveNeighbour(t, holder) ==
    /\ tunnelMutex = "free"
    /\ \E i \in DOMAIN tunnels :
          /\ tunnels[i] = t
          /\ tunnels' = RemoveAt(tunnels, IF i < Len(tunnels) THEN i + 1 ELSE i)
          /\ nextTunnel' = NextAfterRemove(i)
    /\ tunnelMutex' = holder
    /\ conn' = [conn EXCEPT ![t] = IF @ = "open" THEN "closing" ELSE @]
    /\ UNCHANGED <<tunnelPoolSize, establishedOnce>>

\* terminateTunnel up to Tunnel.Close, for a tunnel that is in the pool: the
\* caller keeps tunnelMutex until the tunnel is closed.
RemoveAndClose(t, holder) ==
    /\ tunnelMutex = "free"
    /\ \E i \in DOMAIN tunnels :
          /\ tunnels[i] = t
          /\ \A j \in 1..(i - 1) : tunnels[j] # t
          /\ tunnels' = RemoveAt(tunnels, i)
          /\ nextTunnel' = NextAfterRemove(i)
    /\ tunnelMutex' = holder
    /\ conn' = [conn EXCEPT ![t] = IF @ = "open" THEN "closing" ELSE @]
    /\ UNCHANGED <<tunnelPoolSize, establishedOnce>>

\* terminateTunnel for a tunnel that is not in the pool.
NothingToTerminate(t) ==
    /\ tunnelMutex = "free"
    /\ ~InPool(t)
    /\ UNCHANGED <<poolVars, conn>>

\* Closing a channel twice panics.
CloseAffinity ==
    /\ affinityDone' = TRUE
    /\ fault' = IF affinityDone THEN fault \cup {"affinity"} ELSE fault

CloseAffinityIf(isCandidate) ==
    IF isCandidate THEN CloseAffinity ELSE UNCHANGED <<affinityDone, fault>>

\* runTunnels has closed the channel and drains it.
ConnectedClosed ==
    \/ rt \in {"drainConnected", "drainFailed", "exited"}
    \/ rt \in {"discard", "discarding"} /\ rtNext \in {"drainConnected", "drainFailed"}

FailedClosed ==
    \/ rt \in {"drainFailed", "exited"}
    \/ rt \in {"discard", "discarding"} /\ rtNext = "drainFailed"

----------------------------------------------------------------------------
(* startEstablishing and stopEstablishing, called by runTunnels only *)

EstablishDone == establishStopped \/ runDone

EstablishIdle ==
    launch = "none" /\ gen = "none" /\ \A w \in Worker : worker[w].pc = "none"

StartEstablishing ==
    IF isEstablishing
    THEN UNCHANGED <<establishVars, workerVars>>
    ELSE /\ isEstablishing' = TRUE
         /\ establishStopped' = FALSE
         /\ launch' = "tactics"
         /\ affinityDone' = FALSE
         /\ concurrentEstablish' = 0
         /\ concurrentIntensive' = 0
         /\ UNCHANGED <<gen, genAffinity, worker>>

\* Cancels the establish context and waits for the establish goroutines, or
\* goes on at once when not establishing.
StopEstablishingThen(next) ==
    /\ establishStopped' = (establishStopped \/ isEstablishing)
    /\ rt' = IF isEstablishing THEN "stopping" ELSE next
    /\ rtNext' = IF isEstablishing THEN next ELSE rtNext
    /\ UNCHANGED <<isEstablishing, launch, gen, genAffinity, affinityDone, workerVars>>

\* Mutant: stopEstablishing does not wait for the establish goroutines.
Mutant_StopWithoutWait ==
    /\ rt = "stopping"
    /\ isEstablishing' = FALSE
    /\ establishStopped' = FALSE
    /\ affinityDone' = FALSE
    /\ concurrentEstablish' = 0
    /\ concurrentIntensive' = 0
    /\ rt' = rtNext
    /\ rtNext' = "loop"
    /\ UNCHANGED <<poolVars, channelVars, tunnelVars, launch, gen, genAffinity, worker,
                   rtTunnel, isFirstTunnel, isLastTunnel, hostVars, runDone, fault>>

\* establishWaitGroup.Wait returns; the establishment's state is cleared.
EstablishingStopped ==
    /\ rt = "stopping"
    /\ EstablishIdle
    /\ isEstablishing' = FALSE
    /\ establishStopped' = FALSE
    /\ affinityDone' = FALSE
    /\ concurrentEstablish' = 0
    /\ concurrentIntensive' = 0
    /\ rt' = rtNext
    /\ rtNext' = "loop"
    /\ UNCHANGED <<poolVars, channelVars, tunnelVars, launch, gen, genAffinity, worker,
                   rtTunnel, isFirstTunnel, isLastTunnel, hostVars, runDone, fault>>

----------------------------------------------------------------------------
(* launchEstablishing *)

\* The wait for tactics is over; nothing is launched once establishing stopped.
\* With DisableTactics there is neither the wait nor the check.
AwaitTactics ==
    /\ launch = "tactics"
    /\ launch' \in IF EstablishDone THEN {"none", "poolSize"} ELSE {"poolSize"}
    /\ UNCHANGED <<poolVars, channelVars, tunnelVars, isEstablishing, establishStopped,
                   gen, genAffinity, affinityDone, workerVars, rtVars, hostVars,
                   runDone, fault>>

\* The TunnelPoolSize parameter, possibly changed by tactics, is applied.  The
\* server entries are scanned for a target above one, and for initial protocols.
SetTunnelPoolSize(n) ==
    /\ launch = "poolSize"
    /\ tunnelMutex = "free"
    /\ tunnelPoolSize' = ClampPoolSize(n)
    /\ launch' \in IF n > 1 THEN {"scan"} ELSE {"scan", "spawn"}
    /\ UNCHANGED <<tunnels, nextTunnel, establishedOnce, tunnelMutex, channelVars,
                   tunnelVars, isEstablishing, establishStopped, gen, genAffinity,
                   affinityDone, workerVars, rtVars, hostVars, runDone, fault>>

\* doConstraintsScan counts the candidates and lowers a local copy of the
\* pool size.
DoConstraintsScan ==
    /\ launch = "scan"
    /\ tunnelMutex = "free"
    /\ launch' = "spawn"
    /\ UNCHANGED <<poolVars, channelVars, tunnelVars, isEstablishing, establishStopped,
                   gen, genAffinity, affinityDone, workerVars, rtVars, hostVars,
                   runDone, fault>>

\* The workers and the candidate generator are started.
SpawnWorkers ==
    /\ launch = "spawn"
    /\ launch' = "none"
    /\ worker' = [w \in Worker |-> [IdleWorker EXCEPT !.pc = "receive"]]
    /\ gen' = "start"
    /\ UNCHANGED <<poolVars, channelVars, tunnelVars, isEstablishing, establishStopped,
                   genAffinity, affinityDone, concurrentEstablish, concurrentIntensive,
                   rtVars, hostVars, runDone, fault>>

----------------------------------------------------------------------------
(* establishCandidateGenerator.  Its exit closes candidateServerEntries. *)

\* The iterator is opened.  Server affinity applies only to a pool of one; the
\* broadcast channel is closed here when there is no affinity candidate.
GeneratorStart(applyServerAffinity) ==
    /\ gen = "start"
    /\ tunnelMutex = "free"
    /\ genAffinity' = (applyServerAffinity /\ tunnelPoolSize <= 1)
    /\ CloseAffinityIf(~genAffinity')
    /\ gen' = "offer"
    /\ UNCHANGED <<poolVars, channelVars, tunnelVars, isEstablishing, establishStopped,
                   launch, workerVars, rtVars, hostVars, runDone>>

\* Mutant: every candidate of the round is taken for the affinity candidate.
Mutant_AffinityNotReset(w, s) ==
    /\ gen = "offer"
    /\ worker[w].pc = "receive"
    /\ worker' = [worker EXCEPT ![w] = [IdleWorker EXCEPT
                     !.pc = "check", !.server = s, !.affinity = genAffinity]]
    /\ gen' \in {IF genAffinity THEN "grace" ELSE "offer", "pause"}
    /\ UNCHANGED <<poolVars, channelVars, tunnelVars, isEstablishing, establishStopped,
                   launch, genAffinity, affinityDone, concurrentEstablish,
                   concurrentIntensive, rtVars, hostVars, runDone, fault>>

\* A worker receives the next candidate.  Then the round goes on, waits for
\* the affinity candidate's grace period, or is over (work time elapsed).
OfferCandidate(w, s) ==
    /\ gen = "offer"
    /\ worker[w].pc = "receive"
    /\ worker' = [worker EXCEPT ![w] = [IdleWorker EXCEPT
                     !.pc = "check", !.server = s, !.affinity = genAffinity]]
    /\ genAffinity' = FALSE
    /\ gen' \in {IF genAffinity THEN "grace" ELSE "offer", "pause"}
    /\ UNCHANGED <<poolVars, channelVars, tunnelVars, isEstablishing, establishStopped,
                   launch, affinityDone, concurrentEstablish, concurrentIntensive,
                   rtVars, hostVars, runDone, fault>>

\* The iteration is complete, the grace period or the pause is over.
GeneratorAdvance ==
    /\ \/ gen = "offer" /\ gen' = "pause"
       \/ gen \in {"grace", "pause"} /\ gen' = "offer"
    /\ UNCHANGED <<poolVars, channelVars, tunnelVars, isEstablishing, establishStopped,
                   launch, genAffinity, affinityDone, workerVars, rtVars, hostVars,
                   runDone, fault>>

\* Every wait of the generator also watches the establish context.
GeneratorStopped ==
    /\ gen # "none"
    /\ EstablishDone
    /\ gen' = "none"
    /\ genAffinity' = FALSE
    /\ UNCHANGED <<poolVars, channelVars, tunnelVars, isEstablishing, establishStopped,
                   launch, affinityDone, workerVars, rtVars, hostVars,
                   runDone, fault>>

\* The iterator fails in a running establishment: SignalComponentFailure.
IteratorFails ==
    /\ gen \in {"start", "offer", "pause"}
    /\ ~EstablishDone
    /\ gen' = "none"
    /\ genAffinity' = FALSE
    /\ runDone' = TRUE
    /\ UNCHANGED <<poolVars, channelVars, tunnelVars, isEstablishing, establishStopped,
                   launch, affinityDone, workerVars, rtVars, hostVars, fault>>

----------------------------------------------------------------------------
(* establishTunnelWorker *)

\* candidateServerEntries is closed, or the worker takes a candidate after
\* establishing has stopped.
WorkerExits(w) ==
    /\ \/ worker[w].pc = "receive" /\ gen = "none"
       \/ worker[w].pc = "check" /\ EstablishDone
    /\ worker' = [worker EXCEPT ![w] = IdleWorker]
    /\ UNCHANGED <<poolVars, channelVars, tunnelVars, establishVars, concurrentEstablish,
                   concurrentIntensive, rtVars, hostVars, runDone, fault>>

\* There is already a tunnel to the candidate's server.
SkipActiveServer(w) ==
    /\ worker[w].pc = "check"
    /\ ~EstablishDone
    /\ tunnelMutex = "free"
    /\ IsActiveServer(worker[w].server)
    /\ worker' = [worker EXCEPT ![w] = [IdleWorker EXCEPT !.pc = "receive"]]
    /\ UNCHANGED <<poolVars, channelVars, tunnelVars, establishVars, concurrentEstablish,
                   concurrentIntensive, rtVars, hostVars, runDone, fault>>

\* MakeDialParameters returns no dial parameters: the candidate is skipped.
SkipCandidate(w) ==
    /\ worker[w].pc = "check"
    /\ ~EstablishDone
    /\ tunnelMutex = "free"
    /\ ~IsActiveServer(worker[w].server)
    /\ CloseAffinityIf(worker[w].affinity)
    /\ worker' = [worker EXCEPT ![w] = [IdleWorker EXCEPT !.pc = "receive"]]
    /\ UNCHANGED <<poolVars, channelVars, tunnelVars, isEstablishing, establishStopped,
                   launch, gen, genAffinity, concurrentEstablish, concurrentIntensive,
                   rtVars, hostVars, runDone>>

\* MakeDialParameters selects a protocol, resource intensive ones excluded at
\* the limit, and the dial is counted.
BeginDial(w, intensive) ==
    /\ worker[w].pc = "check"
    /\ ~EstablishDone
    /\ tunnelMutex = "free"
    /\ ~IsActiveServer(worker[w].server)
    /\ intensive => LimitIntensive = 0 \/ concurrentIntensive < LimitIntensive
    /\ worker' = [worker EXCEPT ![w].pc = "dial", ![w].intensive = intensive]
    /\ concurrentEstablish' = concurrentEstablish + 1
    /\ concurrentIntensive' = concurrentIntensive + (IF intensive THEN 1 ELSE 0)
    /\ UNCHANGED <<poolVars, channelVars, tunnelVars, establishVars, rtVars, hostVars,
                   runDone, fault>>

\* The counters after ConnectTunnel has returned.
EndDial(w) ==
    /\ concurrentEstablish' = concurrentEstablish - 1
    /\ concurrentIntensive' = concurrentIntensive - (IF worker[w].intensive THEN 1 ELSE 0)

\* Nothing refers to the tunnel any more.
Unreferenced(t) ==
    /\ conn[t] = "closed"
    /\ op[t] = "none"
    /\ ~InPool(t)
    /\ \A i \in DOMAIN connectedTunnels : connectedTunnels[i] # t
    /\ \A i \in DOMAIN failedTunnels : failedTunnels[i] # t
    /\ \A w \in Worker : worker[w].tunnel # t
    /\ t \notin {rtTunnel, hostTunnel}

\* ConnectTunnel succeeds.
DialSucceeds(w, t) ==
    /\ worker[w].pc = "dial"
    /\ Unreferenced(t)
    /\ server' = [server EXCEPT ![t] = worker[w].server]
    /\ conn' = [conn EXCEPT ![t] = "open"]
    /\ worker' = [worker EXCEPT ![w].pc = "deliver", ![w].tunnel = t]
    /\ EndDial(w)
    /\ UNCHANGED <<poolVars, channelVars, op, reporter, establishVars, rtVars, hostVars,
                   runDone, fault>>

\* ConnectTunnel fails or is interrupted by the establish context.
DialFails(w) ==
    /\ worker[w].pc = "dial"
    /\ CloseAffinityIf(worker[w].affinity)
    /\ worker' = [worker EXCEPT ![w] = IF EstablishDone THEN IdleWorker
                                       ELSE [IdleWorker EXCEPT !.pc = "receive"]]
    /\ EndDial(w)
    /\ UNCHANGED <<poolVars, channelVars, tunnelVars, isEstablishing, establishStopped,
                   launch, gen, genAffinity, rtVars, hostVars, runDone>>

\* Mutant: a tunnel that is delivered after the establishment was stopped is
\* discarded all the same.
Mutant_DeliverThenDiscard(w) ==
    LET t == worker[w].tunnel IN
    /\ worker[w].pc = "deliver"
    /\ connectedTunnels' = Append(connectedTunnels, t)
    /\ conn' = [conn EXCEPT ![t] = IF EstablishDone THEN "closed" ELSE @]
    /\ worker' = [worker EXCEPT ![w] = [IdleWorker EXCEPT !.pc = "receive"]]
    /\ UNCHANGED <<poolVars, failedTunnels, server, op, reporter, establishVars,
                   concurrentEstablish, concurrentIntensive, rtVars, hostVars, runDone,
                   fault>>

\* The connected tunnel is delivered, or discarded when the channel is full.
DeliverTunnel(w) ==
    LET t == worker[w].tunnel IN
    /\ worker[w].pc = "deliver"
    /\ IF Len(connectedTunnels) < MaxPoolSize
       THEN connectedTunnels' = Append(connectedTunnels, t) /\ UNCHANGED <<conn, server>>
       ELSE /\ conn' = [conn EXCEPT ![t] = "closed"]
            /\ server' = [server EXCEPT ![t] = NoServer]
            /\ UNCHANGED connectedTunnels
    /\ affinityDone' = (affinityDone \/ worker[w].affinity)
    /\ fault' = fault \cup {c \in {"affinity", "connectedTunnels"} :
                              \/ c = "affinity" /\ worker[w].affinity /\ affinityDone
                              \/ c = "connectedTunnels" /\ ConnectedClosed}
    /\ worker' = [worker EXCEPT ![w] = [IdleWorker EXCEPT !.pc = "receive"]]
    /\ UNCHANGED <<poolVars, failedTunnels, op, reporter, isEstablishing,
                   establishStopped, launch, gen, genAffinity, concurrentEstablish,
                   concurrentIntensive, rtVars, hostVars, runDone>>

----------------------------------------------------------------------------
(* Tunnel.Close and operateTunnel *)

\* Tunnel.Close, called first, returns when operateTunnel has ended.  What
\* nobody reads of a closed tunnel is reset.
TunnelClosed(t) ==
    /\ conn[t] = "closing"
    /\ op[t] = "none"
    /\ conn' = [conn EXCEPT ![t] = "closed"]
    /\ server' = [server EXCEPT ![t] = IF InPool(t) THEN @ ELSE NoServer]
    /\ reporter' = [reporter EXCEPT ![t] = FALSE]
    /\ UNCHANGED <<poolVars, channelVars, op, establishVars, workerVars,
                   rtVars, hostVars, runDone, fault>>

\* A keep alive or a request fails; the tunnel may already be closing.
OperateFails(t) ==
    /\ op[t] = "run"
    /\ op' = [op EXCEPT ![t] = "failed"]
    /\ UNCHANGED <<poolVars, channelVars, server, conn, reporter, establishVars, workerVars,
                   rtVars, hostVars, runDone, fault>>

\* The commanded shutdown.
OperateStops(t) ==
    /\ op[t] = "run"
    /\ conn[t] = "closing"
    /\ op' = [op EXCEPT ![t] = "none"]
    /\ UNCHANGED <<poolVars, channelVars, server, conn, reporter, establishVars, workerVars,
                   rtVars, hostVars, runDone, fault>>

\* SignalTunnelFailure sends, panics on a closed channel, or finds no room.
OperateSignals(t) ==
    /\ op[t] = "failed"
    /\ IF FailedClosed
       THEN /\ fault' = fault \cup {"failedTunnels"}
            /\ op' = [op EXCEPT ![t] = "none"]
            /\ UNCHANGED failedTunnels
       ELSE IF Len(failedTunnels) < MaxPoolSize
       THEN /\ failedTunnels' = Append(failedTunnels, t)
            /\ op' = [op EXCEPT ![t] = "none"]
            /\ UNCHANGED fault
       ELSE /\ op' = [op EXCEPT ![t] = "full"]
            /\ UNCHANGED <<failedTunnels, fault>>
    /\ UNCHANGED <<poolVars, connectedTunnels, server, conn, reporter, establishVars,
                   workerVars, rtVars, hostVars, runDone>>

\* SignalTunnelFailure found no room: terminateTunnel is called by
\* operateTunnel itself, so Tunnel.Close waits for the goroutine it runs in.
OperateTerminates(t) ==
    /\ op[t] = "full"
    /\ \/ /\ RemoveAndClose(t, "operateTunnel")
          /\ op' = [op EXCEPT ![t] = "self"]
       \/ /\ NothingToTerminate(t)
          /\ op' = [op EXCEPT ![t] = "none"]
    /\ UNCHANGED <<channelVars, server, reporter, establishVars, workerVars, rtVars,
                   hostVars, runDone, fault>>

----------------------------------------------------------------------------
(* runTunnels *)

\* startEstablishing, at the start, after a failed tunnel and in a restart.
RunStart ==
    /\ rt = "start"
    /\ StartEstablishing
    /\ rt' = "loop"
    /\ UNCHANGED <<poolVars, channelVars, tunnelVars, rtNext, rtTunnel, isFirstTunnel,
                   isLastTunnel, hostVars, runDone, fault>>

\* signalRestartEstablishing: restart an establishment in progress.
RunRestart ==
    /\ rt = "loop"
    /\ restartSignal
    /\ restartSignal' = FALSE
    /\ IF isEstablishing
       THEN StopEstablishingThen("start")
       ELSE UNCHANGED <<rt, rtNext, establishVars, workerVars>>
    /\ UNCHANGED <<poolVars, channelVars, tunnelVars, rtTunnel, isFirstTunnel,
                   isLastTunnel, host, hostTunnel, signals, watcher, runDone, fault>>

\* failedTunnels: terminate the tunnel.
RunFailed ==
    /\ rt = "loop"
    /\ failedTunnels # <<>>
    /\ failedTunnels' = Tail(failedTunnels)
    /\ rtTunnel' = Head(failedTunnels)
    /\ rt' = "terminate"
    /\ UNCHANGED <<poolVars, connectedTunnels, tunnelVars, establishVars, workerVars,
                   rtNext, isFirstTunnel, isLastTunnel, hostVars, runDone, fault>>

RunTerminate ==
    /\ rt = "terminate"
    /\ \/ /\ RemoveAndClose(rtTunnel, "runTunnels")
          /\ rt' = "terminating"
          /\ UNCHANGED rtTunnel
       \/ /\ NothingToTerminate(rtTunnel)
          /\ rt' = "start"
          /\ rtTunnel' = NoTunnel
    /\ UNCHANGED <<channelVars, server, op, reporter, establishVars, workerVars, rtNext,
                   isFirstTunnel, isLastTunnel, hostVars, runDone, fault>>

\* Mutant: terminateTunnel does not wait for Tunnel.Close.
Mutant_TerminateNotAwaited ==
    /\ rt = "terminating"
    /\ tunnelMutex' = "free"
    /\ rt' = "start"
    /\ rtTunnel' = NoTunnel
    /\ UNCHANGED <<tunnels, nextTunnel, tunnelPoolSize, establishedOnce, channelVars,
                   tunnelVars, establishVars, workerVars, rtNext, isFirstTunnel,
                   isLastTunnel, hostVars, runDone, fault>>

\* Mutant: terminateTunnel returns without unlocking tunnelMutex.
Mutant_TerminateKeepsLock ==
    /\ rt = "terminating"
    /\ conn[rtTunnel] = "closed"
    /\ rt' = "start"
    /\ rtTunnel' = NoTunnel
    /\ UNCHANGED <<poolVars, channelVars, tunnelVars, establishVars, workerVars, rtNext,
                   isFirstTunnel, isLastTunnel, hostVars, runDone, fault>>

\* terminateTunnel returns; establishing is started again.
RunTerminated ==
    /\ rt = "terminating"
    /\ conn[rtTunnel] = "closed"
    /\ tunnelMutex' = "free"
    /\ rt' = "start"
    /\ rtTunnel' = NoTunnel
    /\ UNCHANGED <<tunnels, nextTunnel, tunnelPoolSize, establishedOnce, channelVars,
                   tunnelVars, establishVars, workerVars, rtNext, isFirstTunnel,
                   isLastTunnel, hostVars, runDone, fault>>

RunConnected ==
    /\ rt = "loop"
    /\ connectedTunnels # <<>>
    /\ connectedTunnels' = Tail(connectedTunnels)
    /\ rtTunnel' = Head(connectedTunnels)
    /\ rt' = "count"
    /\ UNCHANGED <<poolVars, failedTunnels, tunnelVars, establishVars, workerVars, rtNext,
                   isFirstTunnel, isLastTunnel, hostVars, runDone, fault>>

\* numTunnels: a surplus tunnel is discarded; before the last one that is
\* needed is activated, establishing is stopped.
RunCount ==
    LET outstanding == tunnelPoolSize - Len(tunnels) IN
    /\ rt = "count"
    /\ tunnelMutex = "free"
    /\ IF outstanding <= 0
       THEN /\ rt' = "discard"
            /\ rtNext' = "loop"
            /\ UNCHANGED <<isFirstTunnel, isLastTunnel, establishVars, workerVars>>
       ELSE /\ isFirstTunnel' = (Len(tunnels) = 0)
            /\ isLastTunnel' = (outstanding = 1)
            /\ IF outstanding = 1
               THEN StopEstablishingThen("activate")
               ELSE rt' = "activate" /\ UNCHANGED <<rtNext, establishVars, workerVars>>
    /\ UNCHANGED <<poolVars, channelVars, tunnelVars, rtTunnel, hostVars, runDone, fault>>

\* Tunnel.Activate succeeds and starts operateTunnel; the first tunnel of
\* the pool sends the status requests.
RunActivate ==
    /\ rt = "activate"
    /\ op' = [op EXCEPT ![rtTunnel] = "run"]
    /\ reporter' = [reporter EXCEPT ![rtTunnel] = isFirstTunnel]
    /\ rt' = "register"
    /\ UNCHANGED <<poolVars, channelVars, server, conn, establishVars, workerVars, rtNext,
                   rtTunnel, isFirstTunnel, isLastTunnel, hostVars, runDone, fault>>

\* Tunnel.Activate fails: the handshake fails, times out or is interrupted.
RunActivateFails ==
    /\ rt = "activate"
    /\ rt' = "reject"
    /\ UNCHANGED <<poolVars, channelVars, tunnelVars, establishVars, workerVars, rtNext,
                   rtTunnel, isFirstTunnel, isLastTunnel, hostVars, runDone, fault>>

\* Mutant: registerTunnel without the final check for a duplicate.
Mutant_RegisterDuplicate ==
    /\ rt = "register"
    /\ tunnelMutex = "free"
    /\ IF IsFullyEstablished
       THEN /\ rt' = "reject"
            /\ UNCHANGED <<tunnels, establishedOnce>>
       ELSE /\ tunnels' = Append(tunnels, rtTunnel)
            /\ establishedOnce' = TRUE
            /\ rt' = "registered"
    /\ UNCHANGED <<nextTunnel, tunnelPoolSize, tunnelMutex, channelVars, tunnelVars,
                   establishVars, workerVars, rtNext, rtTunnel, isFirstTunnel,
                   isLastTunnel, hostVars, runDone, fault>>

\* registerTunnel, refused when the pool is full or has a tunnel to the server.
RunRegister ==
    /\ rt = "register"
    /\ tunnelMutex = "free"
    /\ IF IsFullyEstablished \/ IsActiveServer(server[rtTunnel])
       THEN /\ rt' = "reject"
            /\ UNCHANGED <<tunnels, establishedOnce>>
       ELSE /\ tunnels' = Append(tunnels, rtTunnel)
            /\ establishedOnce' = TRUE
            /\ rt' = "registered"
    /\ UNCHANGED <<nextTunnel, tunnelPoolSize, tunnelMutex, channelVars, tunnelVars,
                   establishVars, workerVars, rtNext, rtTunnel, isFirstTunnel,
                   isLastTunnel, hostVars, runDone, fault>>

\* Mutant: establishing is not restarted to replace the rejected tunnel.
Mutant_RejectNotReplaced ==
    /\ rt = "reject"
    /\ rt' = "discard"
    /\ rtNext' = "loop"
    /\ UNCHANGED <<poolVars, channelVars, tunnelVars, establishVars, workerVars, rtTunnel,
                   isFirstTunnel, isLastTunnel, hostVars, runDone, fault>>

\* A tunnel that failed to activate or register is discarded; establishing
\* resumes if it had been stopped for that tunnel.
RunReject ==
    /\ rt = "reject"
    /\ IF isLastTunnel THEN StartEstablishing ELSE UNCHANGED <<establishVars, workerVars>>
    /\ rt' = "discard"
    /\ rtNext' = "loop"
    /\ UNCHANGED <<poolVars, channelVars, tunnelVars, rtTunnel, isFirstTunnel,
                   isLastTunnel, hostVars, runDone, fault>>

\* discardTunnel begins to close the tunnel in hand ...
RunDiscard ==
    /\ rt = "discard"
    /\ conn' = [conn EXCEPT ![rtTunnel] = IF @ = "open" THEN "closing" ELSE @]
    /\ rt' = "discarding"
    /\ UNCHANGED <<poolVars, channelVars, server, op, reporter, establishVars, workerVars,
                   rtNext, rtTunnel, isFirstTunnel, isLastTunnel, hostVars, runDone, fault>>

\* ... and returns.
RunDiscarded ==
    /\ rt = "discarding"
    /\ conn[rtTunnel] = "closed"
    /\ rt' = rtNext
    /\ rtNext' = "loop"
    /\ rtTunnel' = NoTunnel
    /\ isFirstTunnel' = FALSE
    /\ isLastTunnel' = FALSE
    /\ UNCHANGED <<poolVars, channelVars, tunnelVars, establishVars, workerVars,
                   hostVars, runDone, fault>>

\* After a registration: stop establishing when the pool is full.
RunRegistered ==
    /\ rt = "registered"
    /\ tunnelMutex = "free"
    /\ rtTunnel' = NoTunnel
    /\ isFirstTunnel' = FALSE
    /\ isLastTunnel' = FALSE
    /\ IF IsFullyEstablished
       THEN StopEstablishingThen("loop")
       ELSE rt' = "loop" /\ UNCHANGED <<rtNext, establishVars, workerVars>>
    /\ UNCHANGED <<poolVars, channelVars, tunnelVars, hostVars, runDone, fault>>

\* The run context is done: leave the loop.
RunShutdown ==
    /\ rt = "loop"
    /\ runDone
    /\ StopEstablishingThen("terminateAll")
    /\ UNCHANGED <<poolVars, channelVars, tunnelVars, rtTunnel, isFirstTunnel,
                   isLastTunnel, hostVars, runDone, fault>>

\* terminateAllTunnels closes the tunnels in parallel, holding tunnelMutex.
RunTerminateAll ==
    /\ rt = "terminateAll"
    /\ tunnelMutex = "free"
    /\ tunnelMutex' = "runTunnels"
    /\ conn' = [t \in Tunnel |-> IF InPool(t) /\ conn[t] = "open" THEN "closing" ELSE conn[t]]
    /\ rt' = "closingAll"
    /\ UNCHANGED <<tunnels, nextTunnel, tunnelPoolSize, establishedOnce, channelVars, server,
                   op, reporter, establishVars, workerVars, rtNext, rtTunnel,
                   isFirstTunnel, isLastTunnel, hostVars, runDone, fault>>

RunTerminatedAll ==
    /\ rt = "closingAll"
    /\ \A t \in Tunnel : InPool(t) => conn[t] = "closed"
    /\ tunnels' = <<>>
    /\ nextTunnel' = 0
    /\ tunnelMutex' = "free"
    /\ rt' = "drainConnected"
    /\ UNCHANGED <<tunnelPoolSize, establishedOnce, channelVars, tunnelVars, establishVars,
                   workerVars, rtNext, rtTunnel, isFirstTunnel, isLastTunnel,
                   hostVars, runDone, fault>>

\* Mutant: the tunnels still in connectedTunnels are dropped, not discarded.
Mutant_DrainWithoutDiscard ==
    /\ rt = "drainConnected"
    /\ connectedTunnels' = <<>>
    /\ rt' = "drainFailed"
    /\ UNCHANGED <<poolVars, failedTunnels, tunnelVars, establishVars, workerVars, rtNext,
                   rtTunnel, isFirstTunnel, isLastTunnel, hostVars, runDone, fault>>

\* The closed channels are drained and every tunnel in them discarded.
RunDrainConnected ==
    /\ rt = "drainConnected"
    /\ IF connectedTunnels = <<>>
       THEN rt' = "drainFailed" /\ UNCHANGED <<connectedTunnels, rtTunnel, rtNext>>
       ELSE /\ connectedTunnels' = Tail(connectedTunnels)
            /\ rtTunnel' = Head(connectedTunnels)
            /\ rt' = "discard"
            /\ rtNext' = "drainConnected"
    /\ UNCHANGED <<poolVars, failedTunnels, tunnelVars, establishVars, workerVars,
                   isFirstTunnel, isLastTunnel, hostVars, runDone, fault>>

RunDrainFailed ==
    /\ rt = "drainFailed"
    /\ IF failedTunnels = <<>>
       THEN rt' = "exited" /\ UNCHANGED <<failedTunnels, rtTunnel, rtNext>>
       ELSE /\ failedTunnels' = Tail(failedTunnels)
            /\ rtTunnel' = Head(failedTunnels)
            /\ rt' = "discard"
            /\ rtNext' = "drainFailed"
    /\ UNCHANGED <<poolVars, connectedTunnels, tunnelVars, establishVars, workerVars,
                   isFirstTunnel, isLastTunnel, hostVars, runDone, fault>>

----------------------------------------------------------------------------
(* The host application and the establishTunnelWatcher *)

\* getNextActiveTunnel: round-robin over the pool.
AdvanceNextTunnel ==
    /\ tunnelMutex = "free"
    /\ tunnels # <<>>
    /\ nextTunnel' = (nextTunnel + 1) % Len(tunnels)
    /\ UNCHANGED <<tunnels, tunnelPoolSize, establishedOnce, tunnelMutex>>

\* Dial takes the next tunnel for a port forward.
Dial ==
    /\ AdvanceNextTunnel
    /\ UNCHANGED <<channelVars, tunnelVars, establishVars, workerVars, rtVars, hostVars,
                   runDone, fault>>

\* TerminateNextActiveTunnel, from NetworkChanged and ReconnectTunnel.
TerminateNextActiveTunnel ==
    /\ host = "idle"
    /\ signals < MaxSignals
    /\ AdvanceNextTunnel
    /\ hostTunnel' = tunnels[nextTunnel + 1]
    /\ host' = "got"
    /\ signals' = signals + 1
    /\ UNCHANGED <<channelVars, tunnelVars, establishVars, workerVars, rtVars,
                   restartSignal, watcher, runDone, fault>>

\* Its SignalTunnelFailure call.
HostSignals ==
    /\ host = "got"
    /\ IF FailedClosed
       THEN fault' = fault \cup {"host"} /\ host' = "idle" /\ UNCHANGED failedTunnels
       ELSE IF Len(failedTunnels) < MaxPoolSize
       THEN /\ failedTunnels' = Append(failedTunnels, hostTunnel)
            /\ host' = "idle"
            /\ UNCHANGED fault
       ELSE host' = "full" /\ UNCHANGED <<failedTunnels, fault>>
    /\ hostTunnel' = IF host' = "full" THEN hostTunnel ELSE NoTunnel
    /\ UNCHANGED <<poolVars, connectedTunnels, tunnelVars, establishVars, workerVars, rtVars,
                   signals, restartSignal, watcher, runDone>>

\* SignalTunnelFailure found no room: terminateTunnel by the host's thread.
HostTerminates ==
    /\ host = "full"
    /\ \/ /\ RemoveAndClose(hostTunnel, "host")
          /\ host' = "terminating"
          /\ UNCHANGED hostTunnel
       \/ /\ NothingToTerminate(hostTunnel)
          /\ host' = "idle"
          /\ hostTunnel' = NoTunnel
    /\ UNCHANGED <<channelVars, server, op, reporter, establishVars, workerVars, rtVars,
                   signals, restartSignal, watcher, runDone, fault>>

HostTerminated ==
    /\ host = "terminating"
    /\ conn[hostTunnel] = "closed"
    /\ tunnelMutex' = "free"
    /\ host' = "idle"
    /\ hostTunnel' = NoTunnel
    /\ UNCHANGED <<tunnels, nextTunnel, tunnelPoolSize, establishedOnce, channelVars,
                   tunnelVars, establishVars, workerVars, rtVars, signals, restartSignal,
                   watcher, runDone, fault>>

\* ImportExchangePayload and ImportPushPayload request a restart.
RequestRestart ==
    /\ signals < MaxSignals
    /\ signals' = signals + 1
    /\ restartSignal' = TRUE
    /\ UNCHANGED <<poolVars, channelVars, tunnelVars, establishVars, workerVars, rtVars,
                   host, hostTunnel, watcher, runDone, fault>>

\* The EstablishTunnelTimeout passes: stop if no tunnel was ever established.
EstablishTunnelTimeout ==
    /\ watcher
    /\ tunnelMutex = "free"
    /\ watcher' = FALSE
    /\ runDone' = (runDone \/ ~establishedOnce)
    /\ UNCHANGED <<poolVars, channelVars, tunnelVars, establishVars, workerVars, rtVars,
                   host, hostTunnel, signals, restartSignal, fault>>

\* The host stops the controller, or a component fails.
Stop ==
    /\ ~runDone
    /\ runDone' = TRUE
    /\ UNCHANGED <<poolVars, channelVars, tunnelVars, establishVars, workerVars, rtVars,
                   hostVars, fault>>

----------------------------------------------------------------------------

LaunchNext ==
    \/ AwaitTactics
    \/ \E n \in TunnelPoolSizes : SetTunnelPoolSize(n)
    \/ DoConstraintsScan
    \/ SpawnWorkers

GeneratorNext ==
    \/ \E b \in BOOLEAN : GeneratorStart(b)
    \/ \E w \in Worker, s \in Server : OfferCandidate(w, s)
    \/ GeneratorAdvance
    \/ GeneratorStopped

WorkerNext(w) ==
    \/ WorkerExits(w)
    \/ SkipActiveServer(w)
    \/ SkipCandidate(w)
    \/ \E b \in BOOLEAN : BeginDial(w, b)
    \/ \E t \in Tunnel : DialSucceeds(w, t)
    \/ DialFails(w)
    \/ DeliverTunnel(w)

OperateNext(t) ==
    \/ TunnelClosed(t)
    \/ OperateFails(t)
    \/ OperateStops(t)
    \/ OperateSignals(t)
    \/ OperateTerminates(t)

RunNext ==
    \/ RunStart
    \/ EstablishingStopped
    \/ RunRestart
    \/ RunFailed
    \/ RunTerminate
    \/ RunTerminated
    \/ RunConnected
    \/ RunCount
    \/ RunActivate
    \/ RunActivateFails
    \/ RunRegister
    \/ RunReject
    \/ RunDiscard
    \/ RunDiscarded
    \/ RunRegistered
    \/ RunShutdown
    \/ RunTerminateAll
    \/ RunTerminatedAll
    \/ RunDrainConnected
    \/ RunDrainFailed

HostNext ==
    \/ Dial
    \/ TerminateNextActiveTunnel
    \/ HostSignals
    \/ HostTerminates
    \/ HostTerminated
    \/ RequestRestart
    \/ EstablishTunnelTimeout
    \/ Stop

Next ==
    \/ LaunchNext
    \/ GeneratorNext
    \/ IteratorFails
    \/ \E w \in Worker : WorkerNext(w)
    \/ \E t \in Tunnel : OperateNext(t)
    \/ RunNext
    \/ HostNext

Spec == Init /\ [][Next]_vars

\* Goroutines keep running.  A dial, a handshake and a tunnel shutdown end by
\* their timeouts; the select of runTunnels picks among its ready cases at
\* random, so that a case that is ready again and again is picked (SF).  No
\* fairness is assumed of tunnels failing, of the host or of the network.
Fairness ==
    /\ WF_vars(LaunchNext)
    /\ WF_vars(GeneratorNext)
    /\ WF_vars(GeneratorStopped)
    /\ \A w \in Worker : WF_vars(WorkerNext(w))
    /\ \A t \in Tunnel :
          /\ WF_vars(TunnelClosed(t))
          /\ WF_vars(OperateStops(t))
          /\ WF_vars(OperateSignals(t) \/ OperateTerminates(t))
    /\ WF_vars(RunNext)
    /\ SF_vars(RunRestart)
    /\ SF_vars(RunFailed)
    /\ SF_vars(RunConnected)
    /\ SF_vars(RunShutdown)
    /\ WF_vars(HostSignals \/ HostTerminates \/ HostTerminated)

FairSpec == Spec /\ Fairness

----------------------------------------------------------------------------
(* Properties *)

\* nextTunnel always indexes the pool: getNextActiveTunnel cannot go out of
\* bounds after any order of terminateTunnel, registerTunnel and Dial.
NextTunnelInBounds == nextTunnel = 0 \/ nextTunnel < Len(tunnels)

\* The pool never has two tunnels to one server, although concurrent workers
\* may dial the same server (establishTunnelWorker, registerTunnel).
PoolServersDistinct ==
    \A i, j \in DOMAIN tunnels : i # j => server[tunnels[i]] # server[tunnels[j]]

\* A tunnel in the pool is open, so a Dial through it may work, until
\* terminateAllTunnels empties the pool under tunnelMutex.
PoolTunnelsOpen ==
    rt # "closingAll" => \A i \in DOMAIN tunnels : conn[tunnels[i]] = "open"

\* runTunnels alone has the tunnel that it activates: no worker, no failure
\* signal and no call of the host closes it between the moment it is taken
\* for activation and registerTunnel, although establishing is stopped and a
\* handshake made meanwhile.  Activate relies on it: "It may happen that the
\* tunnel gets closed while Activate is running", and the return for that
\* case leaves tunnel.mutex locked, so that the next Close would block.
ActivatingTunnelOpen ==
    rt \in {"activate", "register"} \/ (rt = "stopping" /\ rtNext = "activate") =>
        conn[rtTunnel] = "open" /\ ~InPool(rtTunnel)

\* No establishment goroutine outlives its establishment, and one that runs
\* is counted: the fields that stopEstablishing clears are not in use.
EstablishmentContained ==
    ~isEstablishing => EstablishIdle /\ concurrentEstablish = 0 /\ concurrentIntensive = 0

\* At most one running tunnel sends status requests: "the prune check does
\* not" allow concurrent requesters (runTunnels).
OneStatusReporter ==
    \A t, u \in Tunnel :
        (op[t] # "none" /\ reporter[t] /\ op[u] # "none" /\ reporter[u]) => t = u

\* No goroutine of the controller closes a channel twice or sends on one that
\* is closed: serverAffinityDoneBroadcast, connectedTunnels, failedTunnels.
\* The host's own call is left out: it may hold a tunnel across the shutdown.
NoPanic == fault \subseteq {"host"}

\* When runTunnels has exited every tunnel is closed and not operated.
ExitClosesTunnels ==
    rt = "exited" =>
        \A t \in Tunnel : conn[t] = "closed" /\ op[t] = "none"

\* Shutdown completes: when the run context is done, runTunnels stops the
\* establishment, closes every tunnel and exits (Run, runWaitGroup.Wait).
ShutdownCompletes == runDone ~> rt = "exited"

\* "When a tunnel fails, it's removed from the pool and the establish process
\* is restarted to fill the pool" (runTunnels): a pool below its target size
\* does not stay without an establishment.
PoolRefilled ==
    Len(tunnels) < tunnelPoolSize ~> isEstablishing \/ IsFullyEstablished \/ runDone

=============================================================================
