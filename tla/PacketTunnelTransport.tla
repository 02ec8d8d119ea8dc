------------------------ MODULE PacketTunnelTransport ------------------------
(***************************************************************************)
(* The packet tunnel transport of the client                               *)
(* (psiphon/packetTunnelTransport.go): an io.ReadWriteCloser over a        *)
(* substitutable SSH channel.  One Read and one Write call are in progress *)
(* at a time (readMutex, writeMutex), runTunnels hands over each new       *)
(* tunnel with UseTunnel, every UseTunnel spawns a worker that dials a     *)
(* channel in its tunnel, and tun.Client.Stop calls Close.                 *)
(*                                                                         *)
(* A step of the model is a section of code between two synchronisation    *)
(* operations: the channelMutex sections are single steps, the condition   *)
(* variable channelReady has an explicit lock and an explicit wait set,    *)
(* and the atomic loads of "closed" are steps of their own wherever the    *)
(* code may be overtaken between the load and its use.                     *)
(***************************************************************************)
EXTENDS Naturals, FiniteSets

CONSTANTS
    Tunnel,      \* the tunnels established one after another, 1 .. n
    Conn,        \* the channels that may be dialed (bound on successful dials)
    Worker       \* goroutines spawned by UseTunnel that are alive together

ASSUME TransportAssumption ==
    /\ Tunnel \subseteq Nat \ {0}
    /\ Conn \subseteq Nat \ {0}
    /\ Worker \subseteq Nat

NoTunnel == 0    \* the nil *Tunnel
NoConn == 0      \* the nil net.Conn

\* The two halves of the io.ReadWriteCloser.
IO == {"Read", "Write"}

\* The goroutines that call UseTunnel.
Caller == IO \cup {"runTunnels"}

VARIABLES
    closed,         \* the atomic flag set by Close
    closePC,        \* where the Close call is
    channelConn,    \* the current channel
    channelTunnel,  \* the tunnel of the current channel
    readDeadline,   \* "none" (0) or "set"
    condLock,       \* holder of channelReady.L, or "free"
    condWait,       \* goroutines parked in channelReady.Wait
    pc,             \* where each Read/Write call is; UseTunnel included
    arg,            \* the tunnel each caller is about to pass to UseTunnel
    ioConn,         \* the channel each Read/Write call obtained from getChannel
    worker,         \* the UseTunnel workers
    conn,           \* every channel: "new", "open" or "closed" by this client
    connTunnel,     \* the tunnel each channel was dialed in
    up,             \* the tunnels whose SSH connection still works
    probed          \* tunnels sent signalPortForwardFailure

transportVars == <<closed, closePC, channelConn, channelTunnel, readDeadline>>
condVars == <<condLock, condWait>>
ioVars == <<pc, arg, ioConn>>
connVars == <<conn, connTunnel>>
tunnelVars == <<up, probed>>
vars == <<transportVars, condVars, ioVars, worker, connVars, tunnelVars>>

NoWorker == [pc |-> "none", tunnel |-> NoTunnel, conn |-> NoConn]

\* Type correctness: in particular only real tunnels are ever probed.
TypeOK ==
    /\ closed \in BOOLEAN
    /\ closePC \in {"open", "wait", "broadcast", "release", "done"}
    /\ channelConn \in Conn \cup {NoConn}
    /\ channelTunnel \in Tunnel \cup {NoTunnel}
    /\ readDeadline \in {"none", "set"}
    /\ condLock \in IO \cup {"free"}
    /\ condWait \subseteq IO
    /\ pc \in [Caller -> {"idle", "getChannel", "load", "wait", "io",
                          "deadline", "failed", "use", "add"}]
    /\ arg \in [Caller -> Tunnel \cup {NoTunnel}]
    /\ ioConn \in [IO -> Conn \cup {NoConn}]
    /\ worker \in [Worker -> [pc : {"none", "dial", "set", "timeout", "broadcast"},
                              tunnel : Tunnel \cup {NoTunnel},
                              conn : Conn \cup {NoConn}]]
    /\ conn \in [Conn -> {"new", "open", "closed"}]
    /\ connTunnel \in [Conn -> Tunnel \cup {NoTunnel}]
    /\ up \subseteq Tunnel
    /\ probed \subseteq Tunnel

\* NewPacketTunnelTransport; the controller has no tunnel yet.
Init ==
    /\ closed = FALSE
    /\ closePC = "open"
    /\ channelConn = NoConn
    /\ channelTunnel = NoTunnel
    /\ readDeadline = "none"
    /\ condLock = "free"
    /\ condWait = {}
    /\ pc = [c \in Caller |-> "idle"]
    /\ arg = [c \in Caller |-> NoTunnel]
    /\ ioConn = [i \in IO |-> NoConn]
    /\ worker = [w \in Worker |-> NoWorker]
    /\ conn = [c \in Conn |-> "new"]
    /\ connTunnel = [c \in Conn |-> NoTunnel]
    /\ up = {}
    /\ probed = {}

----------------------------------------------------------------------------
(* getChannel *)

\* The tun client's relay loops call Read and Write again and again.  A call
\* made once the transport is closed fails at once (see GetChannelClosed).
CallIO(i) ==
    /\ pc[i] = "idle"
    /\ ~closed
    /\ pc' = [pc EXCEPT ![i] = "getChannel"]
    /\ UNCHANGED <<transportVars, condVars, arg, ioConn, worker, connVars, tunnelVars>>

\* channelReady.L.Lock, then the check of closed: the call returns an error.
GetChannelClosed(i) ==
    /\ pc[i] = "getChannel"
    /\ i \notin condWait
    /\ condLock = "free"
    /\ closed
    /\ pc' = [pc EXCEPT ![i] = "idle"]
    /\ UNCHANGED <<transportVars, condVars, arg, ioConn, worker, connVars, tunnelVars>>

\* channelReady.L.Lock, then the check of closed: the loop goes on.
GetChannelOpen(i) ==
    /\ pc[i] = "getChannel"
    /\ i \notin condWait
    /\ condLock = "free"
    /\ ~closed
    /\ condLock' = i
    /\ pc' = [pc EXCEPT ![i] = "load"]
    /\ UNCHANGED <<transportVars, condWait, arg, ioConn, worker, connVars, tunnelVars>>

\* The channelMutex section of the loop: use the channel, or go and wait.
LoadChannel(i) ==
    /\ pc[i] = "load"
    /\ IF channelConn # NoConn
       THEN /\ ioConn' = [ioConn EXCEPT ![i] = channelConn]
            /\ arg' = [arg EXCEPT ![i] = channelTunnel]
            /\ condLock' = "free"
            /\ pc' = [pc EXCEPT ![i] = "io"]
       ELSE /\ pc' = [pc EXCEPT ![i] = "wait"]
            /\ UNCHANGED <<ioConn, arg, condLock>>
    /\ UNCHANGED <<transportVars, condWait, worker, connVars, tunnelVars>>

\* channelReady.Wait: joins the wait set and releases L; once woken, it
\* takes L again and the loop restarts at the check of closed.
WaitChannel(i) ==
    /\ pc[i] = "wait"
    /\ condWait' = condWait \cup {i}
    /\ condLock' = "free"
    /\ pc' = [pc EXCEPT ![i] = "getChannel"]
    /\ UNCHANGED <<transportVars, arg, ioConn, worker, connVars, tunnelVars>>

----------------------------------------------------------------------------
(* Read, Write and failedChannel *)

\* channelConn.Read or channelConn.Write succeeds.
IOSucceeds(i) ==
    /\ pc[i] = "io"
    /\ conn[ioConn[i]] = "open"
    /\ connTunnel[ioConn[i]] \in up
    /\ \/ /\ i = "Read"
          /\ readDeadline' = "none"
          /\ pc' = [pc EXCEPT ![i] = "idle"]
          /\ ioConn' = [ioConn EXCEPT ![i] = NoConn]
          /\ arg' = [arg EXCEPT ![i] = NoTunnel]
       \/ /\ i = "Write"
          /\ pc' = [pc EXCEPT ![i] = "deadline"]
          /\ UNCHANGED <<readDeadline, ioConn, arg>>
    /\ UNCHANGED <<closed, closePC, channelConn, channelTunnel, condVars, worker,
                   connVars, tunnelVars>>

\* After a successful write: set a read deadline, keep the one that an
\* earlier write has set, or, when that has passed without a read, probe the
\* tunnel and clear it.
CheckReadDeadline ==
    /\ pc["Write"] = "deadline"
    /\ \/ /\ readDeadline = "none"
          /\ readDeadline' = "set"
          /\ UNCHANGED probed
       \/ /\ readDeadline = "set"
          /\ UNCHANGED <<readDeadline, probed>>
       \/ /\ readDeadline = "set"
          /\ readDeadline' = "none"
          /\ probed' = probed \cup {arg["Write"]}
    /\ pc' = [pc EXCEPT !["Write"] = "idle"]
    /\ ioConn' = [ioConn EXCEPT !["Write"] = NoConn]
    /\ arg' = [arg EXCEPT !["Write"] = NoTunnel]
    /\ UNCHANGED <<closed, closePC, channelConn, channelTunnel, condVars, worker,
                   connVars, up>>

\* The read or write fails: the channel was closed on this side, its tunnel
\* failed, or the server closed an idle channel.  failedChannel first
\* triggers a probe.
IOFails(i) ==
    /\ pc[i] = "io"
    /\ probed' = probed \cup {arg[i]}
    /\ pc' = [pc EXCEPT ![i] = "failed"]
    /\ UNCHANGED <<transportVars, condVars, arg, ioConn, worker, connVars, up>>

\* Mutant: the channel is cleared without comparing it with the failed one.
Mutant_ClearAnyChannel(i) ==
    /\ pc[i] = "failed"
    /\ channelConn' = NoConn
    /\ channelTunnel' = NoTunnel
    /\ ioConn' = [ioConn EXCEPT ![i] = NoConn]
    /\ pc' = [pc EXCEPT ![i] = "use"]
    /\ UNCHANGED <<closed, closePC, readDeadline, condVars, arg, worker, connVars,
                   tunnelVars>>

\* Mutant: the failed channel is closed and left installed.
Mutant_KeepFailedChannel(i) ==
    /\ pc[i] = "failed"
    /\ conn' = [conn EXCEPT ![ioConn[i]] = "closed"]
    /\ ioConn' = [ioConn EXCEPT ![i] = NoConn]
    /\ pc' = [pc EXCEPT ![i] = "use"]
    /\ UNCHANGED <<transportVars, condVars, arg, worker, connTunnel, tunnelVars>>

\* The channelMutex section of failedChannel: clear the channel if it is
\* still the one that failed.
ClearFailedChannel(i) ==
    /\ pc[i] = "failed"
    /\ IF channelConn = ioConn[i]
       THEN /\ conn' = [conn EXCEPT ![channelConn] = "closed"]
            /\ channelConn' = NoConn
            /\ channelTunnel' = NoTunnel
       ELSE UNCHANGED <<conn, channelConn, channelTunnel>>
    /\ ioConn' = [ioConn EXCEPT ![i] = NoConn]
    /\ pc' = [pc EXCEPT ![i] = "use"]
    /\ UNCHANGED <<closed, closePC, readDeadline, condVars, arg, worker, connTunnel,
                   tunnelVars>>

----------------------------------------------------------------------------
(* UseTunnel and its workers *)

\* runTunnels registers the next tunnel and calls UseTunnel.  Packet tunnel
\* mode requires a pool of one tunnel, so the one before has failed.
TunnelEstablished(t) ==
    /\ up = {}
    /\ pc["runTunnels"] = "idle"
    /\ t = arg["runTunnels"] + 1
    /\ up' = {t}
    /\ arg' = [arg EXCEPT !["runTunnels"] = t]
    /\ pc' = [pc EXCEPT !["runTunnels"] = "use"]
    /\ UNCHANGED <<transportVars, condVars, ioConn, worker, connVars, probed>>

\* The tunnel's connection to the server breaks, or the controller closes it.
TunnelFails(t) ==
    /\ t \in up
    /\ up' = up \ {t}
    /\ UNCHANGED <<transportVars, condVars, ioVars, worker, connVars, probed>>

\* Mutant: a failed call does not try to establish a new channel.
Mutant_NoRedial(c) ==
    /\ pc[c] = "use"
    /\ pc' = [pc EXCEPT ![c] = IF closed \/ c \in IO THEN "idle" ELSE "add"]
    /\ UNCHANGED <<transportVars, condVars, arg, ioConn, worker, connVars, tunnelVars>>

\* UseTunnel's check of closed.
UseTunnel(c) ==
    /\ pc[c] = "use"
    /\ pc' = [pc EXCEPT ![c] = IF closed THEN "idle" ELSE "add"]
    /\ UNCHANGED <<transportVars, condVars, arg, ioConn, worker, connVars, tunnelVars>>

\* workers.Add(1) and the go statement.  Goroutines have no identity: the
\* lowest free number is used.
StartWorker(c, w) ==
    /\ pc[c] = "add"
    /\ worker[w] = NoWorker
    /\ \A v \in Worker : v < w => worker[v] # NoWorker
    /\ worker' = [worker EXCEPT ![w] = [pc |-> "dial", tunnel |-> arg[c], conn |-> NoConn]]
    /\ pc' = [pc EXCEPT ![c] = "idle"]
    /\ UNCHANGED <<transportVars, condVars, arg, ioConn, connVars, tunnelVars>>

\* DialPacketTunnelChannel opens an SSH channel.  Channels are numbered in
\* the order they are opened.
DialSucceeds(w, c) ==
    /\ worker[w].pc = "dial"
    /\ worker[w].tunnel \in up
    /\ conn[c] = "new"
    /\ \A d \in Conn : d < c => conn[d] # "new"
    /\ conn' = [conn EXCEPT ![c] = "open"]
    /\ connTunnel' = [connTunnel EXCEPT ![c] = worker[w].tunnel]
    /\ worker' = [worker EXCEPT ![w].pc = "set", ![w].conn = c]
    /\ UNCHANGED <<transportVars, condVars, ioVars, tunnelVars>>

\* Mutant: a worker whose dial fails returns without workers.Done.
Mutant_DialFailsNotDone(w) ==
    /\ worker[w].pc = "dial"
    /\ probed' = probed \cup {worker[w].tunnel}
    /\ worker' = [worker EXCEPT ![w].pc = "none"]
    /\ UNCHANGED <<transportVars, condVars, ioVars, connVars, up>>

\* DialPacketTunnelChannel fails or times out, having signalled a probe; the
\* worker ends with workers.Done.
DialFails(w) ==
    /\ worker[w].pc = "dial"
    /\ probed' = probed \cup {worker[w].tunnel}
    /\ worker' = [worker EXCEPT ![w] = NoWorker]
    /\ UNCHANGED <<transportVars, condVars, ioVars, connVars, up>>

\* The channelMutex section of setChannel, with the transport not closed:
\* interrupt the users of the previous channel and install the new one.
SetChannel(w) ==
    /\ worker[w].pc = "set"
    /\ ~closed
    /\ conn' = IF channelConn # NoConn
               THEN [conn EXCEPT ![channelConn] = "closed"] ELSE conn
    /\ channelConn' = worker[w].conn
    /\ channelTunnel' = worker[w].tunnel
    /\ worker' = [worker EXCEPT ![w].pc = "timeout"]
    /\ UNCHANGED <<closed, closePC, readDeadline, condVars, ioVars, connTunnel, tunnelVars>>

\* The channelMutex section of setChannel, closed: the worker ends.
SetChannelClosed(w) ==
    /\ worker[w].pc = "set"
    /\ closed
    /\ worker' = [worker EXCEPT ![w] = NoWorker]
    /\ UNCHANGED <<transportVars, condVars, ioVars, connVars, tunnelVars>>

\* setChannel initialises the read deadline mechanism for the new tunnel.
ResetReadDeadline(w) ==
    /\ worker[w].pc = "timeout"
    /\ readDeadline' = "none"
    /\ worker' = [worker EXCEPT ![w].pc = "broadcast"]
    /\ UNCHANGED <<closed, closePC, channelConn, channelTunnel, condVars, ioVars,
                   connVars, tunnelVars>>

\* channelReady.Broadcast wakes the waiting calls; the worker ends.
BroadcastReady(w) ==
    /\ worker[w].pc = "broadcast"
    /\ condWait' = {}
    /\ worker' = [worker EXCEPT ![w] = NoWorker]
    /\ UNCHANGED <<transportVars, condLock, ioVars, connVars, tunnelVars>>

----------------------------------------------------------------------------
(* Close *)

\* The compare-and-swap of closed: later calls of Close return at once.
CloseBegin ==
    /\ closePC = "open"
    /\ closed' = TRUE
    /\ closePC' = "wait"
    /\ UNCHANGED <<channelConn, channelTunnel, readDeadline, condVars, ioVars, worker,
                   connVars, tunnelVars>>

\* workers.Wait returns.
CloseWait ==
    /\ closePC = "wait"
    /\ \A w \in Worker : worker[w] = NoWorker
    /\ closePC' = "broadcast"
    /\ UNCHANGED <<closed, channelConn, channelTunnel, readDeadline, condVars, ioVars,
                   worker, connVars, tunnelVars>>

\* channelReady.Broadcast, without holding channelReady.L.
CloseBroadcast ==
    /\ closePC = "broadcast"
    /\ condWait' = {}
    /\ closePC' = "release"
    /\ UNCHANGED <<closed, channelConn, channelTunnel, readDeadline, condLock, ioVars,
                   worker, connVars, tunnelVars>>

\* The channelMutex section of Close.
CloseChannel ==
    /\ closePC = "release"
    /\ conn' = IF channelConn # NoConn
               THEN [conn EXCEPT ![channelConn] = "closed"] ELSE conn
    /\ channelConn' = NoConn
    /\ closePC' = "done"
    /\ UNCHANGED <<closed, channelTunnel, readDeadline, condVars, ioVars, worker,
                   connTunnel, tunnelVars>>

----------------------------------------------------------------------------

IONext(i) ==
    \/ CallIO(i)
    \/ GetChannelClosed(i)
    \/ GetChannelOpen(i)
    \/ LoadChannel(i)
    \/ WaitChannel(i)
    \/ IOSucceeds(i)
    \/ IOFails(i)
    \/ ClearFailedChannel(i)

WorkerNext(w) ==
    \/ \E c \in Conn : DialSucceeds(w, c)
    \/ DialFails(w)
    \/ SetChannel(w)
    \/ SetChannelClosed(w)
    \/ ResetReadDeadline(w)
    \/ BroadcastReady(w)

CloseNext == CloseBegin \/ CloseWait \/ CloseBroadcast \/ CloseChannel

CallerNext(c) == UseTunnel(c) \/ \E w \in Worker : StartWorker(c, w)

Next ==
    \/ \E i \in IO : IONext(i)
    \/ CheckReadDeadline
    \/ \E c \in Caller : CallerNext(c)
    \/ \E w \in Worker : WorkerNext(w)
    \/ CloseNext
    \/ \E t \in Tunnel : TunnelEstablished(t) \/ TunnelFails(t)

Spec == Init /\ [][Next]_vars

\* Every started goroutine keeps running: dials time out
\* (TunnelPortForwardDialTimeout), a call whose channel failed goes on to
\* UseTunnel, and Close, once called, runs to its end.  Nothing obliges the
\* tun client to read or write, the host to call Close, the server to keep a
\* channel open, or a tunnel to fail.
Fairness ==
    /\ \A i \in IO : WF_vars(ClearFailedChannel(i) \/ CallerNext(i))
    /\ WF_vars(CallerNext("runTunnels"))
    /\ \A w \in Worker : WF_vars(WorkerNext(w))
    /\ WF_vars(CloseWait \/ CloseBroadcast \/ CloseChannel)

FairSpec == Spec /\ Fairness

----------------------------------------------------------------------------
(* Properties *)

Running == {w \in Worker : worker[w] # NoWorker}

\* The current channel is one the transport has not closed itself, and it is
\* recorded with the tunnel it was dialed in: Read and Write racing in
\* failedChannel while a worker replaces the channel never leave a dead
\* channel installed (failedChannel, "Concurrency note").
CurrentChannelLive ==
    channelConn # NoConn =>
        /\ conn[channelConn] = "open"
        /\ connTunnel[channelConn] = channelTunnel

\* A channel that was opened and not closed is reachable: it is the current
\* channel or a running worker is about to install it.  Substituting channels
\* leaks none, as long as Close has not begun (setChannel, failedChannel).
OpenChannelReachable ==
    ~closed =>
        \A c \in Conn : conn[c] = "open" =>
            c = channelConn \/ \E w \in Running : worker[w].conn = c

\* Close returns: every worker it waits for ends, and a call that fails after
\* Close began starts workers only finitely often.
CloseReturns == closePC = "wait" ~> closePC = "done"

\* While the transport stays open, a Read or Write that lost its channel is
\* followed by a worker that dials in the tunnel of that channel, whatever
\* other calls, workers and newer tunnels do meanwhile (failedChannel, "Try to
\* establish a new channel within the current tunnel").
FailedCallRedials ==
    \A t \in Tunnel :
        (\E i \in IO : pc[i] = "failed" /\ arg[i] = t) ~>
            closed \/ \E w \in Running : worker[w].tunnel = t

=============================================================================
