--------------------- MODULE PacketTunnelTransportProofs ---------------------
(***************************************************************************)
(* Theorems about PacketTunnelTransport, for any tunnels, any number of    *)
(* channels and any number of workers alive together.                      *)
(***************************************************************************)
EXTENDS PacketTunnelTransport, TLAPS

\* What Close does comes after the closed flag is set.
CloseBegun == closePC # "open" => closed

\* A Read or Write call past getChannel has a channel that was dialed, and
\* whoever is about to call UseTunnel has a tunnel for it.
CallsHold ==
    /\ \A i \in IO : pc[i] \in {"io", "deadline", "failed"} =>
         ioConn[i] \in Conn /\ conn[ioConn[i]] # "new"
    /\ \A c \in Caller : pc[c] \in {"io", "deadline", "failed", "use", "add"} =>
         arg[c] \in Tunnel

\* A worker about to install its channel holds an open channel of its tunnel,
\* that is not the current one and that no other worker is about to install.
WorkersHold ==
    \A w \in Worker :
        /\ worker[w].pc # "none" => worker[w].tunnel \in Tunnel
        /\ worker[w].pc = "set" =>
             /\ worker[w].conn \in Conn /\ worker[w].conn # channelConn
             /\ conn[worker[w].conn] = "open"
             /\ connTunnel[worker[w].conn] = worker[w].tunnel
        /\ \A v \in Worker : worker[w].pc = "set" /\ worker[v].pc = "set"
             /\ worker[v].conn = worker[w].conn => v = w

\* The current channel belongs to a tunnel.
ChannelHeld == CurrentChannelLive /\ (channelConn # NoConn => channelTunnel \in Tunnel)

\* Before Close an open channel is current or about to be installed.
OpenHeld ==
    ~closed => \A c \in Conn : conn[c] = "open" =>
        c = channelConn \/ \E w \in Worker : worker[w].pc = "set" /\ worker[w].conn = c

TransportInv ==
    /\ TypeOK
    /\ CloseBegun
    /\ CallsHold
    /\ WorkersHold
    /\ ChannelHeld
    /\ OpenHeld

WorkerType == [pc : {"none", "dial", "set", "timeout", "broadcast"},
               tunnel : Tunnel \cup {NoTunnel}, conn : Conn \cup {NoConn}]

\* The nil values are no tunnel and no conn.
LEMMA Nils == NoTunnel \notin Tunnel /\ NoConn \notin Conn
BY TransportAssumption DEF NoTunnel, NoConn

\* The invariant holds initially.
LEMMA InitTransportInv == Init => TransportInv
<1> SUFFICES ASSUME Init PROVE TransportInv
    OBVIOUS
<1>1. \A w \in Worker : worker[w].pc = "none"
    BY DEF Init, NoWorker
<1>2. TypeOK
    <2>1. closed \in BOOLEAN /\ closePC = "open"
        BY DEF Init
    <2>2. worker \in [Worker -> [pc : {"none", "dial", "set", "timeout", "broadcast"},
                                 tunnel : Tunnel \cup {NoTunnel}, conn : Conn \cup {NoConn}]]
        BY DEF Init, NoWorker
    <2> QED
        BY <2>1, <2>2 DEF Init, TypeOK
<1>3. CloseBegun /\ CallsHold
    BY DEF Init, CloseBegun, CallsHold, Caller
<1>4. WorkersHold
    BY <1>1 DEF WorkersHold
<1>5. channelConn = NoConn /\ \A c \in Conn : conn[c] = "new"
    BY DEF Init
<1>6. ChannelHeld /\ OpenHeld
    BY <1>5 DEF ChannelHeld, CurrentChannelLive, OpenHeld
<1> QED
    BY <1>2, <1>3, <1>4, <1>6 DEF TransportInv

\* Where no channel and no worker changes, the channels are held as before.
LEMMA SameChannels ==
    ASSUME TransportInv,
           UNCHANGED <<closed, closePC, channelConn, channelTunnel, worker, connVars>>
    PROVE  CloseBegun' /\ WorkersHold' /\ ChannelHeld' /\ OpenHeld'
<1>1. UNCHANGED <<conn, connTunnel>>
    BY DEF connVars
<1>2. CloseBegun'
    BY Zenon DEF TransportInv, CloseBegun
<1>3. WorkersHold'
    BY <1>1 DEF TransportInv, WorkersHold
<1>4. ChannelHeld'
    BY <1>1 DEF TransportInv, ChannelHeld, CurrentChannelLive
<1>5. OpenHeld'
    BY <1>1 DEF TransportInv, OpenHeld
<1> QED
    BY <1>2, <1>3, <1>4, <1>5

\* A caller goes on to p.
LEMMA CallerAt ==
    ASSUME TypeOK, NEW c \in Caller, NEW p \in {"idle", "getChannel", "load", "wait", "io",
                                                "deadline", "failed", "use", "add"},
           pc' = [pc EXCEPT ![c] = p]
    PROVE  /\ pc' \in [Caller -> {"idle", "getChannel", "load", "wait", "io",
                                  "deadline", "failed", "use", "add"}]
           /\ \A d \in Caller : pc'[d] = IF d = c THEN p ELSE pc[d]
BY DEF TypeOK

\* getChannel up to a channel, and the start of a call.
LEMMA GetChannelSteps ==
    ASSUME TransportInv, NEW i \in IO,
           CallIO(i) \/ GetChannelClosed(i) \/ GetChannelOpen(i) \/ WaitChannel(i)
             \/ (LoadChannel(i) /\ channelConn = NoConn)
    PROVE  TransportInv'
<1>1. UNCHANGED <<transportVars, arg, ioConn, worker, connVars, tunnelVars>>
    BY DEF CallIO, GetChannelClosed, GetChannelOpen, WaitChannel, LoadChannel
<1>2. /\ \E p \in {"idle", "getChannel", "load", "wait"} : pc' = [pc EXCEPT ![i] = p]
      /\ condLock' \in IO \cup {"free"} /\ condWait' \subseteq IO
    BY DEF CallIO, GetChannelClosed, GetChannelOpen, WaitChannel, LoadChannel, condVars,
       TransportInv, TypeOK
<1>3. PICK p \in {"idle", "getChannel", "load", "wait"} : pc' = [pc EXCEPT ![i] = p]
    BY <1>2
<1>4. i \in Caller
    BY DEF Caller
<1>5. /\ pc' \in [Caller -> {"idle", "getChannel", "load", "wait", "io",
                             "deadline", "failed", "use", "add"}]
      /\ \A d \in Caller : pc'[d] = IF d = i THEN p ELSE pc[d]
    BY <1>3, <1>4, CallerAt DEF TransportInv
<1>6. TypeOK'
    BY <1>1, <1>2, <1>5 DEF TransportInv, TypeOK, transportVars, connVars, tunnelVars
<1>7. CallsHold'
    BY <1>1, <1>5 DEF TransportInv, CallsHold, connVars, Caller
<1>8. CloseBegun' /\ WorkersHold' /\ ChannelHeld' /\ OpenHeld'
    BY <1>1, SameChannels DEF transportVars
<1> QED
    BY <1>6, <1>7, <1>8 DEF TransportInv

\* getChannel returns the current channel and its tunnel.
LEMMA LoadStep ==
    ASSUME TransportInv, NEW i \in IO, LoadChannel(i), channelConn # NoConn
    PROVE  TransportInv'
<1>1. /\ ioConn' = [ioConn EXCEPT ![i] = channelConn]
      /\ arg' = [arg EXCEPT ![i] = channelTunnel]
      /\ condLock' = "free"
      /\ pc' = [pc EXCEPT ![i] = "io"]
      /\ UNCHANGED <<closed, closePC, channelConn, channelTunnel, readDeadline, condWait,
                     worker, conn, connTunnel, up, probed>>
    BY DEF LoadChannel, transportVars, connVars, tunnelVars
<1>2. /\ channelConn \in Conn /\ conn[channelConn] = "open" /\ channelTunnel \in Tunnel
      /\ i \in Caller
    BY DEF TransportInv, TypeOK, ChannelHeld, CurrentChannelLive, Caller
<1>3. /\ pc' \in [Caller -> {"idle", "getChannel", "load", "wait", "io",
                             "deadline", "failed", "use", "add"}]
      /\ \A d \in Caller : pc'[d] = IF d = i THEN "io" ELSE pc[d]
    BY <1>1, <1>2, CallerAt DEF TransportInv
<1>4. /\ arg' \in [Caller -> Tunnel \cup {NoTunnel}]
      /\ \A d \in Caller : arg'[d] = IF d = i THEN channelTunnel ELSE arg[d]
      /\ ioConn' \in [IO -> Conn \cup {NoConn}]
      /\ \A j \in IO : ioConn'[j] = IF j = i THEN channelConn ELSE ioConn[j]
    BY <1>1, <1>2 DEF TransportInv, TypeOK
<1>5. TypeOK'
    BY <1>1, <1>3, <1>4 DEF TransportInv, TypeOK
<1>6. CallsHold'
    <2>1. \A j \in IO : j \in Caller
        BY DEF Caller
    <2> QED
        BY <1>1, <1>2, <1>3, <1>4, <2>1 DEF TransportInv, CallsHold
<1>7. CloseBegun' /\ WorkersHold' /\ ChannelHeld' /\ OpenHeld'
    BY <1>1, SameChannels DEF connVars
<1> QED
    BY <1>5, <1>6, <1>7 DEF TransportInv

\* A read or write succeeds or fails, or the read deadline is looked at: only
\* the tunnel of the call is ever probed.
LEMMA IOSteps ==
    ASSUME TransportInv, NEW i \in IO,
           IOSucceeds(i) \/ IOFails(i) \/ (i = "Write" /\ CheckReadDeadline)
    PROVE  TransportInv'
<1>1. UNCHANGED <<closed, closePC, channelConn, channelTunnel, condLock, condWait,
                  worker, conn, connTunnel, up>>
    BY DEF IOSucceeds, IOFails, CheckReadDeadline, transportVars, condVars, connVars, tunnelVars
<1>2. i \in Caller /\ \A j \in IO : j \in Caller
    BY DEF Caller
<1>3. arg[i] \in Tunnel /\ ioConn[i] \in Conn /\ pc[i] \in {"io", "deadline"}
    BY <1>2 DEF TransportInv, CallsHold, IOSucceeds, IOFails, CheckReadDeadline
<1>4. readDeadline' \in {"none", "set"}
    BY DEF IOSucceeds, IOFails, CheckReadDeadline, transportVars, TransportInv, TypeOK
<1>5. probed' \subseteq Tunnel
    <2>1. probed \subseteq Tunnel
        BY DEF TransportInv, TypeOK
    <2>2. probed' = probed \/ probed' = probed \cup {arg[i]}
        BY DEF IOSucceeds, IOFails, CheckReadDeadline, tunnelVars
    <2> QED
        BY <1>3, <2>1, <2>2
<1>6. \/ /\ pc' = [pc EXCEPT ![i] = "idle"]
         /\ ioConn' = [ioConn EXCEPT ![i] = NoConn]
         /\ arg' = [arg EXCEPT ![i] = NoTunnel]
      \/ /\ \E p \in {"deadline", "failed"} : pc' = [pc EXCEPT ![i] = p]
         /\ UNCHANGED <<ioConn, arg>>
    BY DEF IOSucceeds, IOFails, CheckReadDeadline
<1>7. PICK p \in {"idle", "deadline", "failed"} :
        /\ pc' = [pc EXCEPT ![i] = p]
        /\ p = "idle" => ioConn' = [ioConn EXCEPT ![i] = NoConn] /\ arg' = [arg EXCEPT ![i] = NoTunnel]
        /\ p # "idle" => UNCHANGED <<ioConn, arg>>
    BY <1>6
<1>8. /\ pc' \in [Caller -> {"idle", "getChannel", "load", "wait", "io",
                             "deadline", "failed", "use", "add"}]
      /\ \A d \in Caller : pc'[d] = IF d = i THEN p ELSE pc[d]
    BY <1>2, <1>7, CallerAt DEF TransportInv
<1>9. /\ arg' \in [Caller -> Tunnel \cup {NoTunnel}]
      /\ ioConn' \in [IO -> Conn \cup {NoConn}]
      /\ \A d \in Caller : d # i => arg'[d] = arg[d]
      /\ \A j \in IO : j # i => ioConn'[j] = ioConn[j]
      /\ p # "idle" => arg'[i] = arg[i] /\ ioConn'[i] = ioConn[i]
    BY <1>2, <1>7 DEF TransportInv, TypeOK
<1>10. TypeOK'
    BY <1>1, <1>4, <1>5, <1>8, <1>9 DEF TransportInv, TypeOK
<1>11. CallsHold'
    <2>1. \A j \in IO : pc'[j] \in {"io", "deadline", "failed"} =>
            ioConn'[j] \in Conn /\ conn'[ioConn'[j]] # "new"
        <3> SUFFICES ASSUME NEW j \in IO, pc'[j] \in {"io", "deadline", "failed"}
                     PROVE  ioConn'[j] = ioConn[j] /\ pc[j] \in {"io", "deadline", "failed"}
            BY <1>1 DEF TransportInv, CallsHold
        <3> QED
            BY <1>2, <1>3, <1>8, <1>9
    <2>2. \A d \in Caller : pc'[d] \in {"io", "deadline", "failed", "use", "add"} =>
            arg'[d] \in Tunnel
        BY <1>3, <1>8, <1>9 DEF TransportInv, CallsHold
    <2> QED
        BY <2>1, <2>2 DEF CallsHold
<1>12. CloseBegun' /\ WorkersHold' /\ ChannelHeld' /\ OpenHeld'
    BY <1>1, SameChannels DEF connVars
<1> QED
    BY <1>10, <1>11, <1>12 DEF TransportInv

\* failedChannel clears the channel only if it is still the one that failed;
\* no worker is about to install that one.
LEMMA ClearStep ==
    ASSUME TransportInv, NEW i \in IO, ClearFailedChannel(i)
    PROVE  TransportInv'
<1>1. /\ pc[i] = "failed" /\ pc' = [pc EXCEPT ![i] = "use"]
      /\ ioConn' = [ioConn EXCEPT ![i] = NoConn]
      /\ UNCHANGED <<closed, closePC, readDeadline, condLock, condWait, arg, worker,
                     connTunnel, up, probed>>
    BY DEF ClearFailedChannel, condVars, tunnelVars
<1>2. i \in Caller /\ \A j \in IO : j \in Caller
    BY DEF Caller
<1>3. /\ pc' \in [Caller -> {"idle", "getChannel", "load", "wait", "io",
                             "deadline", "failed", "use", "add"}]
      /\ \A d \in Caller : pc'[d] = IF d = i THEN "use" ELSE pc[d]
    BY <1>1, <1>2, CallerAt DEF TransportInv
<1>4. /\ ioConn' \in [IO -> Conn \cup {NoConn}]
      /\ \A j \in IO : j # i => ioConn'[j] = ioConn[j]
    BY <1>1 DEF TransportInv, TypeOK
<1>5. ioConn[i] \in Conn /\ arg[i] \in Tunnel
    BY <1>1, <1>2 DEF TransportInv, CallsHold
<1>6. \/ /\ channelConn' = NoConn /\ channelTunnel' = NoTunnel /\ channelConn \in Conn
         /\ \A c \in Conn : conn'[c] = IF c = channelConn THEN "closed" ELSE conn[c]
         /\ conn' \in [Conn -> {"new", "open", "closed"}]
      \/ UNCHANGED <<conn, channelConn, channelTunnel>>
    BY <1>5 DEF ClearFailedChannel, TransportInv, TypeOK
<1>7. TypeOK'
    BY <1>1, <1>3, <1>4, <1>6 DEF TransportInv, TypeOK
<1>8. CallsHold'
    <2>1. \A c \in Conn : conn'[c] = "new" => conn[c] = "new"
        BY <1>6
    <2>2. \A j \in IO : pc'[j] \in {"io", "deadline", "failed"} =>
            ioConn'[j] \in Conn /\ conn'[ioConn'[j]] # "new"
        BY <1>2, <1>3, <1>4, <2>1 DEF TransportInv, CallsHold
    <2>3. \A d \in Caller : pc'[d] \in {"io", "deadline", "failed", "use", "add"} =>
            arg'[d] \in Tunnel
        BY <1>1, <1>3, <1>5 DEF TransportInv, CallsHold
    <2> QED
        BY <2>2, <2>3 DEF CallsHold
<1>9. CASE UNCHANGED <<conn, channelConn, channelTunnel>>
    BY <1>1, <1>7, <1>8, <1>9, SameChannels DEF TransportInv, connVars
<1>10. CASE /\ channelConn' = NoConn /\ channelTunnel' = NoTunnel /\ channelConn \in Conn
            /\ \A c \in Conn : conn'[c] = IF c = channelConn THEN "closed" ELSE conn[c]
    <2>1. CloseBegun'
        BY <1>1, Zenon DEF TransportInv, CloseBegun
    <2>2. WorkersHold'
        <3>1. NoConn \notin Conn
            BY Nils
        <3> QED
            BY <1>1, <1>10, <3>1 DEF TransportInv, WorkersHold
    <2>3. ChannelHeld'
        BY <1>10 DEF ChannelHeld, CurrentChannelLive
    <2>4. OpenHeld'
        BY <1>1, <1>10 DEF TransportInv, OpenHeld
    <2> QED
        BY <1>7, <1>8, <2>1, <2>2, <2>3, <2>4 DEF TransportInv
<1> QED
    BY <1>6, <1>9, <1>10

\* UseTunnel preserves it.
LEMMA UseTunnelStep ==
    ASSUME TransportInv, NEW c \in Caller, UseTunnel(c)
    PROVE  TransportInv'
<1>1. /\ pc[c] = "use" /\ UNCHANGED <<transportVars, condVars, arg, ioConn, worker, connVars, tunnelVars>>
      /\ \E p \in {"idle", "add"} : pc' = [pc EXCEPT ![c] = p]
    BY DEF UseTunnel
<1>2. PICK p \in {"idle", "add"} : pc' = [pc EXCEPT ![c] = p]
    BY <1>1
<1>3. /\ pc' \in [Caller -> {"idle", "getChannel", "load", "wait", "io",
                             "deadline", "failed", "use", "add"}]
      /\ \A d \in Caller : pc'[d] = IF d = c THEN p ELSE pc[d]
    BY <1>2, CallerAt DEF TransportInv
<1>4. TypeOK'
    BY <1>1, <1>3 DEF TransportInv, TypeOK, transportVars, condVars, connVars, tunnelVars
<1>5. CallsHold'
    <2>1. \A j \in IO : j \in Caller
        BY DEF Caller
    <2> QED
        BY <1>1, <1>3, <2>1 DEF TransportInv, CallsHold, connVars
<1>6. CloseBegun' /\ WorkersHold' /\ ChannelHeld' /\ OpenHeld'
    BY <1>1, SameChannels DEF transportVars
<1> QED
    BY <1>4, <1>5, <1>6 DEF TransportInv

\* One worker changes to the record r.
LEMMA WorkerAt ==
    ASSUME TypeOK, NEW w \in Worker, NEW r \in WorkerType, worker' = [worker EXCEPT ![w] = r]
    PROVE  /\ worker' \in [Worker -> WorkerType]
           /\ \A v \in Worker : worker'[v] = IF v = w THEN r ELSE worker[v]
BY DEF TypeOK, WorkerType

\* A worker starts, or ends: it is not about to install a channel, or the
\* transport is closed.
LEMMA WorkerStartsOrEnds ==
    ASSUME TransportInv, NEW w \in Worker, NEW r \in WorkerType, worker' = [worker EXCEPT ![w] = r],
           \/ r.pc = "none"
           \/ r.pc = "dial" /\ r.tunnel \in Tunnel,
           worker[w].pc # "set" \/ closed,
           UNCHANGED <<closed, closePC, channelConn, channelTunnel, conn, connTunnel>>
    PROVE  CloseBegun' /\ WorkersHold' /\ ChannelHeld' /\ OpenHeld'
<1>1. \A v \in Worker : worker'[v] = IF v = w THEN r ELSE worker[v]
    BY WorkerAt DEF TransportInv
<1>2. CloseBegun'
    BY Zenon DEF TransportInv, CloseBegun
<1>3. WorkersHold'
    BY <1>1 DEF TransportInv, WorkersHold
<1>4. ChannelHeld'
    BY DEF TransportInv, ChannelHeld, CurrentChannelLive
<1>5. OpenHeld'
    <2> SUFFICES ASSUME ~ closed, NEW c \in Conn, conn[c] = "open", c # channelConn
                 PROVE  \E v \in Worker : worker'[v].pc = "set" /\ worker'[v].conn = c
        BY DEF OpenHeld
    <2>1. PICK v \in Worker : worker[v].pc = "set" /\ worker[v].conn = c
        BY DEF TransportInv, OpenHeld
    <2>2. v # w
        BY <2>1
    <2> QED
        BY <1>1, <2>1, <2>2
<1> QED
    BY <1>2, <1>3, <1>4, <1>5

\* A worker that does not run.
LEMMA NoWorkerType == NoWorker \in WorkerType /\ NoWorker.pc = "none"
BY DEF NoWorker, WorkerType

\* The start of a worker preserves it.
LEMMA StartWorkerStep ==
    ASSUME TransportInv, NEW c \in Caller, NEW w \in Worker, StartWorker(c, w)
    PROVE  TransportInv'
<1> DEFINE r == [pc |-> "dial", tunnel |-> arg[c], conn |-> NoConn]
<1>1. /\ pc[c] = "add" /\ worker[w] = NoWorker
      /\ worker' = [worker EXCEPT ![w] = r]
      /\ pc' = [pc EXCEPT ![c] = "idle"]
      /\ UNCHANGED <<closed, closePC, channelConn, channelTunnel, readDeadline, condLock,
                     condWait, arg, ioConn, conn, connTunnel, up, probed>>
    BY DEF StartWorker, transportVars, condVars, connVars, tunnelVars
<1>2. arg[c] \in Tunnel
    BY <1>1 DEF TransportInv, CallsHold
<1>3. r \in WorkerType /\ r.pc = "dial" /\ r.tunnel \in Tunnel
    BY <1>2 DEF WorkerType
<1>4. worker[w].pc # "set"
    BY <1>1, NoWorkerType
<1> HIDE DEF r
<1>5. worker' \in [Worker -> WorkerType]
    BY <1>1, <1>3, WorkerAt DEF TransportInv
<1>6. /\ pc' \in [Caller -> {"idle", "getChannel", "load", "wait", "io",
                             "deadline", "failed", "use", "add"}]
      /\ \A d \in Caller : pc'[d] = IF d = c THEN "idle" ELSE pc[d]
    BY <1>1, CallerAt DEF TransportInv
<1>7. TypeOK'
    BY <1>1, <1>5, <1>6 DEF TransportInv, TypeOK, WorkerType
<1>8. CallsHold'
    <2>1. \A j \in IO : j \in Caller
        BY DEF Caller
    <2> QED
        BY <1>1, <1>6, <2>1 DEF TransportInv, CallsHold
<1>9. CloseBegun' /\ WorkersHold' /\ ChannelHeld' /\ OpenHeld'
    BY <1>1, <1>3, <1>4, WorkerStartsOrEnds
<1> QED
    BY <1>7, <1>8, <1>9 DEF TransportInv

\* The worker ends: its dial failed, the transport is closed, or its channel
\* is installed and announced.
LEMMA WorkerEndSteps ==
    ASSUME TransportInv, NEW w \in Worker,
           DialFails(w) \/ SetChannelClosed(w) \/ BroadcastReady(w)
    PROVE  TransportInv'
<1>1. /\ worker' = [worker EXCEPT ![w] = NoWorker]
      /\ worker[w].pc # "set" \/ closed
      /\ UNCHANGED <<closed, closePC, channelConn, channelTunnel, readDeadline, condLock,
                     pc, arg, ioConn, conn, connTunnel, up>>
    BY DEF DialFails, SetChannelClosed, BroadcastReady, transportVars, condVars, ioVars,
       connVars, tunnelVars
<1>2. worker' \in [Worker -> WorkerType]
    BY <1>1, WorkerAt, NoWorkerType DEF TransportInv
<1>3. condWait' \subseteq IO
    BY DEF DialFails, SetChannelClosed, BroadcastReady, condVars, TransportInv, TypeOK
<1>4. probed' \subseteq Tunnel
    <2>1. worker[w].pc = "dial" => worker[w].tunnel \in Tunnel
        BY DEF TransportInv, WorkersHold
    <2> QED
        BY <2>1 DEF DialFails, SetChannelClosed, BroadcastReady, tunnelVars, TransportInv, TypeOK
<1>5. TypeOK'
    BY <1>1, <1>2, <1>3, <1>4 DEF TransportInv, TypeOK, WorkerType
<1>6. CallsHold'
    BY <1>1 DEF TransportInv, CallsHold
<1>7. CloseBegun' /\ WorkersHold' /\ ChannelHeld' /\ OpenHeld'
    BY <1>1, NoWorkerType, WorkerStartsOrEnds
<1> QED
    BY <1>5, <1>6, <1>7 DEF TransportInv

\* A new channel belongs to the worker that dialed it and to no one else.
LEMMA DialSucceedsStep ==
    ASSUME TransportInv, NEW w \in Worker, NEW c \in Conn, DialSucceeds(w, c)
    PROVE  TransportInv'
<1> DEFINE r == [worker[w] EXCEPT !.pc = "set", !.conn = c]
<1>1. /\ worker[w].pc = "dial" /\ conn[c] = "new"
      /\ conn' = [conn EXCEPT ![c] = "open"]
      /\ connTunnel' = [connTunnel EXCEPT ![c] = worker[w].tunnel]
      /\ worker' = [worker EXCEPT ![w] = r]
      /\ UNCHANGED <<closed, closePC, channelConn, channelTunnel, readDeadline, condLock,
                     condWait, pc, arg, ioConn, up, probed>>
    BY DEF DialSucceeds, transportVars, condVars, ioVars, tunnelVars
<1>2. worker[w] \in WorkerType /\ worker[w].tunnel \in Tunnel
    BY <1>1 DEF TransportInv, TypeOK, WorkersHold, WorkerType
<1>3. r \in WorkerType /\ r.pc = "set" /\ r.conn = c /\ r.tunnel = worker[w].tunnel
    BY <1>2 DEF WorkerType
<1> HIDE DEF r
<1>4. /\ worker' \in [Worker -> WorkerType]
      /\ \A v \in Worker : worker'[v] = IF v = w THEN r ELSE worker[v]
    BY <1>1, <1>3, WorkerAt DEF TransportInv
<1>5. /\ conn' \in [Conn -> {"new", "open", "closed"}]
      /\ connTunnel' \in [Conn -> Tunnel \cup {NoTunnel}]
      /\ \A d \in Conn : conn'[d] = IF d = c THEN "open" ELSE conn[d]
      /\ \A d \in Conn : connTunnel'[d] = IF d = c THEN worker[w].tunnel ELSE connTunnel[d]
    BY <1>1, <1>2 DEF TransportInv, TypeOK
<1>6. TypeOK'
    BY <1>1, <1>4, <1>5 DEF TransportInv, TypeOK, WorkerType
<1>7. CloseBegun'
    BY <1>1, Zenon DEF TransportInv, CloseBegun
<1>8. CallsHold'
    BY <1>1, <1>5 DEF TransportInv, CallsHold
<1>9. channelConn # c /\ (channelConn # NoConn => channelConn \in Conn)
    BY <1>1, Nils DEF TransportInv, TypeOK, ChannelHeld, CurrentChannelLive
<1>10. ChannelHeld'
    BY <1>1, <1>5, <1>9 DEF TransportInv, ChannelHeld, CurrentChannelLive
<1>11. WorkersHold'
    <2>1. \A v \in Worker : worker[v].pc = "set" => worker[v].conn \in Conn /\ worker[v].conn # c
        BY <1>1 DEF TransportInv, WorkersHold
    <2> SUFFICES ASSUME NEW v \in Worker
                 PROVE  WorkersHold!(v)'
        BY DEF WorkersHold
    <2>2. CASE v = w
        BY <1>1, <1>2, <1>3, <1>4, <1>5, <1>9, <2>1, <2>2
    <2>3. CASE v # w
        <3>1. worker'[v] = worker[v]
            BY <1>4, <2>3
        <3>2. worker[v].pc # "none" => worker[v].tunnel \in Tunnel
            BY DEF TransportInv, WorkersHold
        <3>3. worker[v].pc = "set" =>
                /\ worker[v].conn \in Conn /\ worker[v].conn # channelConn
                /\ conn'[worker[v].conn] = "open"
                /\ connTunnel'[worker[v].conn] = worker[v].tunnel
            BY <1>5, <2>1 DEF TransportInv, WorkersHold
        <3>4. \A u \in Worker : worker[v].pc = "set" /\ worker'[u].pc = "set"
                /\ worker'[u].conn = worker[v].conn => u = v
            BY <1>3, <1>4, <2>1 DEF TransportInv, WorkersHold
        <3> QED
            BY <1>1, <3>1, <3>2, <3>3, <3>4
    <2> QED
        BY <2>2, <2>3
<1>12. OpenHeld'
    <2> SUFFICES ASSUME ~ closed, NEW d \in Conn, conn'[d] = "open", d # channelConn
                 PROVE  \E v \in Worker : worker'[v].pc = "set" /\ worker'[v].conn = d
        BY <1>1 DEF OpenHeld
    <2>1. CASE d = c
        BY <1>3, <1>4, <2>1
    <2>2. CASE d # c
        <3>1. PICK v \in Worker : worker[v].pc = "set" /\ worker[v].conn = d
            BY <1>5, <2>2 DEF TransportInv, OpenHeld
        <3> QED
            BY <1>1, <1>4, <3>1
    <2> QED
        BY <2>1, <2>2
<1> QED
    BY <1>6, <1>7, <1>8, <1>10, <1>11, <1>12 DEF TransportInv

\* setChannel closes the channel before and installs the worker's own.
LEMMA SetChannelStep ==
    ASSUME TransportInv, NEW w \in Worker, SetChannel(w)
    PROVE  TransportInv'
<1> DEFINE r == [worker[w] EXCEPT !.pc = "timeout"]
<1>1. /\ worker[w].pc = "set"
      /\ conn' = IF channelConn # NoConn THEN [conn EXCEPT ![channelConn] = "closed"] ELSE conn
      /\ channelConn' = worker[w].conn /\ channelTunnel' = worker[w].tunnel
      /\ worker' = [worker EXCEPT ![w] = r]
      /\ UNCHANGED <<closed, closePC, readDeadline, condLock, condWait, pc, arg, ioConn,
                     connTunnel, up, probed>>
    BY DEF SetChannel, condVars, ioVars, tunnelVars
<1>2. /\ worker[w] \in WorkerType /\ worker[w].tunnel \in Tunnel
      /\ worker[w].conn \in Conn /\ worker[w].conn # channelConn
      /\ conn[worker[w].conn] = "open" /\ connTunnel[worker[w].conn] = worker[w].tunnel
    BY <1>1 DEF TransportInv, TypeOK, WorkersHold, WorkerType
<1>3. r \in WorkerType /\ r.pc = "timeout" /\ r.tunnel = worker[w].tunnel
    BY <1>2 DEF WorkerType
<1> HIDE DEF r
<1>4. /\ worker' \in [Worker -> WorkerType]
      /\ \A v \in Worker : worker'[v] = IF v = w THEN r ELSE worker[v]
    BY <1>1, <1>3, WorkerAt DEF TransportInv
<1>5. /\ conn' \in [Conn -> {"new", "open", "closed"}]
      /\ \A d \in Conn : conn'[d] = IF d = channelConn THEN "closed" ELSE conn[d]
    BY <1>1, Nils DEF TransportInv, TypeOK
<1>6. TypeOK'
    BY <1>1, <1>2, <1>4, <1>5 DEF TransportInv, TypeOK, WorkerType
<1>7. CloseBegun'
    BY <1>1, Zenon DEF TransportInv, CloseBegun
<1>8. CallsHold'
    BY <1>1, <1>5 DEF TransportInv, CallsHold
<1>9. ChannelHeld'
    BY <1>1, <1>2, <1>5 DEF ChannelHeld, CurrentChannelLive
<1>10. WorkersHold'
    <2> SUFFICES ASSUME NEW v \in Worker
                 PROVE  WorkersHold!(v)'
        BY DEF WorkersHold
    <2>1. CASE v = w
        BY <1>2, <1>3, <1>4, <2>1
    <2>2. CASE v # w
        <3>1. worker'[v] = worker[v]
            BY <1>4, <2>2
        <3>2. worker[v].pc # "none" => worker[v].tunnel \in Tunnel
            BY DEF TransportInv, WorkersHold
        <3>3. worker[v].pc = "set" =>
                /\ worker[v].conn \in Conn /\ worker[v].conn # channelConn
                /\ worker[v].conn # worker[w].conn
                /\ conn[worker[v].conn] = "open"
                /\ connTunnel[worker[v].conn] = worker[v].tunnel
            BY <1>1, <2>2 DEF TransportInv, WorkersHold
        <3>4. \A u \in Worker : worker[v].pc = "set" /\ worker'[u].pc = "set"
                /\ worker'[u].conn = worker[v].conn => u = v
            BY <1>3, <1>4 DEF TransportInv, WorkersHold
        <3> QED
            BY <1>1, <1>5, <3>1, <3>2, <3>3, <3>4
    <2> QED
        BY <2>1, <2>2
<1>11. OpenHeld'
    <2> SUFFICES ASSUME ~ closed, NEW d \in Conn, conn'[d] = "open", d # worker[w].conn
                 PROVE  \E v \in Worker : worker'[v].pc = "set" /\ worker'[v].conn = d
        BY <1>1 DEF OpenHeld
    <2>1. PICK v \in Worker : worker[v].pc = "set" /\ worker[v].conn = d
        BY <1>5 DEF TransportInv, OpenHeld
    <2> QED
        BY <1>4, <2>1
<1> QED
    BY <1>6, <1>7, <1>8, <1>9, <1>10, <1>11 DEF TransportInv

\* So does the reset of the read deadline.
LEMMA ResetReadDeadlineStep ==
    ASSUME TransportInv, NEW w \in Worker, ResetReadDeadline(w)
    PROVE  TransportInv'
<1> DEFINE r == [worker[w] EXCEPT !.pc = "broadcast"]
<1>1. /\ worker[w].pc = "timeout" /\ readDeadline' = "none"
      /\ worker' = [worker EXCEPT ![w] = r]
      /\ UNCHANGED <<closed, closePC, channelConn, channelTunnel, condLock, condWait, pc, arg,
                     ioConn, conn, connTunnel, up, probed>>
    BY DEF ResetReadDeadline, condVars, ioVars, connVars, tunnelVars
<1>2. worker[w] \in WorkerType /\ worker[w].tunnel \in Tunnel
    BY <1>1 DEF TransportInv, TypeOK, WorkersHold, WorkerType
<1>3. r \in WorkerType /\ r.pc = "broadcast" /\ r.tunnel = worker[w].tunnel
    BY <1>2 DEF WorkerType
<1> HIDE DEF r
<1>4. /\ worker' \in [Worker -> WorkerType]
      /\ \A v \in Worker : worker'[v] = IF v = w THEN r ELSE worker[v]
    BY <1>1, <1>3, WorkerAt DEF TransportInv
<1>5. TypeOK'
    BY <1>1, <1>4 DEF TransportInv, TypeOK, WorkerType
<1>6. CloseBegun'
    BY <1>1, Zenon DEF TransportInv, CloseBegun
<1>7. CallsHold' /\ ChannelHeld'
    BY <1>1 DEF TransportInv, CallsHold, ChannelHeld, CurrentChannelLive
<1>8. WorkersHold'
    BY <1>1, <1>2, <1>3, <1>4 DEF TransportInv, WorkersHold
<1>9. OpenHeld'
    <2> SUFFICES ASSUME ~ closed, NEW d \in Conn, conn[d] = "open", d # channelConn
                 PROVE  \E v \in Worker : worker'[v].pc = "set" /\ worker'[v].conn = d
        BY <1>1 DEF OpenHeld
    <2>1. PICK v \in Worker : worker[v].pc = "set" /\ worker[v].conn = d
        BY DEF TransportInv, OpenHeld
    <2> QED
        BY <1>1, <1>4, <2>1
<1> QED
    BY <1>5, <1>6, <1>7, <1>8, <1>9 DEF TransportInv

\* Close sets the flag, waits, wakes the calls and closes the channel.
LEMMA CloseSteps ==
    ASSUME TransportInv, CloseNext
    PROVE  TransportInv'
<1>1. /\ closed' \in BOOLEAN /\ closePC' \in {"wait", "broadcast", "release", "done"}
      /\ closed'
    <2>1. closed \in BOOLEAN /\ (closePC # "open" => closed)
        BY DEF TransportInv, TypeOK, CloseBegun
    <2>2. CASE CloseBegin
        BY <2>2, Zenon DEF CloseBegin
    <2>3. CASE CloseWait \/ CloseBroadcast \/ CloseChannel
        <3>1. closePC # "open" /\ UNCHANGED closed
            BY <2>3 DEF CloseWait, CloseBroadcast, CloseChannel
        <3>2. closePC' \in {"wait", "broadcast", "release", "done"}
            BY <2>3 DEF CloseWait, CloseBroadcast, CloseChannel
        <3> QED
            BY <2>1, <3>1, <3>2, Zenon
    <2> QED
        BY <2>2, <2>3 DEF CloseNext
<1>2. /\ UNCHANGED <<channelTunnel, readDeadline, condLock, pc, arg, ioConn, worker,
                     connTunnel, up, probed>>
      /\ condWait' = condWait \/ condWait' = {}
    BY DEF CloseNext, CloseBegin, CloseWait, CloseBroadcast, CloseChannel, condVars, ioVars,
       connVars, tunnelVars
<1>3. \/ UNCHANGED <<conn, channelConn>>
      \/ /\ channelConn' = NoConn
         /\ conn' = IF channelConn # NoConn THEN [conn EXCEPT ![channelConn] = "closed"] ELSE conn
    BY DEF CloseNext, CloseBegin, CloseWait, CloseBroadcast, CloseChannel, connVars
<1>4. /\ channelConn' \in Conn \cup {NoConn}
      /\ conn' \in [Conn -> {"new", "open", "closed"}]
      /\ \/ UNCHANGED <<conn, channelConn>>
         \/ /\ channelConn' = NoConn
            /\ \A d \in Conn : conn'[d] = IF d = channelConn THEN "closed" ELSE conn[d]
    BY <1>3, Nils DEF TransportInv, TypeOK
<1>5. TypeOK'
    BY <1>1, <1>2, <1>4 DEF TransportInv, TypeOK
<1>6. CloseBegun' /\ OpenHeld'
    BY <1>1 DEF CloseBegun, OpenHeld
<1>7. CallsHold'
    BY <1>2, <1>4 DEF TransportInv, CallsHold
<1>8. ChannelHeld'
    BY <1>2, <1>4 DEF TransportInv, ChannelHeld, CurrentChannelLive
<1>9. WorkersHold'
    BY <1>2, <1>4, Nils DEF TransportInv, WorkersHold
<1> QED
    BY <1>5, <1>6, <1>7, <1>8, <1>9 DEF TransportInv

\* Tunnels come and go.
LEMMA OtherSteps ==
    ASSUME TransportInv,
           \E t \in Tunnel : TunnelEstablished(t) \/ TunnelFails(t)
    PROVE  TransportInv'
<1>1. UNCHANGED <<closed, closePC, channelConn, channelTunnel, condLock, condWait, ioConn,
                  worker, conn, connTunnel, probed>>
    BY DEF TunnelEstablished, TunnelFails, transportVars, condVars, ioVars,
       connVars, tunnelVars
<1>2. readDeadline' \in {"none", "set"} /\ up' \subseteq Tunnel
    BY DEF TunnelEstablished, TunnelFails, transportVars, tunnelVars,
       TransportInv, TypeOK
<1>3. \/ UNCHANGED <<pc, arg>>
      \/ \E t \in Tunnel : /\ arg' = [arg EXCEPT !["runTunnels"] = t]
                           /\ pc' = [pc EXCEPT !["runTunnels"] = "use"]
    BY DEF TunnelEstablished, TunnelFails, ioVars
<1>4. /\ pc' \in [Caller -> {"idle", "getChannel", "load", "wait", "io",
                             "deadline", "failed", "use", "add"}]
      /\ arg' \in [Caller -> Tunnel \cup {NoTunnel}]
    BY <1>3 DEF TransportInv, TypeOK
<1>5. TypeOK'
    BY <1>1, <1>2, <1>4 DEF TransportInv, TypeOK
<1>6. CallsHold'
    <2>1. CASE UNCHANGED <<pc, arg>>
        BY <1>1, <2>1 DEF TransportInv, CallsHold
    <2>2. ASSUME NEW t \in Tunnel, arg' = [arg EXCEPT !["runTunnels"] = t],
                 pc' = [pc EXCEPT !["runTunnels"] = "use"]
          PROVE  CallsHold'
        <3>1. \A j \in IO : j \in Caller /\ j # "runTunnels"
            BY DEF IO, Caller
        <3>2. /\ \A d \in Caller : d # "runTunnels" => pc'[d] = pc[d] /\ arg'[d] = arg[d]
              /\ "runTunnels" \in Caller => arg'["runTunnels"] = t
            BY <2>2 DEF TransportInv, TypeOK
        <3> QED
            BY <1>1, <3>1, <3>2 DEF TransportInv, CallsHold
    <2> QED
        BY <1>3, <2>1, <2>2
<1>7. CloseBegun' /\ WorkersHold' /\ ChannelHeld' /\ OpenHeld'
    BY <1>1, SameChannels DEF connVars
<1> QED
    BY <1>5, <1>6, <1>7 DEF TransportInv

\* Every step preserves it.
LEMMA TransportInductive == TransportInv /\ [Next]_vars => TransportInv'
<1> SUFFICES ASSUME TransportInv, [Next]_vars
             PROVE  TransportInv'
    OBVIOUS
<1>1. CASE \E i \in IO : IONext(i)
    BY <1>1, GetChannelSteps, LoadStep, IOSteps, ClearStep DEF IONext
<1>2. CASE CheckReadDeadline
    <2>1. "Write" \in IO
        BY DEF IO
    <2> QED
        BY <1>2, <2>1, IOSteps
<1>3. CASE \E c \in Caller : CallerNext(c)
    BY <1>3, UseTunnelStep, StartWorkerStep DEF CallerNext
<1>4. CASE \E w \in Worker : WorkerNext(w)
    BY <1>4, DialSucceedsStep, WorkerEndSteps, SetChannelStep, ResetReadDeadlineStep DEF WorkerNext
<1>5. CASE CloseNext
    BY <1>5, CloseSteps
<1>6. CASE \E t \in Tunnel : TunnelEstablished(t) \/ TunnelFails(t)
    BY <1>6, OtherSteps
<1>7. CASE UNCHANGED vars
    <2>1. /\ UNCHANGED <<closed, closePC, channelConn, channelTunnel, worker, connVars>>
          /\ UNCHANGED <<readDeadline, condLock, condWait, pc, arg, ioConn, conn, connTunnel, up, probed>>
        BY <1>7 DEF vars, transportVars, condVars, ioVars, connVars, tunnelVars
    <2>2. TypeOK' /\ CallsHold'
        BY <2>1 DEF TransportInv, TypeOK, CallsHold
    <2> QED
        BY <2>1, <2>2, SameChannels DEF TransportInv
<1> QED
    BY <1>1, <1>2, <1>3, <1>4, <1>5, <1>6, <1>7 DEF Next

\* The inductive invariant: who holds which channel.
THEOREM TransportInvariant == Spec => []TransportInv
BY InitTransportInv, TransportInductive, PTL DEF Spec

\* Every variable keeps its type: in particular only tunnels are probed.
THEOREM TransportTypeCorrect == Spec => []TypeOK
<1>1. TransportInv => TypeOK
    BY DEF TransportInv
<1> QED
    BY <1>1, TransportInvariant, PTL

\* A call past getChannel has a channel that was dialed, and whoever calls
\* UseTunnel, failedChannel included, passes a tunnel and not nil, although
\* the current channel and its tunnel are cleared by other goroutines.
THEOREM TransportCallsHold == Spec => []CallsHold
<1>1. TransportInv => CallsHold
    BY DEF TransportInv
<1> QED
    BY <1>1, TransportInvariant, PTL

\* The current channel is never one that setChannel, failedChannel or Close
\* has closed, and is recorded with its own tunnel, whatever the interleaving
\* of failing calls and of workers that replace the channel.
THEOREM TransportCurrentChannelLive == Spec => []CurrentChannelLive
<1>1. TransportInv => CurrentChannelLive
    BY DEF TransportInv, ChannelHeld
<1> QED
    BY <1>1, TransportInvariant, PTL

\* No open channel is leaked before Close begins: a channel is current or in
\* the hands of a worker about to install it.
THEOREM TransportOpenChannelReachable == Spec => []OpenChannelReachable
<1>1. TransportInv => OpenChannelReachable
    <2>1. \A w \in Worker : worker[w].pc = "set" => worker[w] # NoWorker
        BY NoWorkerType
    <2> QED
        BY <2>1 DEF TransportInv, OpenHeld, OpenChannelReachable, Running
<1> QED
    BY <1>1, TransportInvariant, PTL

=============================================================================
