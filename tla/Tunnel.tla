------------------------------- MODULE Tunnel -------------------------------
(***************************************************************************)
(* The life of one tunnel (psiphon/tunnel.go) from ConnectTunnel's return: *)
(* Activate with its handshake, operateTunnel with its status request      *)
(* worker and its two SSH keep alive workers, the connected request made   *)
(* by the controller's connectedReporter, and Close.                       *)
(*                                                                         *)
(* A request is an SSH request without a context: it ends with an answer   *)
(* from the server, or when the connection is closed on this side.  A keep *)
(* alive also ends at its timeout.  Sections under tunnel.mutex are single *)
(* steps.  The signals that operateTunnel receives on unbuffered channels  *)
(* with non-blocking senders are steps of its loop.                        *)
(***************************************************************************)
EXTENDS Naturals

CONSTANTS
    IsStatusReporter,  \* the isStatusReporter argument of Activate
    AppResumes         \* whether the host ever calls AppResumed

ASSUME TunnelAssumption ==
    /\ IsStatusReporter \in BOOLEAN
    /\ AppResumes \in BOOLEAN

KeepAlive == {"periodic", "probe"}   \* the SSH keep alive workers
Closer == {"Activate", "owner"}      \* who may call Close

VARIABLES
    activation,      \* where Activate is
    conn,            \* the conn: "open", "eof" (SSH ended, IsClosed is false), "closed"
    dead,            \* the server no longer answers
    isActivated, isClosed, isDiscarded,
    closer,          \* where each Close call is
    operateDone,     \* operateCtx is done
    timedOut,        \* the shutdown timer set by Close has closed the conn
    op, err,         \* operateTunnel: where it is, and what ended its loop
    status,          \* the status request worker
    keepAlive,       \* the keep alive workers
    keepAliveError,  \* the channel sshKeepAliveError (buffer 1)
    handled,         \* handledSSHKeepAliveFailure
    recorded,        \* a failed tunnel event was recorded by a worker
    inFlight,        \* inFlightConnectedRequestSignal is set
    connected,       \* the connected request
    signalled        \* SignalTunnelFailure was called

activateVars == <<activation, isActivated>>
closeVars == <<isClosed, isDiscarded, closer, timedOut>>
operateVars == <<op, err, status>>
keepAliveVars == <<keepAlive, keepAliveError, handled, recorded>>
connectedVars == <<inFlight, connected>>
vars == <<activateVars, conn, dead, closeVars, operateDone, operateVars, keepAliveVars,
          connectedVars, signalled>>

\* The Boolean variables.
FlagsOK ==
    /\ dead \in BOOLEAN /\ isActivated \in BOOLEAN /\ isClosed \in BOOLEAN
    /\ isDiscarded \in BOOLEAN /\ operateDone \in BOOLEAN /\ timedOut \in BOOLEAN
    /\ keepAliveError \in BOOLEAN /\ handled \in BOOLEAN /\ recorded \in BOOLEAN
    /\ inFlight \in BOOLEAN /\ signalled \in BOOLEAN

\* The other variables.
ProgramOK ==
    /\ activation \in {"dialed", "handshake", "abort", "launch", "activated", "failed"}
    /\ conn \in {"open", "eof", "closed"}
    /\ closer \in [Closer -> {"idle", "wait", "conn", "done"}]
    /\ op \in {"none", "loop", "drain", "final", "await", "signal", "exited"}
    /\ err \in {"none", "conn", "resume", "keepalive"}
    /\ status \in {"idle", "sending"}
    /\ keepAlive \in [KeepAlive -> {"idle", "sending", "failed"}]
    /\ connected \in {"idle", "sending", "ending"}

\* Type correctness: Activate, Close, operateTunnel and its workers are always
\* at a point of the code.
TypeOK == FlagsOK /\ ProgramOK

\* ConnectTunnel has returned a connected tunnel.
Init ==
    /\ activation = "dialed"
    /\ conn = "open"
    /\ dead = FALSE
    /\ isActivated = FALSE /\ isClosed = FALSE /\ isDiscarded = FALSE
    /\ closer = [c \in Closer |-> "idle"]
    /\ operateDone = FALSE
    /\ timedOut = FALSE
    /\ op = "none" /\ err = "none"
    /\ status = "idle"
    /\ keepAlive = [k \in KeepAlive |-> "idle"]
    /\ keepAliveError = FALSE
    /\ handled = FALSE
    /\ recorded = FALSE
    /\ inFlight = FALSE
    /\ connected = "idle"
    /\ signalled = FALSE

\* A request in progress may end.
RequestEnds == conn # "open" \/ ~dead

----------------------------------------------------------------------------
(* Close *)

\* The mutex section of Close by caller c, and stopOperate.  Only the first
\* call goes on to stop and close the tunnel.
CloseBegin(c, discard) ==
    /\ closer[c] = "idle"
    /\ isDiscarded' = discard
    /\ isClosed' = TRUE
    /\ closer' = [closer EXCEPT ![c] = IF isClosed THEN "done"
                                       ELSE IF isActivated THEN "wait" ELSE "conn"]
    /\ operateDone' = (operateDone \/ (~isClosed /\ isActivated))
    /\ UNCHANGED <<activateVars, conn, dead, timedOut, operateVars, keepAliveVars,
                   connectedVars, signalled>>

\* Mutant: the shutdown timer does not close the conn.
Mutant_TimeoutKeepsConn ==
    /\ \E c \in Closer : closer[c] = "wait"
    /\ ~timedOut
    /\ timedOut' = TRUE
    /\ UNCHANGED <<activateVars, conn, dead, isClosed, isDiscarded, closer, operateDone,
                   operateVars, keepAliveVars, connectedVars, signalled>>

\* TunnelOperateShutdownTimeout passes while operateTunnel is stopping.
ShutdownTimeout ==
    /\ \E c \in Closer : closer[c] = "wait"
    /\ ~timedOut
    /\ timedOut' = TRUE
    /\ conn' = "closed"
    /\ UNCHANGED <<activateVars, dead, isClosed, isDiscarded, closer, operateDone,
                   operateVars, keepAliveVars, connectedVars, signalled>>

\* Mutant: Close does not wait for operateTunnel.
Mutant_CloseWithoutWait(c) ==
    /\ closer[c] = "wait"
    /\ closer' = [closer EXCEPT ![c] = "conn"]
    /\ UNCHANGED <<activateVars, conn, dead, isClosed, isDiscarded, timedOut, operateDone,
                   operateVars, keepAliveVars, connectedVars, signalled>>

\* operateWaitGroup.Wait returns.
CloseAwaited(c) ==
    /\ closer[c] = "wait"
    /\ op = "exited"
    /\ closer' = [closer EXCEPT ![c] = "conn"]
    /\ UNCHANGED <<activateVars, conn, dead, isClosed, isDiscarded, timedOut, operateDone,
                   operateVars, keepAliveVars, connectedVars, signalled>>

\* sshClient.Close and conn.Close.
CloseConn(c) ==
    /\ closer[c] = "conn"
    /\ conn' = "closed"
    /\ closer' = [closer EXCEPT ![c] = "done"]
    /\ UNCHANGED <<activateVars, dead, isClosed, isDiscarded, timedOut, operateDone,
                   operateVars, keepAliveVars, connectedVars, signalled>>

\* The controller discards a surplus tunnel or one that failed to activate or
\* to register, and terminates an active one that failed or must go.  It does
\* not close a tunnel that it is activating (ActivatingTunnelOpen of module
\* Controller), so the early return in Activate's last section is not taken.
OwnerDiscards ==
    /\ activation \in {"dialed", "failed", "activated"}
    /\ CloseBegin("owner", TRUE)

OwnerTerminates ==
    /\ activation = "activated"
    /\ CloseBegin("owner", FALSE)

----------------------------------------------------------------------------
(* Activate *)

BeginActivate ==
    /\ activation = "dialed"
    /\ closer["owner"] = "idle"
    /\ activation' = "handshake"
    /\ UNCHANGED <<isActivated, conn, dead, closeVars, operateDone, operateVars,
                   keepAliveVars, connectedVars, signalled>>

\* NewServerContext returns first.
HandshakeReturns ==
    /\ activation = "handshake"
    /\ RequestEnds
    /\ activation' \in IF conn = "open" THEN {"launch", "failed"} ELSE {"failed"}
    /\ UNCHANGED <<isActivated, conn, dead, closeVars, operateDone, operateVars,
                   keepAliveVars, connectedVars, signalled>>

\* handshakeCtx is done: Close(true) interrupts the handshake ...
HandshakeInterrupted ==
    /\ activation = "handshake"
    /\ closer["Activate"] = "idle"
    /\ activation' = "abort"
    /\ isDiscarded' = TRUE
    /\ isClosed' = TRUE
    /\ closer' = [closer EXCEPT !["Activate"] = "conn"]
    /\ UNCHANGED <<isActivated, conn, dead, timedOut, operateDone, operateVars,
                   keepAliveVars, connectedVars, signalled>>

\* ... whose result is then awaited.
HandshakeAborted ==
    /\ activation = "abort"
    /\ closer["Activate"] = "done"
    /\ activation' = "failed"
    /\ UNCHANGED <<isActivated, conn, dead, closeVars, operateDone, operateVars,
                   keepAliveVars, connectedVars, signalled>>

\* The last mutex section of Activate starts operateTunnel.
LaunchOperate ==
    /\ activation = "launch"
    /\ ~isClosed
    /\ isActivated' = TRUE
    /\ activation' = "activated"
    /\ op' = "loop"
    /\ UNCHANGED <<conn, dead, closeVars, operateDone, err, status, keepAliveVars,
                   connectedVars, signalled>>

----------------------------------------------------------------------------
(* operateTunnel's loop *)

LeaveLoop(e) ==
    /\ op' = "drain"
    /\ err' = e
    /\ UNCHANGED <<activateVars, conn, dead, closeVars, operateDone, status, keepAlive,
                   handled, recorded, connectedVars, signalled>>

\* statsTimer: only the status reporter sends, only when its worker is idle,
\* and not in a discarded tunnel.
StatusTimer ==
    /\ op = "loop"
    /\ IsStatusReporter
    /\ ~isDiscarded
    /\ status = "idle"
    /\ status' = "sending"
    /\ UNCHANGED <<activateVars, conn, dead, closeVars, operateDone, op, err,
                   keepAliveVars, connectedVars, signalled>>

\* sshKeepAliveTimer, a port forward failure, a failed SSH request or
\* AppResumed, with the tunnel inactive: an idle worker is told to send.
SignalKeepAlive(k) ==
    /\ op = "loop"
    /\ k = "probe" => conn # "closed"
    /\ keepAlive[k] = "idle"
    /\ keepAlive' = [keepAlive EXCEPT ![k] = "sending"]
    /\ UNCHANGED <<activateVars, conn, dead, closeVars, operateDone, operateVars,
                   keepAliveError, handled, recorded, connectedVars, signalled>>

\* A port forward or a request fails, or AppResumed is called, and the conn is
\* found closed; or a request failed with EOF.
ConnFoundClosed ==
    /\ op = "loop"
    /\ conn # "open"
    /\ LeaveLoop("conn")
    /\ UNCHANGED keepAliveError

\* AppResumed after a long inactivity: reconnect without a probe.
AppResumed ==
    /\ op = "loop"
    /\ AppResumes
    /\ conn # "closed"
    /\ LeaveLoop("resume")
    /\ UNCHANGED keepAliveError

KeepAliveErrorReceived ==
    /\ op = "loop"
    /\ keepAliveError
    /\ keepAliveError' = FALSE
    /\ LeaveLoop("keepalive")

OperateCommandedToStop ==
    /\ op = "loop"
    /\ operateDone
    /\ LeaveLoop("none")
    /\ UNCHANGED keepAliveError

----------------------------------------------------------------------------
(* operateTunnel's shutdown *)

WorkersIdle == status = "idle" /\ \A k \in KeepAlive : keepAlive[k] = "idle"

\* Mutant: the loop's workers are not awaited.
Mutant_WorkersNotAwaited ==
    /\ op = "drain"
    /\ op' = IF err = "none" THEN "final" ELSE "signal"
    /\ UNCHANGED <<activateVars, conn, dead, closeVars, operateDone, err, status,
                   keepAliveVars, connectedVars, signalled>>

\* The signal channels are closed and requestsWaitGroup.Wait returns.
WorkersDrained ==
    /\ op = "drain"
    /\ WorkersIdle
    /\ op' = IF err = "none" THEN "final" ELSE "signal"
    /\ UNCHANGED <<activateVars, conn, dead, closeVars, operateDone, err, status,
                   keepAliveVars, connectedVars, signalled>>

\* The final status request, not made by a discarded tunnel.
FinalStatus ==
    /\ op = "final"
    /\ isDiscarded \/ RequestEnds
    /\ op' = "await"
    /\ UNCHANGED <<activateVars, conn, dead, closeVars, operateDone, err, status,
                   keepAliveVars, connectedVars, signalled>>

\* AwaitInFlightConnectedRequest.
AwaitInFlightConnectedRequest ==
    /\ op = "await"
    /\ inFlight => connected = "idle"
    /\ op' = "exited"
    /\ UNCHANGED <<activateVars, conn, dead, closeVars, operateDone, err, status,
                   keepAliveVars, connectedVars, signalled>>

SignalTunnelFailure ==
    /\ op = "signal"
    /\ op' = "exited"
    /\ signalled' = TRUE
    /\ UNCHANGED <<activateVars, conn, dead, closeVars, operateDone, err, status,
                   keepAliveVars, connectedVars>>

----------------------------------------------------------------------------
(* The request workers *)

StatusReturns ==
    /\ status = "sending"
    /\ RequestEnds
    /\ status' = "idle"
    /\ UNCHANGED <<activateVars, conn, dead, closeVars, operateDone, op, err,
                   keepAliveVars, connectedVars, signalled>>

KeepAliveAnswered(k) ==
    /\ keepAlive[k] = "sending"
    /\ conn = "open" /\ ~dead
    /\ keepAlive' = [keepAlive EXCEPT ![k] = "idle"]
    /\ UNCHANGED <<activateVars, conn, dead, closeVars, operateDone, operateVars,
                   keepAliveError, handled, recorded, connectedVars, signalled>>

\* Mutant: a failed keep alive leaves the conn open.
Mutant_KeepAliveKeepsConn(k) ==
    /\ keepAlive[k] = "sending"
    /\ keepAlive' = [keepAlive EXCEPT ![k] = "failed"]
    /\ UNCHANGED <<activateVars, conn, dead, closeVars, operateDone, operateVars,
                   keepAliveError, handled, recorded, connectedVars, signalled>>

\* The request fails or times out: sendSshKeepAlive closes the conn.
KeepAliveFails(k) ==
    /\ keepAlive[k] = "sending"
    /\ keepAlive' = [keepAlive EXCEPT ![k] = "failed"]
    /\ conn' = "closed"
    /\ UNCHANGED <<activateVars, dead, closeVars, operateDone, operateVars, keepAliveError,
                   handled, recorded, connectedVars, signalled>>

\* The worker that finds handledSSHKeepAliveFailure already set logs the
\* failure, when it had network connectivity throughout and is not shutting
\* down; then the error is sent unless one is pending.
KeepAliveReports(k, continuousNetworkConnectivity) ==
    LET record == continuousNetworkConnectivity /\ ~operateDone
        wasHandled == ~handled    \* the result of CompareAndSwapInt32(&handled, 0, 1)
    IN
    /\ keepAlive[k] = "failed"
    /\ handled' = TRUE
    /\ recorded' = (recorded \/ (record /\ ~wasHandled))
    /\ keepAliveError' = TRUE
    /\ keepAlive' = [keepAlive EXCEPT ![k] = "idle"]
    /\ UNCHANGED <<activateVars, conn, dead, closeVars, operateDone, operateVars,
                   connectedVars, signalled>>

----------------------------------------------------------------------------
(* DoConnectedRequest, for an activated tunnel *)

\* Mutant: SetInFlightConnectedRequest allows a request in a closed tunnel.
Mutant_ConnectedWhenClosed ==
    /\ isActivated
    /\ connected = "idle"
    /\ ~inFlight
    /\ inFlight' = TRUE
    /\ connected' = "sending"
    /\ UNCHANGED <<activateVars, conn, dead, closeVars, operateDone, operateVars,
                   keepAliveVars, signalled>>

\* SetInFlightConnectedRequest(requestDone) allows the request.
ConnectedBegin ==
    /\ isActivated
    /\ connected = "idle"
    /\ ~isClosed
    /\ ~inFlight
    /\ inFlight' = TRUE
    /\ connected' = "sending"
    /\ UNCHANGED <<activateVars, conn, dead, closeVars, operateDone, operateVars,
                   keepAliveVars, signalled>>

\* The request returns: SetInFlightConnectedRequest(nil), ignored once the
\* tunnel is closed ...
ConnectedReturns ==
    /\ connected = "sending"
    /\ RequestEnds
    /\ inFlight' = isClosed
    /\ connected' = "ending"
    /\ UNCHANGED <<activateVars, conn, dead, closeVars, operateDone, operateVars,
                   keepAliveVars, signalled>>

\* ... then close(requestDone).
ConnectedDone ==
    /\ connected = "ending"
    /\ connected' = "idle"
    /\ UNCHANGED <<activateVars, conn, dead, closeVars, operateDone, operateVars,
                   keepAliveVars, inFlight, signalled>>

----------------------------------------------------------------------------
(* The network and the peer *)

ServerLost ==
    /\ ~dead
    /\ dead' = TRUE
    /\ UNCHANGED <<activateVars, conn, closeVars, operateDone, operateVars, keepAliveVars,
                   connectedVars, signalled>>

\* The underlying conn breaks and closes itself, or reads EOF.
ConnBreaks ==
    /\ conn = "open"
    /\ conn' \in {"eof", "closed"}
    /\ UNCHANGED <<activateVars, dead, closeVars, operateDone, operateVars, keepAliveVars,
                   connectedVars, signalled>>

----------------------------------------------------------------------------

CloseNext(c) == CloseAwaited(c) \/ CloseConn(c)

ActivateNext ==
    HandshakeReturns \/ HandshakeInterrupted \/ HandshakeAborted \/ LaunchOperate

LoopNext ==
    \/ StatusTimer
    \/ \E k \in KeepAlive : SignalKeepAlive(k)
    \/ ConnFoundClosed
    \/ AppResumed

OperateNext ==
    \/ KeepAliveErrorReceived
    \/ OperateCommandedToStop
    \/ WorkersDrained
    \/ FinalStatus
    \/ AwaitInFlightConnectedRequest
    \/ SignalTunnelFailure

KeepAliveNext(k) ==
    \/ KeepAliveAnswered(k)
    \/ KeepAliveFails(k)
    \/ \E b \in BOOLEAN : KeepAliveReports(k, b)

Next ==
    \/ OwnerDiscards
    \/ OwnerTerminates
    \/ ShutdownTimeout
    \/ \E c \in Closer : CloseNext(c)
    \/ BeginActivate
    \/ ActivateNext
    \/ LoopNext
    \/ OperateNext
    \/ StatusReturns
    \/ \E k \in KeepAlive : KeepAliveNext(k)
    \/ ConnectedBegin
    \/ ConnectedReturns
    \/ ConnectedDone
    \/ ServerLost
    \/ ConnBreaks

Spec == Init /\ [][Next]_vars

\* Goroutines and timers run: the handshake and the keep alives have timeouts,
\* Close sets its shutdown timer, the keep alive timer fires again and again
\* (SF: with the worker idle often enough a signal reaches it), and a ready
\* case of operateTunnel's select is picked eventually (SF).  Requests without
\* a timeout end only if RequestEnds.
Fairness ==
    /\ WF_vars(ActivateNext)
    /\ WF_vars(ShutdownTimeout)
    /\ \A c \in Closer : WF_vars(CloseNext(c))
    /\ SF_vars(SignalKeepAlive("periodic"))
    /\ SF_vars(KeepAliveErrorReceived)
    /\ SF_vars(OperateCommandedToStop)
    /\ WF_vars(OperateNext)
    /\ WF_vars(StatusReturns)
    /\ \A k \in KeepAlive : WF_vars(KeepAliveNext(k))
    /\ WF_vars(ConnectedReturns)
    /\ WF_vars(ConnectedDone)

FairSpec == Spec /\ Fairness

----------------------------------------------------------------------------
(* Properties *)

\* Close returns from stopping the tunnel only when operateTunnel and all its
\* request workers have ended; none is started afterwards.
ClosedNotOperated ==
    (\E c \in Closer : closer[c] \in {"conn", "done"}) =>
        op \in {"none", "exited"} /\ WorkersIdle

\* The final status request does not run beside one of the status worker:
\* "the prune check does not" allow concurrent requesters (operateTunnel).
OneStatusRequest == ~(status = "sending" /\ op = "final")

\* A commanded shutdown does not cut off a connected request: when Close comes
\* to close the conn after operateTunnel ended without error, no request is in
\* flight, unless the shutdown timer had to close the conn first
\* (SetInFlightConnectedRequest, AwaitInFlightConnectedRequest).
ConnectedRequestAwaited ==
    (\E c \in Closer : closer[c] = "conn") /\ err = "none" =>
        connected # "sending" \/ timedOut \/ conn # "open"

\* Close returns although the server no longer answers: the shutdown timer
\* closes the conn and so ends the requests that operateTunnel awaits.
CloseReturns == \A c \in Closer : closer[c] = "wait" ~> closer[c] = "done"

\* A tunnel that is dead or broken is detected: operateTunnel reports it to the
\* controller, or the tunnel is closed.  This holds even with a status or
\* connected request stuck in the dead tunnel, because the failed keep alive
\* closes the conn.  A reconnect that AppResumed asks for is the exception: it
\* leaves the loop with the conn open and waits for the requests.
DeadTunnelSignalled ==
    op = "loop" /\ (dead \/ conn # "open") ~> signalled \/ isClosed \/ err = "resume"

=============================================================================
