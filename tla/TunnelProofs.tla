---------------------------- MODULE TunnelProofs ----------------------------
(***************************************************************************)
(* Proofs of the safety invariants of Tunnel, for every value of its       *)
(* constants.  The invariants are about three program counters (Activate,  *)
(* the two Close calls, operateTunnel) that only agree because of who may  *)
(* call Close when: TunnelInv says so.                                     *)
(***************************************************************************)
EXTENDS Tunnel, TLAPS

\* Who may have called Close in which phase of Activate.
CloseOwnership ==
    /\ isClosed => \E c \in Closer : closer[c] # "idle"
    /\ closer["Activate"] # "idle" => isClosed /\ activation \in {"abort", "failed"}
    /\ closer["owner"] # "idle" => isClosed /\ activation \in {"dialed", "failed", "activated"}
    /\ closer["Activate"] # "wait"

\* operateTunnel runs exactly in an activated tunnel, and its request workers
\* run only until it has drained them.
OperateOwnership ==
    /\ isActivated <=> activation = "activated"
    /\ op = "none" <=> ~isActivated
    /\ op \notin {"loop", "drain"} => WorkersIdle
    /\ closer["owner"] \in {"conn", "done"} /\ isActivated => op = "exited"
    /\ operateDone => isClosed

\* The connected request is announced while it runs, and is over once
\* operateTunnel has ended a commanded shutdown.
ConnectedOwnership ==
    /\ connected = "sending" => inFlight /\ isActivated
    /\ op \in {"drain", "final", "await", "exited"} /\ err = "none" => operateDone
    /\ op \in {"final", "await"} => err = "none"
    /\ op = "signal" => err # "none"
    /\ op = "exited" /\ err = "none" => connected # "sending"

TunnelInv ==
    /\ TypeOK
    /\ CloseOwnership
    /\ OperateOwnership
    /\ ConnectedOwnership

----------------------------------------------------------------------------

\* A new tunnel satisfies the inductive invariant.
LEMMA InitTunnelInv == Init => TunnelInv
<1> SUFFICES ASSUME Init PROVE TunnelInv
  OBVIOUS
<1>1. FlagsOK
  BY Zenon DEF Init, FlagsOK
<1>2. ProgramOK
  BY DEF Init, ProgramOK
<1>3. CloseOwnership /\ OperateOwnership /\ ConnectedOwnership
  BY DEF Init, CloseOwnership, OperateOwnership, ConnectedOwnership, WorkersIdle, Closer
<1> QED
  BY <1>1, <1>2, <1>3 DEF TunnelInv, TypeOK

\* Every step of operateTunnel, its workers, Activate, Close and the network
\* keeps the types.
LEMMA NextTypeOK == TypeOK /\ [Next]_vars => TypeOK'
<1> SUFFICES ASSUME FlagsOK, ProgramOK, [Next]_vars PROVE FlagsOK' /\ ProgramOK'
  BY DEF TypeOK
<1> USE DEF activateVars, closeVars, operateVars, keepAliveVars, connectedVars
<1>1. CASE OwnerDiscards
  <2>1. FlagsOK'
    BY <1>1, Zenon DEF FlagsOK, OwnerDiscards, CloseBegin
  <2>2. ProgramOK'
    BY <1>1 DEF ProgramOK, OwnerDiscards, CloseBegin
  <2> QED
    BY <2>1, <2>2
<1>2. CASE OwnerTerminates
  <2>1. FlagsOK'
    BY <1>2, Zenon DEF FlagsOK, OwnerTerminates, CloseBegin
  <2>2. ProgramOK'
    BY <1>2 DEF ProgramOK, OwnerTerminates, CloseBegin
  <2> QED
    BY <2>1, <2>2
<1>3. CASE ShutdownTimeout
  <2>1. FlagsOK'
    BY <1>3, Zenon DEF FlagsOK, ShutdownTimeout
  <2>2. ProgramOK'
    BY <1>3 DEF ProgramOK, ShutdownTimeout
  <2> QED
    BY <2>1, <2>2
<1>4. ASSUME NEW c \in Closer, CloseAwaited(c) PROVE FlagsOK' /\ ProgramOK'
  <2>1. FlagsOK'
    BY <1>4, Zenon DEF FlagsOK, CloseAwaited
  <2>2. ProgramOK'
    BY <1>4 DEF ProgramOK, CloseAwaited
  <2> QED
    BY <2>1, <2>2
<1>5. ASSUME NEW c \in Closer, CloseConn(c) PROVE FlagsOK' /\ ProgramOK'
  <2>1. FlagsOK'
    BY <1>5, Zenon DEF FlagsOK, CloseConn
  <2>2. ProgramOK'
    BY <1>5 DEF ProgramOK, CloseConn
  <2> QED
    BY <2>1, <2>2
<1>6. CASE BeginActivate
  <2>1. FlagsOK'
    BY <1>6, Zenon DEF FlagsOK, BeginActivate
  <2>2. ProgramOK'
    BY <1>6 DEF ProgramOK, BeginActivate
  <2> QED
    BY <2>1, <2>2
<1>7. CASE HandshakeReturns
  <2>1. FlagsOK'
    BY <1>7, Zenon DEF FlagsOK, HandshakeReturns
  <2>2. ProgramOK'
    BY <1>7 DEF ProgramOK, HandshakeReturns
  <2> QED
    BY <2>1, <2>2
<1>8. CASE HandshakeInterrupted
  <2>1. FlagsOK'
    BY <1>8, Zenon DEF FlagsOK, HandshakeInterrupted
  <2>2. ProgramOK'
    BY <1>8 DEF ProgramOK, HandshakeInterrupted
  <2> QED
    BY <2>1, <2>2
<1>9. CASE HandshakeAborted
  <2>1. FlagsOK'
    BY <1>9, Zenon DEF FlagsOK, HandshakeAborted
  <2>2. ProgramOK'
    BY <1>9 DEF ProgramOK, HandshakeAborted
  <2> QED
    BY <2>1, <2>2
<1>10. CASE LaunchOperate
  <2>1. FlagsOK'
    BY <1>10, Zenon DEF FlagsOK, LaunchOperate
  <2>2. ProgramOK'
    BY <1>10 DEF ProgramOK, LaunchOperate
  <2> QED
    BY <2>1, <2>2
<1>11. CASE StatusTimer
  <2>1. FlagsOK'
    BY <1>11, Zenon DEF FlagsOK, StatusTimer
  <2>2. ProgramOK'
    BY <1>11 DEF ProgramOK, StatusTimer
  <2> QED
    BY <2>1, <2>2
<1>12. ASSUME NEW k \in KeepAlive, SignalKeepAlive(k) PROVE FlagsOK' /\ ProgramOK'
  <2>1. FlagsOK'
    BY <1>12, Zenon DEF FlagsOK, SignalKeepAlive
  <2>2. ProgramOK'
    BY <1>12 DEF ProgramOK, SignalKeepAlive
  <2> QED
    BY <2>1, <2>2
<1>13. CASE ConnFoundClosed
  <2>1. FlagsOK'
    BY <1>13, Zenon DEF FlagsOK, ConnFoundClosed, LeaveLoop
  <2>2. ProgramOK'
    BY <1>13 DEF ProgramOK, ConnFoundClosed, LeaveLoop
  <2> QED
    BY <2>1, <2>2
<1>14. CASE AppResumed
  <2>1. FlagsOK'
    BY <1>14, Zenon DEF FlagsOK, AppResumed, LeaveLoop
  <2>2. ProgramOK'
    BY <1>14 DEF ProgramOK, AppResumed, LeaveLoop
  <2> QED
    BY <2>1, <2>2
<1>15. CASE KeepAliveErrorReceived
  <2>1. FlagsOK'
    BY <1>15, Zenon DEF FlagsOK, KeepAliveErrorReceived, LeaveLoop
  <2>2. ProgramOK'
    BY <1>15 DEF ProgramOK, KeepAliveErrorReceived, LeaveLoop
  <2> QED
    BY <2>1, <2>2
<1>16. CASE OperateCommandedToStop
  <2>1. FlagsOK'
    BY <1>16, Zenon DEF FlagsOK, OperateCommandedToStop, LeaveLoop
  <2>2. ProgramOK'
    BY <1>16 DEF ProgramOK, OperateCommandedToStop, LeaveLoop
  <2> QED
    BY <2>1, <2>2
<1>17. CASE WorkersDrained
  <2>1. FlagsOK'
    BY <1>17, Zenon DEF FlagsOK, WorkersDrained
  <2>2. ProgramOK'
    BY <1>17 DEF ProgramOK, WorkersDrained
  <2> QED
    BY <2>1, <2>2
<1>18. CASE FinalStatus
  <2>1. FlagsOK'
    BY <1>18, Zenon DEF FlagsOK, FinalStatus
  <2>2. ProgramOK'
    BY <1>18 DEF ProgramOK, FinalStatus
  <2> QED
    BY <2>1, <2>2
<1>19. CASE AwaitInFlightConnectedRequest
  <2>1. FlagsOK'
    BY <1>19, Zenon DEF FlagsOK, AwaitInFlightConnectedRequest
  <2>2. ProgramOK'
    BY <1>19 DEF ProgramOK, AwaitInFlightConnectedRequest
  <2> QED
    BY <2>1, <2>2
<1>20. CASE SignalTunnelFailure
  <2>1. FlagsOK'
    BY <1>20, Zenon DEF FlagsOK, SignalTunnelFailure
  <2>2. ProgramOK'
    BY <1>20 DEF ProgramOK, SignalTunnelFailure
  <2> QED
    BY <2>1, <2>2
<1>21. CASE StatusReturns
  <2>1. FlagsOK'
    BY <1>21, Zenon DEF FlagsOK, StatusReturns
  <2>2. ProgramOK'
    BY <1>21 DEF ProgramOK, StatusReturns
  <2> QED
    BY <2>1, <2>2
<1>22. ASSUME NEW k \in KeepAlive, KeepAliveAnswered(k) PROVE FlagsOK' /\ ProgramOK'
  <2>1. FlagsOK'
    BY <1>22, Zenon DEF FlagsOK, KeepAliveAnswered
  <2>2. ProgramOK'
    BY <1>22 DEF ProgramOK, KeepAliveAnswered
  <2> QED
    BY <2>1, <2>2
<1>23. ASSUME NEW k \in KeepAlive, KeepAliveFails(k) PROVE FlagsOK' /\ ProgramOK'
  <2>1. FlagsOK'
    BY <1>23, Zenon DEF FlagsOK, KeepAliveFails
  <2>2. ProgramOK'
    BY <1>23 DEF ProgramOK, KeepAliveFails
  <2> QED
    BY <2>1, <2>2
<1>24. ASSUME NEW k \in KeepAlive, NEW b \in BOOLEAN, KeepAliveReports(k, b)
       PROVE FlagsOK' /\ ProgramOK'
  <2>1. FlagsOK'
    BY <1>24, Zenon DEF FlagsOK, KeepAliveReports
  <2>2. ProgramOK'
    BY <1>24 DEF ProgramOK, KeepAliveReports
  <2> QED
    BY <2>1, <2>2
<1>25. CASE ConnectedBegin
  <2>1. FlagsOK'
    BY <1>25, Zenon DEF FlagsOK, ConnectedBegin
  <2>2. ProgramOK'
    BY <1>25 DEF ProgramOK, ConnectedBegin
  <2> QED
    BY <2>1, <2>2
<1>26. CASE ConnectedReturns
  <2>1. FlagsOK'
    BY <1>26, Zenon DEF FlagsOK, ConnectedReturns
  <2>2. ProgramOK'
    BY <1>26 DEF ProgramOK, ConnectedReturns
  <2> QED
    BY <2>1, <2>2
<1>27. CASE ConnectedDone
  <2>1. FlagsOK'
    BY <1>27, Zenon DEF FlagsOK, ConnectedDone
  <2>2. ProgramOK'
    BY <1>27 DEF ProgramOK, ConnectedDone
  <2> QED
    BY <2>1, <2>2
<1>28. CASE ServerLost
  <2>1. FlagsOK'
    BY <1>28, Zenon DEF FlagsOK, ServerLost
  <2>2. ProgramOK'
    BY <1>28 DEF ProgramOK, ServerLost
  <2> QED
    BY <2>1, <2>2
<1>29. CASE ConnBreaks
  <2>1. FlagsOK'
    BY <1>29, Zenon DEF FlagsOK, ConnBreaks
  <2>2. ProgramOK'
    BY <1>29 DEF ProgramOK, ConnBreaks
  <2> QED
    BY <2>1, <2>2
<1>30. CASE UNCHANGED vars
  <2>1. FlagsOK'
    BY <1>30, Zenon DEF FlagsOK, vars
  <2>2. ProgramOK'
    BY <1>30 DEF ProgramOK, vars
  <2> QED
    BY <2>1, <2>2
<1> QED
  BY <1>1, <1>2, <1>3, <1>4, <1>5, <1>6, <1>7, <1>8, <1>9, <1>10, <1>11, <1>12, <1>13,
     <1>14, <1>15, <1>16, <1>17, <1>18, <1>19, <1>20, <1>21, <1>22, <1>23, <1>24, <1>25,
     <1>26, <1>27, <1>28, <1>29, <1>30
     DEF Next, CloseNext, ActivateNext, LoopNext, OperateNext, KeepAliveNext

\* Close is called by the one side that may call it in each phase.
LEMMA NextCloseOwnership == TunnelInv /\ [Next]_vars => CloseOwnership'
<1> SUFFICES ASSUME FlagsOK, ProgramOK, CloseOwnership, OperateOwnership,
                    ConnectedOwnership, [Next]_vars
             PROVE CloseOwnership'
  BY DEF TunnelInv, TypeOK
<1> USE DEF CloseOwnership, OperateOwnership, ProgramOK, FlagsOK, Closer,
            activateVars, closeVars, operateVars, keepAliveVars, connectedVars
<1>1. CASE OwnerDiscards
  BY <1>1 DEF OwnerDiscards, CloseBegin
<1>2. CASE OwnerTerminates
  BY <1>2 DEF OwnerTerminates, CloseBegin
<1>3. CASE ShutdownTimeout
  BY <1>3 DEF ShutdownTimeout
<1>4. ASSUME NEW c \in Closer, CloseAwaited(c) PROVE CloseOwnership'
  BY <1>4 DEF CloseAwaited
<1>5. ASSUME NEW c \in Closer, CloseConn(c) PROVE CloseOwnership'
  BY <1>5 DEF CloseConn
<1>6. CASE BeginActivate
  BY <1>6 DEF BeginActivate
<1>7. CASE HandshakeReturns
  BY <1>7 DEF HandshakeReturns
<1>8. CASE HandshakeInterrupted
  BY <1>8 DEF HandshakeInterrupted
<1>9. CASE HandshakeAborted
  BY <1>9 DEF HandshakeAborted
<1>10. CASE LaunchOperate
  BY <1>10 DEF LaunchOperate
<1>11. CASE StatusTimer
  BY <1>11 DEF StatusTimer
<1>12. ASSUME NEW k \in KeepAlive, SignalKeepAlive(k) PROVE CloseOwnership'
  BY <1>12 DEF SignalKeepAlive
<1>13. CASE ConnFoundClosed
  BY <1>13 DEF ConnFoundClosed, LeaveLoop
<1>14. CASE AppResumed
  BY <1>14 DEF AppResumed, LeaveLoop
<1>15. CASE KeepAliveErrorReceived
  BY <1>15 DEF KeepAliveErrorReceived, LeaveLoop
<1>16. CASE OperateCommandedToStop
  BY <1>16 DEF OperateCommandedToStop, LeaveLoop
<1>17. CASE WorkersDrained
  BY <1>17 DEF WorkersDrained
<1>18. CASE FinalStatus
  BY <1>18 DEF FinalStatus
<1>19. CASE AwaitInFlightConnectedRequest
  BY <1>19 DEF AwaitInFlightConnectedRequest
<1>20. CASE SignalTunnelFailure
  BY <1>20 DEF SignalTunnelFailure
<1>21. CASE StatusReturns
  BY <1>21 DEF StatusReturns
<1>22. ASSUME NEW k \in KeepAlive, KeepAliveAnswered(k) PROVE CloseOwnership'
  BY <1>22 DEF KeepAliveAnswered
<1>23. ASSUME NEW k \in KeepAlive, KeepAliveFails(k) PROVE CloseOwnership'
  BY <1>23 DEF KeepAliveFails
<1>24. ASSUME NEW k \in KeepAlive, NEW b \in BOOLEAN, KeepAliveReports(k, b)
       PROVE CloseOwnership'
  BY <1>24 DEF KeepAliveReports
<1>25. CASE ConnectedBegin
  BY <1>25 DEF ConnectedBegin
<1>26. CASE ConnectedReturns
  BY <1>26 DEF ConnectedReturns
<1>27. CASE ConnectedDone
  BY <1>27 DEF ConnectedDone
<1>28. CASE ServerLost
  BY <1>28 DEF ServerLost
<1>29. CASE ConnBreaks
  BY <1>29 DEF ConnBreaks
<1>30. CASE UNCHANGED vars
  BY <1>30 DEF vars
<1> QED
  BY <1>1, <1>2, <1>3, <1>4, <1>5, <1>6, <1>7, <1>8, <1>9, <1>10, <1>11, <1>12, <1>13,
     <1>14, <1>15, <1>16, <1>17, <1>18, <1>19, <1>20, <1>21, <1>22, <1>23, <1>24, <1>25,
     <1>26, <1>27, <1>28, <1>29, <1>30
     DEF Next, CloseNext, ActivateNext, LoopNext, OperateNext, KeepAliveNext

\* operateTunnel and its workers run only in a tunnel being operated.
LEMMA NextOperateOwnership == TunnelInv /\ [Next]_vars => OperateOwnership'
<1> SUFFICES ASSUME FlagsOK, ProgramOK, CloseOwnership, OperateOwnership,
                    ConnectedOwnership, [Next]_vars
             PROVE OperateOwnership'
  BY DEF TunnelInv, TypeOK
<1> USE DEF CloseOwnership, OperateOwnership, WorkersIdle, ProgramOK, FlagsOK, Closer,
            activateVars, closeVars, operateVars, keepAliveVars, connectedVars
<1>1. CASE OwnerDiscards
  BY <1>1 DEF OwnerDiscards, CloseBegin
<1>2. CASE OwnerTerminates
  BY <1>2 DEF OwnerTerminates, CloseBegin
<1>3. CASE ShutdownTimeout
  BY <1>3 DEF ShutdownTimeout
<1>4. ASSUME NEW c \in Closer, CloseAwaited(c) PROVE OperateOwnership'
  BY <1>4 DEF CloseAwaited
<1>5. ASSUME NEW c \in Closer, CloseConn(c) PROVE OperateOwnership'
  BY <1>5 DEF CloseConn
<1>6. CASE BeginActivate
  BY <1>6 DEF BeginActivate
<1>7. CASE HandshakeReturns
  BY <1>7 DEF HandshakeReturns
<1>8. CASE HandshakeInterrupted
  BY <1>8 DEF HandshakeInterrupted
<1>9. CASE HandshakeAborted
  BY <1>9 DEF HandshakeAborted
<1>10. CASE LaunchOperate
  BY <1>10 DEF LaunchOperate
<1>11. CASE StatusTimer
  BY <1>11 DEF StatusTimer
<1>12. ASSUME NEW k \in KeepAlive, SignalKeepAlive(k) PROVE OperateOwnership'
  BY <1>12 DEF SignalKeepAlive
<1>13. CASE ConnFoundClosed
  BY <1>13 DEF ConnFoundClosed, LeaveLoop
<1>14. CASE AppResumed
  BY <1>14 DEF AppResumed, LeaveLoop
<1>15. CASE KeepAliveErrorReceived
  BY <1>15 DEF KeepAliveErrorReceived, LeaveLoop
<1>16. CASE OperateCommandedToStop
  BY <1>16 DEF OperateCommandedToStop, LeaveLoop
<1>17. CASE WorkersDrained
  BY <1>17 DEF WorkersDrained
<1>18. CASE FinalStatus
  BY <1>18 DEF FinalStatus
<1>19. CASE AwaitInFlightConnectedRequest
  BY <1>19 DEF AwaitInFlightConnectedRequest
<1>20. CASE SignalTunnelFailure
  BY <1>20 DEF SignalTunnelFailure
<1>21. CASE StatusReturns
  BY <1>21 DEF StatusReturns
<1>22. ASSUME NEW k \in KeepAlive, KeepAliveAnswered(k) PROVE OperateOwnership'
  BY <1>22 DEF KeepAliveAnswered
<1>23. ASSUME NEW k \in KeepAlive, KeepAliveFails(k) PROVE OperateOwnership'
  BY <1>23 DEF KeepAliveFails
<1>24. ASSUME NEW k \in KeepAlive, NEW b \in BOOLEAN, KeepAliveReports(k, b)
       PROVE OperateOwnership'
  BY <1>24 DEF KeepAliveReports
<1>25. CASE ConnectedBegin
  BY <1>25 DEF ConnectedBegin
<1>26. CASE ConnectedReturns
  BY <1>26 DEF ConnectedReturns
<1>27. CASE ConnectedDone
  BY <1>27 DEF ConnectedDone
<1>28. CASE ServerLost
  BY <1>28 DEF ServerLost
<1>29. CASE ConnBreaks
  BY <1>29 DEF ConnBreaks
<1>30. CASE UNCHANGED vars
  BY <1>30 DEF vars
<1> QED
  BY <1>1, <1>2, <1>3, <1>4, <1>5, <1>6, <1>7, <1>8, <1>9, <1>10, <1>11, <1>12, <1>13,
     <1>14, <1>15, <1>16, <1>17, <1>18, <1>19, <1>20, <1>21, <1>22, <1>23, <1>24, <1>25,
     <1>26, <1>27, <1>28, <1>29, <1>30
     DEF Next, CloseNext, ActivateNext, LoopNext, OperateNext, KeepAliveNext

\* A connected request in progress is announced to operateTunnel.
LEMMA NextConnectedOwnership == TunnelInv /\ [Next]_vars => ConnectedOwnership'
<1> SUFFICES ASSUME FlagsOK, ProgramOK, CloseOwnership, OperateOwnership,
                    ConnectedOwnership, [Next]_vars
             PROVE ConnectedOwnership'
  BY DEF TunnelInv, TypeOK
<1> USE DEF CloseOwnership, OperateOwnership, ConnectedOwnership, ProgramOK, FlagsOK, Closer,
            activateVars, closeVars, operateVars, keepAliveVars, connectedVars
<1>1. CASE OwnerDiscards
  BY <1>1 DEF OwnerDiscards, CloseBegin
<1>2. CASE OwnerTerminates
  BY <1>2 DEF OwnerTerminates, CloseBegin
<1>3. CASE ShutdownTimeout
  BY <1>3 DEF ShutdownTimeout
<1>4. ASSUME NEW c \in Closer, CloseAwaited(c) PROVE ConnectedOwnership'
  BY <1>4 DEF CloseAwaited
<1>5. ASSUME NEW c \in Closer, CloseConn(c) PROVE ConnectedOwnership'
  BY <1>5 DEF CloseConn
<1>6. CASE BeginActivate
  BY <1>6 DEF BeginActivate
<1>7. CASE HandshakeReturns
  BY <1>7 DEF HandshakeReturns
<1>8. CASE HandshakeInterrupted
  BY <1>8 DEF HandshakeInterrupted
<1>9. CASE HandshakeAborted
  BY <1>9 DEF HandshakeAborted
<1>10. CASE LaunchOperate
  BY <1>10 DEF LaunchOperate
<1>11. CASE StatusTimer
  BY <1>11 DEF StatusTimer
<1>12. ASSUME NEW k \in KeepAlive, SignalKeepAlive(k) PROVE ConnectedOwnership'
  BY <1>12 DEF SignalKeepAlive
<1>13. CASE ConnFoundClosed
  BY <1>13 DEF ConnFoundClosed, LeaveLoop
<1>14. CASE AppResumed
  BY <1>14 DEF AppResumed, LeaveLoop
<1>15. CASE KeepAliveErrorReceived
  BY <1>15 DEF KeepAliveErrorReceived, LeaveLoop
<1>16. CASE OperateCommandedToStop
  BY <1>16 DEF OperateCommandedToStop, LeaveLoop
<1>17. CASE WorkersDrained
  BY <1>17 DEF WorkersDrained
<1>18. CASE FinalStatus
  BY <1>18 DEF FinalStatus
<1>19. CASE AwaitInFlightConnectedRequest
  BY <1>19 DEF AwaitInFlightConnectedRequest
<1>20. CASE SignalTunnelFailure
  BY <1>20 DEF SignalTunnelFailure
<1>21. CASE StatusReturns
  BY <1>21 DEF StatusReturns
<1>22. ASSUME NEW k \in KeepAlive, KeepAliveAnswered(k) PROVE ConnectedOwnership'
  BY <1>22 DEF KeepAliveAnswered
<1>23. ASSUME NEW k \in KeepAlive, KeepAliveFails(k) PROVE ConnectedOwnership'
  BY <1>23 DEF KeepAliveFails
<1>24. ASSUME NEW k \in KeepAlive, NEW b \in BOOLEAN, KeepAliveReports(k, b)
       PROVE ConnectedOwnership'
  BY <1>24 DEF KeepAliveReports
<1>25. CASE ConnectedBegin
  BY <1>25 DEF ConnectedBegin
<1>26. CASE ConnectedReturns
  BY <1>26 DEF ConnectedReturns
<1>27. CASE ConnectedDone
  BY <1>27 DEF ConnectedDone
<1>28. CASE ServerLost
  BY <1>28 DEF ServerLost
<1>29. CASE ConnBreaks
  BY <1>29 DEF ConnBreaks
<1>30. CASE UNCHANGED vars
  BY <1>30 DEF vars
<1> QED
  BY <1>1, <1>2, <1>3, <1>4, <1>5, <1>6, <1>7, <1>8, <1>9, <1>10, <1>11, <1>12, <1>13,
     <1>14, <1>15, <1>16, <1>17, <1>18, <1>19, <1>20, <1>21, <1>22, <1>23, <1>24, <1>25,
     <1>26, <1>27, <1>28, <1>29, <1>30
     DEF Next, CloseNext, ActivateNext, LoopNext, OperateNext, KeepAliveNext

----------------------------------------------------------------------------

\* TunnelInv is inductive and holds of every behaviour of a tunnel.
THEOREM TunnelInvariant == Spec => []TunnelInv
<1>1. TunnelInv /\ [Next]_vars => TunnelInv'
  BY NextTypeOK, NextCloseOwnership, NextOperateOwnership, NextConnectedOwnership
     DEF TunnelInv
<1> QED
  BY <1>1, InitTunnelInv, PTL DEF Spec

\* The variables of a tunnel keep their types.
THEOREM TunnelTypeOK == Spec => []TypeOK
BY TunnelInvariant, PTL DEF TunnelInv

\* Once Close has waited for operateTunnel, nothing of it runs any more.
THEOREM TunnelClosedNotOperated == Spec => []ClosedNotOperated
<1>1. TunnelInv => ClosedNotOperated
  BY DEF TunnelInv, CloseOwnership, OperateOwnership, ClosedNotOperated, Closer
<1> QED
  BY <1>1, TunnelInvariant, PTL

\* The final status request never overlaps one of the status worker.
THEOREM TunnelOneStatusRequest == Spec => []OneStatusRequest
<1>1. TunnelInv => OneStatusRequest
  BY DEF TunnelInv, OperateOwnership, OneStatusRequest, WorkersIdle
<1> QED
  BY <1>1, TunnelInvariant, PTL

\* A commanded shutdown lets a connected request end before it closes the conn.
THEOREM TunnelConnectedRequestAwaited == Spec => []ConnectedRequestAwaited
<1>1. TunnelInv => ConnectedRequestAwaited
  BY DEF TunnelInv, CloseOwnership, OperateOwnership, ConnectedOwnership,
         ConnectedRequestAwaited, Closer
<1> QED
  BY <1>1, TunnelInvariant, PTL

=============================================================================
