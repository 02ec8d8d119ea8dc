-------------------------- MODULE ControllerProofs --------------------------
(***************************************************************************)
(* Proofs about Controller, for every set of tunnels, servers and workers, *)
(* every pool size and every number of host signals.                       *)
(***************************************************************************)
EXTENDS Controller, TLAPS, SequenceTheorems

\* The tunnel that runTunnels or the host's call, or a worker, has in hand.
RunHandsOK ==
    /\ \/ rt \in {"terminate", "terminating", "count", "activate", "register",
                  "reject", "discard", "discarding", "registered"}
       \/ rt = "stopping" /\ rtNext = "activate"
       => rtTunnel \in Tunnel
    /\ rt \in {"discard", "discarding"} => rtNext # "activate"
    /\ host # "idle" => hostTunnel \in Tunnel

WorkerHandsOK ==
    \A w \in Worker : worker[w].pc = "deliver" => worker[w].tunnel \in Tunnel

\* The type invariant made inductive.
TypeInv == TypeOK /\ RunHandsOK /\ WorkerHandsOK /\ NextTunnelInBounds

----------------------------------------------------------------------------
(* Sequences *)

\* What RemoveAt returns.
LEMMA RemoveAtSeq ==
  ASSUME NEW S, NEW s \in Seq(S), NEW i \in 1..Len(s)
  PROVE /\ RemoveAt(s, i) \in Seq(S)
        /\ Len(RemoveAt(s, i)) = Len(s) - 1
        /\ \A j \in 1..(Len(s) - 1) :
              RemoveAt(s, i)[j] = IF j < i THEN s[j] ELSE s[j + 1]
<1> DEFINE a == SubSeq(s, 1, i - 1)
           b == SubSeq(s, i + 1, Len(s))
<1>1. /\ a \in Seq(S) /\ Len(a) = i - 1
      /\ \A j \in 1..(i - 1) : a[j] = s[j]
  OBVIOUS
<1>2. /\ b \in Seq(S) /\ Len(b) = Len(s) - i
      /\ \A j \in 1..(Len(s) - i) : b[j] = s[j + i]
  OBVIOUS
<1>3. RemoveAt(s, i) = a \o b
  BY DEF RemoveAt
<1> HIDE DEF a, b
<1>4. /\ a \o b \in Seq(S)
      /\ Len(a \o b) = Len(a) + Len(b)
      /\ \A j \in 1..(Len(a) + Len(b)) :
            (a \o b)[j] = IF j <= Len(a) THEN a[j] ELSE b[j - Len(a)]
  BY <1>1, <1>2, ConcatProperties, Zenon
<1>5. ASSUME NEW j \in 1..(Len(s) - 1)
      PROVE  (a \o b)[j] = IF j < i THEN s[j] ELSE s[j + 1]
  <2>1. (a \o b)[j] = IF j <= i - 1 THEN a[j] ELSE b[j - (i - 1)]
    BY <1>1, <1>2, <1>4
  <2>2. CASE j < i
    BY <1>1, <2>1, <2>2
  <2>3. CASE ~(j < i)
    <3>1. j - (i - 1) \in 1..(Len(s) - i) /\ (j - (i - 1)) + i = j + 1
      BY <2>3
    <3>2. b[j - (i - 1)] = s[j + 1]
      BY <1>2, <3>1
    <3> QED
      BY <2>1, <2>3, <3>2
  <2> QED
    BY <2>2, <2>3
<1> QED
  BY <1>1, <1>2, <1>3, <1>4, <1>5

\* What sending to and receiving from a channel does.
LEMMA ChannelSteps ==
    ASSUME NEW S, NEW s \in Seq(S)
    PROVE  /\ \A e \in S : Append(s, e) \in Seq(S) /\ Len(Append(s, e)) = Len(s) + 1
           /\ s # <<>> => Head(s) \in S /\ Tail(s) \in Seq(S)
OBVIOUS

\* What terminateTunnel does to the pool, by any of its callers.
LEMMA RemoveTypes ==
    ASSUME NEW t \in Tunnel, NEW h \in {"runTunnels", "operateTunnel", "host"},
           PoolOK, TunnelsOK, NextTunnelInBounds, RemoveAndClose(t, h)
    PROVE  /\ tunnels' \in Seq(Tunnel) /\ nextTunnel' \in Nat /\ NextTunnelInBounds'
           /\ tunnelMutex' = h /\ tunnelPoolSize' = tunnelPoolSize
           /\ conn' \in [Tunnel -> {"open", "closing", "closed"}]
<1>1. PICK i \in DOMAIN tunnels :
          tunnels' = RemoveAt(tunnels, i) /\ nextTunnel' = NextAfterRemove(i)
  BY DEF RemoveAndClose
<1>2. i \in 1..Len(tunnels)
  BY DEF PoolOK
<1>3. tunnels' \in Seq(Tunnel) /\ Len(tunnels') = Len(tunnels) - 1
  BY <1>1, <1>2, RemoveAtSeq DEF PoolOK
<1>4. nextTunnel' \in Nat /\ NextTunnelInBounds'
  BY <1>1, <1>2, <1>3 DEF NextAfterRemove, NextTunnelInBounds, PoolOK
<1>5. tunnelMutex' = h /\ tunnelPoolSize' = tunnelPoolSize
  BY DEF RemoveAndClose
<1>6. conn' \in [Tunnel -> {"open", "closing", "closed"}]
  BY DEF RemoveAndClose, TunnelsOK
<1> QED
  BY <1>3, <1>4, <1>5, <1>6

----------------------------------------------------------------------------
(* Types *)

\* The states that a worker is put into.
LEMMA WorkerStates ==
    /\ IdleWorker \in WorkerState /\ IdleWorker.pc # "deliver"
    /\ [IdleWorker EXCEPT !.pc = "receive"] \in WorkerState
    /\ [IdleWorker EXCEPT !.pc = "receive"].pc # "deliver"
    /\ \A s \in Server, b \in BOOLEAN :
          LET v == [IdleWorker EXCEPT !.pc = "check", !.server = s, !.affinity = b]
          IN  v \in WorkerState /\ v.pc # "deliver"
BY DEF IdleWorker, WorkerState

\* A new controller satisfies the inductive invariant.
LEMMA InitTypeInv == Init => TypeInv
<1> SUFFICES ASSUME Init PROVE TypeInv
  OBVIOUS
<1>1. FlagsOK
  BY Zenon DEF Init, FlagsOK
<1>2. PoolOK /\ TunnelsOK /\ NextTunnelInBounds /\ RunOK /\ RunHandsOK
  BY ControllerAssumption DEF Init, PoolOK, TunnelsOK, NextTunnelInBounds, RunOK, RunHandsOK
<1>3. EstablishOK /\ WorkerHandsOK
  BY DEF Init, EstablishOK, WorkerHandsOK, IdleWorker, WorkerState
<1> QED
  BY <1>1, <1>2, <1>3 DEF TypeInv, TypeOK

\* Every step of every goroutine and of the host keeps the types.
LEMMA NextTypeInv == TypeInv /\ [Next]_vars => TypeInv'
<1> SUFFICES ASSUME FlagsOK, PoolOK, TunnelsOK, EstablishOK, RunOK, RunHandsOK,
                    WorkerHandsOK, NextTunnelInBounds, [Next]_vars
             PROVE  TypeInv'
  BY DEF TypeInv, TypeOK
<1> USE DEF poolVars, channelVars, tunnelVars, establishVars, workerVars, rtVars, hostVars
<1>1. CASE AwaitTactics
  <2>1. FlagsOK'
    BY <1>1, Zenon DEF FlagsOK, AwaitTactics, EstablishDone
  <2>2. PoolOK' /\ NextTunnelInBounds' /\ TunnelsOK'
    BY <1>1 DEF PoolOK, TunnelsOK, NextTunnelInBounds, RunOK, RunHandsOK, AwaitTactics,
         EstablishDone
  <2>3. EstablishOK' /\ WorkerHandsOK'
    BY <1>1 DEF EstablishOK, WorkerHandsOK, AwaitTactics, EstablishDone
  <2>4. RunOK' /\ RunHandsOK'
    BY <1>1 DEF RunOK, RunHandsOK, PoolOK, NextTunnelInBounds, AwaitTactics,
         EstablishDone
  <2> QED
    BY <2>1, <2>2, <2>3, <2>4 DEF TypeInv, TypeOK
<1>2. ASSUME NEW n \in TunnelPoolSizes, SetTunnelPoolSize(n) PROVE TypeInv'
  <2>1. FlagsOK'
    BY <1>2, Zenon DEF FlagsOK, SetTunnelPoolSize, ClampPoolSize
  <2>2. PoolOK' /\ NextTunnelInBounds' /\ TunnelsOK'
    BY <1>2, ControllerAssumption DEF PoolOK, TunnelsOK, NextTunnelInBounds, RunOK,
         RunHandsOK, SetTunnelPoolSize, ClampPoolSize
  <2>3. EstablishOK' /\ WorkerHandsOK'
    BY <1>2 DEF EstablishOK, WorkerHandsOK, SetTunnelPoolSize, ClampPoolSize
  <2>4. RunOK' /\ RunHandsOK'
    BY <1>2 DEF RunOK, RunHandsOK, PoolOK, NextTunnelInBounds, SetTunnelPoolSize,
         ClampPoolSize
  <2> QED
    BY <2>1, <2>2, <2>3, <2>4 DEF TypeInv, TypeOK
<1>3. CASE DoConstraintsScan
  <2>1. FlagsOK'
    BY <1>3, Zenon DEF FlagsOK, DoConstraintsScan
  <2>2. PoolOK' /\ NextTunnelInBounds' /\ TunnelsOK'
    BY <1>3 DEF PoolOK, TunnelsOK, NextTunnelInBounds, RunOK, RunHandsOK,
         DoConstraintsScan
  <2>3. EstablishOK' /\ WorkerHandsOK'
    BY <1>3 DEF EstablishOK, WorkerHandsOK, DoConstraintsScan
  <2>4. RunOK' /\ RunHandsOK'
    BY <1>3 DEF RunOK, RunHandsOK, PoolOK, NextTunnelInBounds, DoConstraintsScan
  <2> QED
    BY <2>1, <2>2, <2>3, <2>4 DEF TypeInv, TypeOK
<1>4. CASE SpawnWorkers
  <2>1. FlagsOK'
    BY <1>4, Zenon DEF FlagsOK, SpawnWorkers
  <2>2. PoolOK' /\ NextTunnelInBounds' /\ TunnelsOK'
    BY <1>4 DEF PoolOK, TunnelsOK, NextTunnelInBounds, RunOK, RunHandsOK, SpawnWorkers
  <2>3. EstablishOK' /\ WorkerHandsOK'
    BY <1>4, WorkerStates DEF EstablishOK, WorkerHandsOK, FlagsOK, SpawnWorkers
  <2>4. RunOK' /\ RunHandsOK'
    BY <1>4 DEF RunOK, RunHandsOK, PoolOK, NextTunnelInBounds, SpawnWorkers
  <2> QED
    BY <2>1, <2>2, <2>3, <2>4 DEF TypeInv, TypeOK
<1>5. ASSUME NEW b \in BOOLEAN, GeneratorStart(b) PROVE TypeInv'
  <2>1. FlagsOK'
    BY <1>5, Zenon DEF FlagsOK, GeneratorStart, CloseAffinityIf, CloseAffinity
  <2>2. PoolOK' /\ NextTunnelInBounds' /\ TunnelsOK'
    BY <1>5 DEF PoolOK, TunnelsOK, NextTunnelInBounds, RunOK, RunHandsOK,
         GeneratorStart, CloseAffinityIf, CloseAffinity
  <2>3. EstablishOK' /\ WorkerHandsOK'
    BY <1>5 DEF EstablishOK, WorkerHandsOK, GeneratorStart, CloseAffinityIf,
         CloseAffinity
  <2>4. RunOK' /\ RunHandsOK'
    BY <1>5 DEF RunOK, RunHandsOK, PoolOK, NextTunnelInBounds, GeneratorStart,
         CloseAffinityIf, CloseAffinity
  <2> QED
    BY <2>1, <2>2, <2>3, <2>4 DEF TypeInv, TypeOK
<1>6. ASSUME NEW w \in Worker, NEW s \in Server, OfferCandidate(w, s) PROVE TypeInv'
  <2>1. FlagsOK'
    BY <1>6, Zenon DEF FlagsOK, OfferCandidate
  <2>2. PoolOK' /\ NextTunnelInBounds' /\ TunnelsOK'
    BY <1>6 DEF PoolOK, TunnelsOK, NextTunnelInBounds, RunOK, RunHandsOK, OfferCandidate
  <2>3. EstablishOK' /\ WorkerHandsOK'
    BY <1>6, WorkerStates DEF EstablishOK, WorkerHandsOK, FlagsOK, OfferCandidate
  <2>4. RunOK' /\ RunHandsOK'
    BY <1>6 DEF RunOK, RunHandsOK, PoolOK, NextTunnelInBounds, OfferCandidate
  <2> QED
    BY <2>1, <2>2, <2>3, <2>4 DEF TypeInv, TypeOK
<1>7. CASE GeneratorAdvance
  <2>1. FlagsOK'
    BY <1>7, Zenon DEF FlagsOK, GeneratorAdvance
  <2>2. PoolOK' /\ NextTunnelInBounds' /\ TunnelsOK'
    BY <1>7 DEF PoolOK, TunnelsOK, NextTunnelInBounds, RunOK, RunHandsOK,
         GeneratorAdvance
  <2>3. EstablishOK' /\ WorkerHandsOK'
    BY <1>7 DEF EstablishOK, WorkerHandsOK, GeneratorAdvance
  <2>4. RunOK' /\ RunHandsOK'
    BY <1>7 DEF RunOK, RunHandsOK, PoolOK, NextTunnelInBounds, GeneratorAdvance
  <2> QED
    BY <2>1, <2>2, <2>3, <2>4 DEF TypeInv, TypeOK
<1>8. CASE GeneratorStopped
  <2>1. FlagsOK'
    BY <1>8, Zenon DEF FlagsOK, GeneratorStopped
  <2>2. PoolOK' /\ NextTunnelInBounds' /\ TunnelsOK'
    BY <1>8 DEF PoolOK, TunnelsOK, NextTunnelInBounds, RunOK, RunHandsOK,
         GeneratorStopped
  <2>3. EstablishOK' /\ WorkerHandsOK'
    BY <1>8 DEF EstablishOK, WorkerHandsOK, GeneratorStopped
  <2>4. RunOK' /\ RunHandsOK'
    BY <1>8 DEF RunOK, RunHandsOK, PoolOK, NextTunnelInBounds, GeneratorStopped
  <2> QED
    BY <2>1, <2>2, <2>3, <2>4 DEF TypeInv, TypeOK
<1>9. CASE IteratorFails
  <2>1. FlagsOK'
    BY <1>9, Zenon DEF FlagsOK, IteratorFails
  <2>2. PoolOK' /\ NextTunnelInBounds' /\ TunnelsOK'
    BY <1>9 DEF PoolOK, TunnelsOK, NextTunnelInBounds, RunOK, RunHandsOK, IteratorFails
  <2>3. EstablishOK' /\ WorkerHandsOK'
    BY <1>9 DEF EstablishOK, WorkerHandsOK, IteratorFails
  <2>4. RunOK' /\ RunHandsOK'
    BY <1>9 DEF RunOK, RunHandsOK, PoolOK, NextTunnelInBounds, IteratorFails
  <2> QED
    BY <2>1, <2>2, <2>3, <2>4 DEF TypeInv, TypeOK
<1>10. ASSUME NEW w \in Worker, WorkerExits(w) PROVE TypeInv'
  <2>1. FlagsOK'
    BY <1>10, Zenon DEF FlagsOK, WorkerExits
  <2>2. PoolOK' /\ NextTunnelInBounds' /\ TunnelsOK'
    BY <1>10 DEF PoolOK, TunnelsOK, NextTunnelInBounds, RunOK, RunHandsOK, WorkerExits
  <2>3. EstablishOK' /\ WorkerHandsOK'
    BY <1>10, WorkerStates DEF EstablishOK, WorkerHandsOK, FlagsOK, WorkerExits
  <2>4. RunOK' /\ RunHandsOK'
    BY <1>10 DEF RunOK, RunHandsOK, PoolOK, NextTunnelInBounds, WorkerExits
  <2> QED
    BY <2>1, <2>2, <2>3, <2>4 DEF TypeInv, TypeOK
<1>11. ASSUME NEW w \in Worker, SkipActiveServer(w) PROVE TypeInv'
  <2>1. FlagsOK'
    BY <1>11, Zenon DEF FlagsOK, SkipActiveServer
  <2>2. PoolOK' /\ NextTunnelInBounds' /\ TunnelsOK'
    BY <1>11 DEF PoolOK, TunnelsOK, NextTunnelInBounds, RunOK, RunHandsOK,
         SkipActiveServer
  <2>3. EstablishOK' /\ WorkerHandsOK'
    BY <1>11, WorkerStates DEF EstablishOK, WorkerHandsOK, FlagsOK, SkipActiveServer
  <2>4. RunOK' /\ RunHandsOK'
    BY <1>11 DEF RunOK, RunHandsOK, PoolOK, NextTunnelInBounds, SkipActiveServer
  <2> QED
    BY <2>1, <2>2, <2>3, <2>4 DEF TypeInv, TypeOK
<1>12. ASSUME NEW w \in Worker, SkipCandidate(w) PROVE TypeInv'
  <2>1. FlagsOK'
    BY <1>12, Zenon DEF FlagsOK, SkipCandidate, CloseAffinityIf, CloseAffinity
  <2>2. PoolOK' /\ NextTunnelInBounds' /\ TunnelsOK'
    BY <1>12 DEF PoolOK, TunnelsOK, NextTunnelInBounds, RunOK, RunHandsOK,
         SkipCandidate, CloseAffinityIf, CloseAffinity
  <2>3. EstablishOK' /\ WorkerHandsOK'
    BY <1>12, WorkerStates DEF EstablishOK, WorkerHandsOK, FlagsOK, SkipCandidate,
         CloseAffinityIf, CloseAffinity
  <2>4. RunOK' /\ RunHandsOK'
    BY <1>12 DEF RunOK, RunHandsOK, PoolOK, NextTunnelInBounds, SkipCandidate,
         CloseAffinityIf, CloseAffinity
  <2> QED
    BY <2>1, <2>2, <2>3, <2>4 DEF TypeInv, TypeOK
<1>13. ASSUME NEW w \in Worker, NEW b \in BOOLEAN, BeginDial(w, b) PROVE TypeInv'
  <2>1. FlagsOK'
    BY <1>13, Zenon DEF FlagsOK, BeginDial
  <2>2. PoolOK' /\ NextTunnelInBounds' /\ TunnelsOK'
    BY <1>13 DEF PoolOK, TunnelsOK, NextTunnelInBounds, RunOK, RunHandsOK, BeginDial
  <2>3. EstablishOK' /\ WorkerHandsOK'
    <3>1. worker' \in [Worker -> WorkerState] /\ WorkerHandsOK'
      <4>1. [worker[w] EXCEPT !.pc = "dial", !.intensive = b] \in WorkerState
        <5>1. CASE b = TRUE
          BY <5>1 DEF EstablishOK, WorkerState
        <5>2. CASE b = FALSE
          BY <5>2 DEF EstablishOK, WorkerState
        <5> QED
          BY <5>1, <5>2
      <4>2. worker' = [worker EXCEPT ![w] = [worker[w] EXCEPT !.pc = "dial", !.intensive = b]]
        BY <1>13 DEF BeginDial, EstablishOK
      <4>3. [worker[w] EXCEPT !.pc = "dial", !.intensive = b].pc # "deliver"
        BY DEF EstablishOK, WorkerState
      <4> QED
        BY <4>1, <4>2, <4>3 DEF EstablishOK, WorkerHandsOK
    <3>2. concurrentEstablish' \in Int /\ concurrentIntensive' \in Int
      BY <1>13 DEF EstablishOK, BeginDial
    <3> QED
      BY <1>13, <3>1, <3>2 DEF EstablishOK, BeginDial
  <2>4. RunOK' /\ RunHandsOK'
    BY <1>13 DEF RunOK, RunHandsOK, PoolOK, NextTunnelInBounds, BeginDial
  <2> QED
    BY <2>1, <2>2, <2>3, <2>4 DEF TypeInv, TypeOK
<1>14. ASSUME NEW w \in Worker, NEW t \in Tunnel, DialSucceeds(w, t) PROVE TypeInv'
  <2>1. FlagsOK'
    BY <1>14, Zenon DEF FlagsOK, DialSucceeds, EndDial, Unreferenced
  <2>2. PoolOK' /\ NextTunnelInBounds' /\ TunnelsOK'
    <3>1. PoolOK' /\ NextTunnelInBounds'
      BY <1>14, ChannelSteps DEF PoolOK, NextTunnelInBounds, RunHandsOK, EstablishOK,
           WorkerState, DialSucceeds, EndDial, Unreferenced
    <3>2. TunnelsOK'
      BY <1>14 DEF TunnelsOK, EstablishOK, WorkerState, DialSucceeds, EndDial,
           Unreferenced
    <3> QED
      BY <3>1, <3>2
  <2>3. EstablishOK' /\ WorkerHandsOK'
    BY <1>14 DEF EstablishOK, WorkerHandsOK, WorkerState, DialSucceeds, EndDial,
         Unreferenced
  <2>4. RunOK' /\ RunHandsOK'
    BY <1>14 DEF RunOK, RunHandsOK, PoolOK, NextTunnelInBounds, DialSucceeds, EndDial,
         Unreferenced
  <2> QED
    BY <2>1, <2>2, <2>3, <2>4 DEF TypeInv, TypeOK
<1>15. ASSUME NEW w \in Worker, DialFails(w) PROVE TypeInv'
  <2>1. FlagsOK'
    BY <1>15, Zenon DEF FlagsOK, DialFails, EndDial, CloseAffinityIf, CloseAffinity
  <2>2. PoolOK' /\ NextTunnelInBounds' /\ TunnelsOK'
    BY <1>15 DEF PoolOK, TunnelsOK, NextTunnelInBounds, RunOK, RunHandsOK, DialFails,
         EndDial, CloseAffinityIf, CloseAffinity
  <2>3. EstablishOK' /\ WorkerHandsOK'
    <3>1. worker' \in [Worker -> WorkerState] /\ WorkerHandsOK'
      BY <1>15, WorkerStates DEF EstablishOK, WorkerHandsOK, DialFails
    <3>2. fault' \subseteq {"affinity", "connectedTunnels", "failedTunnels", "host"}
      BY <1>15 DEF EstablishOK, DialFails, CloseAffinityIf, CloseAffinity
    <3> QED
      BY <1>15, <3>1, <3>2 DEF EstablishOK, DialFails, EndDial
  <2>4. RunOK' /\ RunHandsOK'
    BY <1>15 DEF RunOK, RunHandsOK, PoolOK, NextTunnelInBounds, DialFails, EndDial,
         CloseAffinityIf, CloseAffinity
  <2> QED
    BY <2>1, <2>2, <2>3, <2>4 DEF TypeInv, TypeOK
<1>16. ASSUME NEW w \in Worker, DeliverTunnel(w) PROVE TypeInv'
  <2>1. FlagsOK'
    BY <1>16, Zenon DEF FlagsOK, DeliverTunnel
  <2>2. PoolOK' /\ NextTunnelInBounds' /\ TunnelsOK'
    <3>1. PoolOK' /\ NextTunnelInBounds'
      BY <1>16, ChannelSteps DEF PoolOK, NextTunnelInBounds, RunHandsOK, WorkerHandsOK,
           DeliverTunnel
    <3>2. TunnelsOK'
      BY <1>16 DEF TunnelsOK, WorkerHandsOK, DeliverTunnel
    <3> QED
      BY <3>1, <3>2
  <2>3. EstablishOK' /\ WorkerHandsOK'
    BY <1>16, WorkerStates DEF EstablishOK, WorkerHandsOK, FlagsOK, DeliverTunnel
  <2>4. RunOK' /\ RunHandsOK'
    BY <1>16 DEF RunOK, RunHandsOK, PoolOK, NextTunnelInBounds, DeliverTunnel
  <2> QED
    BY <2>1, <2>2, <2>3, <2>4 DEF TypeInv, TypeOK
<1>17. ASSUME NEW t \in Tunnel, TunnelClosed(t) PROVE TypeInv'
  <2>1. FlagsOK'
    BY <1>17, Zenon DEF FlagsOK, TunnelClosed
  <2>2. PoolOK' /\ NextTunnelInBounds' /\ TunnelsOK'
    BY <1>17 DEF PoolOK, TunnelsOK, NextTunnelInBounds, RunOK, RunHandsOK, TunnelClosed
  <2>3. EstablishOK' /\ WorkerHandsOK'
    BY <1>17 DEF EstablishOK, WorkerHandsOK, TunnelClosed
  <2>4. RunOK' /\ RunHandsOK'
    BY <1>17 DEF RunOK, RunHandsOK, PoolOK, NextTunnelInBounds, TunnelClosed
  <2> QED
    BY <2>1, <2>2, <2>3, <2>4 DEF TypeInv, TypeOK
<1>18. ASSUME NEW t \in Tunnel, OperateFails(t) PROVE TypeInv'
  <2>1. FlagsOK'
    BY <1>18, Zenon DEF FlagsOK, OperateFails
  <2>2. PoolOK' /\ NextTunnelInBounds' /\ TunnelsOK'
    BY <1>18 DEF PoolOK, TunnelsOK, NextTunnelInBounds, RunOK, RunHandsOK, OperateFails
  <2>3. EstablishOK' /\ WorkerHandsOK'
    BY <1>18 DEF EstablishOK, WorkerHandsOK, OperateFails
  <2>4. RunOK' /\ RunHandsOK'
    BY <1>18 DEF RunOK, RunHandsOK, PoolOK, NextTunnelInBounds, OperateFails
  <2> QED
    BY <2>1, <2>2, <2>3, <2>4 DEF TypeInv, TypeOK
<1>19. ASSUME NEW t \in Tunnel, OperateStops(t) PROVE TypeInv'
  <2>1. FlagsOK'
    BY <1>19, Zenon DEF FlagsOK, OperateStops
  <2>2. PoolOK' /\ NextTunnelInBounds' /\ TunnelsOK'
    BY <1>19 DEF PoolOK, TunnelsOK, NextTunnelInBounds, RunOK, RunHandsOK, OperateStops
  <2>3. EstablishOK' /\ WorkerHandsOK'
    BY <1>19 DEF EstablishOK, WorkerHandsOK, OperateStops
  <2>4. RunOK' /\ RunHandsOK'
    BY <1>19 DEF RunOK, RunHandsOK, PoolOK, NextTunnelInBounds, OperateStops
  <2> QED
    BY <2>1, <2>2, <2>3, <2>4 DEF TypeInv, TypeOK
<1>20. ASSUME NEW t \in Tunnel, OperateSignals(t) PROVE TypeInv'
  <2>1. FlagsOK'
    BY <1>20, Zenon DEF FlagsOK, OperateSignals
  <2>2. PoolOK' /\ NextTunnelInBounds' /\ TunnelsOK'
    <3>1. PoolOK' /\ NextTunnelInBounds'
      BY <1>20, ChannelSteps DEF PoolOK, NextTunnelInBounds, RunHandsOK, OperateSignals
    <3>2. TunnelsOK'
      BY <1>20 DEF TunnelsOK, OperateSignals
    <3> QED
      BY <3>1, <3>2
  <2>3. EstablishOK' /\ WorkerHandsOK'
    BY <1>20 DEF EstablishOK, WorkerHandsOK, OperateSignals
  <2>4. RunOK' /\ RunHandsOK'
    BY <1>20 DEF RunOK, RunHandsOK, PoolOK, NextTunnelInBounds, OperateSignals
  <2> QED
    BY <2>1, <2>2, <2>3, <2>4 DEF TypeInv, TypeOK
<1>21. ASSUME NEW t \in Tunnel, OperateTerminates(t) PROVE TypeInv'
  <2>1. FlagsOK'
    BY <1>21, Zenon DEF FlagsOK, OperateTerminates, RemoveAndClose, NothingToTerminate
  <2>2. PoolOK' /\ NextTunnelInBounds' /\ TunnelsOK'
    BY <1>21, RemoveTypes DEF PoolOK, TunnelsOK, NextTunnelInBounds, RunHandsOK,
         OperateTerminates, NothingToTerminate
  <2>3. EstablishOK' /\ WorkerHandsOK'
    BY <1>21 DEF EstablishOK, WorkerHandsOK, OperateTerminates
  <2>4. RunOK' /\ RunHandsOK'
    BY <1>21 DEF RunOK, RunHandsOK, OperateTerminates
  <2> QED
    BY <2>1, <2>2, <2>3, <2>4 DEF TypeInv, TypeOK
<1>22. CASE RunStart
  <2>1. FlagsOK'
    BY <1>22, Zenon DEF FlagsOK, RunStart, StartEstablishing
  <2>2. PoolOK' /\ NextTunnelInBounds' /\ TunnelsOK'
    BY <1>22 DEF PoolOK, TunnelsOK, NextTunnelInBounds, RunOK, RunHandsOK, RunStart,
         StartEstablishing
  <2>3. EstablishOK' /\ WorkerHandsOK'
    BY <1>22 DEF EstablishOK, WorkerHandsOK, RunStart, StartEstablishing
  <2>4. RunOK' /\ RunHandsOK'
    BY <1>22 DEF RunOK, RunHandsOK, PoolOK, NextTunnelInBounds, RunStart,
         StartEstablishing
  <2> QED
    BY <2>1, <2>2, <2>3, <2>4 DEF TypeInv, TypeOK
<1>23. CASE EstablishingStopped
  <2>1. FlagsOK'
    BY <1>23, Zenon DEF FlagsOK, EstablishingStopped
  <2>2. PoolOK' /\ NextTunnelInBounds' /\ TunnelsOK'
    BY <1>23 DEF PoolOK, TunnelsOK, NextTunnelInBounds, RunOK, RunHandsOK,
         EstablishingStopped
  <2>3. EstablishOK' /\ WorkerHandsOK'
    BY <1>23 DEF EstablishOK, WorkerHandsOK, EstablishingStopped
  <2>4. RunOK' /\ RunHandsOK'
    BY <1>23 DEF RunOK, RunHandsOK, PoolOK, NextTunnelInBounds, EstablishingStopped
  <2> QED
    BY <2>1, <2>2, <2>3, <2>4 DEF TypeInv, TypeOK
<1>24. CASE RunRestart
  <2>1. FlagsOK'
    BY <1>24, Zenon DEF FlagsOK, RunRestart, StopEstablishingThen
  <2>2. PoolOK' /\ NextTunnelInBounds' /\ TunnelsOK'
    BY <1>24 DEF PoolOK, TunnelsOK, NextTunnelInBounds, RunOK, RunHandsOK, RunRestart,
         StopEstablishingThen
  <2>3. EstablishOK' /\ WorkerHandsOK'
    BY <1>24 DEF EstablishOK, WorkerHandsOK, RunRestart, StopEstablishingThen
  <2>4. RunOK' /\ RunHandsOK'
    BY <1>24 DEF RunOK, RunHandsOK, PoolOK, NextTunnelInBounds, RunRestart,
         StopEstablishingThen
  <2> QED
    BY <2>1, <2>2, <2>3, <2>4 DEF TypeInv, TypeOK
<1>25. CASE RunFailed
  <2>1. FlagsOK'
    BY <1>25, Zenon DEF FlagsOK, RunFailed
  <2>2. PoolOK' /\ NextTunnelInBounds' /\ TunnelsOK'
    BY <1>25 DEF PoolOK, TunnelsOK, NextTunnelInBounds, RunOK, RunHandsOK, RunFailed
  <2>3. EstablishOK' /\ WorkerHandsOK'
    BY <1>25 DEF EstablishOK, WorkerHandsOK, RunFailed
  <2>4. RunOK' /\ RunHandsOK'
    BY <1>25 DEF RunOK, RunHandsOK, PoolOK, NextTunnelInBounds, RunFailed
  <2> QED
    BY <2>1, <2>2, <2>3, <2>4 DEF TypeInv, TypeOK
<1>26. CASE RunTerminate
  <2>1. FlagsOK'
    BY <1>26, Zenon DEF FlagsOK, RunTerminate, RemoveAndClose, NothingToTerminate
  <2>2. PoolOK' /\ NextTunnelInBounds' /\ TunnelsOK'
    BY <1>26, RemoveTypes DEF PoolOK, TunnelsOK, NextTunnelInBounds, RunHandsOK,
         RunTerminate, NothingToTerminate
  <2>3. EstablishOK' /\ WorkerHandsOK'
    BY <1>26 DEF EstablishOK, WorkerHandsOK, RunTerminate
  <2>4. RunOK' /\ RunHandsOK'
    BY <1>26 DEF RunOK, RunHandsOK, RunTerminate
  <2> QED
    BY <2>1, <2>2, <2>3, <2>4 DEF TypeInv, TypeOK
<1>27. CASE RunTerminated
  <2>1. FlagsOK'
    BY <1>27, Zenon DEF FlagsOK, RunTerminated
  <2>2. PoolOK' /\ NextTunnelInBounds' /\ TunnelsOK'
    BY <1>27 DEF PoolOK, TunnelsOK, NextTunnelInBounds, RunOK, RunHandsOK, RunTerminated
  <2>3. EstablishOK' /\ WorkerHandsOK'
    BY <1>27 DEF EstablishOK, WorkerHandsOK, RunTerminated
  <2>4. RunOK' /\ RunHandsOK'
    BY <1>27 DEF RunOK, RunHandsOK, PoolOK, NextTunnelInBounds, RunTerminated
  <2> QED
    BY <2>1, <2>2, <2>3, <2>4 DEF TypeInv, TypeOK
<1>28. CASE RunConnected
  <2>1. FlagsOK'
    BY <1>28, Zenon DEF FlagsOK, RunConnected
  <2>2. PoolOK' /\ NextTunnelInBounds' /\ TunnelsOK'
    BY <1>28 DEF PoolOK, TunnelsOK, NextTunnelInBounds, RunOK, RunHandsOK, RunConnected
  <2>3. EstablishOK' /\ WorkerHandsOK'
    BY <1>28 DEF EstablishOK, WorkerHandsOK, RunConnected
  <2>4. RunOK' /\ RunHandsOK'
    BY <1>28 DEF RunOK, RunHandsOK, PoolOK, NextTunnelInBounds, RunConnected
  <2> QED
    BY <2>1, <2>2, <2>3, <2>4 DEF TypeInv, TypeOK
<1>29. CASE RunCount
  <2>1. FlagsOK'
    BY <1>29, Zenon DEF FlagsOK, RunCount, StopEstablishingThen
  <2>2. PoolOK' /\ NextTunnelInBounds' /\ TunnelsOK'
    BY <1>29 DEF PoolOK, TunnelsOK, NextTunnelInBounds, RunOK, RunHandsOK, RunCount,
         StopEstablishingThen
  <2>3. EstablishOK' /\ WorkerHandsOK'
    BY <1>29 DEF EstablishOK, WorkerHandsOK, RunCount, StopEstablishingThen
  <2>4. RunOK' /\ RunHandsOK'
    BY <1>29 DEF RunOK, RunHandsOK, PoolOK, NextTunnelInBounds, RunCount,
         StopEstablishingThen
  <2> QED
    BY <2>1, <2>2, <2>3, <2>4 DEF TypeInv, TypeOK
<1>30. CASE RunActivate
  <2>1. FlagsOK'
    BY <1>30, Zenon DEF FlagsOK, RunActivate
  <2>2. PoolOK' /\ NextTunnelInBounds' /\ TunnelsOK'
    <3>1. PoolOK' /\ NextTunnelInBounds'
      BY <1>30, ChannelSteps DEF PoolOK, NextTunnelInBounds, RunHandsOK, FlagsOK,
           RunActivate
    <3>2. TunnelsOK'
      BY <1>30 DEF TunnelsOK, FlagsOK, RunActivate
    <3> QED
      BY <3>1, <3>2
  <2>3. EstablishOK' /\ WorkerHandsOK'
    BY <1>30 DEF EstablishOK, WorkerHandsOK, RunActivate
  <2>4. RunOK' /\ RunHandsOK'
    BY <1>30 DEF RunOK, RunHandsOK, PoolOK, NextTunnelInBounds, RunActivate
  <2> QED
    BY <2>1, <2>2, <2>3, <2>4 DEF TypeInv, TypeOK
<1>31. CASE RunActivateFails
  <2>1. FlagsOK'
    BY <1>31, Zenon DEF FlagsOK, RunActivateFails
  <2>2. PoolOK' /\ NextTunnelInBounds' /\ TunnelsOK'
    BY <1>31 DEF PoolOK, TunnelsOK, NextTunnelInBounds, RunOK, RunHandsOK,
         RunActivateFails
  <2>3. EstablishOK' /\ WorkerHandsOK'
    BY <1>31 DEF EstablishOK, WorkerHandsOK, RunActivateFails
  <2>4. RunOK' /\ RunHandsOK'
    BY <1>31 DEF RunOK, RunHandsOK, PoolOK, NextTunnelInBounds, RunActivateFails
  <2> QED
    BY <2>1, <2>2, <2>3, <2>4 DEF TypeInv, TypeOK
<1>32. CASE RunRegister
  <2>1. FlagsOK'
    BY <1>32, Zenon DEF FlagsOK, RunRegister
  <2>2. PoolOK' /\ NextTunnelInBounds' /\ TunnelsOK'
    <3>1. PoolOK' /\ NextTunnelInBounds'
      <4>1. tunnels' = tunnels \/ tunnels' = Append(tunnels, rtTunnel)
        BY <1>32 DEF RunRegister
      <4>2. rtTunnel \in Tunnel
        BY <1>32 DEF RunRegister, RunHandsOK
      <4>3. tunnels' \in Seq(Tunnel) /\ Len(tunnels') >= Len(tunnels)
        <5>1. tunnels \in Seq(Tunnel) /\ Len(tunnels) \in Nat
          BY DEF PoolOK
        <5>2. /\ Append(tunnels, rtTunnel) \in Seq(Tunnel)
              /\ Len(Append(tunnels, rtTunnel)) = Len(tunnels) + 1
          BY <4>2, <5>1, ChannelSteps
        <5> QED
          BY <4>1, <5>1, <5>2
      <4>4. UNCHANGED <<nextTunnel, tunnelPoolSize, tunnelMutex, channelVars>>
        BY <1>32 DEF RunRegister
      <4> QED
        BY <4>3, <4>4 DEF PoolOK, NextTunnelInBounds
    <3>2. TunnelsOK'
      BY <1>32 DEF TunnelsOK, RunRegister
    <3> QED
      BY <3>1, <3>2
  <2>3. EstablishOK' /\ WorkerHandsOK'
    BY <1>32 DEF EstablishOK, WorkerHandsOK, RunRegister
  <2>4. RunOK' /\ RunHandsOK'
    BY <1>32 DEF RunOK, RunHandsOK, PoolOK, NextTunnelInBounds, RunRegister
  <2> QED
    BY <2>1, <2>2, <2>3, <2>4 DEF TypeInv, TypeOK
<1>33. CASE RunReject
  <2>1. FlagsOK'
    BY <1>33, Zenon DEF FlagsOK, RunReject, StartEstablishing
  <2>2. PoolOK' /\ NextTunnelInBounds' /\ TunnelsOK'
    BY <1>33 DEF PoolOK, TunnelsOK, NextTunnelInBounds, RunOK, RunHandsOK, RunReject,
         StartEstablishing
  <2>3. EstablishOK' /\ WorkerHandsOK'
    BY <1>33 DEF EstablishOK, WorkerHandsOK, RunReject, StartEstablishing
  <2>4. RunOK' /\ RunHandsOK'
    BY <1>33 DEF RunOK, RunHandsOK, PoolOK, NextTunnelInBounds, RunReject,
         StartEstablishing
  <2> QED
    BY <2>1, <2>2, <2>3, <2>4 DEF TypeInv, TypeOK
<1>34. CASE RunDiscard
  <2>1. FlagsOK'
    BY <1>34, Zenon DEF FlagsOK, RunDiscard
  <2>2. PoolOK' /\ NextTunnelInBounds' /\ TunnelsOK'
    BY <1>34 DEF PoolOK, TunnelsOK, NextTunnelInBounds, RunOK, RunHandsOK, RunDiscard
  <2>3. EstablishOK' /\ WorkerHandsOK'
    BY <1>34 DEF EstablishOK, WorkerHandsOK, RunDiscard
  <2>4. RunOK' /\ RunHandsOK'
    BY <1>34 DEF RunOK, RunHandsOK, PoolOK, NextTunnelInBounds, RunDiscard
  <2> QED
    BY <2>1, <2>2, <2>3, <2>4 DEF TypeInv, TypeOK
<1>35. CASE RunDiscarded
  <2>1. FlagsOK'
    BY <1>35, Zenon DEF FlagsOK, RunDiscarded
  <2>2. PoolOK' /\ NextTunnelInBounds' /\ TunnelsOK'
    BY <1>35 DEF PoolOK, TunnelsOK, NextTunnelInBounds, RunOK, RunHandsOK, RunDiscarded
  <2>3. EstablishOK' /\ WorkerHandsOK'
    BY <1>35 DEF EstablishOK, WorkerHandsOK, RunDiscarded
  <2>4. RunOK' /\ RunHandsOK'
    BY <1>35 DEF RunOK, RunHandsOK, PoolOK, NextTunnelInBounds, RunDiscarded
  <2> QED
    BY <2>1, <2>2, <2>3, <2>4 DEF TypeInv, TypeOK
<1>36. CASE RunRegistered
  <2>1. FlagsOK'
    BY <1>36, Zenon DEF FlagsOK, RunRegistered, StopEstablishingThen
  <2>2. PoolOK' /\ NextTunnelInBounds' /\ TunnelsOK'
    BY <1>36 DEF PoolOK, TunnelsOK, NextTunnelInBounds, RunOK, RunHandsOK,
         RunRegistered, StopEstablishingThen
  <2>3. EstablishOK' /\ WorkerHandsOK'
    BY <1>36 DEF EstablishOK, WorkerHandsOK, RunRegistered, StopEstablishingThen
  <2>4. RunOK' /\ RunHandsOK'
    BY <1>36 DEF RunOK, RunHandsOK, PoolOK, NextTunnelInBounds, RunRegistered,
         StopEstablishingThen
  <2> QED
    BY <2>1, <2>2, <2>3, <2>4 DEF TypeInv, TypeOK
<1>37. CASE RunShutdown
  <2>1. FlagsOK'
    BY <1>37, Zenon DEF FlagsOK, RunShutdown, StopEstablishingThen
  <2>2. PoolOK' /\ NextTunnelInBounds' /\ TunnelsOK'
    BY <1>37 DEF PoolOK, TunnelsOK, NextTunnelInBounds, RunOK, RunHandsOK, RunShutdown,
         StopEstablishingThen
  <2>3. EstablishOK' /\ WorkerHandsOK'
    BY <1>37 DEF EstablishOK, WorkerHandsOK, RunShutdown, StopEstablishingThen
  <2>4. RunOK' /\ RunHandsOK'
    BY <1>37 DEF RunOK, RunHandsOK, PoolOK, NextTunnelInBounds, RunShutdown,
         StopEstablishingThen
  <2> QED
    BY <2>1, <2>2, <2>3, <2>4 DEF TypeInv, TypeOK
<1>38. CASE RunTerminateAll
  <2>1. FlagsOK'
    BY <1>38, Zenon DEF FlagsOK, RunTerminateAll
  <2>2. PoolOK' /\ NextTunnelInBounds' /\ TunnelsOK'
    BY <1>38 DEF PoolOK, TunnelsOK, NextTunnelInBounds, RunOK, RunHandsOK,
         RunTerminateAll
  <2>3. EstablishOK' /\ WorkerHandsOK'
    BY <1>38 DEF EstablishOK, WorkerHandsOK, RunTerminateAll
  <2>4. RunOK' /\ RunHandsOK'
    BY <1>38 DEF RunOK, RunHandsOK, PoolOK, NextTunnelInBounds, RunTerminateAll
  <2> QED
    BY <2>1, <2>2, <2>3, <2>4 DEF TypeInv, TypeOK
<1>39. CASE RunTerminatedAll
  <2>1. FlagsOK'
    BY <1>39, Zenon DEF FlagsOK, RunTerminatedAll
  <2>2. PoolOK' /\ NextTunnelInBounds' /\ TunnelsOK'
    BY <1>39 DEF PoolOK, TunnelsOK, NextTunnelInBounds, RunOK, RunHandsOK,
         RunTerminatedAll
  <2>3. EstablishOK' /\ WorkerHandsOK'
    BY <1>39 DEF EstablishOK, WorkerHandsOK, RunTerminatedAll
  <2>4. RunOK' /\ RunHandsOK'
    BY <1>39 DEF RunOK, RunHandsOK, PoolOK, NextTunnelInBounds, RunTerminatedAll
  <2> QED
    BY <2>1, <2>2, <2>3, <2>4 DEF TypeInv, TypeOK
<1>40. CASE RunDrainConnected
  <2>1. FlagsOK'
    BY <1>40, Zenon DEF FlagsOK, RunDrainConnected
  <2>2. PoolOK' /\ NextTunnelInBounds' /\ TunnelsOK'
    <3>1. PoolOK' /\ NextTunnelInBounds'
      BY <1>40, ChannelSteps DEF PoolOK, NextTunnelInBounds, RunHandsOK,
           RunDrainConnected
    <3>2. TunnelsOK'
      BY <1>40 DEF TunnelsOK, RunDrainConnected
    <3> QED
      BY <3>1, <3>2
  <2>3. EstablishOK' /\ WorkerHandsOK'
    BY <1>40 DEF EstablishOK, WorkerHandsOK, RunDrainConnected
  <2>4. RunOK' /\ RunHandsOK'
    BY <1>40 DEF RunOK, RunHandsOK, PoolOK, NextTunnelInBounds, RunDrainConnected
  <2> QED
    BY <2>1, <2>2, <2>3, <2>4 DEF TypeInv, TypeOK
<1>41. CASE RunDrainFailed
  <2>1. FlagsOK'
    BY <1>41, Zenon DEF FlagsOK, RunDrainFailed
  <2>2. PoolOK' /\ NextTunnelInBounds' /\ TunnelsOK'
    <3>1. PoolOK' /\ NextTunnelInBounds'
      BY <1>41, ChannelSteps DEF PoolOK, NextTunnelInBounds, RunHandsOK, RunDrainFailed
    <3>2. TunnelsOK'
      BY <1>41 DEF TunnelsOK, RunDrainFailed
    <3> QED
      BY <3>1, <3>2
  <2>3. EstablishOK' /\ WorkerHandsOK'
    BY <1>41 DEF EstablishOK, WorkerHandsOK, RunDrainFailed
  <2>4. RunOK' /\ RunHandsOK'
    BY <1>41 DEF RunOK, RunHandsOK, PoolOK, NextTunnelInBounds, RunDrainFailed
  <2> QED
    BY <2>1, <2>2, <2>3, <2>4 DEF TypeInv, TypeOK
<1>42. CASE Dial
  <2>1. FlagsOK'
    BY <1>42, Zenon DEF FlagsOK, Dial, AdvanceNextTunnel
  <2>2. PoolOK' /\ NextTunnelInBounds' /\ TunnelsOK'
    BY <1>42 DEF PoolOK, TunnelsOK, NextTunnelInBounds, RunOK, RunHandsOK, Dial,
         AdvanceNextTunnel
  <2>3. EstablishOK' /\ WorkerHandsOK'
    BY <1>42 DEF EstablishOK, WorkerHandsOK, Dial, AdvanceNextTunnel
  <2>4. RunOK' /\ RunHandsOK'
    BY <1>42 DEF RunOK, RunHandsOK, PoolOK, NextTunnelInBounds, Dial, AdvanceNextTunnel
  <2> QED
    BY <2>1, <2>2, <2>3, <2>4 DEF TypeInv, TypeOK
<1>43. CASE TerminateNextActiveTunnel
  <2>1. FlagsOK'
    BY <1>43, Zenon DEF FlagsOK, TerminateNextActiveTunnel, AdvanceNextTunnel
  <2>2. PoolOK' /\ NextTunnelInBounds' /\ TunnelsOK'
    BY <1>43 DEF PoolOK, TunnelsOK, NextTunnelInBounds, RunOK, RunHandsOK,
         TerminateNextActiveTunnel, AdvanceNextTunnel
  <2>3. EstablishOK' /\ WorkerHandsOK'
    BY <1>43 DEF EstablishOK, WorkerHandsOK, TerminateNextActiveTunnel,
         AdvanceNextTunnel
  <2>4. RunOK' /\ RunHandsOK'
    BY <1>43, ControllerAssumption DEF RunOK, RunHandsOK, PoolOK, NextTunnelInBounds,
         TerminateNextActiveTunnel, AdvanceNextTunnel
  <2> QED
    BY <2>1, <2>2, <2>3, <2>4 DEF TypeInv, TypeOK
<1>44. CASE HostSignals
  <2>1. FlagsOK'
    BY <1>44, Zenon DEF FlagsOK, HostSignals
  <2>2. PoolOK' /\ NextTunnelInBounds' /\ TunnelsOK'
    BY <1>44 DEF PoolOK, TunnelsOK, NextTunnelInBounds, RunOK, RunHandsOK, HostSignals
  <2>3. EstablishOK' /\ WorkerHandsOK'
    BY <1>44 DEF EstablishOK, WorkerHandsOK, HostSignals
  <2>4. RunOK' /\ RunHandsOK'
    BY <1>44 DEF RunOK, RunHandsOK, PoolOK, NextTunnelInBounds, HostSignals
  <2> QED
    BY <2>1, <2>2, <2>3, <2>4 DEF TypeInv, TypeOK
<1>45. CASE HostTerminates
  <2>1. FlagsOK'
    BY <1>45, Zenon DEF FlagsOK, HostTerminates, RemoveAndClose, NothingToTerminate
  <2>2. PoolOK' /\ NextTunnelInBounds' /\ TunnelsOK'
    BY <1>45, RemoveTypes DEF PoolOK, TunnelsOK, NextTunnelInBounds, RunHandsOK,
         HostTerminates, NothingToTerminate
  <2>3. EstablishOK' /\ WorkerHandsOK'
    BY <1>45 DEF EstablishOK, WorkerHandsOK, HostTerminates
  <2>4. RunOK' /\ RunHandsOK'
    BY <1>45 DEF RunOK, RunHandsOK, HostTerminates
  <2> QED
    BY <2>1, <2>2, <2>3, <2>4 DEF TypeInv, TypeOK
<1>46. CASE HostTerminated
  <2>1. FlagsOK'
    BY <1>46, Zenon DEF FlagsOK, HostTerminated
  <2>2. PoolOK' /\ NextTunnelInBounds' /\ TunnelsOK'
    BY <1>46 DEF PoolOK, TunnelsOK, NextTunnelInBounds, RunOK, RunHandsOK,
         HostTerminated
  <2>3. EstablishOK' /\ WorkerHandsOK'
    BY <1>46 DEF EstablishOK, WorkerHandsOK, HostTerminated
  <2>4. RunOK' /\ RunHandsOK'
    BY <1>46 DEF RunOK, RunHandsOK, PoolOK, NextTunnelInBounds, HostTerminated
  <2> QED
    BY <2>1, <2>2, <2>3, <2>4 DEF TypeInv, TypeOK
<1>47. CASE RequestRestart
  <2>1. FlagsOK'
    BY <1>47, Zenon DEF FlagsOK, RequestRestart
  <2>2. PoolOK' /\ NextTunnelInBounds' /\ TunnelsOK'
    BY <1>47 DEF PoolOK, TunnelsOK, NextTunnelInBounds, RunOK, RunHandsOK,
         RequestRestart
  <2>3. EstablishOK' /\ WorkerHandsOK'
    BY <1>47 DEF EstablishOK, WorkerHandsOK, RequestRestart
  <2>4. RunOK' /\ RunHandsOK'
    BY <1>47, ControllerAssumption DEF RunOK, RunHandsOK, PoolOK, NextTunnelInBounds,
         RequestRestart
  <2> QED
    BY <2>1, <2>2, <2>3, <2>4 DEF TypeInv, TypeOK
<1>48. CASE EstablishTunnelTimeout
  <2>1. FlagsOK'
    BY <1>48, Zenon DEF FlagsOK, EstablishTunnelTimeout
  <2>2. PoolOK' /\ NextTunnelInBounds' /\ TunnelsOK'
    BY <1>48 DEF PoolOK, TunnelsOK, NextTunnelInBounds, RunOK, RunHandsOK,
         EstablishTunnelTimeout
  <2>3. EstablishOK' /\ WorkerHandsOK'
    BY <1>48 DEF EstablishOK, WorkerHandsOK, EstablishTunnelTimeout
  <2>4. RunOK' /\ RunHandsOK'
    BY <1>48 DEF RunOK, RunHandsOK, PoolOK, NextTunnelInBounds, EstablishTunnelTimeout
  <2> QED
    BY <2>1, <2>2, <2>3, <2>4 DEF TypeInv, TypeOK
<1>49. CASE Stop
  <2>1. FlagsOK'
    BY <1>49, Zenon DEF FlagsOK, Stop
  <2>2. PoolOK' /\ NextTunnelInBounds' /\ TunnelsOK'
    BY <1>49 DEF PoolOK, TunnelsOK, NextTunnelInBounds, RunOK, RunHandsOK, Stop
  <2>3. EstablishOK' /\ WorkerHandsOK'
    BY <1>49 DEF EstablishOK, WorkerHandsOK, Stop
  <2>4. RunOK' /\ RunHandsOK'
    BY <1>49 DEF RunOK, RunHandsOK, PoolOK, NextTunnelInBounds, Stop
  <2> QED
    BY <2>1, <2>2, <2>3, <2>4 DEF TypeInv, TypeOK
<1>50. CASE UNCHANGED vars
  <2>1. FlagsOK'
    BY <1>50, Zenon DEF FlagsOK, vars
  <2>2. PoolOK' /\ NextTunnelInBounds' /\ TunnelsOK'
    BY <1>50 DEF PoolOK, TunnelsOK, NextTunnelInBounds, RunOK, RunHandsOK, vars
  <2>3. EstablishOK' /\ WorkerHandsOK'
    BY <1>50 DEF EstablishOK, WorkerHandsOK, vars
  <2>4. RunOK' /\ RunHandsOK'
    BY <1>50 DEF RunOK, RunHandsOK, PoolOK, NextTunnelInBounds, vars
  <2> QED
    BY <2>1, <2>2, <2>3, <2>4 DEF TypeInv, TypeOK
<1> QED
  BY <1>1, <1>2, <1>3, <1>4, <1>5, <1>6, <1>7, <1>8, <1>9, <1>10, <1>11, <1>12, <1>13,
     <1>14, <1>15, <1>16, <1>17, <1>18, <1>19, <1>20, <1>21, <1>22, <1>23, <1>24, <1>25,
     <1>26, <1>27, <1>28, <1>29, <1>30, <1>31, <1>32, <1>33, <1>34, <1>35, <1>36, <1>37,
     <1>38, <1>39, <1>40, <1>41, <1>42, <1>43, <1>44, <1>45, <1>46, <1>47, <1>48, <1>49,
     <1>50
     DEF Next, LaunchNext, GeneratorNext, WorkerNext, OperateNext, RunNext, HostNext

----------------------------------------------------------------------------
(* Establishment *)

\* A new controller is not establishing.
LEMMA InitEstablishmentContained == Init => EstablishmentContained
BY DEF Init, EstablishmentContained, EstablishIdle, IdleWorker

\* Only runTunnels clears isEstablishing, and only with the goroutines gone.
LEMMA NextEstablishmentContained ==
    TypeInv /\ EstablishmentContained /\ [Next]_vars => EstablishmentContained'
<1> SUFFICES ASSUME TypeInv, EstablishmentContained, [Next]_vars
             PROVE  EstablishmentContained'
  OBVIOUS
<1> USE DEF EstablishmentContained, EstablishIdle
<1> USE DEF poolVars, channelVars, tunnelVars, establishVars, workerVars, rtVars, hostVars
<1>1. CASE AwaitTactics
  BY <1>1 DEF AwaitTactics
<1>2. ASSUME NEW n \in TunnelPoolSizes, SetTunnelPoolSize(n) PROVE EstablishmentContained'
  BY <1>2 DEF SetTunnelPoolSize
<1>3. CASE DoConstraintsScan
  BY <1>3 DEF DoConstraintsScan
<1>4. CASE SpawnWorkers
  BY <1>4 DEF SpawnWorkers
<1>5. ASSUME NEW b \in BOOLEAN, GeneratorStart(b) PROVE EstablishmentContained'
  BY <1>5 DEF GeneratorStart
<1>6. ASSUME NEW w \in Worker, NEW s \in Server, OfferCandidate(w, s) PROVE EstablishmentContained'
  BY <1>6 DEF OfferCandidate
<1>7. CASE GeneratorAdvance
  BY <1>7 DEF GeneratorAdvance
<1>8. CASE GeneratorStopped
  BY <1>8 DEF GeneratorStopped
<1>9. CASE IteratorFails
  BY <1>9 DEF IteratorFails
<1>10. ASSUME NEW w \in Worker, WorkerExits(w) PROVE EstablishmentContained'
  BY <1>10 DEF WorkerExits
<1>11. ASSUME NEW w \in Worker, SkipActiveServer(w) PROVE EstablishmentContained'
  BY <1>11 DEF SkipActiveServer
<1>12. ASSUME NEW w \in Worker, SkipCandidate(w) PROVE EstablishmentContained'
  BY <1>12 DEF SkipCandidate
<1>13. ASSUME NEW w \in Worker, NEW b \in BOOLEAN, BeginDial(w, b) PROVE EstablishmentContained'
  BY <1>13 DEF BeginDial
<1>14. ASSUME NEW w \in Worker, NEW t \in Tunnel, DialSucceeds(w, t) PROVE EstablishmentContained'
  BY <1>14 DEF DialSucceeds, EndDial
<1>15. ASSUME NEW w \in Worker, DialFails(w) PROVE EstablishmentContained'
  BY <1>15 DEF DialFails, EndDial
<1>16. ASSUME NEW w \in Worker, DeliverTunnel(w) PROVE EstablishmentContained'
  BY <1>16 DEF DeliverTunnel
<1>17. CASE RunStart
  BY <1>17 DEF RunStart, StartEstablishing
<1>18. CASE EstablishingStopped
  BY <1>18 DEF EstablishingStopped
<1>19. CASE RunRestart
  BY <1>19 DEF RunRestart, StopEstablishingThen
<1>20. CASE RunCount
  BY <1>20 DEF RunCount, StopEstablishingThen
<1>21. CASE RunReject
  BY <1>21 DEF RunReject, StartEstablishing
<1>22. CASE RunRegistered
  BY <1>22 DEF RunRegistered, StopEstablishingThen
<1>23. CASE RunShutdown
  BY <1>23 DEF RunShutdown, StopEstablishingThen
<1>24. ASSUME \/ \E t \in Tunnel : \/ TunnelClosed(t)
                                   \/ OperateFails(t)
                                   \/ OperateStops(t)
                                   \/ OperateSignals(t)
                                   \/ OperateTerminates(t)
              \/ RunFailed \/ RunTerminate \/ RunTerminated \/ RunConnected
              \/ RunActivate \/ RunActivateFails \/ RunRegister \/ RunDiscard
              \/ RunDiscarded \/ RunTerminateAll \/ RunTerminatedAll \/ RunDrainConnected
              \/ RunDrainFailed \/ Dial \/ TerminateNextActiveTunnel \/ HostSignals
              \/ HostTerminates \/ HostTerminated \/ RequestRestart \/ EstablishTunnelTimeout
              \/ Stop \/ UNCHANGED vars
      PROVE  UNCHANGED <<isEstablishing, launch, gen, worker, concurrentEstablish,
                         concurrentIntensive>>
  BY <1>24 DEF TunnelClosed, OperateFails, OperateStops, OperateSignals,
         OperateTerminates, RunFailed, RunTerminate, RunTerminated, RunConnected,
         RunActivate, RunActivateFails, RunRegister, RunDiscard, RunDiscarded,
         RunTerminateAll, RunTerminatedAll, RunDrainConnected, RunDrainFailed, Dial,
         AdvanceNextTunnel, TerminateNextActiveTunnel, HostSignals, HostTerminates,
         HostTerminated, RequestRestart, EstablishTunnelTimeout, Stop, vars
<1>25. CASE UNCHANGED <<isEstablishing, launch, gen, worker, concurrentEstablish,
                     concurrentIntensive>>
  BY <1>25
<1> QED
  BY <1>1, <1>2, <1>3, <1>4, <1>5, <1>6, <1>7, <1>8, <1>9, <1>10, <1>11, <1>12, <1>13,
     <1>14, <1>15, <1>16, <1>17, <1>18, <1>19, <1>20, <1>21, <1>22, <1>23, <1>24, <1>25
     DEF Next, LaunchNext, GeneratorNext, WorkerNext, OperateNext, RunNext, HostNext

----------------------------------------------------------------------------
(* The servers of the pool *)

\* s has the element t.
Elem(s, t) == \E i \in DOMAIN s : s[i] = t

\* Some goroutine other than the establishTunnelWorkers knows the tunnel.
Known(t) ==
    \/ op[t] # "none"
    \/ Elem(tunnels, t) \/ Elem(connectedTunnels, t) \/ Elem(failedTunnels, t)
    \/ t = rtTunnel \/ t = hostTunnel

\* A tunnel that a worker has connected and not delivered yet is known to that
\* worker alone, so what the worker does to it cannot disturb the pool.
WorkerOwnsTunnel ==
    \A w \in Worker : \A t \in Tunnel : worker[w].tunnel = t =>
        ~Known(t) /\ \A v \in Worker : worker[v].tunnel = t => v = w

\* Membership after a send, a receive and a removal.
LEMMA ElemSteps ==
    ASSUME NEW S, NEW s \in Seq(S)
    PROVE  /\ \A e, t : Elem(Append(s, e), t) => t = e \/ Elem(s, t)
           /\ \A t : s # <<>> /\ Elem(Tail(s), t) => Elem(s, t)
           /\ s # <<>> => Elem(s, Head(s))
           /\ \A t : \A i \in 1..Len(s) : Elem(RemoveAt(s, i), t) => Elem(s, t)
           /\ \A t : \A i \in 1..Len(s) : s[i] = t => Elem(s, t)
<1>1. \A e, t : Elem(Append(s, e), t) => t = e \/ Elem(s, t)
  BY DEF Elem
<1>2. \A t : s # <<>> /\ Elem(Tail(s), t) => Elem(s, t)
  BY DEF Elem
<1>3. s # <<>> => Elem(s, Head(s))
  BY DEF Elem
<1>4. ASSUME NEW t, NEW i \in 1..Len(s), Elem(RemoveAt(s, i), t)
      PROVE  Elem(s, t)
  <2>1. RemoveAt(s, i) \in Seq(S) /\ Len(RemoveAt(s, i)) = Len(s) - 1
    BY RemoveAtSeq
  <2>2. PICK j \in 1..(Len(s) - 1) : RemoveAt(s, i)[j] = t
    BY <1>4, <2>1 DEF Elem
  <2>3. s[j] = t \/ s[j + 1] = t
    BY <2>2, RemoveAtSeq
  <2> QED
    BY <2>3 DEF Elem
<1>5. \A t : \A i \in 1..Len(s) : s[i] = t => Elem(s, t)
  BY DEF Elem
<1> QED
  BY <1>1, <1>2, <1>3, <1>4, <1>5

\* What terminateTunnel leaves in the pool, by any of its callers.
LEMMA RemoveElem ==
    ASSUME NEW t \in Tunnel, NEW h, PoolOK, RemoveAndClose(t, h)
    PROVE  /\ \A u : Elem(tunnels', u) => Elem(tunnels, u)
           /\ PoolServersDistinct /\ server' = server => PoolServersDistinct'
<1>1. PICK i \in DOMAIN tunnels : tunnels' = RemoveAt(tunnels, i)
  BY DEF RemoveAndClose
<1>2. i \in 1..Len(tunnels) /\ tunnels \in Seq(Tunnel)
  BY DEF PoolOK
<1>3. \A u : Elem(tunnels', u) => Elem(tunnels, u)
  BY <1>1, <1>2, ElemSteps
<1>4. ASSUME PoolServersDistinct, server' = server
      PROVE  PoolServersDistinct'
  <2>1. /\ tunnels' \in Seq(Tunnel) /\ Len(tunnels') = Len(tunnels) - 1
        /\ \A j \in 1..(Len(tunnels) - 1) :
              tunnels'[j] = IF j < i THEN tunnels[j] ELSE tunnels[j + 1]
    BY <1>1, <1>2, RemoveAtSeq
  <2>0. DOMAIN tunnels' = 1..(Len(tunnels) - 1)
    BY <2>1
  <2> SUFFICES ASSUME NEW j \in 1..(Len(tunnels) - 1), NEW k \in 1..(Len(tunnels) - 1), j # k
               PROVE  server[tunnels'[j]] # server[tunnels'[k]]
    BY <1>4, <2>0 DEF PoolServersDistinct
  <2>2. PICK m \in 1..Len(tunnels), n \in 1..Len(tunnels) :
            m # n /\ tunnels'[j] = tunnels[m] /\ tunnels'[k] = tunnels[n]
    BY <1>2, <2>1
  <2> QED
    BY <1>2, <1>4, <2>2 DEF PoolServersDistinct
<1> QED
  BY <1>3, <1>4

\* A new controller has no tunnels.
LEMMA InitPoolServers == Init => WorkerOwnsTunnel /\ PoolServersDistinct
BY ControllerAssumption DEF Init, WorkerOwnsTunnel, PoolServersDistinct, IdleWorker, Known, Elem

\* A worker without a tunnel.
LEMMA IdleFacts ==
    /\ IdleWorker.tunnel = NoTunnel
    /\ [IdleWorker EXCEPT !.pc = "receive"].tunnel = NoTunnel
    /\ \A s, b : [IdleWorker EXCEPT !.pc = "check", !.server = s, !.affinity = b].tunnel
                   = NoTunnel
BY DEF IdleWorker

\* The tunnels in the channels and the pool are known; what is received from a
\* channel was in it.
LEMMA ElemsKnown ==
    ASSUME PoolOK
    PROVE  /\ \A e, u : Elem(Append(connectedTunnels, e), u) => u = e \/ Elem(connectedTunnels, u)
           /\ \A e, u : Elem(Append(failedTunnels, e), u) => u = e \/ Elem(failedTunnels, u)
           /\ \A e, u : Elem(Append(tunnels, e), u) => u = e \/ Elem(tunnels, u)
           /\ connectedTunnels # <<>> =>
                /\ Elem(connectedTunnels, Head(connectedTunnels))
                /\ \A u : Elem(Tail(connectedTunnels), u) => Elem(connectedTunnels, u)
           /\ failedTunnels # <<>> =>
                /\ Elem(failedTunnels, Head(failedTunnels))
                /\ \A u : Elem(Tail(failedTunnels), u) => Elem(failedTunnels, u)
<1> USE DEF PoolOK
<1>1. \A e, u : Elem(Append(connectedTunnels, e), u) => u = e \/ Elem(connectedTunnels, u)
  BY ElemSteps
<1>2. \A e, u : Elem(Append(failedTunnels, e), u) => u = e \/ Elem(failedTunnels, u)
  BY ElemSteps
<1>3. \A e, u : Elem(Append(tunnels, e), u) => u = e \/ Elem(tunnels, u)
  BY ElemSteps
<1>4. ASSUME connectedTunnels # <<>>
      PROVE  /\ Elem(connectedTunnels, Head(connectedTunnels))
             /\ \A u : Elem(Tail(connectedTunnels), u) => Elem(connectedTunnels, u)
  BY <1>4, ElemSteps
<1>5. ASSUME failedTunnels # <<>>
      PROVE  /\ Elem(failedTunnels, Head(failedTunnels))
             /\ \A u : Elem(Tail(failedTunnels), u) => Elem(failedTunnels, u)
  BY <1>5, ElemSteps
<1> QED
  BY <1>1, <1>2, <1>3, <1>4, <1>5

\* A tunnel becomes known only to those who learn of it from one who knows it,
\* from a channel or the pool, or from the worker that delivers it.
LEMMA NextWorkerOwnsTunnel ==
    TypeInv /\ WorkerOwnsTunnel /\ [Next]_vars => WorkerOwnsTunnel'
<1> SUFFICES ASSUME PoolOK, EstablishOK, TunnelsOK, RunHandsOK, RunOK, NextTunnelInBounds,
                    WorkerOwnsTunnel, [Next]_vars
             PROVE  WorkerOwnsTunnel'
  BY DEF TypeInv, TypeOK
<1> USE DEF EstablishOK, TunnelsOK
<1> USE DEF poolVars, channelVars, tunnelVars, establishVars, workerVars, rtVars, hostVars
<1>k. ASSUME worker' = worker, \A u \in Tunnel : Known(u)' => Known(u)
      PROVE  WorkerOwnsTunnel'
  BY <1>k DEF WorkerOwnsTunnel
<1>e. /\ \A e, u : Elem(Append(connectedTunnels, e), u) => u = e \/ Elem(connectedTunnels, u)
      /\ \A e, u : Elem(Append(failedTunnels, e), u) => u = e \/ Elem(failedTunnels, u)
      /\ \A e, u : Elem(Append(tunnels, e), u) => u = e \/ Elem(tunnels, u)
      /\ connectedTunnels # <<>> =>
           /\ Elem(connectedTunnels, Head(connectedTunnels))
           /\ \A u : Elem(Tail(connectedTunnels), u) => Elem(connectedTunnels, u)
      /\ failedTunnels # <<>> =>
           /\ Elem(failedTunnels, Head(failedTunnels))
           /\ \A u : Elem(Tail(failedTunnels), u) => Elem(failedTunnels, u)
  BY ElemsKnown
<1>1. CASE SpawnWorkers
  <2>1. \A v \in Worker : worker'[v].tunnel = NoTunnel
    BY <1>1, IdleFacts DEF SpawnWorkers
  <2> QED
    BY <2>1, ControllerAssumption DEF WorkerOwnsTunnel
<1>2. ASSUME NEW w \in Worker, NEW s \in Server, OfferCandidate(w, s) PROVE WorkerOwnsTunnel'
  <2>1. worker'[w].tunnel = NoTunnel /\ \A v \in Worker \ {w} : worker'[v] = worker[v]
    BY <1>2, IdleFacts DEF OfferCandidate
  <2>2. \A u \in Tunnel : Known(u)' => Known(u)
    BY <1>2 DEF OfferCandidate, Known
  <2> QED
    BY <2>1, <2>2, ControllerAssumption DEF WorkerOwnsTunnel
<1>3. ASSUME NEW w \in Worker, WorkerExits(w) PROVE WorkerOwnsTunnel'
  <2>1. worker'[w].tunnel = NoTunnel /\ \A v \in Worker \ {w} : worker'[v] = worker[v]
    BY <1>3, IdleFacts DEF WorkerExits
  <2>2. \A u \in Tunnel : Known(u)' => Known(u)
    BY <1>3 DEF WorkerExits, Known
  <2> QED
    BY <2>1, <2>2, ControllerAssumption DEF WorkerOwnsTunnel
<1>4. ASSUME NEW w \in Worker, SkipActiveServer(w) PROVE WorkerOwnsTunnel'
  <2>1. worker'[w].tunnel = NoTunnel /\ \A v \in Worker \ {w} : worker'[v] = worker[v]
    BY <1>4, IdleFacts DEF SkipActiveServer
  <2>2. \A u \in Tunnel : Known(u)' => Known(u)
    BY <1>4 DEF SkipActiveServer, Known
  <2> QED
    BY <2>1, <2>2, ControllerAssumption DEF WorkerOwnsTunnel
<1>5. ASSUME NEW w \in Worker, SkipCandidate(w) PROVE WorkerOwnsTunnel'
  <2>1. worker'[w].tunnel = NoTunnel /\ \A v \in Worker \ {w} : worker'[v] = worker[v]
    BY <1>5, IdleFacts DEF SkipCandidate
  <2>2. \A u \in Tunnel : Known(u)' => Known(u)
    BY <1>5 DEF SkipCandidate, Known
  <2> QED
    BY <2>1, <2>2, ControllerAssumption DEF WorkerOwnsTunnel
<1>6. ASSUME NEW w \in Worker, NEW b \in BOOLEAN, BeginDial(w, b) PROVE WorkerOwnsTunnel'
  <2>1. \A v \in Worker : worker'[v].tunnel = worker[v].tunnel
    BY <1>6 DEF BeginDial, WorkerState
  <2>2. \A u \in Tunnel : Known(u)' => Known(u)
    BY <1>6 DEF BeginDial, Known
  <2> QED
    BY <2>1, <2>2 DEF WorkerOwnsTunnel
<1>7. ASSUME NEW w \in Worker, NEW t \in Tunnel, DialSucceeds(w, t) PROVE WorkerOwnsTunnel'
  <2>1. worker'[w].tunnel = t /\ \A v \in Worker \ {w} : worker'[v] = worker[v]
    BY <1>7 DEF DialSucceeds, WorkerState
  <2>2. ~Known(t) /\ \A v \in Worker : worker[v].tunnel # t
    BY <1>7 DEF DialSucceeds, Unreferenced, Known, Elem, InPool
  <2>3. \A u \in Tunnel : Known(u)' => Known(u)
    BY <1>7 DEF DialSucceeds, Known
  <2> QED
    BY <2>1, <2>2, <2>3 DEF WorkerOwnsTunnel
<1>8. ASSUME NEW w \in Worker, DialFails(w) PROVE WorkerOwnsTunnel'
  <2>1. worker'[w].tunnel = NoTunnel /\ \A v \in Worker \ {w} : worker'[v] = worker[v]
    BY <1>8, IdleFacts DEF DialFails
  <2>2. \A u \in Tunnel : Known(u)' => Known(u)
    BY <1>8 DEF DialFails, Known
  <2> QED
    BY <2>1, <2>2, ControllerAssumption DEF WorkerOwnsTunnel
<1>9. ASSUME NEW w \in Worker, DeliverTunnel(w) PROVE WorkerOwnsTunnel'
  <2>1. worker'[w].tunnel = NoTunnel /\ \A v \in Worker \ {w} : worker'[v] = worker[v]
    BY <1>9, IdleFacts DEF DeliverTunnel
  <2>2. connectedTunnels' \in {connectedTunnels, Append(connectedTunnels, worker[w].tunnel)}
    BY <1>9 DEF DeliverTunnel
  <2>3. \A u \in Tunnel : Elem(connectedTunnels', u)
                            => Elem(connectedTunnels, u) \/ u = worker[w].tunnel
    BY <2>2, <1>e
  <2>4. \A u \in Tunnel : Known(u)' => Known(u) \/ u = worker[w].tunnel
    BY <1>9, <2>3 DEF DeliverTunnel, Known
  <2> QED
    BY <2>1, <2>4, ControllerAssumption DEF WorkerOwnsTunnel
<1>10. ASSUME NEW t \in Tunnel, OperateFails(t) PROVE WorkerOwnsTunnel'
  BY <1>10, <1>k DEF OperateFails, Known
<1>11. ASSUME NEW t \in Tunnel, OperateStops(t) PROVE WorkerOwnsTunnel'
  BY <1>11, <1>k DEF OperateStops, Known
<1>12. ASSUME NEW t \in Tunnel, OperateSignals(t) PROVE WorkerOwnsTunnel'
  <2>1. failedTunnels' \in {failedTunnels, Append(failedTunnels, t)}
    BY <1>12 DEF OperateSignals
  <2>2. \A u \in Tunnel : Elem(failedTunnels', u) => Elem(failedTunnels, u) \/ u = t
    BY <2>1, <1>e
  <2>3. \A u \in Tunnel : op'[u] # "none" => op[u] # "none"
    BY <1>12 DEF OperateSignals
  <2>4. op[t] # "none" /\ worker' = worker
    BY <1>12 DEF OperateSignals
  <2> QED
    BY <1>12, <1>k, <2>2, <2>3, <2>4 DEF OperateSignals, Known
<1>13. ASSUME NEW t \in Tunnel, OperateTerminates(t) PROVE WorkerOwnsTunnel'
  <2>1. \A u : Elem(tunnels', u) => Elem(tunnels, u)
    BY <1>13, RemoveElem DEF OperateTerminates, NothingToTerminate
  <2> QED
    BY <1>13, <1>k, <2>1, ControllerAssumption DEF OperateTerminates, Known
<1>14. CASE RunFailed
  <2>1. \A u \in Tunnel : Elem(failedTunnels', u) \/ u = rtTunnel'
                            => Elem(failedTunnels, u) \/ u = rtTunnel
    BY <1>14, <1>e DEF RunFailed
  <2> QED
    BY <1>14, <1>k, <2>1 DEF RunFailed, Known
<1>15. CASE RunTerminate
  <2>1. \A u : Elem(tunnels', u) => Elem(tunnels, u)
    BY <1>15, RemoveElem DEF RunTerminate, NothingToTerminate, RunHandsOK
  <2> QED
    BY <1>15, <1>k, <2>1, ControllerAssumption DEF RunTerminate, Known
<1>16. CASE RunTerminated
  BY <1>16, <1>k, ControllerAssumption DEF RunTerminated, Known
<1>17. CASE RunConnected
  <2>1. \A u \in Tunnel : Elem(connectedTunnels', u) \/ u = rtTunnel'
                            => Elem(connectedTunnels, u) \/ u = rtTunnel
    BY <1>17, <1>e DEF RunConnected
  <2> QED
    BY <1>17, <1>k, <2>1 DEF RunConnected, Known
<1>18. CASE RunActivate
  BY <1>18, <1>k DEF RunActivate, Known
<1>19. CASE RunRegister
  <2>1. tunnels' \in {tunnels, Append(tunnels, rtTunnel)}
    BY <1>19 DEF RunRegister
  <2>2. \A u \in Tunnel : Elem(tunnels', u) => Elem(tunnels, u) \/ u = rtTunnel
    BY <2>1, <1>e
  <2> QED
    BY <1>19, <1>k, <2>2 DEF RunRegister, Known
<1>20. CASE RunDiscarded
  BY <1>20, <1>k, ControllerAssumption DEF RunDiscarded, Known
<1>21. CASE RunRegistered
  BY <1>21, <1>k, ControllerAssumption DEF RunRegistered, StopEstablishingThen, Known
<1>22. CASE RunTerminatedAll
  <2>1. \A u : ~Elem(tunnels', u)
    BY <1>22 DEF RunTerminatedAll, Elem
  <2> QED
    BY <1>22, <1>k, <2>1 DEF RunTerminatedAll, Known
<1>23. CASE RunDrainConnected
  <2>1. CASE connectedTunnels = <<>>
    BY <1>23, <1>k, <2>1 DEF RunDrainConnected, Known
  <2>2. CASE connectedTunnels # <<>>
    <3>1. connectedTunnels' = Tail(connectedTunnels) /\ rtTunnel' = Head(connectedTunnels)
      BY <1>23, <2>2 DEF RunDrainConnected
    <3>2. \A u \in Tunnel : Elem(connectedTunnels', u) \/ u = rtTunnel' => Elem(connectedTunnels, u)
      BY <2>2, <3>1, <1>e
    <3> QED
      BY <1>23, <1>k, <3>2 DEF RunDrainConnected, Known
  <2> QED
    BY <2>1, <2>2
<1>24. CASE RunDrainFailed
  <2>1. CASE failedTunnels = <<>>
    BY <1>24, <1>k, <2>1 DEF RunDrainFailed, Known
  <2>2. CASE failedTunnels # <<>>
    <3>1. failedTunnels' = Tail(failedTunnels) /\ rtTunnel' = Head(failedTunnels)
      BY <1>24, <2>2 DEF RunDrainFailed
    <3>2. \A u \in Tunnel : Elem(failedTunnels', u) \/ u = rtTunnel' => Elem(failedTunnels, u)
      BY <2>2, <3>1, <1>e
    <3> QED
      BY <1>24, <1>k, <3>2 DEF RunDrainFailed, Known
  <2> QED
    BY <2>1, <2>2
<1>25. CASE TerminateNextActiveTunnel
  <2>1. nextTunnel + 1 \in DOMAIN tunnels
    BY <1>25 DEF TerminateNextActiveTunnel, AdvanceNextTunnel, PoolOK, NextTunnelInBounds
  <2>2. Elem(tunnels, hostTunnel')
    BY <1>25, <2>1 DEF TerminateNextActiveTunnel, Elem
  <2> QED
    BY <1>25, <1>k, <2>2 DEF TerminateNextActiveTunnel, AdvanceNextTunnel, Known
<1>26. CASE HostSignals
  <2>1. failedTunnels' \in {failedTunnels, Append(failedTunnels, hostTunnel)}
    BY <1>26 DEF HostSignals
  <2>2. \A u \in Tunnel : Elem(failedTunnels', u) => Elem(failedTunnels, u) \/ u = hostTunnel
    BY <2>1, <1>e
  <2>3. hostTunnel' \in {hostTunnel, NoTunnel}
    BY <1>26 DEF HostSignals
  <2> QED
    BY <1>26, <1>k, <2>2, <2>3, ControllerAssumption DEF HostSignals, Known
<1>27. CASE HostTerminates
  <2>1. \A u : Elem(tunnels', u) => Elem(tunnels, u)
    BY <1>27, RemoveElem DEF HostTerminates, NothingToTerminate, RunHandsOK
  <2> QED
    BY <1>27, <1>k, <2>1, ControllerAssumption DEF HostTerminates, Known
<1>28. CASE HostTerminated
  BY <1>28, <1>k, ControllerAssumption DEF HostTerminated, Known
<1>29. ASSUME \/ \E n \in TunnelPoolSizes : SetTunnelPoolSize(n)
              \/ \E b \in BOOLEAN : GeneratorStart(b)
              \/ \E t \in Tunnel : TunnelClosed(t)
              \/ AwaitTactics \/ DoConstraintsScan \/ GeneratorAdvance \/ GeneratorStopped
              \/ IteratorFails \/ RunStart \/ EstablishingStopped \/ RunRestart
              \/ RunCount \/ RunActivateFails \/ RunReject \/ RunDiscard
              \/ RunShutdown \/ RunTerminateAll \/ Dial \/ RequestRestart
              \/ EstablishTunnelTimeout \/ Stop \/ UNCHANGED vars
      PROVE  UNCHANGED <<worker, op, tunnels, channelVars, rtTunnel, hostTunnel>>
  BY <1>29 DEF AwaitTactics, EstablishDone, SetTunnelPoolSize, ClampPoolSize,
         DoConstraintsScan, GeneratorStart, CloseAffinityIf, CloseAffinity,
         GeneratorAdvance, GeneratorStopped, IteratorFails, TunnelClosed, RunStart,
         StartEstablishing, EstablishingStopped, RunRestart, StopEstablishingThen,
         RunCount, RunActivateFails, RunReject, RunDiscard, RunShutdown,
         RunTerminateAll, Dial, AdvanceNextTunnel, RequestRestart,
         EstablishTunnelTimeout, Stop, vars
<1>30. CASE UNCHANGED <<worker, op, tunnels, channelVars, rtTunnel, hostTunnel>>
  BY <1>30, <1>k DEF Known
<1> QED
  BY <1>1, <1>2, <1>3, <1>4, <1>5, <1>6, <1>7, <1>8, <1>9, <1>10, <1>11, <1>12, <1>13,
     <1>14, <1>15, <1>16, <1>17, <1>18, <1>19, <1>20, <1>21, <1>22, <1>23, <1>24, <1>25,
     <1>26, <1>27, <1>28, <1>29, <1>30
     DEF Next, LaunchNext, GeneratorNext, WorkerNext, OperateNext, RunNext, HostNext

\* registerTunnel adds only a tunnel to a new server, and the server of a tunnel
\* in the pool does not change.
LEMMA NextPoolServersDistinct ==
    TypeInv /\ WorkerOwnsTunnel /\ PoolServersDistinct /\ [Next]_vars => PoolServersDistinct'
<1> SUFFICES ASSUME PoolOK, EstablishOK, TunnelsOK, RunHandsOK, RunOK, WorkerHandsOK,
                    WorkerOwnsTunnel, PoolServersDistinct, [Next]_vars
             PROVE  PoolServersDistinct'
  BY DEF TypeInv, TypeOK
<1> USE DEF PoolOK, EstablishOK, TunnelsOK
<1> USE DEF poolVars, channelVars, tunnelVars, establishVars, workerVars, rtVars, hostVars
<1>1. ASSUME NEW w \in Worker, NEW t \in Tunnel, DialSucceeds(w, t) PROVE PoolServersDistinct'
  BY <1>1 DEF DialSucceeds, Unreferenced, InPool, PoolServersDistinct
<1>2. ASSUME NEW w \in Worker, DeliverTunnel(w) PROVE PoolServersDistinct'
  BY <1>2 DEF DeliverTunnel, WorkerOwnsTunnel, WorkerHandsOK, Known, Elem,
         PoolServersDistinct
<1>3. ASSUME NEW t \in Tunnel, TunnelClosed(t) PROVE PoolServersDistinct'
  BY <1>3 DEF TunnelClosed, InPool, PoolServersDistinct
<1>4. ASSUME NEW t \in Tunnel, OperateTerminates(t) PROVE PoolServersDistinct'
  <2>1. server' = server /\ tunnels \in Seq(Tunnel)
    BY <1>4 DEF OperateTerminates
  <2>2. CASE tunnels' = tunnels
    BY <2>1, <2>2 DEF PoolServersDistinct
  <2>3. CASE tunnels' # tunnels
    BY <1>4, <2>1, <2>3, RemoveElem DEF OperateTerminates, NothingToTerminate
  <2> QED
    BY <2>2, <2>3
<1>5. CASE RunTerminate
  <2>1. server' = server /\ tunnels \in Seq(Tunnel)
    BY <1>5 DEF RunTerminate
  <2>2. CASE tunnels' = tunnels
    BY <2>1, <2>2 DEF PoolServersDistinct
  <2>3. CASE tunnels' # tunnels
    BY <1>5, <2>1, <2>3, RemoveElem DEF RunTerminate, NothingToTerminate, RunHandsOK
  <2> QED
    BY <2>2, <2>3
<1>6. CASE RunRegister
  <2>1. server' = server /\ tunnels \in Seq(Tunnel) /\ rtTunnel \in Tunnel
    BY <1>6 DEF RunRegister, RunHandsOK
  <2>2. CASE tunnels' = tunnels
    BY <2>1, <2>2 DEF PoolServersDistinct
  <2>3. CASE tunnels' = Append(tunnels, rtTunnel) /\ ~IsActiveServer(server[rtTunnel])
    <3>1. DOMAIN tunnels' = 1..(Len(tunnels) + 1) /\ DOMAIN tunnels = 1..Len(tunnels)
      BY <2>1, <2>3
    <3>2. tunnels'[Len(tunnels) + 1] = rtTunnel
          /\ \A j \in 1..Len(tunnels) : tunnels'[j] = tunnels[j]
      BY <2>1, <2>3
    <3> QED
      BY <2>1, <2>3, <3>1, <3>2 DEF PoolServersDistinct, IsActiveServer
  <2> QED
    BY <1>6, <2>2, <2>3 DEF RunRegister
<1>7. CASE RunTerminatedAll
  BY <1>7 DEF RunTerminatedAll, PoolServersDistinct
<1>8. CASE HostTerminates
  <2>1. server' = server /\ tunnels \in Seq(Tunnel)
    BY <1>8 DEF HostTerminates
  <2>2. CASE tunnels' = tunnels
    BY <2>1, <2>2 DEF PoolServersDistinct
  <2>3. CASE tunnels' # tunnels
    BY <1>8, <2>1, <2>3, RemoveElem DEF HostTerminates, NothingToTerminate, RunHandsOK
  <2> QED
    BY <2>2, <2>3
<1>9. ASSUME \/ \E n \in TunnelPoolSizes : SetTunnelPoolSize(n)
             \/ \E b \in BOOLEAN : GeneratorStart(b)
             \/ \E w \in Worker, s \in Server : OfferCandidate(w, s)
             \/ \E w \in Worker : \/ WorkerExits(w)
                                  \/ SkipActiveServer(w)
                                  \/ SkipCandidate(w)
                                  \/ DialFails(w)
             \/ \E w \in Worker, b \in BOOLEAN : BeginDial(w, b)
             \/ \E t \in Tunnel : \/ OperateFails(t)
                                  \/ OperateStops(t)
                                  \/ OperateSignals(t)
             \/ AwaitTactics \/ DoConstraintsScan \/ SpawnWorkers \/ GeneratorAdvance
             \/ GeneratorStopped \/ IteratorFails \/ RunStart \/ EstablishingStopped
             \/ RunRestart \/ RunFailed \/ RunTerminated \/ RunConnected
             \/ RunCount \/ RunActivate \/ RunActivateFails \/ RunReject
             \/ RunDiscard \/ RunDiscarded \/ RunRegistered \/ RunShutdown
             \/ RunTerminateAll \/ RunDrainConnected \/ RunDrainFailed \/ Dial
             \/ TerminateNextActiveTunnel \/ HostSignals \/ HostTerminated \/ RequestRestart
             \/ EstablishTunnelTimeout \/ Stop \/ UNCHANGED vars
      PROVE  UNCHANGED <<tunnels, server>>
  BY <1>9 DEF AwaitTactics, EstablishDone, SetTunnelPoolSize, ClampPoolSize,
         DoConstraintsScan, SpawnWorkers, GeneratorStart, CloseAffinityIf,
         CloseAffinity, OfferCandidate, GeneratorAdvance, GeneratorStopped,
         IteratorFails, WorkerExits, SkipActiveServer, SkipCandidate, BeginDial,
         DialFails, EndDial, OperateFails, OperateStops, OperateSignals, RunStart,
         StartEstablishing, EstablishingStopped, RunRestart, StopEstablishingThen,
         RunFailed, RunTerminated, RunConnected, RunCount, RunActivate,
         RunActivateFails, RunReject, RunDiscard, RunDiscarded, RunRegistered,
         RunShutdown, RunTerminateAll, RunDrainConnected, RunDrainFailed, Dial,
         AdvanceNextTunnel, TerminateNextActiveTunnel, HostSignals, HostTerminated,
         RequestRestart, EstablishTunnelTimeout, Stop, vars
<1>10. CASE UNCHANGED <<tunnels, server>>
  BY <1>10 DEF PoolServersDistinct
<1> QED
  BY <1>1, <1>2, <1>3, <1>4, <1>5, <1>6, <1>7, <1>8, <1>9, <1>10
     DEF Next, LaunchNext, GeneratorNext, WorkerNext, OperateNext, RunNext, HostNext

----------------------------------------------------------------------------
(* The life of a tunnel and of an establishment                             *)

\* A worker holds a tunnel only to deliver it, and the tunnel is open; one that
\* has no candidate does not hold the affinity candidate.
WorkerHolds ==
    \A w \in Worker :
        /\ worker[w].pc # "deliver" => worker[w].tunnel = NoTunnel
        /\ worker[w].pc \in {"none", "receive"} => ~worker[w].affinity
        /\ worker[w].tunnel \in Tunnel => conn[worker[w].tunnel] = "open"

\* launchEstablishing ends before the generator and the workers start.
LaunchAlone == launch # "none" => gen = "none" /\ \A w \in Worker : worker[w].pc = "none"

\* The right to close serverAffinityDoneBroadcast: it passes from the launch to
\* the generator and on to one worker, and is used once.
AffinityOnce ==
    /\ genAffinity \/ affinityDone => launch = "none" /\ gen # "start"
    /\ gen = "none" => ~genAffinity
    /\ affinityDone \/ gen = "start" => ~genAffinity
    /\ affinityDone \/ genAffinity \/ gen = "start" => \A w \in Worker : ~worker[w].affinity
    /\ \A v, w \in Worker : worker[v].affinity /\ worker[w].affinity => v = w

\* runTunnels has a connected tunnel which is not in the pool yet.
RunFresh ==
    \/ rt \in {"count", "activate", "register", "reject"}
    \/ rt = "stopping" /\ rtNext = "activate"

\* It has a tunnel which is not in the pool.
RunHolds == RunFresh \/ rt \in {"discard", "discarding"}

\* Who holds tunnelMutex across steps.
MutexHeld ==
    /\ rt \in {"terminating", "closingAll"} => tunnelMutex = "runTunnels"
    /\ host = "terminating" => tunnelMutex = "host"
    /\ \A t \in Tunnel : op[t] = "self" => tunnelMutex = "operateTunnel"

\* operateTunnel has ended when Tunnel.Close returns.
ClosedIdle == \A t \in Tunnel : conn[t] = "closed" => op[t] = "none"

\* s has no element twice.
Once(s) == \A i, j \in DOMAIN s : s[i] = s[j] => i = j

\* A delivered tunnel waits in connectedTunnels, once, open and not activated.
ConnectedFresh ==
    /\ Once(connectedTunnels)
    /\ \A t \in Tunnel : Elem(connectedTunnels, t) =>
          conn[t] = "open" /\ op[t] = "none" /\ ~Elem(tunnels, t)

\* The tunnel in hand is nowhere else, and where runTunnels goes on.
RunHand ==
    /\ RunFresh => conn[rtTunnel] = "open"
    /\ RunHolds => ~Elem(tunnels, rtTunnel) /\ ~Elem(connectedTunnels, rtTunnel)
    /\ rt = "stopping" => rtNext \in {"start", "loop", "activate", "terminateAll"}
    /\ rt \in {"discard", "discarding"} => rtNext \in {"loop", "drainConnected", "drainFailed"}

\* terminateTunnel is under way for the tunnel, by one of its callers.
Terminating(t) ==
    \/ rt = "terminating" /\ t = rtTunnel
    \/ host = "terminating" /\ t = hostTunnel
    \/ op[t] = "self"

\* A tunnel that is operated is in the pool, or about to enter or leave it.
OperatedPlaced ==
    \A t \in Tunnel : op[t] # "none" =>
        \/ Elem(tunnels, t)
        \/ rt \in {"register", "reject", "discard", "discarding"} /\ t = rtTunnel
        \/ Terminating(t)

\* A tunnel that is not closed is somewhere.
OpenPlaced ==
    \A t \in Tunnel : conn[t] # "closed" =>
        \/ Elem(tunnels, t) \/ Elem(connectedTunnels, t)
        \/ \E w \in Worker : worker[w].tunnel = t
        \/ RunHolds /\ t = rtTunnel
        \/ Terminating(t)

\* The first tunnel of the pool is activated when no other one is operated.
FirstAlone ==
    isFirstTunnel /\ (rt = "activate" \/ (rt = "stopping" /\ rtNext = "activate")) =>
        tunnels = <<>> /\ \A t \in Tunnel : op[t] = "none"

\* The shutdown: no establishment, then no tunnels.
ShutdownOrder ==
    /\ rt \in {"terminateAll", "closingAll"} \/ ConnectedClosed => ~isEstablishing
    /\ ConnectedClosed =>
         tunnels = <<>> /\ tunnelMutex = "free" /\ \A t \in Tunnel : op[t] = "none"
    /\ FailedClosed => connectedTunnels = <<>>

\* PoolTunnelsOpen, in the terms of the others.
PoolOpen ==
    rt # "closingAll" => \A t \in Tunnel : Elem(tunnels, t) => conn[t] = "open"

\* Where the tunnels are.
PlaceInv ==
    /\ WorkerHolds /\ MutexHeld /\ ClosedIdle /\ ConnectedFresh /\ RunHand
    /\ OperatedPlaced /\ OpenPlaced /\ FirstAlone /\ ShutdownOrder
    /\ PoolOpen /\ OneStatusReporter

LifeInv == LaunchAlone /\ AffinityOnce /\ PlaceInv /\ NoPanic

\* What terminateTunnel does to the tunnel and to the others, by any caller.
LEMMA RemoveLife ==
    ASSUME NEW t \in Tunnel, NEW h, PoolOK, TunnelsOK, PoolServersDistinct, RemoveAndClose(t, h)
    PROVE  /\ tunnelMutex = "free" /\ tunnelMutex' = h
           /\ Elem(tunnels, t) /\ ~Elem(tunnels', t)
           /\ \A u : u # t => (Elem(tunnels', u) <=> Elem(tunnels, u))
           /\ conn' \in [Tunnel -> {"open", "closing", "closed"}]
           /\ \A u \in Tunnel : u # t => conn'[u] = conn[u]
           /\ conn'[t] = IF conn[t] = "open" THEN "closing" ELSE conn[t]
<1>1. PICK i \in DOMAIN tunnels : tunnels[i] = t /\ tunnels' = RemoveAt(tunnels, i)
  BY DEF RemoveAndClose
<1>2. i \in 1..Len(tunnels) /\ tunnels \in Seq(Tunnel) /\ Len(tunnels) \in Nat
      /\ DOMAIN tunnels = 1..Len(tunnels)
  BY DEF PoolOK
<1>3. /\ tunnels' \in Seq(Tunnel) /\ Len(tunnels') = Len(tunnels) - 1
      /\ \A j \in 1..(Len(tunnels) - 1) :
            tunnels'[j] = IF j < i THEN tunnels[j] ELSE tunnels[j + 1]
  <2>1. tunnels' = RemoveAt(tunnels, i)
    BY <1>1
  <2>2. i \in 1..Len(tunnels) /\ tunnels \in Seq(Tunnel)
    BY <1>2
  <2> QED
    BY ONLY <2>1, <2>2, RemoveAtSeq
<1>4. DOMAIN tunnels' = 1..(Len(tunnels) - 1)
  BY <1>2, <1>3
<1>5. \A j \in 1..Len(tunnels) : tunnels[j] = t => j = i
  BY <1>1, <1>2 DEF PoolServersDistinct
<1>6. ~Elem(tunnels', t)
  <2> SUFFICES ASSUME NEW j \in 1..(Len(tunnels) - 1), tunnels'[j] = t
               PROVE  FALSE
    BY <1>4 DEF Elem
  <2>1. CASE j < i
    BY <1>2, <1>3, <1>5, <2>1
  <2>2. CASE ~(j < i)
    <3>1. j + 1 \in 1..Len(tunnels) /\ j + 1 # i
      BY <1>2, <2>2
    <3> QED
      BY <1>3, <1>5, <2>2, <3>1
  <2> QED
    BY <2>1, <2>2
<1>7. ASSUME NEW u, u # t
      PROVE  Elem(tunnels', u) <=> Elem(tunnels, u)
  <2>1. ASSUME Elem(tunnels, u)
        PROVE  Elem(tunnels', u)
    <3>1. PICK j \in 1..Len(tunnels) : tunnels[j] = u
      BY <1>2, <2>1 DEF Elem
    <3>2. j # i
      BY <1>1, <1>7, <3>1
    <3>3. CASE j < i
      <4>1. j \in 1..(Len(tunnels) - 1) /\ tunnels'[j] = u
        BY <1>2, <1>3, <3>1, <3>3
      <4> QED
        BY <1>4, <4>1 DEF Elem
    <3>4. CASE ~(j < i)
      <4>1. j - 1 \in 1..(Len(tunnels) - 1) /\ ~(j - 1 < i) /\ (j - 1) + 1 = j
        BY <1>2, <3>2, <3>4
      <4>2. tunnels'[j - 1] = u
        BY <1>3, <3>1, <4>1
      <4> QED
        BY <1>4, <4>1, <4>2 DEF Elem
    <3> QED
      BY <3>3, <3>4
  <2>2. Elem(tunnels', u) => Elem(tunnels, u)
    BY RemoveElem
  <2> QED
    BY <2>1, <2>2
<1>8. Elem(tunnels, t)
  BY <1>1 DEF Elem
<1>9. /\ tunnelMutex = "free" /\ tunnelMutex' = h
      /\ conn' = [conn EXCEPT ![t] = IF @ = "open" THEN "closing" ELSE @]
  BY DEF RemoveAndClose
<1>10. /\ conn' \in [Tunnel -> {"open", "closing", "closed"}]
       /\ \A u \in Tunnel : u # t => conn'[u] = conn[u]
       /\ conn'[t] = IF conn[t] = "open" THEN "closing" ELSE conn[t]
  BY <1>9 DEF TunnelsOK
<1> QED
  BY <1>6, <1>7, <1>8, <1>9, <1>10

\* What a send and a receive do to the contents of a channel.
LEMMA ChannelElems ==
    ASSUME NEW s \in Seq(Tunnel)
    PROVE  /\ \A e \in Tunnel : \A u : Elem(Append(s, e), u) <=> u = e \/ Elem(s, u)
           /\ s # <<>> => \A u : Elem(s, u) <=> u = Head(s) \/ Elem(Tail(s), u)
           /\ \A u : ~Elem(<<>>, u)
           /\ \A u : Elem(s, u) => u \in Tunnel
<1>1. ASSUME NEW e \in Tunnel, NEW u
      PROVE  Elem(Append(s, e), u) <=> u = e \/ Elem(s, u)
  <2>1. /\ DOMAIN s = 1..Len(s) /\ Len(s) \in Nat /\ DOMAIN Append(s, e) = 1..(Len(s) + 1)
        /\ Append(s, e)[Len(s) + 1] = e
        /\ \A i \in 1..Len(s) : Append(s, e)[i] = s[i]
    OBVIOUS
  <2> QED
    BY <2>1 DEF Elem
<1>2. ASSUME s # <<>>, NEW u
      PROVE  Elem(s, u) <=> u = Head(s) \/ Elem(Tail(s), u)
  <2>1. /\ DOMAIN s = 1..Len(s) /\ Len(s) \in Nat \ {0} /\ DOMAIN Tail(s) = 1..(Len(s) - 1)
        /\ Head(s) = s[1] /\ \A i \in 1..(Len(s) - 1) : Tail(s)[i] = s[i + 1]
    BY <1>2
  <2>2. Elem(Tail(s), u) => Elem(s, u)
    BY <2>1 DEF Elem
  <2>3. Elem(s, Head(s))
    BY <2>1 DEF Elem
  <2>4. ASSUME NEW i \in 1..Len(s), s[i] = u, u # Head(s)
        PROVE  Elem(Tail(s), u)
    <3>1. i - 1 \in 1..(Len(s) - 1) /\ Tail(s)[i - 1] = u
      BY <2>1, <2>4
    <3> QED
      BY <2>1, <3>1 DEF Elem
  <2> QED
    BY <2>1, <2>2, <2>3, <2>4 DEF Elem
<1>3. \A u : ~Elem(<<>>, u)
  BY DEF Elem
<1>4. \A u : Elem(s, u) => u \in Tunnel
  BY DEF Elem
<1> QED
  BY <1>1, <1>2, <1>3, <1>4

\* The steps that touch neither the pool, the channels, the tunnels, runTunnels
\* nor a TerminateNextActiveTunnel call.
QuietStep ==
    \/ LaunchNext \/ GeneratorNext \/ IteratorFails
    \/ \E w \in Worker : \/ WorkerExits(w) \/ SkipActiveServer(w) \/ SkipCandidate(w)
                         \/ \E b \in BOOLEAN : BeginDial(w, b)
                         \/ DialFails(w)
    \/ Dial \/ RequestRestart \/ EstablishTunnelTimeout \/ Stop
    \/ UNCHANGED vars

\* They leave all of that alone.
LEMMA QuietFrame ==
    ASSUME QuietStep
    PROVE  UNCHANGED <<tunnels, tunnelMutex, connectedTunnels, failedTunnels, conn, op, reporter,
                       rt, rtNext, rtTunnel, isFirstTunnel, host, hostTunnel, isEstablishing>>
<1> USE DEF poolVars, channelVars, tunnelVars, establishVars, workerVars, rtVars, hostVars
<1>1. CASE LaunchNext
  BY <1>1 DEF LaunchNext, AwaitTactics, SetTunnelPoolSize, DoConstraintsScan, SpawnWorkers
<1>2. CASE GeneratorNext \/ IteratorFails
  <2>1. CASE \E b \in BOOLEAN : GeneratorStart(b)
    BY <2>1 DEF GeneratorStart
  <2>2. CASE \E w \in Worker, s \in Server : OfferCandidate(w, s)
    BY <2>2 DEF OfferCandidate
  <2>3. CASE GeneratorAdvance \/ GeneratorStopped \/ IteratorFails
    BY <2>3 DEF GeneratorAdvance, GeneratorStopped, IteratorFails
  <2> QED
    BY <1>2, <2>1, <2>2, <2>3 DEF GeneratorNext
<1>3. ASSUME NEW w \in Worker,
             \/ WorkerExits(w) \/ SkipActiveServer(w) \/ SkipCandidate(w)
             \/ \E b \in BOOLEAN : BeginDial(w, b)
             \/ DialFails(w)
      PROVE  UNCHANGED <<tunnels, tunnelMutex, connectedTunnels, failedTunnels, conn, op, reporter,
                         rt, rtNext, rtTunnel, isFirstTunnel, host, hostTunnel, isEstablishing>>
  BY <1>3 DEF WorkerExits, SkipActiveServer, SkipCandidate, BeginDial, DialFails
<1>4. CASE Dial \/ RequestRestart \/ EstablishTunnelTimeout \/ Stop \/ UNCHANGED vars
  BY <1>4 DEF Dial, AdvanceNextTunnel, RequestRestart, EstablishTunnelTimeout, Stop, vars
<1> QED
  BY <1>1, <1>2, <1>3, <1>4 DEF QuietStep

\* The steps of runTunnels that decide where it goes on, and no more.
ControlStep ==
    \/ RunStart \/ EstablishingStopped \/ RunRestart \/ RunCount
    \/ RunActivateFails \/ RunReject \/ RunShutdown

\* They leave the tunnels, the channels and the workers alone.
LEMMA ControlFrame ==
    ASSUME ControlStep
    PROVE  UNCHANGED <<tunnels, tunnelMutex, connectedTunnels, failedTunnels, conn, op, reporter,
                       rtTunnel, host, hostTunnel, worker>>
BY DEF ControlStep, RunStart, EstablishingStopped, RunRestart, RunCount, RunActivateFails,
       RunReject, RunShutdown, StartEstablishing, StopEstablishingThen,
       poolVars, channelVars, tunnelVars, establishVars, workerVars, rtVars, hostVars

\* Every step is a quiet one, a control one, or one of the steps that move tunnels.
LEMMA NextCases ==
    ASSUME [Next]_vars
    PROVE  \/ QuietStep \/ ControlStep
           \/ \E w \in Worker : DeliverTunnel(w) \/ \E t \in Tunnel : DialSucceeds(w, t)
           \/ \E t \in Tunnel : OperateNext(t)
           \/ RunFailed \/ RunTerminate \/ RunTerminated \/ RunConnected \/ RunActivate
           \/ RunRegister \/ RunDiscard \/ RunDiscarded \/ RunRegistered
           \/ RunTerminateAll \/ RunTerminatedAll \/ RunDrainConnected \/ RunDrainFailed
           \/ TerminateNextActiveTunnel \/ HostSignals \/ HostTerminates \/ HostTerminated
BY DEF Next, WorkerNext, RunNext, HostNext, QuietStep, ControlStep

\* The states that a worker is put into, field by field.
LEMMA IdleFields ==
    /\ IdleWorker.pc = "none" /\ IdleWorker.tunnel = NoTunnel /\ IdleWorker.affinity = FALSE
    /\ LET v == [IdleWorker EXCEPT !.pc = "receive"]
       IN  v.pc = "receive" /\ v.tunnel = NoTunnel /\ v.affinity = FALSE
    /\ \A s, b : LET v == [IdleWorker EXCEPT !.pc = "check", !.server = s, !.affinity = b]
                 IN  v.pc = "check" /\ v.tunnel = NoTunnel /\ v.affinity = b
BY DEF IdleWorker

\* A worker that gives up or finishes its candidate.
Idles(w) ==
    /\ worker'[w].pc \in {"none", "receive"} /\ worker'[w].tunnel = NoTunnel
    /\ worker'[w].affinity = FALSE
    /\ \A v \in Worker \ {w} : worker'[v] = worker[v]

\* Every way in which a worker is done with its candidate.
LEMMA WorkerIdles ==
    ASSUME EstablishOK, NEW w \in Worker,
           \/ WorkerExits(w) \/ SkipActiveServer(w) \/ SkipCandidate(w)
           \/ DialFails(w) \/ DeliverTunnel(w)
    PROVE  Idles(w)
<1>1. \/ worker' = [worker EXCEPT ![w] = IdleWorker]
      \/ worker' = [worker EXCEPT ![w] = [IdleWorker EXCEPT !.pc = "receive"]]
  BY DEF WorkerExits, SkipActiveServer, SkipCandidate, DialFails, DeliverTunnel
<1>2. worker \in [Worker -> WorkerState]
  BY DEF EstablishOK
<1> QED
  BY <1>1, <1>2, IdleFields DEF Idles

\* What the start and the success of a dial, and a new candidate, do to a worker.
LEMMA WorkerDials ==
    ASSUME EstablishOK, NEW w \in Worker
    PROVE  /\ \A b \in BOOLEAN : BeginDial(w, b) =>
                /\ worker[w].pc = "check" /\ worker'[w].pc = "dial"
                /\ worker'[w].tunnel = worker[w].tunnel /\ worker'[w].affinity = worker[w].affinity
                /\ \A v \in Worker \ {w} : worker'[v] = worker[v]
           /\ \A t \in Tunnel : DialSucceeds(w, t) =>
                /\ worker[w].pc = "dial" /\ worker'[w].pc = "deliver"
                /\ worker'[w].tunnel = t /\ worker'[w].affinity = worker[w].affinity
                /\ \A v \in Worker \ {w} : worker'[v] = worker[v]
           /\ \A s \in Server : OfferCandidate(w, s) =>
                /\ worker[w].pc = "receive" /\ worker'[w].pc = "check"
                /\ worker'[w].tunnel = NoTunnel /\ worker'[w].affinity = genAffinity
                /\ \A v \in Worker \ {w} : worker'[v] = worker[v]
<1>0. worker \in [Worker -> WorkerState]
  BY DEF EstablishOK
<1>1. ASSUME NEW b \in BOOLEAN, BeginDial(w, b)
      PROVE  /\ worker[w].pc = "check" /\ worker'[w].pc = "dial"
             /\ worker'[w].tunnel = worker[w].tunnel /\ worker'[w].affinity = worker[w].affinity
             /\ \A v \in Worker \ {w} : worker'[v] = worker[v]
  BY <1>0, <1>1 DEF BeginDial, WorkerState
<1>2. ASSUME NEW t \in Tunnel, DialSucceeds(w, t)
      PROVE  /\ worker[w].pc = "dial" /\ worker'[w].pc = "deliver"
             /\ worker'[w].tunnel = t /\ worker'[w].affinity = worker[w].affinity
             /\ \A v \in Worker \ {w} : worker'[v] = worker[v]
  BY <1>0, <1>2 DEF DialSucceeds, WorkerState
<1>3. ASSUME NEW s \in Server, OfferCandidate(w, s)
      PROVE  /\ worker[w].pc = "receive" /\ worker'[w].pc = "check"
             /\ worker'[w].tunnel = NoTunnel /\ worker'[w].affinity = genAffinity
             /\ \A v \in Worker \ {w} : worker'[v] = worker[v]
  BY <1>0, <1>3, IdleFields DEF OfferCandidate
<1> QED
  BY <1>1, <1>2, <1>3

\* The workers start without a candidate.
LEMMA SpawnFacts ==
    ASSUME SpawnWorkers
    PROVE  \A w \in Worker : /\ worker'[w].pc = "receive" /\ worker'[w].tunnel = NoTunnel
                             /\ worker'[w].affinity = FALSE
BY IdleFields DEF SpawnWorkers

\* The steps that leave the establishment alone.
OtherStep ==
    \/ \E t \in Tunnel : OperateNext(t)
    \/ RunRestart \/ RunFailed \/ RunTerminate \/ RunTerminated \/ RunConnected \/ RunCount
    \/ RunActivate \/ RunActivateFails \/ RunRegister \/ RunDiscard \/ RunDiscarded
    \/ RunRegistered \/ RunShutdown \/ RunTerminateAll \/ RunTerminatedAll
    \/ RunDrainConnected \/ RunDrainFailed
    \/ HostNext \/ UNCHANGED vars

\* They leave the establishment alone.
LEMMA OtherFrame ==
    ASSUME OtherStep
    PROVE  UNCHANGED <<isEstablishing, launch, gen, genAffinity, affinityDone, worker>>
<1> USE DEF poolVars, channelVars, tunnelVars, establishVars, workerVars, rtVars, hostVars
<1>1. ASSUME NEW t \in Tunnel, OperateNext(t)
      PROVE  UNCHANGED <<isEstablishing, launch, gen, genAffinity, affinityDone, worker>>
  BY <1>1 DEF OperateNext, TunnelClosed, OperateFails, OperateStops, OperateSignals,
         OperateTerminates
<1>2. CASE RunRestart \/ RunCount \/ RunRegistered \/ RunShutdown
  BY <1>2 DEF RunRestart, RunCount, RunRegistered, RunShutdown, StopEstablishingThen
<1>3. CASE \/ RunFailed \/ RunTerminate \/ RunTerminated \/ RunConnected
           \/ RunActivate \/ RunActivateFails \/ RunRegister \/ RunDiscard \/ RunDiscarded
           \/ RunTerminateAll \/ RunTerminatedAll \/ RunDrainConnected \/ RunDrainFailed
  BY <1>3 DEF RunFailed, RunTerminate, RunTerminated, RunConnected, RunActivate,
         RunActivateFails, RunRegister, RunDiscard, RunDiscarded, RunTerminateAll,
         RunTerminatedAll, RunDrainConnected, RunDrainFailed
<1>4. CASE HostNext \/ UNCHANGED vars
  BY <1>4 DEF HostNext, Dial, TerminateNextActiveTunnel, HostSignals, HostTerminates,
         HostTerminated, RequestRestart, EstablishTunnelTimeout, Stop, vars
<1> QED
  BY <1>1, <1>2, <1>3, <1>4 DEF OtherStep

\* The steps that may touch the establishment.
LEMMA EstablishCases ==
    ASSUME [Next]_vars
    PROVE  \/ OtherStep \/ LaunchNext \/ GeneratorNext \/ IteratorFails
           \/ RunStart \/ RunReject \/ EstablishingStopped
           \/ \E w \in Worker : WorkerNext(w)
BY DEF Next, RunNext, OtherStep

\* StartEstablishing in the code's two places, and the end of an establishment.
LEMMA RestartFacts ==
    ASSUME EstablishmentContained, RunStart \/ RunReject \/ EstablishingStopped
    PROVE  /\ UNCHANGED <<gen, genAffinity, worker>>
           /\ \/ UNCHANGED <<launch, affinityDone>>
              \/ /\ launch' \in {"tactics", launch} /\ affinityDone' = FALSE
                 /\ gen = "none" /\ \A w \in Worker : worker[w].pc = "none"
<1>1. CASE RunStart \/ RunReject
  <2>1. \/ UNCHANGED <<establishVars, workerVars>>
        \/ ~isEstablishing /\ launch' = "tactics" /\ affinityDone' = FALSE
           /\ UNCHANGED <<gen, genAffinity, worker>>
    BY <1>1 DEF RunStart, RunReject, StartEstablishing
  <2> QED
    BY <2>1 DEF EstablishmentContained, EstablishIdle, establishVars, workerVars
<1>2. CASE EstablishingStopped
  BY <1>2 DEF EstablishingStopped, EstablishIdle
<1> QED
  BY <1>1, <1>2

\* What the generator does to the establishment.
LEMMA GeneratorFacts ==
    ASSUME GeneratorNext \/ IteratorFails
    PROVE  /\ launch' = launch /\ gen # "none"
           /\ \/ /\ gen = "start" /\ gen' = "offer" /\ genAffinity' \in BOOLEAN
                 /\ CloseAffinityIf(~genAffinity') /\ worker' = worker
              \/ /\ \E w \in Worker, s \in Server : OfferCandidate(w, s)
                 /\ gen' \in {"offer", "grace", "pause"} /\ genAffinity' = FALSE
                 /\ UNCHANGED <<affinityDone, fault>>
              \/ /\ gen # "start" /\ gen' \in {"offer", "pause"}
                 /\ UNCHANGED <<genAffinity, affinityDone, worker, fault>>
              \/ /\ gen' = "none" /\ genAffinity' = FALSE
                 /\ UNCHANGED <<affinityDone, worker, fault>>
<1>1. CASE \E b \in BOOLEAN : GeneratorStart(b)
  <2>1. PICK b \in BOOLEAN : GeneratorStart(b)
    BY <1>1
  <2>2. genAffinity' = (b /\ tunnelPoolSize <= 1)
    BY <2>1 DEF GeneratorStart
  <2>3. genAffinity' \in BOOLEAN
    BY <2>2
  <2> QED
    BY <2>1, <2>3 DEF GeneratorStart, workerVars
<1>2. CASE \E w \in Worker, s \in Server : OfferCandidate(w, s)
  <2>1. PICK w \in Worker, s \in Server : OfferCandidate(w, s)
    BY <1>2
  <2>2. gen = "offer" /\ UNCHANGED <<launch, affinityDone, fault>>
    BY <2>1 DEF OfferCandidate
  <2>3. gen' \in {IF genAffinity THEN "grace" ELSE "offer", "pause"}
    BY <2>1 DEF OfferCandidate
  <2>4. gen' \in {"offer", "grace", "pause"}
    BY <2>3
  <2>5. genAffinity' = FALSE
    BY <2>1, Zenon DEF OfferCandidate
  <2> QED
    BY <1>2, <2>2, <2>4, <2>5
<1>3. CASE GeneratorAdvance
  BY <1>3 DEF GeneratorAdvance, workerVars
<1>4. CASE GeneratorStopped \/ IteratorFails
  BY <1>4 DEF GeneratorStopped, IteratorFails, workerVars
<1> QED
  BY <1>1, <1>2, <1>3, <1>4 DEF GeneratorNext

\* launchEstablishing ends before what it starts.
LEMMA NextLaunchAlone ==
    ASSUME TypeInv, EstablishmentContained, LaunchAlone, [Next]_vars
    PROVE  LaunchAlone'
<1>0. EstablishOK
  BY DEF TypeInv, TypeOK
<1>1. CASE OtherStep
  BY <1>1, OtherFrame DEF LaunchAlone
<1>2. CASE LaunchNext
  <2>1. CASE AwaitTactics \/ (\E n \in TunnelPoolSizes : SetTunnelPoolSize(n)) \/ DoConstraintsScan
    <3>1. launch # "none" /\ UNCHANGED <<gen, worker>>
      BY <2>1 DEF AwaitTactics, SetTunnelPoolSize, DoConstraintsScan, workerVars
    <3> QED
      BY <3>1 DEF LaunchAlone
  <2>2. CASE SpawnWorkers
    BY <2>2 DEF SpawnWorkers, LaunchAlone
  <2> QED
    BY <1>2, <2>1, <2>2 DEF LaunchNext
<1>3. CASE GeneratorNext \/ IteratorFails
  <2>1. launch' = launch /\ gen # "none"
    BY <1>3, GeneratorFacts
  <2> QED
    BY <2>1 DEF LaunchAlone
<1>4. CASE RunStart \/ RunReject \/ EstablishingStopped
  BY <1>4, RestartFacts DEF LaunchAlone
<1>5. ASSUME NEW w \in Worker, WorkerNext(w)
      PROVE  LaunchAlone'
  <2>1. launch' = launch /\ worker[w].pc # "none"
    BY <1>5 DEF WorkerNext, WorkerExits, SkipActiveServer, SkipCandidate, BeginDial,
           DialSucceeds, DialFails, DeliverTunnel, establishVars
  <2> QED
    BY <2>1 DEF LaunchAlone
<1> QED
  BY <1>1, <1>2, <1>3, <1>4, <1>5, EstablishCases

\* serverAffinityDoneBroadcast is closed once in an establishment.
LEMMA NextAffinityOnce ==
    ASSUME TypeInv, EstablishmentContained, LaunchAlone, WorkerHolds, AffinityOnce, [Next]_vars
    PROVE  AffinityOnce'
<1>0. EstablishOK /\ affinityDone \in BOOLEAN /\ genAffinity \in BOOLEAN
  BY DEF TypeInv, TypeOK, FlagsOK
<1>a. /\ genAffinity \/ affinityDone => launch = "none" /\ gen # "start"
      /\ gen = "none" => ~genAffinity
      /\ affinityDone \/ gen = "start" => ~genAffinity
      /\ affinityDone \/ genAffinity \/ gen = "start" => \A w \in Worker : ~worker[w].affinity
      /\ \A v, w \in Worker : worker[v].affinity /\ worker[w].affinity => v = w
      /\ gen # "none" => launch = "none"
  BY DEF AffinityOnce, LaunchAlone
<1>1. CASE OtherStep
  BY <1>1, OtherFrame DEF AffinityOnce
<1>2. CASE LaunchNext
  <2>1. CASE AwaitTactics \/ (\E n \in TunnelPoolSizes : SetTunnelPoolSize(n)) \/ DoConstraintsScan
    <3>1. launch # "none" /\ UNCHANGED <<gen, worker, genAffinity, affinityDone>>
      BY <2>1 DEF AwaitTactics, SetTunnelPoolSize, DoConstraintsScan, workerVars
    <3> QED
      BY <1>a, <3>1 DEF AffinityOnce
  <2>2. CASE SpawnWorkers
    <3>1. /\ launch = "spawn" /\ gen' = "start" /\ launch' = "none"
          /\ UNCHANGED <<genAffinity, affinityDone>>
      BY <2>2 DEF SpawnWorkers
    <3>2. ~genAffinity /\ ~affinityDone /\ \A w \in Worker : ~worker'[w].affinity
      BY <1>a, <2>2, <3>1, SpawnFacts
    <3> QED
      BY <3>1, <3>2 DEF AffinityOnce
  <2> QED
    BY <1>2, <2>1, <2>2 DEF LaunchNext
<1>3. CASE GeneratorNext \/ IteratorFails
  <2>0. launch' = "none" /\ launch = "none"
    BY <1>3, <1>a, GeneratorFacts
  <2>1. CASE /\ gen = "start" /\ gen' = "offer" /\ genAffinity' \in BOOLEAN
             /\ CloseAffinityIf(~genAffinity') /\ worker' = worker
    <3>1. affinityDone' <=> ~genAffinity'
      BY <1>0, <1>a, <2>1 DEF CloseAffinityIf, CloseAffinity
    <3> QED
      BY <1>a, <2>0, <2>1, <3>1 DEF AffinityOnce
  <2>2. CASE /\ \E w \in Worker, s \in Server : OfferCandidate(w, s)
             /\ gen' \in {"offer", "grace", "pause"} /\ genAffinity' = FALSE
             /\ UNCHANGED <<affinityDone, fault>>
    <3>1. PICK w \in Worker, s \in Server : OfferCandidate(w, s)
      BY <2>2
    <3>2. worker'[w].affinity = genAffinity /\ \A v \in Worker \ {w} : worker'[v] = worker[v]
      BY <1>0, <3>1, WorkerDials
    <3> QED
      BY <1>0, <1>a, <2>0, <2>2, <3>2 DEF AffinityOnce
  <2>3. CASE /\ gen # "start" /\ gen' \in {"offer", "pause"}
             /\ UNCHANGED <<genAffinity, affinityDone, worker, fault>>
    BY <1>a, <2>0, <2>3 DEF AffinityOnce
  <2>4. CASE /\ gen' = "none" /\ genAffinity' = FALSE
             /\ UNCHANGED <<affinityDone, worker, fault>>
    BY <1>a, <2>0, <2>4 DEF AffinityOnce
  <2> QED
    BY <1>3, <2>1, <2>2, <2>3, <2>4, GeneratorFacts
<1>4. CASE RunStart \/ RunReject \/ EstablishingStopped
  <2>1. CASE UNCHANGED <<launch, affinityDone>>
    BY <1>4, <2>1, RestartFacts DEF AffinityOnce
  <2>2. CASE /\ affinityDone' = FALSE /\ gen = "none"
             /\ \A w \in Worker : worker[w].pc = "none"
    <3>1. gen' = "none" /\ genAffinity' = FALSE /\ worker' = worker
      BY <1>0, <1>4, <1>a, <2>2, RestartFacts
    <3>2. \A w \in Worker : ~worker'[w].affinity
      BY <2>2, <3>1 DEF WorkerHolds
    <3> QED
      BY <2>2, <3>1, <3>2 DEF AffinityOnce
  <2> QED
    BY <1>4, <2>1, <2>2, RestartFacts
<1>5. ASSUME NEW w \in Worker, WorkerNext(w)
      PROVE  AffinityOnce'
  <2>0. launch' = launch /\ worker[w].pc # "none" /\ UNCHANGED <<gen, genAffinity>>
    BY <1>5 DEF WorkerNext, WorkerExits, SkipActiveServer, SkipCandidate, BeginDial,
           DialSucceeds, DialFails, DeliverTunnel, establishVars
  <2>1. launch = "none"
    BY <2>0 DEF LaunchAlone
  <2>2. CASE (\E b \in BOOLEAN : BeginDial(w, b)) \/ (\E t \in Tunnel : DialSucceeds(w, t))
    <3>1. /\ worker'[w].affinity = worker[w].affinity
          /\ \A v \in Worker \ {w} : worker'[v] = worker[v]
      BY <1>0, <2>2, WorkerDials
    <3>2. affinityDone' = affinityDone
      BY <2>2 DEF BeginDial, DialSucceeds, establishVars
    <3>3. \A v \in Worker : worker'[v].affinity = worker[v].affinity
      BY <3>1
    <3> QED
      BY <1>a, <2>0, <3>2, <3>3 DEF AffinityOnce
  <2>3. CASE \/ WorkerExits(w) \/ SkipActiveServer(w) \/ SkipCandidate(w) \/ DialFails(w)
             \/ DeliverTunnel(w)
    <3>1. ~worker'[w].affinity /\ \A v \in Worker \ {w} : worker'[v] = worker[v]
      BY <1>0, <2>3, WorkerIdles DEF Idles
    <3>2. affinityDone' => affinityDone \/ worker[w].affinity
      BY <1>0, <2>3 DEF WorkerExits, SkipActiveServer, SkipCandidate, DialFails, DeliverTunnel,
             CloseAffinityIf, CloseAffinity, establishVars
    <3>3. worker[w].affinity => \A v \in Worker \ {w} : ~worker[v].affinity
      BY <1>a
    <3>4. worker[w].affinity => ~genAffinity /\ gen # "start"
      BY <1>a
    <3> QED
      BY <1>a, <2>0, <2>1, <3>1, <3>2, <3>3, <3>4 DEF AffinityOnce
  <2> QED
    BY <1>5, <2>2, <2>3 DEF WorkerNext
<1> QED
  BY <1>1, <1>2, <1>3, <1>4, <1>5, EstablishCases

\* A receive keeps the elements of a channel distinct, and so does the send of
\* an element that it does not have.
LEMMA OnceSteps ==
    ASSUME NEW s \in Seq(Tunnel), Once(s)
    PROVE  /\ \A e \in Tunnel : ~Elem(s, e) => Once(Append(s, e))
           /\ s # <<>> => Once(Tail(s)) /\ ~Elem(Tail(s), Head(s))
<1>1. ASSUME NEW e \in Tunnel, ~Elem(s, e)
      PROVE  Once(Append(s, e))
  <2>1. /\ DOMAIN s = 1..Len(s) /\ Len(s) \in Nat /\ DOMAIN Append(s, e) = 1..(Len(s) + 1)
        /\ Append(s, e)[Len(s) + 1] = e
        /\ \A i \in 1..Len(s) : Append(s, e)[i] = s[i]
    OBVIOUS
  <2>2. \A i \in 1..(Len(s) + 1) : i = Len(s) + 1 \/ i \in 1..Len(s)
    BY <2>1
  <2>3. \A i \in 1..Len(s) : s[i] # e
    BY <1>1, <2>1 DEF Elem
  <2> QED
    BY <2>1, <2>2, <2>3 DEF Once
<1>2. ASSUME s # <<>>
      PROVE  Once(Tail(s)) /\ ~Elem(Tail(s), Head(s))
  <2>1. /\ DOMAIN s = 1..Len(s) /\ Len(s) \in Nat \ {0} /\ DOMAIN Tail(s) = 1..(Len(s) - 1)
        /\ Head(s) = s[1] /\ \A i \in 1..(Len(s) - 1) : Tail(s)[i] = s[i + 1]
    BY <1>2
  <2>2. \A i \in 1..(Len(s) - 1) : i + 1 \in 1..Len(s) /\ i + 1 # 1
    BY <2>1
  <2>3. Once(Tail(s))
    <3> SUFFICES ASSUME NEW i \in 1..(Len(s) - 1), NEW j \in 1..(Len(s) - 1),
                        Tail(s)[i] = Tail(s)[j]
                 PROVE  i = j
      BY <2>1 DEF Once
    <3>1. i + 1 = j + 1
      BY <2>1, <2>2 DEF Once
    <3> QED
      BY <3>1
  <2>4. ~Elem(Tail(s), Head(s))
    <3>1. 1 \in 1..Len(s)
      BY <2>1
    <3> QED
      BY <2>1, <2>2, <3>1 DEF Once, Elem
  <2> QED
    BY <2>3, <2>4
<1> QED
  BY <1>1, <1>2

\* In a quiet step no worker gets or gives up a tunnel.
LEMMA QuietWorkers ==
    ASSUME EstablishOK, WorkerHolds, LaunchAlone, QuietStep
    PROVE  \A w \in Worker : /\ worker'[w].tunnel = worker[w].tunnel
                             /\ worker'[w].pc # "deliver" => worker'[w].tunnel = NoTunnel
                             /\ worker'[w].pc \in {"none", "receive"} => ~worker'[w].affinity
<1> SUFFICES ASSUME NEW w \in Worker
             PROVE  /\ worker'[w].tunnel = worker[w].tunnel
                    /\ worker'[w].pc # "deliver" => worker'[w].tunnel = NoTunnel
                    /\ worker'[w].pc \in {"none", "receive"} => ~worker'[w].affinity
  OBVIOUS
<1>w. \A v \in Worker : /\ worker[v].pc # "deliver" => worker[v].tunnel = NoTunnel
                        /\ worker[v].pc \in {"none", "receive"} => ~worker[v].affinity
  BY DEF WorkerHolds
<1>1. CASE LaunchNext
  <2>1. CASE AwaitTactics \/ (\E n \in TunnelPoolSizes : SetTunnelPoolSize(n)) \/ DoConstraintsScan
    <3>1. worker' = worker
      BY <2>1 DEF AwaitTactics, SetTunnelPoolSize, DoConstraintsScan, workerVars
    <3> QED
      BY <1>w, <3>1
  <2>2. CASE SpawnWorkers
    <3>1. worker[w].pc = "none"
      BY <2>2 DEF SpawnWorkers, LaunchAlone
    <3> QED
      BY <1>w, <2>2, <3>1, SpawnFacts
  <2> QED
    BY <1>1, <2>1, <2>2 DEF LaunchNext
<1>2. CASE GeneratorNext \/ IteratorFails
  <2>1. CASE worker' = worker
    BY <1>w, <2>1
  <2>2. CASE \E v \in Worker, s \in Server : OfferCandidate(v, s)
    <3>1. PICK v \in Worker, s \in Server : OfferCandidate(v, s)
      BY <2>2
    <3>2. /\ worker[v].pc = "receive" /\ worker'[v].pc = "check"
          /\ worker'[v].tunnel = NoTunnel
          /\ \A u \in Worker \ {v} : worker'[u] = worker[u]
      BY <3>1, WorkerDials
    <3> QED
      BY <1>w, <3>2
  <2> QED
    BY <1>2, <2>1, <2>2, GeneratorFacts
<1>3. ASSUME NEW v \in Worker,
             WorkerExits(v) \/ SkipActiveServer(v) \/ SkipCandidate(v) \/ DialFails(v)
      PROVE  /\ worker'[w].tunnel = worker[w].tunnel
             /\ worker'[w].pc # "deliver" => worker'[w].tunnel = NoTunnel
             /\ worker'[w].pc \in {"none", "receive"} => ~worker'[w].affinity
  <2>1. worker[v].pc # "deliver"
    BY <1>3 DEF WorkerExits, SkipActiveServer, SkipCandidate, DialFails
  <2> QED
    BY <1>w, <1>3, <2>1, WorkerIdles DEF Idles
<1>4. ASSUME NEW v \in Worker, NEW b \in BOOLEAN, BeginDial(v, b)
      PROVE  /\ worker'[w].tunnel = worker[w].tunnel
             /\ worker'[w].pc # "deliver" => worker'[w].tunnel = NoTunnel
             /\ worker'[w].pc \in {"none", "receive"} => ~worker'[w].affinity
  <2>1. /\ worker[v].pc = "check" /\ worker'[v].pc = "dial"
        /\ worker'[v].tunnel = worker[v].tunnel /\ worker'[v].affinity = worker[v].affinity
        /\ \A u \in Worker \ {v} : worker'[u] = worker[u]
    BY <1>4, WorkerDials
  <2> QED
    BY <1>w, <2>1
<1>5. CASE Dial \/ RequestRestart \/ EstablishTunnelTimeout \/ Stop \/ UNCHANGED vars
  <2>1. worker' = worker
    BY <1>5 DEF Dial, RequestRestart, EstablishTunnelTimeout, Stop, vars, workerVars
  <2> QED
    BY <1>w, <2>1
<1> QED
  BY <1>1, <1>2, <1>3, <1>4, <1>5 DEF QuietStep

\* An empty channel or pool.
LEMMA NoElem == \A u : ~Elem(<<>>, u)
BY DEF Elem

----------------------------------------------------------------------------
(* What every step does to the places of the tunnels *)

\* The state before a step.
SafeState ==
    /\ TypeInv /\ EstablishmentContained /\ WorkerOwnsTunnel /\ PoolServersDistinct
    /\ LaunchAlone /\ PlaceInv

\* Its parts.
LEMMA SafeParts ==
    ASSUME SafeState
    PROVE  /\ PoolOK /\ TunnelsOK /\ EstablishOK /\ RunOK /\ RunHandsOK /\ WorkerHandsOK
           /\ PlaceInv
BY DEF SafeState, TypeInv, TypeOK

\* A quiet step moves no tunnel.
LEMMA QuietPlace ==
    ASSUME SafeState, QuietStep
    PROVE  PlaceInv'
<1>0. /\ PoolOK /\ TunnelsOK /\ EstablishOK /\ RunOK /\ RunHandsOK /\ WorkerHandsOK
      /\ PlaceInv
  BY SafeParts
<1>a. UNCHANGED <<tunnels, tunnelMutex, connectedTunnels, failedTunnels, conn, op, reporter,
                  rt, rtNext, rtTunnel, isFirstTunnel, host, hostTunnel, isEstablishing>>
  BY QuietFrame
<1>b. \A w \in Worker : /\ worker'[w].tunnel = worker[w].tunnel
                        /\ worker'[w].pc # "deliver" => worker'[w].tunnel = NoTunnel
                        /\ worker'[w].pc \in {"none", "receive"} => ~worker'[w].affinity
  BY <1>0, QuietWorkers DEF PlaceInv, SafeState
<1>1. /\ MutexHeld' /\ ClosedIdle' /\ ConnectedFresh' /\ RunHand' /\ OperatedPlaced'
      /\ FirstAlone' /\ ShutdownOrder' /\ PoolOpen' /\ OneStatusReporter'
  BY <1>0, <1>a
     DEF PlaceInv, MutexHeld, ClosedIdle, ConnectedFresh, RunHand, RunFresh, RunHolds,
         RunHandsOK, OperatedPlaced, Terminating, FirstAlone, ShutdownOrder, ConnectedClosed,
         FailedClosed, PoolOpen, OneStatusReporter
<1>2. WorkerHolds'
  BY <1>0, <1>a, <1>b DEF WorkerHolds, PlaceInv
<1>3. OpenPlaced'
  BY <1>0, <1>a, <1>b DEF OpenPlaced, Terminating, RunHolds, RunFresh, PlaceInv
<1> QED
  BY <1>1, <1>2, <1>3 DEF PlaceInv

\* startEstablishing, and the end of stopEstablishing.
LEMMA StartPlace ==
    ASSUME SafeState, RunStart \/ EstablishingStopped
    PROVE  PlaceInv'
<1>0. /\ PoolOK /\ TunnelsOK /\ EstablishOK /\ RunOK /\ RunHandsOK /\ WorkerHandsOK
      /\ PlaceInv
  BY SafeParts
<1>a. UNCHANGED <<tunnels, tunnelMutex, connectedTunnels, failedTunnels, conn, op, reporter,
                  rtTunnel, host, hostTunnel, worker>>
  BY ControlFrame DEF ControlStep
<1>b. \/ rt = "start" /\ rt' = "loop" /\ UNCHANGED <<rtNext, isFirstTunnel>>
      \/ /\ rt = "stopping" /\ rt' = rtNext /\ rtNext' = "loop" /\ isEstablishing' = FALSE
         /\ UNCHANGED isFirstTunnel
  BY DEF RunStart, EstablishingStopped
<1>c. rt = "stopping" => rtNext \in {"start", "loop", "activate", "terminateAll"}
  BY <1>0 DEF PlaceInv, RunHand
<1>1. WorkerHolds' /\ ClosedIdle' /\ ConnectedFresh' /\ OneStatusReporter'
  BY <1>0, <1>a
     DEF PlaceInv, WorkerHolds, ClosedIdle, ConnectedFresh, OneStatusReporter
<1>2. MutexHeld'
  BY <1>0, <1>a, <1>b, <1>c DEF MutexHeld, PlaceInv
<1>3. RunHand'
  BY <1>0, <1>a, <1>b, <1>c DEF RunHand, RunFresh, RunHolds, RunHandsOK, PlaceInv
<1>4. OperatedPlaced'
  BY <1>0, <1>a, <1>b, <1>c DEF OperatedPlaced, Terminating, PlaceInv
<1>5. OpenPlaced'
  BY <1>0, <1>a, <1>b, <1>c DEF OpenPlaced, Terminating, RunHolds, RunFresh, PlaceInv
<1>6. FirstAlone'
  BY <1>0, <1>a, <1>b, <1>c DEF FirstAlone, PlaceInv
<1>7. ShutdownOrder'
  BY <1>0, <1>a, <1>b, <1>c DEF ShutdownOrder, ConnectedClosed, FailedClosed, PlaceInv
<1>8. PoolOpen'
  BY <1>0, <1>a, <1>b, <1>c DEF PoolOpen, PlaceInv
<1> QED
  BY <1>1, <1>2, <1>3, <1>4, <1>5, <1>6, <1>7, <1>8 DEF PlaceInv

\* A restart of the establishment, and the end of the run context.
LEMMA RestartPlace ==
    ASSUME SafeState, RunRestart \/ RunShutdown
    PROVE  PlaceInv'
<1>0. /\ PoolOK /\ TunnelsOK /\ EstablishOK /\ RunOK /\ RunHandsOK /\ WorkerHandsOK
      /\ PlaceInv
  BY SafeParts
<1>a. UNCHANGED <<tunnels, tunnelMutex, connectedTunnels, failedTunnels, conn, op, reporter,
                  rtTunnel, host, hostTunnel, worker>>
  BY ControlFrame DEF ControlStep
<1>b. /\ rt = "loop" /\ UNCHANGED <<isFirstTunnel, isEstablishing>>
      /\ \/ UNCHANGED <<rt, rtNext>>
         \/ rt' = "stopping" /\ rtNext' \in {"start", "terminateAll"}
         \/ rt' = "terminateAll" /\ ~isEstablishing /\ UNCHANGED rtNext
  BY DEF RunRestart, RunShutdown, StopEstablishingThen, establishVars
<1>1. WorkerHolds' /\ ClosedIdle' /\ ConnectedFresh' /\ OneStatusReporter'
  BY <1>0, <1>a
     DEF PlaceInv, WorkerHolds, ClosedIdle, ConnectedFresh, OneStatusReporter
<1>2. MutexHeld'
  BY <1>0, <1>a, <1>b DEF MutexHeld, PlaceInv
<1>3. RunHand'
  BY <1>0, <1>a, <1>b DEF RunHand, RunFresh, RunHolds, RunHandsOK, PlaceInv
<1>4. OperatedPlaced'
  BY <1>0, <1>a, <1>b DEF OperatedPlaced, Terminating, PlaceInv
<1>5. OpenPlaced'
  BY <1>0, <1>a, <1>b DEF OpenPlaced, Terminating, RunHolds, RunFresh, PlaceInv
<1>6. FirstAlone'
  BY <1>0, <1>a, <1>b DEF FirstAlone, PlaceInv
<1>7. ShutdownOrder'
  BY <1>0, <1>a, <1>b DEF ShutdownOrder, ConnectedClosed, FailedClosed, PlaceInv
<1>8. PoolOpen'
  BY <1>0, <1>a, <1>b DEF PoolOpen, PlaceInv
<1> QED
  BY <1>1, <1>2, <1>3, <1>4, <1>5, <1>6, <1>7, <1>8 DEF PlaceInv

\* numTunnels: the first tunnel of the pool finds no other operated.
LEMMA CountPlace ==
    ASSUME SafeState, RunCount
    PROVE  PlaceInv'
<1>0. /\ PoolOK /\ TunnelsOK /\ EstablishOK /\ RunOK /\ RunHandsOK /\ WorkerHandsOK
      /\ PlaceInv
  BY SafeParts
<1>a. UNCHANGED <<tunnels, tunnelMutex, connectedTunnels, failedTunnels, conn, op, reporter,
                  rtTunnel, host, hostTunnel, worker>>
  BY ControlFrame DEF ControlStep
<1>b. /\ rt = "count" /\ tunnelMutex = "free" /\ UNCHANGED isEstablishing
      /\ \/ rt' = "discard" /\ rtNext' = "loop" /\ UNCHANGED isFirstTunnel
         \/ /\ isFirstTunnel' = (Len(tunnels) = 0)
            /\ \/ rt' = "activate" /\ UNCHANGED rtNext
               \/ rt' = "stopping" /\ rtNext' = "activate"
  BY DEF RunCount, StopEstablishingThen, establishVars
<1>c. Len(tunnels) = 0 => tunnels = <<>> /\ \A u : ~Elem(tunnels, u)
  BY <1>0, ChannelElems DEF PoolOK
<1>d. Len(tunnels) = 0 => \A t \in Tunnel : op[t] = "none"
  BY <1>0, <1>b, <1>c DEF PlaceInv, OperatedPlaced, Terminating, MutexHeld
<1>1. WorkerHolds' /\ ClosedIdle' /\ ConnectedFresh' /\ OneStatusReporter'
  BY <1>0, <1>a
     DEF PlaceInv, WorkerHolds, ClosedIdle, ConnectedFresh, OneStatusReporter
<1>2. MutexHeld'
  BY <1>0, <1>a, <1>b, <1>c, <1>d DEF MutexHeld, PlaceInv
<1>3. RunHand'
  BY <1>0, <1>a, <1>b, <1>c, <1>d DEF RunHand, RunFresh, RunHolds, RunHandsOK, PlaceInv
<1>4. OperatedPlaced'
  BY <1>0, <1>a, <1>b, <1>c, <1>d DEF OperatedPlaced, Terminating, PlaceInv
<1>5. OpenPlaced'
  BY <1>0, <1>a, <1>b, <1>c, <1>d DEF OpenPlaced, Terminating, RunHolds, RunFresh, PlaceInv
<1>6. FirstAlone'
  BY <1>0, <1>a, <1>b, <1>c, <1>d DEF FirstAlone, PlaceInv
<1>7. ShutdownOrder'
  BY <1>0, <1>a, <1>b, <1>c, <1>d DEF ShutdownOrder, ConnectedClosed, FailedClosed, PlaceInv
<1>8. PoolOpen'
  BY <1>0, <1>a, <1>b, <1>c, <1>d DEF PoolOpen, PlaceInv
<1> QED
  BY <1>1, <1>2, <1>3, <1>4, <1>5, <1>6, <1>7, <1>8 DEF PlaceInv

\* A tunnel that is not activated or not registered is to be discarded.
LEMMA RejectPlace ==
    ASSUME SafeState, RunActivateFails \/ RunReject
    PROVE  PlaceInv'
<1>0. /\ PoolOK /\ TunnelsOK /\ EstablishOK /\ RunOK /\ RunHandsOK /\ WorkerHandsOK
      /\ PlaceInv
  BY SafeParts
<1>a. UNCHANGED <<tunnels, tunnelMutex, connectedTunnels, failedTunnels, conn, op, reporter,
                  rtTunnel, host, hostTunnel, worker>>
  BY ControlFrame DEF ControlStep
<1>b. \/ rt = "activate" /\ rt' = "reject" /\ UNCHANGED <<rtNext, isFirstTunnel>>
      \/ rt = "reject" /\ rt' = "discard" /\ rtNext' = "loop" /\ UNCHANGED isFirstTunnel
  BY DEF RunActivateFails, RunReject
<1>1. WorkerHolds' /\ ClosedIdle' /\ ConnectedFresh' /\ OneStatusReporter'
  BY <1>0, <1>a
     DEF PlaceInv, WorkerHolds, ClosedIdle, ConnectedFresh, OneStatusReporter
<1>2. MutexHeld'
  BY <1>0, <1>a, <1>b DEF MutexHeld, PlaceInv
<1>3. RunHand'
  BY <1>0, <1>a, <1>b DEF RunHand, RunFresh, RunHolds, RunHandsOK, PlaceInv
<1>4. OperatedPlaced'
  BY <1>0, <1>a, <1>b DEF OperatedPlaced, Terminating, PlaceInv
<1>5. OpenPlaced'
  BY <1>0, <1>a, <1>b DEF OpenPlaced, Terminating, RunHolds, RunFresh, PlaceInv
<1>6. FirstAlone'
  BY <1>0, <1>a, <1>b DEF FirstAlone, PlaceInv
<1>7. ShutdownOrder'
  BY <1>0, <1>a, <1>b DEF ShutdownOrder, ConnectedClosed, FailedClosed, PlaceInv
<1>8. PoolOpen'
  BY <1>0, <1>a, <1>b DEF PoolOpen, PlaceInv
<1> QED
  BY <1>1, <1>2, <1>3, <1>4, <1>5, <1>6, <1>7, <1>8 DEF PlaceInv

\* A worker connects a tunnel that nothing refers to.
LEMMA DialPlace ==
    ASSUME SafeState, NEW w \in Worker, NEW t \in Tunnel, DialSucceeds(w, t)
    PROVE  PlaceInv'
<1>0. /\ PoolOK /\ TunnelsOK /\ EstablishOK /\ RunOK /\ RunHandsOK /\ WorkerHandsOK
      /\ PlaceInv
  BY SafeParts
<1>a. UNCHANGED <<tunnels, tunnelMutex, connectedTunnels, failedTunnels, op, reporter, rt, rtNext,
                  rtTunnel, isFirstTunnel, host, hostTunnel, isEstablishing>>
  BY DEF DialSucceeds, poolVars, channelVars, rtVars, hostVars, establishVars
<1>b. /\ conn[t] = "closed" /\ op[t] = "none" /\ ~Elem(tunnels, t) /\ ~Elem(connectedTunnels, t)
      /\ t # rtTunnel /\ t # hostTunnel /\ \A v \in Worker : worker[v].tunnel # t
  BY DEF DialSucceeds, Unreferenced, InPool, Elem
<1>c. conn'[t] = "open" /\ \A u \in Tunnel : u # t => conn'[u] = conn[u]
  BY <1>0 DEF DialSucceeds, TunnelsOK
<1>d. /\ worker[w].pc = "dial" /\ worker'[w].pc = "deliver" /\ worker'[w].tunnel = t
      /\ \A v \in Worker \ {w} : worker'[v] = worker[v]
  BY <1>0, WorkerDials
<1>f. worker[w].tunnel = NoTunnel /\ NoTunnel \notin Tunnel
  BY <1>0, <1>d, ControllerAssumption DEF PlaceInv, WorkerHolds
<1>g. \A u \in Tunnel : u # t => \A v \in Worker : worker[v].tunnel = u => worker'[v].tunnel = u
  BY <1>d, <1>f
<1>1. MutexHeld' /\ OperatedPlaced' /\ FirstAlone' /\ ShutdownOrder' /\ OneStatusReporter'
  BY <1>0, <1>a
     DEF PlaceInv, MutexHeld, OperatedPlaced, Terminating, FirstAlone, ShutdownOrder,
         ConnectedClosed, FailedClosed, OneStatusReporter
<1>2. WorkerHolds'
  BY <1>0, <1>a, <1>b, <1>c, <1>d, <1>f, <1>g DEF WorkerHolds, PlaceInv
<1>3. ClosedIdle'
  BY <1>0, <1>a, <1>b, <1>c, <1>d, <1>f, <1>g DEF ClosedIdle, PlaceInv
<1>4. ConnectedFresh'
  BY <1>0, <1>a, <1>b, <1>c, <1>d, <1>f, <1>g DEF ConnectedFresh, PlaceInv
<1>5. RunHand'
  BY <1>0, <1>a, <1>b, <1>c, <1>d, <1>f, <1>g
     DEF RunHand, RunFresh, RunHolds, RunHandsOK, PlaceInv
<1>6. OpenPlaced'
  BY <1>0, <1>a, <1>b, <1>c, <1>d, <1>f, <1>g
     DEF OpenPlaced, Terminating, RunHolds, RunFresh, PlaceInv
<1>7. PoolOpen'
  BY <1>0, <1>a, <1>b, <1>c, <1>d, <1>f, <1>g DEF PoolOpen, PlaceInv
<1> QED
  BY <1>1, <1>2, <1>3, <1>4, <1>5, <1>6, <1>7 DEF PlaceInv

\* A worker delivers its tunnel, or closes it when the channel is full.
LEMMA DeliverPlace ==
    ASSUME SafeState, NEW w \in Worker, DeliverTunnel(w)
    PROVE  PlaceInv'
<1>0. /\ PoolOK /\ TunnelsOK /\ EstablishOK /\ RunOK /\ RunHandsOK /\ WorkerHandsOK
      /\ PlaceInv
  BY SafeParts
<1>a. UNCHANGED <<tunnels, tunnelMutex, failedTunnels, op, reporter, rt, rtNext,
                  rtTunnel, isFirstTunnel, host, hostTunnel, isEstablishing>>
  BY DEF DeliverTunnel, poolVars, rtVars, hostVars
<1>t. PICK t \in Tunnel : worker[w].tunnel = t
  BY <1>0 DEF DeliverTunnel, WorkerHandsOK
<1>b. /\ op[t] = "none" /\ ~Elem(tunnels, t) /\ ~Elem(connectedTunnels, t)
      /\ t # rtTunnel /\ t # hostTunnel
      /\ \A v \in Worker : worker[v].tunnel = t => v = w
  BY <1>t DEF SafeState, WorkerOwnsTunnel, Known
<1>c. conn[t] = "open"
  BY <1>0, <1>t DEF PlaceInv, WorkerHolds
<1>d. \/ /\ conn' = conn /\ Once(connectedTunnels')
         /\ \A u : Elem(connectedTunnels', u) <=> u = t \/ Elem(connectedTunnels, u)
      \/ /\ conn'[t] = "closed" /\ \A u \in Tunnel : u # t => conn'[u] = conn[u]
         /\ connectedTunnels' = connectedTunnels
  <2>1. \/ conn' = conn /\ connectedTunnels' = Append(connectedTunnels, t)
        \/ /\ conn' = [conn EXCEPT ![t] = "closed"]
           /\ connectedTunnels' = connectedTunnels
    BY <1>t DEF DeliverTunnel
  <2>2. connectedTunnels \in Seq(Tunnel) /\ Once(connectedTunnels)
    BY <1>0 DEF PoolOK, PlaceInv, ConnectedFresh
  <2>3. CASE conn' = conn /\ connectedTunnels' = Append(connectedTunnels, t)
    BY <1>b, <2>2, <2>3, OnceSteps, ChannelElems
  <2>4. CASE conn' = [conn EXCEPT ![t] = "closed"] /\ connectedTunnels' = connectedTunnels
    BY <1>0, <2>4 DEF TunnelsOK
  <2> QED
    BY <2>1, <2>3, <2>4
<1>f. /\ worker'[w].pc \in {"none", "receive"} /\ worker'[w].tunnel = NoTunnel
      /\ worker'[w].affinity = FALSE
      /\ \A v \in Worker \ {w} : worker'[v] = worker[v]
  BY <1>0, WorkerIdles DEF Idles
<1>g. /\ NoTunnel \notin Tunnel
      /\ \A u \in Tunnel : u # t => \A v \in Worker : worker[v].tunnel = u => worker'[v].tunnel = u
  BY <1>f, <1>t, ControllerAssumption
<1>h. isEstablishing
  BY DEF SafeState, EstablishmentContained, EstablishIdle, DeliverTunnel
<1>1. MutexHeld' /\ OperatedPlaced' /\ FirstAlone' /\ OneStatusReporter'
  BY <1>0, <1>a
     DEF PlaceInv, MutexHeld, OperatedPlaced, Terminating, FirstAlone, OneStatusReporter
<1>2. WorkerHolds'
  BY <1>0, <1>a, <1>t, <1>b, <1>c, <1>d, <1>f, <1>g, <1>h DEF WorkerHolds, PlaceInv
<1>3. ClosedIdle'
  BY <1>0, <1>a, <1>t, <1>b, <1>c, <1>d, <1>f, <1>g, <1>h DEF ClosedIdle, PlaceInv
<1>4. ConnectedFresh'
  BY <1>0, <1>a, <1>t, <1>b, <1>c, <1>d, <1>f, <1>g, <1>h DEF ConnectedFresh, PlaceInv
<1>5. RunHand'
  BY <1>0, <1>a, <1>t, <1>b, <1>c, <1>d, <1>f, <1>g, <1>h
     DEF RunHand, RunFresh, RunHolds, RunHandsOK, PlaceInv
<1>6. OpenPlaced'
  BY <1>0, <1>a, <1>t, <1>b, <1>c, <1>d, <1>f, <1>g, <1>h
     DEF OpenPlaced, Terminating, RunHolds, RunFresh, PlaceInv
<1>7. ShutdownOrder'
  BY <1>0, <1>a, <1>t, <1>b, <1>c, <1>d, <1>f, <1>g, <1>h
     DEF ShutdownOrder, ConnectedClosed, FailedClosed, PlaceInv
<1>8. PoolOpen'
  BY <1>0, <1>a, <1>t, <1>b, <1>c, <1>d, <1>f, <1>g, <1>h DEF PoolOpen, PlaceInv
<1> QED
  BY <1>1, <1>2, <1>3, <1>4, <1>5, <1>6, <1>7, <1>8 DEF PlaceInv

\* Tunnel.Close returns.
LEMMA ClosedPlace ==
    ASSUME SafeState, NEW t \in Tunnel, TunnelClosed(t)
    PROVE  PlaceInv'
<1>0. /\ PoolOK /\ TunnelsOK /\ EstablishOK /\ RunOK /\ RunHandsOK /\ WorkerHandsOK
      /\ PlaceInv
  BY SafeParts
<1>a. UNCHANGED <<tunnels, tunnelMutex, connectedTunnels, worker, rt, rtNext,
                  rtTunnel, isFirstTunnel, host, hostTunnel, isEstablishing>>
  BY DEF TunnelClosed,
         poolVars, channelVars, rtVars, hostVars, establishVars, workerVars
<1>b. conn[t] = "closing" /\ op' = op /\ op[t] = "none"
  BY DEF TunnelClosed
<1>c. conn'[t] = "closed" /\ \A u \in Tunnel : u # t => conn'[u] = conn[u]
  BY <1>0 DEF TunnelClosed, TunnelsOK
<1>d. \A u \in Tunnel : u # t => reporter'[u] = reporter[u]
  BY <1>0 DEF TunnelClosed, TunnelsOK
<1>1. WorkerHolds'
  BY <1>0, <1>a, <1>b, <1>c, <1>d DEF WorkerHolds, PlaceInv
<1>2. MutexHeld'
  BY <1>0, <1>a, <1>b, <1>c, <1>d DEF MutexHeld, PlaceInv
<1>3. ClosedIdle'
  BY <1>0, <1>a, <1>b, <1>c, <1>d DEF ClosedIdle, PlaceInv
<1>4. ConnectedFresh'
  BY <1>0, <1>a, <1>b, <1>c, <1>d DEF ConnectedFresh, PlaceInv
<1>5. RunHand'
  BY <1>0, <1>a, <1>b, <1>c, <1>d DEF RunHand, RunFresh, RunHolds, RunHandsOK, PlaceInv
<1>6. OperatedPlaced'
  BY <1>0, <1>a, <1>b, <1>c, <1>d DEF OperatedPlaced, Terminating, PlaceInv
<1>7. OpenPlaced'
  BY <1>0, <1>a, <1>b, <1>c, <1>d DEF OpenPlaced, Terminating, RunHolds, RunFresh, PlaceInv
<1>8. FirstAlone'
  BY <1>0, <1>a, <1>b, <1>c, <1>d DEF FirstAlone, PlaceInv
<1>9. ShutdownOrder'
  BY <1>0, <1>a, <1>b, <1>c, <1>d DEF ShutdownOrder, ConnectedClosed, FailedClosed, PlaceInv
<1>10. PoolOpen'
  BY <1>0, <1>a, <1>b, <1>c, <1>d DEF PoolOpen, PlaceInv
<1>11. OneStatusReporter'
  BY <1>0, <1>a, <1>b, <1>c, <1>d DEF OneStatusReporter, PlaceInv
<1> QED
  BY <1>1, <1>2, <1>3, <1>4, <1>5, <1>6, <1>7, <1>8, <1>9, <1>10, <1>11 DEF PlaceInv

\* operateTunnel goes on or ends, except by terminating the tunnel.
LEMMA OperatePlace ==
    ASSUME SafeState, NEW t \in Tunnel,
           OperateFails(t) \/ OperateStops(t) \/ OperateSignals(t)
    PROVE  PlaceInv'
<1>0. /\ PoolOK /\ TunnelsOK /\ EstablishOK /\ RunOK /\ RunHandsOK /\ WorkerHandsOK
      /\ PlaceInv
  BY SafeParts
<1>a. UNCHANGED <<tunnels, tunnelMutex, connectedTunnels, worker, rt, rtNext,
                  rtTunnel, isFirstTunnel, host, hostTunnel, isEstablishing>>
  BY DEF OperateFails, OperateStops, OperateSignals,
         poolVars, channelVars, rtVars, hostVars, establishVars, workerVars
<1>b. /\ op[t] \in {"run", "failed"} /\ UNCHANGED <<conn, reporter>>
      /\ \E p \in {"failed", "full", "none"} : op' = [op EXCEPT ![t] = p]
  BY DEF OperateFails, OperateStops, OperateSignals
<1>c. op'[t] \in {"failed", "full", "none"} /\ \A u \in Tunnel : u # t => op'[u] = op[u]
  BY <1>0, <1>b DEF TunnelsOK
<1>1. WorkerHolds'
  BY <1>0, <1>a, <1>b, <1>c DEF WorkerHolds, PlaceInv
<1>2. MutexHeld'
  BY <1>0, <1>a, <1>b, <1>c DEF MutexHeld, PlaceInv
<1>3. ClosedIdle'
  BY <1>0, <1>a, <1>b, <1>c DEF ClosedIdle, PlaceInv
<1>4. ConnectedFresh'
  BY <1>0, <1>a, <1>b, <1>c DEF ConnectedFresh, PlaceInv
<1>5. RunHand'
  BY <1>0, <1>a, <1>b, <1>c DEF RunHand, RunFresh, RunHolds, RunHandsOK, PlaceInv
<1>6. OperatedPlaced'
  BY <1>0, <1>a, <1>b, <1>c DEF OperatedPlaced, Terminating, PlaceInv
<1>7. OpenPlaced'
  BY <1>0, <1>a, <1>b, <1>c DEF OpenPlaced, Terminating, RunHolds, RunFresh, PlaceInv
<1>8. FirstAlone'
  BY <1>0, <1>a, <1>b, <1>c DEF FirstAlone, PlaceInv
<1>9. ShutdownOrder'
  BY <1>0, <1>a, <1>b, <1>c DEF ShutdownOrder, ConnectedClosed, FailedClosed, PlaceInv
<1>10. PoolOpen'
  BY <1>0, <1>a, <1>b, <1>c DEF PoolOpen, PlaceInv
<1>11. OneStatusReporter'
  BY <1>0, <1>a, <1>b, <1>c DEF OneStatusReporter, PlaceInv
<1> QED
  BY <1>1, <1>2, <1>3, <1>4, <1>5, <1>6, <1>7, <1>8, <1>9, <1>10, <1>11 DEF PlaceInv

\* operateTunnel terminates its own tunnel.
LEMMA OperateRemovesPlace ==
    ASSUME SafeState, NEW t \in Tunnel, op[t] = "full",
           RemoveAndClose(t, "operateTunnel"), op' = [op EXCEPT ![t] = "self"],
           UNCHANGED <<connectedTunnels, worker, rt, rtNext, rtTunnel, isFirstTunnel, host,
                       hostTunnel, isEstablishing, reporter>>
    PROVE  PlaceInv'
<1>0. /\ PoolOK /\ TunnelsOK /\ EstablishOK /\ RunOK /\ RunHandsOK /\ WorkerHandsOK
      /\ PlaceInv
  BY SafeParts
<1>b. /\ tunnelMutex = "free" /\ tunnelMutex' = "operateTunnel"
      /\ Elem(tunnels, t) /\ ~Elem(tunnels', t)
      /\ \A u : u # t => (Elem(tunnels', u) <=> Elem(tunnels, u))
      /\ \A u \in Tunnel : u # t => conn'[u] = conn[u]
      /\ conn'[t] = IF conn[t] = "open" THEN "closing" ELSE conn[t]
  BY <1>0, RemoveLife DEF SafeState
<1>n. tunnels # <<>>
  BY <1>0, <1>b, ChannelElems DEF PoolOK
<1>w. \A w \in Worker : worker[w].tunnel # t
  BY <1>b DEF SafeState, WorkerOwnsTunnel, Known
<1>c. op'[t] = "self" /\ \A u \in Tunnel : u # t => op'[u] = op[u]
  BY <1>0 DEF TunnelsOK
<1>1. WorkerHolds'
  BY <1>0, <1>b, <1>n, <1>w, <1>c DEF WorkerHolds, PlaceInv
<1>2. MutexHeld'
  BY <1>0, <1>b, <1>n, <1>w, <1>c DEF MutexHeld, PlaceInv
<1>3. ClosedIdle'
  BY <1>0, <1>b, <1>n, <1>w, <1>c DEF ClosedIdle, PlaceInv
<1>4. ConnectedFresh'
  BY <1>0, <1>b, <1>n, <1>w, <1>c DEF ConnectedFresh, PlaceInv
<1>5. RunHand'
  BY <1>0, <1>b, <1>n, <1>w, <1>c DEF RunHand, RunFresh, RunHolds, RunHandsOK, PlaceInv
<1>6. OperatedPlaced'
  BY <1>0, <1>b, <1>n, <1>w, <1>c DEF OperatedPlaced, Terminating, PlaceInv
<1>7. OpenPlaced'
  BY <1>0, <1>b, <1>n, <1>w, <1>c DEF OpenPlaced, Terminating, RunHolds, RunFresh, PlaceInv
<1>8. FirstAlone'
  BY <1>0, <1>b, <1>n, <1>w, <1>c DEF FirstAlone, PlaceInv
<1>9. ShutdownOrder'
  BY <1>0, <1>b, <1>n, <1>w, <1>c DEF ShutdownOrder, ConnectedClosed, FailedClosed, PlaceInv
<1>10. PoolOpen'
  BY <1>0, <1>b, <1>n, <1>w, <1>c DEF PoolOpen, PlaceInv
<1>11. OneStatusReporter'
  BY <1>0, <1>b, <1>n, <1>w, <1>c DEF OneStatusReporter, PlaceInv
<1> QED
  BY <1>1, <1>2, <1>3, <1>4, <1>5, <1>6, <1>7, <1>8, <1>9, <1>10, <1>11 DEF PlaceInv

\* operateTunnel finds its tunnel terminated.
LEMMA OperateEndsPlace ==
    ASSUME SafeState, NEW t \in Tunnel, op[t] = "full",
           op' = [op EXCEPT ![t] = "none"],
           UNCHANGED <<tunnels, tunnelMutex, conn, connectedTunnels, worker, rt, rtNext, rtTunnel,
                       isFirstTunnel, host, hostTunnel, isEstablishing, reporter>>
    PROVE  PlaceInv'
<1>0. /\ PoolOK /\ TunnelsOK /\ EstablishOK /\ RunOK /\ RunHandsOK /\ WorkerHandsOK
      /\ PlaceInv
  BY SafeParts
<1>c. op'[t] = "none" /\ \A u \in Tunnel : u # t => op'[u] = op[u]
  BY <1>0 DEF TunnelsOK
<1>1. WorkerHolds' /\ RunHand' /\ PoolOpen'
  BY <1>0
     DEF PlaceInv, WorkerHolds, RunHand, RunFresh, RunHolds, RunHandsOK, PoolOpen
<1>2. MutexHeld'
  BY <1>0, <1>c DEF MutexHeld, PlaceInv
<1>3. ClosedIdle'
  BY <1>0, <1>c DEF ClosedIdle, PlaceInv
<1>4. ConnectedFresh'
  BY <1>0, <1>c DEF ConnectedFresh, PlaceInv
<1>5. OperatedPlaced'
  BY <1>0, <1>c DEF OperatedPlaced, Terminating, PlaceInv
<1>6. OpenPlaced'
  BY <1>0, <1>c DEF OpenPlaced, Terminating, RunHolds, RunFresh, PlaceInv
<1>7. FirstAlone'
  BY <1>0, <1>c DEF FirstAlone, PlaceInv
<1>8. ShutdownOrder'
  BY <1>0, <1>c DEF ShutdownOrder, ConnectedClosed, FailedClosed, PlaceInv
<1>9. OneStatusReporter'
  BY <1>0, <1>c DEF OneStatusReporter, PlaceInv
<1> QED
  BY <1>1, <1>2, <1>3, <1>4, <1>5, <1>6, <1>7, <1>8, <1>9 DEF PlaceInv

\* runTunnels takes a failed tunnel.
LEMMA FailedPlace ==
    ASSUME SafeState, RunFailed
    PROVE  PlaceInv'
<1>0. /\ PoolOK /\ TunnelsOK /\ EstablishOK /\ RunOK /\ RunHandsOK /\ WorkerHandsOK
      /\ PlaceInv
  BY SafeParts
<1>a. UNCHANGED <<tunnels, tunnelMutex, connectedTunnels, conn, op, reporter, worker, isFirstTunnel,
                  host, hostTunnel, isEstablishing, rtNext>>
  BY DEF RunFailed,
         poolVars, channelVars, rtVars, hostVars, establishVars, workerVars, tunnelVars

<1>b. rt = "loop" /\ rt' = "terminate"
  BY DEF RunFailed
<1>1. WorkerHolds' /\ ClosedIdle' /\ ConnectedFresh' /\ OneStatusReporter'
  BY <1>0, <1>a
     DEF PlaceInv, WorkerHolds, ClosedIdle, ConnectedFresh, OneStatusReporter
<1>2. MutexHeld'
  BY <1>0, <1>a, <1>b DEF MutexHeld, PlaceInv
<1>3. RunHand'
  BY <1>0, <1>a, <1>b DEF RunHand, RunFresh, RunHolds, RunHandsOK, PlaceInv
<1>4. OperatedPlaced'
  BY <1>0, <1>a, <1>b DEF OperatedPlaced, Terminating, PlaceInv
<1>5. OpenPlaced'
  BY <1>0, <1>a, <1>b DEF OpenPlaced, Terminating, RunHolds, RunFresh, PlaceInv
<1>6. FirstAlone'
  BY <1>0, <1>a, <1>b DEF FirstAlone, PlaceInv
<1>7. ShutdownOrder'
  BY <1>0, <1>a, <1>b DEF ShutdownOrder, ConnectedClosed, FailedClosed, PlaceInv
<1>8. PoolOpen'
  BY <1>0, <1>a, <1>b DEF PoolOpen, PlaceInv
<1> QED
  BY <1>1, <1>2, <1>3, <1>4, <1>5, <1>6, <1>7, <1>8 DEF PlaceInv

\* runTunnels terminates a tunnel that is in the pool ...
LEMMA TerminatePlace ==
    ASSUME SafeState, rt = "terminate", rt' = "terminating",
           RemoveAndClose(rtTunnel, "runTunnels"),
           UNCHANGED <<connectedTunnels, op, reporter, worker, rtNext, rtTunnel, isFirstTunnel, host,
                       hostTunnel, isEstablishing>>
    PROVE  PlaceInv'
<1>0. /\ PoolOK /\ TunnelsOK /\ EstablishOK /\ RunOK /\ RunHandsOK /\ WorkerHandsOK
      /\ PlaceInv
  BY SafeParts
<1>t. rtTunnel \in Tunnel
  BY <1>0 DEF RunHandsOK
<1>b. /\ tunnelMutex = "free" /\ tunnelMutex' = "runTunnels"
      /\ Elem(tunnels, rtTunnel) /\ ~Elem(tunnels', rtTunnel)
      /\ \A u : u # rtTunnel => (Elem(tunnels', u) <=> Elem(tunnels, u))
      /\ \A u \in Tunnel : u # rtTunnel => conn'[u] = conn[u]
      /\ conn'[rtTunnel] = IF conn[rtTunnel] = "open" THEN "closing" ELSE conn[rtTunnel]
  BY <1>0, RemoveLife, <1>t DEF SafeState
<1>n. tunnels # <<>>
  BY <1>0, <1>b, ChannelElems DEF PoolOK
<1>w. \A w \in Worker : worker[w].tunnel # rtTunnel
  BY <1>b, <1>t DEF SafeState, WorkerOwnsTunnel, Known
<1>1. OneStatusReporter'
  BY <1>0 DEF PlaceInv, OneStatusReporter
<1>2. WorkerHolds'
  BY <1>0, <1>t, <1>b, <1>n, <1>w DEF WorkerHolds, PlaceInv
<1>3. MutexHeld'
  BY <1>0, <1>t, <1>b, <1>n, <1>w DEF MutexHeld, PlaceInv
<1>4. ClosedIdle'
  BY <1>0, <1>t, <1>b, <1>n, <1>w DEF ClosedIdle, PlaceInv
<1>5. ConnectedFresh'
  BY <1>0, <1>t, <1>b, <1>n, <1>w DEF ConnectedFresh, PlaceInv
<1>6. RunHand'
  BY <1>0, <1>t, <1>b, <1>n, <1>w DEF RunHand, RunFresh, RunHolds, RunHandsOK, PlaceInv
<1>7. OperatedPlaced'
  BY <1>0, <1>t, <1>b, <1>n, <1>w DEF OperatedPlaced, Terminating, PlaceInv
<1>8. OpenPlaced'
  BY <1>0, <1>t, <1>b, <1>n, <1>w DEF OpenPlaced, Terminating, RunHolds, RunFresh, PlaceInv
<1>9. FirstAlone'
  BY <1>0, <1>t, <1>b, <1>n, <1>w DEF FirstAlone, PlaceInv
<1>10. ShutdownOrder'
  BY <1>0, <1>t, <1>b, <1>n, <1>w DEF ShutdownOrder, ConnectedClosed, FailedClosed, PlaceInv
<1>11. PoolOpen'
  BY <1>0, <1>t, <1>b, <1>n, <1>w DEF PoolOpen, PlaceInv
<1> QED
  BY <1>1, <1>2, <1>3, <1>4, <1>5, <1>6, <1>7, <1>8, <1>9, <1>10, <1>11 DEF PlaceInv

\* ... or has left it.
LEMMA NotTerminatePlace ==
    ASSUME SafeState, rt = "terminate", rt' = "start",
           UNCHANGED <<tunnels, tunnelMutex, conn, connectedTunnels, op, reporter, worker, rtNext,
                       isFirstTunnel, host, hostTunnel, isEstablishing>>
    PROVE  PlaceInv'
<1>0. /\ PoolOK /\ TunnelsOK /\ EstablishOK /\ RunOK /\ RunHandsOK /\ WorkerHandsOK
      /\ PlaceInv
  BY SafeParts
<1>1. WorkerHolds' /\ ClosedIdle' /\ ConnectedFresh' /\ OneStatusReporter'
  BY <1>0
     DEF PlaceInv, WorkerHolds, ClosedIdle, ConnectedFresh, OneStatusReporter
<1>2. MutexHeld'
  BY <1>0 DEF MutexHeld, PlaceInv
<1>3. RunHand'
  BY <1>0 DEF RunHand, RunFresh, RunHolds, RunHandsOK, PlaceInv
<1>4. OperatedPlaced'
  BY <1>0 DEF OperatedPlaced, Terminating, PlaceInv
<1>5. OpenPlaced'
  BY <1>0 DEF OpenPlaced, Terminating, RunHolds, RunFresh, PlaceInv
<1>6. FirstAlone'
  BY <1>0 DEF FirstAlone, PlaceInv
<1>7. ShutdownOrder'
  BY <1>0 DEF ShutdownOrder, ConnectedClosed, FailedClosed, PlaceInv
<1>8. PoolOpen'
  BY <1>0 DEF PoolOpen, PlaceInv
<1> QED
  BY <1>1, <1>2, <1>3, <1>4, <1>5, <1>6, <1>7, <1>8 DEF PlaceInv

\* terminateTunnel returns to runTunnels.
LEMMA TerminatedPlace ==
    ASSUME SafeState, RunTerminated
    PROVE  PlaceInv'
<1>0. /\ PoolOK /\ TunnelsOK /\ EstablishOK /\ RunOK /\ RunHandsOK /\ WorkerHandsOK
      /\ PlaceInv
  BY SafeParts
<1>a. UNCHANGED <<tunnels, connectedTunnels, conn, op, reporter, worker, isFirstTunnel,
                  host, hostTunnel, isEstablishing, rtNext>>
  BY DEF RunTerminated,
         poolVars, channelVars, rtVars, hostVars, establishVars, workerVars, tunnelVars

<1>b. /\ rt = "terminating" /\ rt' = "start" /\ conn[rtTunnel] = "closed"
      /\ tunnelMutex' = "free"
  BY DEF RunTerminated
<1>c. rtTunnel \in Tunnel /\ op[rtTunnel] = "none" /\ tunnelMutex = "runTunnels"
  BY <1>0, <1>b DEF RunHandsOK, PlaceInv, ClosedIdle, MutexHeld
<1>d. host # "terminating" /\ \A t \in Tunnel : op[t] # "self"
  BY <1>0, <1>c DEF PlaceInv, MutexHeld
<1>1. WorkerHolds' /\ ClosedIdle' /\ ConnectedFresh' /\ OneStatusReporter'
  BY <1>0, <1>a
     DEF PlaceInv, WorkerHolds, ClosedIdle, ConnectedFresh, OneStatusReporter
<1>2. MutexHeld'
  BY <1>0, <1>a, <1>b, <1>c, <1>d DEF MutexHeld, PlaceInv
<1>3. RunHand'
  BY <1>0, <1>a, <1>b, <1>c, <1>d DEF RunHand, RunFresh, RunHolds, RunHandsOK, PlaceInv
<1>4. OperatedPlaced'
  BY <1>0, <1>a, <1>b, <1>c, <1>d DEF OperatedPlaced, Terminating, PlaceInv
<1>5. OpenPlaced'
  BY <1>0, <1>a, <1>b, <1>c, <1>d DEF OpenPlaced, Terminating, RunHolds, RunFresh, PlaceInv
<1>6. FirstAlone'
  BY <1>0, <1>a, <1>b, <1>c, <1>d DEF FirstAlone, PlaceInv
<1>7. ShutdownOrder'
  BY <1>0, <1>a, <1>b, <1>c, <1>d DEF ShutdownOrder, ConnectedClosed, FailedClosed, PlaceInv
<1>8. PoolOpen'
  BY <1>0, <1>a, <1>b, <1>c, <1>d DEF PoolOpen, PlaceInv
<1> QED
  BY <1>1, <1>2, <1>3, <1>4, <1>5, <1>6, <1>7, <1>8 DEF PlaceInv

\* runTunnels takes a connected tunnel.
LEMMA ConnectedPlace ==
    ASSUME SafeState, RunConnected
    PROVE  PlaceInv'
<1>0. /\ PoolOK /\ TunnelsOK /\ EstablishOK /\ RunOK /\ RunHandsOK /\ WorkerHandsOK
      /\ PlaceInv
  BY SafeParts
<1>a. UNCHANGED <<tunnels, tunnelMutex, conn, op, reporter, worker, isFirstTunnel,
                  host, hostTunnel, isEstablishing, rtNext>>
  BY DEF RunConnected,
         poolVars, channelVars, rtVars, hostVars, establishVars, workerVars, tunnelVars

<1>b. /\ rt = "loop" /\ rt' = "count" /\ connectedTunnels # <<>>
      /\ connectedTunnels' = Tail(connectedTunnels) /\ rtTunnel' = Head(connectedTunnels)
  BY DEF RunConnected
<1>c. rtTunnel' \in Tunnel /\ Elem(connectedTunnels, rtTunnel')
      /\ Once(connectedTunnels') /\ ~Elem(connectedTunnels', rtTunnel')
      /\ \A u : Elem(connectedTunnels, u) <=> u = rtTunnel' \/ Elem(connectedTunnels', u)
  <2>1. connectedTunnels \in Seq(Tunnel) /\ Once(connectedTunnels) /\ connectedTunnels # <<>>
    BY <1>0, <1>b DEF PoolOK, PlaceInv, ConnectedFresh
  <2>2. Head(connectedTunnels) \in Tunnel
    BY <2>1
  <2> QED
    BY <1>b, <2>1, <2>2, OnceSteps, ChannelElems
<1>d. conn[rtTunnel'] = "open" /\ op[rtTunnel'] = "none" /\ ~Elem(tunnels, rtTunnel')
  BY <1>0, <1>c DEF PlaceInv, ConnectedFresh
<1>1. WorkerHolds' /\ ClosedIdle' /\ OneStatusReporter'
  BY <1>0, <1>a
     DEF PlaceInv, WorkerHolds, ClosedIdle, OneStatusReporter
<1>2. MutexHeld'
  BY <1>0, <1>a, <1>b, <1>c, <1>d DEF MutexHeld, PlaceInv
<1>3. ConnectedFresh'
  BY <1>0, <1>a, <1>b, <1>c, <1>d DEF ConnectedFresh, PlaceInv
<1>4. RunHand'
  BY <1>0, <1>a, <1>b, <1>c, <1>d DEF RunHand, RunFresh, RunHolds, RunHandsOK, PlaceInv
<1>5. OperatedPlaced'
  BY <1>0, <1>a, <1>b, <1>c, <1>d DEF OperatedPlaced, Terminating, PlaceInv
<1>6. OpenPlaced'
  BY <1>0, <1>a, <1>b, <1>c, <1>d DEF OpenPlaced, Terminating, RunHolds, RunFresh, PlaceInv
<1>7. FirstAlone'
  BY <1>0, <1>a, <1>b, <1>c, <1>d DEF FirstAlone, PlaceInv
<1>8. ShutdownOrder'
  BY <1>0, <1>a, <1>b, <1>c, <1>d DEF ShutdownOrder, ConnectedClosed, FailedClosed, PlaceInv
<1>9. PoolOpen'
  BY <1>0, <1>a, <1>b, <1>c, <1>d DEF PoolOpen, PlaceInv
<1> QED
  BY <1>1, <1>2, <1>3, <1>4, <1>5, <1>6, <1>7, <1>8, <1>9 DEF PlaceInv

\* The tunnel in hand is activated; the first of the pool reports status.
LEMMA ActivatePlace ==
    ASSUME SafeState, RunActivate
    PROVE  PlaceInv'
<1>0. /\ PoolOK /\ TunnelsOK /\ EstablishOK /\ RunOK /\ RunHandsOK /\ WorkerHandsOK
      /\ PlaceInv
  BY SafeParts
<1>a. UNCHANGED <<tunnels, tunnelMutex, connectedTunnels, conn, worker, isFirstTunnel,
                  host, hostTunnel, isEstablishing, rtNext, rtTunnel>>
  BY DEF RunActivate,
         poolVars, channelVars, rtVars, hostVars, establishVars, workerVars, tunnelVars

<1>b. rt = "activate" /\ rt' = "register"
  BY DEF RunActivate
<1>c. /\ rtTunnel \in Tunnel /\ conn[rtTunnel] = "open"
      /\ ~Elem(tunnels, rtTunnel) /\ ~Elem(connectedTunnels, rtTunnel)
  BY <1>0, <1>b DEF RunHandsOK, PlaceInv, RunHand, RunFresh, RunHolds
<1>d. op'[rtTunnel] = "run" /\ \A u \in Tunnel : u # rtTunnel => op'[u] = op[u]
  BY <1>0, <1>c DEF RunActivate, TunnelsOK
<1>f. /\ reporter'[rtTunnel] = isFirstTunnel
      /\ \A u \in Tunnel : u # rtTunnel => reporter'[u] = reporter[u]
  BY <1>0, <1>c DEF RunActivate, TunnelsOK
<1>g. isFirstTunnel => \A u \in Tunnel : op[u] = "none"
  BY <1>0, <1>b DEF PlaceInv, FirstAlone
<1>1. WorkerHolds'
  BY <1>0, <1>a DEF PlaceInv, WorkerHolds
<1>2. MutexHeld'
  BY <1>0, <1>a, <1>b, <1>c, <1>d, <1>f, <1>g DEF MutexHeld, PlaceInv
<1>3. ClosedIdle'
  BY <1>0, <1>a, <1>b, <1>c, <1>d, <1>f, <1>g DEF ClosedIdle, PlaceInv
<1>4. ConnectedFresh'
  BY <1>0, <1>a, <1>b, <1>c, <1>d, <1>f, <1>g DEF ConnectedFresh, PlaceInv
<1>5. RunHand'
  BY <1>0, <1>a, <1>b, <1>c, <1>d, <1>f, <1>g
     DEF RunHand, RunFresh, RunHolds, RunHandsOK, PlaceInv
<1>6. OperatedPlaced'
  BY <1>0, <1>a, <1>b, <1>c, <1>d, <1>f, <1>g DEF OperatedPlaced, Terminating, PlaceInv
<1>7. OpenPlaced'
  BY <1>0, <1>a, <1>b, <1>c, <1>d, <1>f, <1>g
     DEF OpenPlaced, Terminating, RunHolds, RunFresh, PlaceInv
<1>8. FirstAlone'
  BY <1>0, <1>a, <1>b, <1>c, <1>d, <1>f, <1>g DEF FirstAlone, PlaceInv
<1>9. ShutdownOrder'
  BY <1>0, <1>a, <1>b, <1>c, <1>d, <1>f, <1>g
     DEF ShutdownOrder, ConnectedClosed, FailedClosed, PlaceInv
<1>10. PoolOpen'
  BY <1>0, <1>a, <1>b, <1>c, <1>d, <1>f, <1>g DEF PoolOpen, PlaceInv
<1>11. OneStatusReporter'
  BY <1>0, <1>a, <1>b, <1>c, <1>d, <1>f, <1>g DEF OneStatusReporter, PlaceInv
<1> QED
  BY <1>1, <1>2, <1>3, <1>4, <1>5, <1>6, <1>7, <1>8, <1>9, <1>10, <1>11 DEF PlaceInv

\* The tunnel in hand enters the pool, or is refused.
LEMMA RegisterPlace ==
    ASSUME SafeState, RunRegister
    PROVE  PlaceInv'
<1>0. /\ PoolOK /\ TunnelsOK /\ EstablishOK /\ RunOK /\ RunHandsOK /\ WorkerHandsOK
      /\ PlaceInv
  BY SafeParts
<1>a. UNCHANGED <<tunnelMutex, connectedTunnels, conn, op, reporter, worker, isFirstTunnel,
                  host, hostTunnel, isEstablishing, rtNext, rtTunnel>>
  BY DEF RunRegister,
         poolVars, channelVars, rtVars, hostVars, establishVars, workerVars, tunnelVars

<1>b. /\ rt = "register"
      /\ \/ rt' = "reject" /\ tunnels' = tunnels
         \/ rt' = "registered" /\ tunnels' = Append(tunnels, rtTunnel)
  BY DEF RunRegister
<1>c. /\ rtTunnel \in Tunnel /\ conn[rtTunnel] = "open"
      /\ ~Elem(tunnels, rtTunnel) /\ ~Elem(connectedTunnels, rtTunnel)
  BY <1>0, <1>b DEF RunHandsOK, PlaceInv, RunHand, RunFresh, RunHolds
<1>d. \/ rt' = "reject" /\ tunnels' = tunnels
      \/ /\ rt' = "registered"
         /\ \A u : Elem(tunnels', u) <=> u = rtTunnel \/ Elem(tunnels, u)
  <2>1. tunnels \in Seq(Tunnel)
    BY <1>0 DEF PoolOK
  <2>2. \A u : Elem(Append(tunnels, rtTunnel), u) <=> u = rtTunnel \/ Elem(tunnels, u)
    BY <1>c, <2>1, ChannelElems
  <2> QED
    BY <1>b, <2>2
<1>1. WorkerHolds' /\ ClosedIdle' /\ OneStatusReporter'
  BY <1>0, <1>a
     DEF PlaceInv, WorkerHolds, ClosedIdle, OneStatusReporter
<1>2. MutexHeld'
  BY <1>0, <1>a, <1>b, <1>c, <1>d DEF MutexHeld, PlaceInv
<1>3. ConnectedFresh'
  BY <1>0, <1>a, <1>b, <1>c, <1>d DEF ConnectedFresh, PlaceInv
<1>4. RunHand'
  BY <1>0, <1>a, <1>b, <1>c, <1>d DEF RunHand, RunFresh, RunHolds, RunHandsOK, PlaceInv
<1>5. OperatedPlaced'
  BY <1>0, <1>a, <1>b, <1>c, <1>d DEF OperatedPlaced, Terminating, PlaceInv
<1>6. OpenPlaced'
  BY <1>0, <1>a, <1>b, <1>c, <1>d DEF OpenPlaced, Terminating, RunHolds, RunFresh, PlaceInv
<1>7. FirstAlone'
  BY <1>0, <1>a, <1>b, <1>c, <1>d DEF FirstAlone, PlaceInv
<1>8. ShutdownOrder'
  BY <1>0, <1>a, <1>b, <1>c, <1>d DEF ShutdownOrder, ConnectedClosed, FailedClosed, PlaceInv
<1>9. PoolOpen'
  BY <1>0, <1>a, <1>b, <1>c, <1>d DEF PoolOpen, PlaceInv
<1> QED
  BY <1>1, <1>2, <1>3, <1>4, <1>5, <1>6, <1>7, <1>8, <1>9 DEF PlaceInv

\* discardTunnel begins to close the tunnel in hand.
LEMMA DiscardPlace ==
    ASSUME SafeState, RunDiscard
    PROVE  PlaceInv'
<1>0. /\ PoolOK /\ TunnelsOK /\ EstablishOK /\ RunOK /\ RunHandsOK /\ WorkerHandsOK
      /\ PlaceInv
  BY SafeParts
<1>a. UNCHANGED <<tunnels, tunnelMutex, connectedTunnels, op, reporter, worker, isFirstTunnel,
                  host, hostTunnel, isEstablishing, rtNext, rtTunnel>>
  BY DEF RunDiscard,
         poolVars, channelVars, rtVars, hostVars, establishVars, workerVars, tunnelVars

<1>b. rt = "discard" /\ rt' = "discarding"
  BY DEF RunDiscard
<1>c. /\ rtTunnel \in Tunnel /\ ~Elem(tunnels, rtTunnel) /\ ~Elem(connectedTunnels, rtTunnel)
  BY <1>0, <1>b DEF RunHandsOK, PlaceInv, RunHand, RunHolds
<1>d. /\ \A u \in Tunnel : u # rtTunnel => conn'[u] = conn[u]
      /\ conn'[rtTunnel] = IF conn[rtTunnel] = "open" THEN "closing" ELSE conn[rtTunnel]
  BY <1>0, <1>c DEF RunDiscard, TunnelsOK
<1>f. \A w \in Worker : worker[w].tunnel # rtTunnel
  BY <1>c DEF SafeState, WorkerOwnsTunnel, Known
<1>1. OneStatusReporter'
  BY <1>0, <1>a DEF PlaceInv, OneStatusReporter
<1>2. WorkerHolds'
  BY <1>0, <1>a, <1>b, <1>c, <1>d, <1>f DEF WorkerHolds, PlaceInv
<1>3. MutexHeld'
  BY <1>0, <1>a, <1>b, <1>c, <1>d, <1>f DEF MutexHeld, PlaceInv
<1>4. ClosedIdle'
  BY <1>0, <1>a, <1>b, <1>c, <1>d, <1>f DEF ClosedIdle, PlaceInv
<1>5. ConnectedFresh'
  BY <1>0, <1>a, <1>b, <1>c, <1>d, <1>f DEF ConnectedFresh, PlaceInv
<1>6. RunHand'
  BY <1>0, <1>a, <1>b, <1>c, <1>d, <1>f DEF RunHand, RunFresh, RunHolds, RunHandsOK, PlaceInv
<1>7. OperatedPlaced'
  BY <1>0, <1>a, <1>b, <1>c, <1>d, <1>f DEF OperatedPlaced, Terminating, PlaceInv
<1>8. OpenPlaced'
  BY <1>0, <1>a, <1>b, <1>c, <1>d, <1>f
     DEF OpenPlaced, Terminating, RunHolds, RunFresh, PlaceInv
<1>9. FirstAlone'
  BY <1>0, <1>a, <1>b, <1>c, <1>d, <1>f DEF FirstAlone, PlaceInv
<1>10. ShutdownOrder'
  BY <1>0, <1>a, <1>b, <1>c, <1>d, <1>f
     DEF ShutdownOrder, ConnectedClosed, FailedClosed, PlaceInv
<1>11. PoolOpen'
  BY <1>0, <1>a, <1>b, <1>c, <1>d, <1>f DEF PoolOpen, PlaceInv
<1> QED
  BY <1>1, <1>2, <1>3, <1>4, <1>5, <1>6, <1>7, <1>8, <1>9, <1>10, <1>11 DEF PlaceInv

\* discardTunnel returns.
LEMMA DiscardedPlace ==
    ASSUME SafeState, RunDiscarded
    PROVE  PlaceInv'
<1>0. /\ PoolOK /\ TunnelsOK /\ EstablishOK /\ RunOK /\ RunHandsOK /\ WorkerHandsOK
      /\ PlaceInv
  BY SafeParts
<1>a. UNCHANGED <<tunnels, tunnelMutex, connectedTunnels, conn, op, reporter, worker,
                  host, hostTunnel, isEstablishing>>
  BY DEF RunDiscarded,
         poolVars, channelVars, rtVars, hostVars, establishVars, workerVars, tunnelVars

<1>b. /\ rt = "discarding" /\ rt' = rtNext /\ rtNext' = "loop" /\ isFirstTunnel' = FALSE
      /\ conn[rtTunnel] = "closed"
  BY DEF RunDiscarded
<1>c. /\ rtTunnel \in Tunnel /\ op[rtTunnel] = "none"
      /\ rtNext \in {"loop", "drainConnected", "drainFailed"}
  BY <1>0, <1>b DEF RunHandsOK, PlaceInv, RunHand, ClosedIdle
<1>1. WorkerHolds' /\ ClosedIdle' /\ ConnectedFresh' /\ OneStatusReporter'
  BY <1>0, <1>a
     DEF PlaceInv, WorkerHolds, ClosedIdle, ConnectedFresh, OneStatusReporter
<1>2. MutexHeld'
  BY <1>0, <1>a, <1>b, <1>c DEF MutexHeld, PlaceInv
<1>3. RunHand'
  BY <1>0, <1>a, <1>b, <1>c DEF RunHand, RunFresh, RunHolds, RunHandsOK, PlaceInv
<1>4. OperatedPlaced'
  BY <1>0, <1>a, <1>b, <1>c DEF OperatedPlaced, Terminating, PlaceInv
<1>5. OpenPlaced'
  BY <1>0, <1>a, <1>b, <1>c DEF OpenPlaced, Terminating, RunHolds, RunFresh, PlaceInv
<1>6. FirstAlone'
  BY <1>0, <1>a, <1>b, <1>c DEF FirstAlone, PlaceInv
<1>7. ShutdownOrder'
  BY <1>0, <1>a, <1>b, <1>c DEF ShutdownOrder, ConnectedClosed, FailedClosed, PlaceInv
<1>8. PoolOpen'
  BY <1>0, <1>a, <1>b, <1>c DEF PoolOpen, PlaceInv
<1> QED
  BY <1>1, <1>2, <1>3, <1>4, <1>5, <1>6, <1>7, <1>8 DEF PlaceInv

\* After a registration.
LEMMA RegisteredPlace ==
    ASSUME SafeState, RunRegistered
    PROVE  PlaceInv'
<1>0. /\ PoolOK /\ TunnelsOK /\ EstablishOK /\ RunOK /\ RunHandsOK /\ WorkerHandsOK
      /\ PlaceInv
  BY SafeParts
<1>a. UNCHANGED <<tunnels, tunnelMutex, connectedTunnels, conn, op, reporter, worker,
                  host, hostTunnel>>
  BY DEF RunRegistered, StopEstablishingThen,
         poolVars, channelVars, rtVars, hostVars, establishVars, workerVars, tunnelVars

<1>b. rt = "registered" /\ (rt' = "loop" \/ (rt' = "stopping" /\ rtNext' = "loop"))
  <2>1. rt = "registered"
    BY DEF RunRegistered
  <2>2. CASE IsFullyEstablished
    <3>1. StopEstablishingThen("loop")
      BY <2>2, Zenon DEF RunRegistered
    <3> QED
      BY <2>1, <3>1 DEF StopEstablishingThen
  <2>3. CASE ~IsFullyEstablished
    BY <2>1, <2>3, Zenon DEF RunRegistered
  <2> QED
    BY <2>2, <2>3
<1>c. ~isFirstTunnel'
  BY Zenon DEF RunRegistered
<1>1. WorkerHolds' /\ ClosedIdle' /\ ConnectedFresh' /\ OneStatusReporter'
  BY <1>0, <1>a
     DEF PlaceInv, WorkerHolds, ClosedIdle, ConnectedFresh, OneStatusReporter
<1>2. MutexHeld'
  BY <1>0, <1>a, <1>b, <1>c DEF MutexHeld, PlaceInv
<1>3. RunHand'
  BY <1>0, <1>a, <1>b, <1>c DEF RunHand, RunFresh, RunHolds, RunHandsOK, PlaceInv
<1>4. OperatedPlaced'
  BY <1>0, <1>a, <1>b, <1>c DEF OperatedPlaced, Terminating, PlaceInv
<1>5. OpenPlaced'
  BY <1>0, <1>a, <1>b, <1>c DEF OpenPlaced, Terminating, RunHolds, RunFresh, PlaceInv
<1>6. FirstAlone'
  BY <1>0, <1>a, <1>b, <1>c DEF FirstAlone, PlaceInv
<1>7. ShutdownOrder'
  BY <1>0, <1>a, <1>b, <1>c DEF ShutdownOrder, ConnectedClosed, FailedClosed, PlaceInv
<1>8. PoolOpen'
  BY <1>0, <1>a, <1>b, <1>c DEF PoolOpen, PlaceInv
<1> QED
  BY <1>1, <1>2, <1>3, <1>4, <1>5, <1>6, <1>7, <1>8 DEF PlaceInv

\* terminateAllTunnels closes every tunnel of the pool ...
LEMMA TerminateAllPlace ==
    ASSUME SafeState, RunTerminateAll
    PROVE  PlaceInv'
<1>0. /\ PoolOK /\ TunnelsOK /\ EstablishOK /\ RunOK /\ RunHandsOK /\ WorkerHandsOK
      /\ PlaceInv
  BY SafeParts
<1>a. UNCHANGED <<tunnels, connectedTunnels, op, reporter, worker, isFirstTunnel, rtNext, rtTunnel,
                  host, hostTunnel, isEstablishing>>
  BY DEF RunTerminateAll,
         poolVars, channelVars, rtVars, hostVars, establishVars, workerVars, tunnelVars

<1>b. /\ rt = "terminateAll" /\ rt' = "closingAll" /\ tunnelMutex = "free"
      /\ tunnelMutex' = "runTunnels"
  BY DEF RunTerminateAll
<1>c. \A u \in Tunnel :
         conn'[u] = IF Elem(tunnels, u) /\ conn[u] = "open" THEN "closing" ELSE conn[u]
  BY DEF RunTerminateAll, InPool, Elem
<1>d. \A u \in Tunnel : Elem(tunnels, u) => \A w \in Worker : worker[w].tunnel # u
  BY DEF SafeState, WorkerOwnsTunnel, Known
<1>1. OneStatusReporter'
  BY <1>0, <1>a DEF PlaceInv, OneStatusReporter
<1>2. WorkerHolds'
  BY <1>0, <1>a, <1>b, <1>c, <1>d DEF WorkerHolds, PlaceInv
<1>3. MutexHeld'
  BY <1>0, <1>a, <1>b, <1>c, <1>d DEF MutexHeld, PlaceInv
<1>4. ClosedIdle'
  BY <1>0, <1>a, <1>b, <1>c, <1>d DEF ClosedIdle, PlaceInv
<1>5. ConnectedFresh'
  BY <1>0, <1>a, <1>b, <1>c, <1>d DEF ConnectedFresh, PlaceInv
<1>6. RunHand'
  BY <1>0, <1>a, <1>b, <1>c, <1>d DEF RunHand, RunFresh, RunHolds, RunHandsOK, PlaceInv
<1>7. OperatedPlaced'
  BY <1>0, <1>a, <1>b, <1>c, <1>d DEF OperatedPlaced, Terminating, PlaceInv
<1>8. OpenPlaced'
  BY <1>0, <1>a, <1>b, <1>c, <1>d DEF OpenPlaced, Terminating, RunHolds, RunFresh, PlaceInv
<1>9. FirstAlone'
  BY <1>0, <1>a, <1>b, <1>c, <1>d DEF FirstAlone, PlaceInv
<1>10. ShutdownOrder'
  BY <1>0, <1>a, <1>b, <1>c, <1>d DEF ShutdownOrder, ConnectedClosed, FailedClosed, PlaceInv
<1>11. PoolOpen'
  BY <1>0, <1>a, <1>b, <1>c, <1>d DEF PoolOpen, PlaceInv
<1> QED
  BY <1>1, <1>2, <1>3, <1>4, <1>5, <1>6, <1>7, <1>8, <1>9, <1>10, <1>11 DEF PlaceInv

\* ... and leaves it empty, with no tunnel operated.
LEMMA TerminatedAllPlace ==
    ASSUME SafeState, RunTerminatedAll
    PROVE  PlaceInv'
<1>0. /\ PoolOK /\ TunnelsOK /\ EstablishOK /\ RunOK /\ RunHandsOK /\ WorkerHandsOK
      /\ PlaceInv
  BY SafeParts
<1>a. UNCHANGED <<connectedTunnels, conn, op, reporter, worker, isFirstTunnel, rtNext, rtTunnel,
                  host, hostTunnel, isEstablishing>>
  BY DEF RunTerminatedAll,
         poolVars, channelVars, rtVars, hostVars, establishVars, workerVars, tunnelVars

<1>b. /\ rt = "closingAll" /\ rt' = "drainConnected" /\ tunnels' = <<>>
      /\ tunnelMutex' = "free"
  BY DEF RunTerminatedAll
<1>c. \A u \in Tunnel : Elem(tunnels, u) => conn[u] = "closed"
  BY DEF RunTerminatedAll, InPool, Elem
<1>d. host # "terminating" /\ \A t \in Tunnel : op[t] # "self"
  BY <1>0, <1>b DEF PlaceInv, MutexHeld
<1>f. \A t \in Tunnel : op[t] = "none"
  BY <1>0, <1>b, <1>c, <1>d DEF PlaceInv, OperatedPlaced, Terminating, ClosedIdle
<1>g. \A u : ~Elem(tunnels', u)
  BY <1>b, NoElem
<1>1. WorkerHolds' /\ ClosedIdle' /\ OneStatusReporter'
  BY <1>0, <1>a
     DEF PlaceInv, WorkerHolds, ClosedIdle, OneStatusReporter
<1>2. MutexHeld'
  BY <1>0, <1>a, <1>b, <1>c, <1>d, <1>f, <1>g DEF MutexHeld, PlaceInv
<1>3. ConnectedFresh'
  BY <1>0, <1>a, <1>b, <1>c, <1>d, <1>f, <1>g DEF ConnectedFresh, PlaceInv
<1>4. RunHand'
  BY <1>0, <1>a, <1>b, <1>c, <1>d, <1>f, <1>g
     DEF RunHand, RunFresh, RunHolds, RunHandsOK, PlaceInv
<1>5. OperatedPlaced'
  BY <1>0, <1>a, <1>b, <1>c, <1>d, <1>f, <1>g DEF OperatedPlaced, Terminating, PlaceInv
<1>6. OpenPlaced'
  BY <1>0, <1>a, <1>b, <1>c, <1>d, <1>f, <1>g
     DEF OpenPlaced, Terminating, RunHolds, RunFresh, PlaceInv
<1>7. FirstAlone'
  BY <1>0, <1>a, <1>b, <1>c, <1>d, <1>f, <1>g DEF FirstAlone, PlaceInv
<1>8. ShutdownOrder'
  BY <1>0, <1>a, <1>b, <1>c, <1>d, <1>f, <1>g
     DEF ShutdownOrder, ConnectedClosed, FailedClosed, PlaceInv
<1>9. PoolOpen'
  BY <1>0, <1>a, <1>b, <1>c, <1>d, <1>f, <1>g DEF PoolOpen, PlaceInv
<1> QED
  BY <1>1, <1>2, <1>3, <1>4, <1>5, <1>6, <1>7, <1>8, <1>9 DEF PlaceInv

\* The tunnels still in connectedTunnels are taken to be discarded.
LEMMA DrainConnectedPlace ==
    ASSUME SafeState, RunDrainConnected, connectedTunnels # <<>>
    PROVE  PlaceInv'
<1>0. /\ PoolOK /\ TunnelsOK /\ EstablishOK /\ RunOK /\ RunHandsOK /\ WorkerHandsOK
      /\ PlaceInv
  BY SafeParts
<1>a. UNCHANGED <<tunnels, tunnelMutex, conn, op, reporter, worker, isFirstTunnel,
                  host, hostTunnel, isEstablishing>>
  BY DEF RunDrainConnected,
         poolVars, channelVars, rtVars, hostVars, establishVars, workerVars, tunnelVars

<1>b. /\ rt = "drainConnected" /\ rt' = "discard" /\ rtNext' = "drainConnected"
      /\ connectedTunnels # <<>>
      /\ connectedTunnels' = Tail(connectedTunnels) /\ rtTunnel' = Head(connectedTunnels)
  BY DEF RunDrainConnected
<1>c. rtTunnel' \in Tunnel /\ Elem(connectedTunnels, rtTunnel')
      /\ Once(connectedTunnels') /\ ~Elem(connectedTunnels', rtTunnel')
      /\ \A u : Elem(connectedTunnels, u) <=> u = rtTunnel' \/ Elem(connectedTunnels', u)
  <2>1. connectedTunnels \in Seq(Tunnel) /\ Once(connectedTunnels) /\ connectedTunnels # <<>>
    BY <1>0, <1>b DEF PoolOK, PlaceInv, ConnectedFresh
  <2>2. Head(connectedTunnels) \in Tunnel
    BY <2>1
  <2> QED
    BY <1>b, <2>1, <2>2, OnceSteps, ChannelElems
<1>d. conn[rtTunnel'] = "open" /\ op[rtTunnel'] = "none" /\ ~Elem(tunnels, rtTunnel')
  BY <1>0, <1>c DEF PlaceInv, ConnectedFresh
<1>1. WorkerHolds' /\ ClosedIdle' /\ OneStatusReporter'
  BY <1>0, <1>a
     DEF PlaceInv, WorkerHolds, ClosedIdle, OneStatusReporter
<1>2. MutexHeld'
  BY <1>0, <1>a, <1>b, <1>c, <1>d DEF MutexHeld, PlaceInv
<1>3. ConnectedFresh'
  BY <1>0, <1>a, <1>b, <1>c, <1>d DEF ConnectedFresh, PlaceInv
<1>4. RunHand'
  BY <1>0, <1>a, <1>b, <1>c, <1>d DEF RunHand, RunFresh, RunHolds, RunHandsOK, PlaceInv
<1>5. OperatedPlaced'
  BY <1>0, <1>a, <1>b, <1>c, <1>d DEF OperatedPlaced, Terminating, PlaceInv
<1>6. OpenPlaced'
  BY <1>0, <1>a, <1>b, <1>c, <1>d DEF OpenPlaced, Terminating, RunHolds, RunFresh, PlaceInv
<1>7. FirstAlone'
  BY <1>0, <1>a, <1>b, <1>c, <1>d DEF FirstAlone, PlaceInv
<1>8. ShutdownOrder'
  BY <1>0, <1>a, <1>b, <1>c, <1>d DEF ShutdownOrder, ConnectedClosed, FailedClosed, PlaceInv
<1>9. PoolOpen'
  BY <1>0, <1>a, <1>b, <1>c, <1>d DEF PoolOpen, PlaceInv
<1> QED
  BY <1>1, <1>2, <1>3, <1>4, <1>5, <1>6, <1>7, <1>8, <1>9 DEF PlaceInv

\* connectedTunnels is drained.
LEMMA DrainedPlace ==
    ASSUME SafeState, RunDrainConnected, connectedTunnels = <<>>
    PROVE  PlaceInv'
<1>0. /\ PoolOK /\ TunnelsOK /\ EstablishOK /\ RunOK /\ RunHandsOK /\ WorkerHandsOK
      /\ PlaceInv
  BY SafeParts
<1>a. UNCHANGED <<tunnels, tunnelMutex, conn, op, reporter, worker, isFirstTunnel,
                  host, hostTunnel, isEstablishing, connectedTunnels, rtTunnel, rtNext>>
  BY DEF RunDrainConnected,
         poolVars, channelVars, rtVars, hostVars, establishVars, workerVars, tunnelVars

<1>b. rt = "drainConnected" /\ rt' = "drainFailed" /\ connectedTunnels = <<>>
  BY DEF RunDrainConnected
<1>1. WorkerHolds' /\ ClosedIdle' /\ ConnectedFresh' /\ OneStatusReporter'
  BY <1>0, <1>a
     DEF PlaceInv, WorkerHolds, ClosedIdle, ConnectedFresh, OneStatusReporter
<1>2. MutexHeld'
  BY <1>0, <1>a, <1>b DEF MutexHeld, PlaceInv
<1>3. RunHand'
  BY <1>0, <1>a, <1>b DEF RunHand, RunFresh, RunHolds, RunHandsOK, PlaceInv
<1>4. OperatedPlaced'
  BY <1>0, <1>a, <1>b DEF OperatedPlaced, Terminating, PlaceInv
<1>5. OpenPlaced'
  BY <1>0, <1>a, <1>b DEF OpenPlaced, Terminating, RunHolds, RunFresh, PlaceInv
<1>6. FirstAlone'
  BY <1>0, <1>a, <1>b DEF FirstAlone, PlaceInv
<1>7. ShutdownOrder'
  BY <1>0, <1>a, <1>b DEF ShutdownOrder, ConnectedClosed, FailedClosed, PlaceInv
<1>8. PoolOpen'
  BY <1>0, <1>a, <1>b DEF PoolOpen, PlaceInv
<1> QED
  BY <1>1, <1>2, <1>3, <1>4, <1>5, <1>6, <1>7, <1>8 DEF PlaceInv

\* failedTunnels is drained; its tunnels have left the pool.
LEMMA DrainFailedPlace ==
    ASSUME SafeState, RunDrainFailed
    PROVE  PlaceInv'
<1>0. /\ PoolOK /\ TunnelsOK /\ EstablishOK /\ RunOK /\ RunHandsOK /\ WorkerHandsOK
      /\ PlaceInv
  BY SafeParts
<1>a. UNCHANGED <<tunnels, tunnelMutex, conn, op, reporter, worker, isFirstTunnel,
                  host, hostTunnel, isEstablishing, connectedTunnels>>
  BY DEF RunDrainFailed,
         poolVars, channelVars, rtVars, hostVars, establishVars, workerVars, tunnelVars

<1>b. /\ rt = "drainFailed"
      /\ \/ rt' = "exited" /\ UNCHANGED <<rtTunnel, rtNext>>
         \/ rt' = "discard" /\ rtNext' = "drainFailed"
  BY DEF RunDrainFailed
<1>c. tunnels = <<>> /\ connectedTunnels = <<>>
  BY <1>0, <1>b DEF PlaceInv, ShutdownOrder, ConnectedClosed, FailedClosed
<1>d. \A u : ~Elem(tunnels, u) /\ ~Elem(connectedTunnels, u)
  BY <1>c, NoElem
<1>1. WorkerHolds' /\ ClosedIdle' /\ ConnectedFresh' /\ OneStatusReporter'
  BY <1>0, <1>a
     DEF PlaceInv, WorkerHolds, ClosedIdle, ConnectedFresh, OneStatusReporter
<1>2. MutexHeld'
  BY <1>0, <1>a, <1>b, <1>c, <1>d DEF MutexHeld, PlaceInv
<1>3. RunHand'
  BY <1>0, <1>a, <1>b, <1>c, <1>d DEF RunHand, RunFresh, RunHolds, RunHandsOK, PlaceInv
<1>4. OperatedPlaced'
  BY <1>0, <1>a, <1>b, <1>c, <1>d DEF OperatedPlaced, Terminating, PlaceInv
<1>5. OpenPlaced'
  BY <1>0, <1>a, <1>b, <1>c, <1>d DEF OpenPlaced, Terminating, RunHolds, RunFresh, PlaceInv
<1>6. FirstAlone'
  BY <1>0, <1>a, <1>b, <1>c, <1>d DEF FirstAlone, PlaceInv
<1>7. ShutdownOrder'
  BY <1>0, <1>a, <1>b, <1>c, <1>d DEF ShutdownOrder, ConnectedClosed, FailedClosed, PlaceInv
<1>8. PoolOpen'
  BY <1>0, <1>a, <1>b, <1>c, <1>d DEF PoolOpen, PlaceInv
<1> QED
  BY <1>1, <1>2, <1>3, <1>4, <1>5, <1>6, <1>7, <1>8 DEF PlaceInv

\* The host picks a tunnel and signals its failure.
LEMMA HostPlace ==
    ASSUME SafeState, TerminateNextActiveTunnel \/ HostSignals
    PROVE  PlaceInv'
<1>0. /\ PoolOK /\ TunnelsOK /\ EstablishOK /\ RunOK /\ RunHandsOK /\ WorkerHandsOK
      /\ PlaceInv
  BY SafeParts
<1>a. UNCHANGED <<tunnels, conn, op, reporter, worker, isFirstTunnel, isEstablishing, connectedTunnels,
                  rt, rtNext, rtTunnel, tunnelMutex>>
  BY DEF TerminateNextActiveTunnel, HostSignals, AdvanceNextTunnel,
         poolVars, channelVars, rtVars, hostVars, establishVars, workerVars, tunnelVars

<1>b. host # "terminating" /\ host' # "terminating"
  BY DEF TerminateNextActiveTunnel, HostSignals
<1>1. /\ WorkerHolds' /\ ClosedIdle' /\ ConnectedFresh' /\ RunHand' /\ FirstAlone'
      /\ ShutdownOrder' /\ PoolOpen' /\ OneStatusReporter'
  BY <1>0, <1>a
     DEF PlaceInv, WorkerHolds, ClosedIdle, ConnectedFresh, RunHand, RunFresh, RunHolds,
         RunHandsOK, FirstAlone, ShutdownOrder, ConnectedClosed, FailedClosed, PoolOpen,
         OneStatusReporter
<1>2. MutexHeld'
  BY <1>0, <1>a, <1>b DEF MutexHeld, PlaceInv
<1>3. OperatedPlaced'
  BY <1>0, <1>a, <1>b DEF OperatedPlaced, Terminating, PlaceInv
<1>4. OpenPlaced'
  BY <1>0, <1>a, <1>b DEF OpenPlaced, Terminating, RunHolds, RunFresh, PlaceInv
<1> QED
  BY <1>1, <1>2, <1>3, <1>4 DEF PlaceInv

\* The host's thread terminates a tunnel that is in the pool ...
LEMMA HostTerminatesPlace ==
    ASSUME SafeState, host = "full", host' = "terminating",
           RemoveAndClose(hostTunnel, "host"),
           UNCHANGED <<connectedTunnels, op, reporter, worker, rt, rtNext, rtTunnel, isFirstTunnel,
                       hostTunnel, isEstablishing>>
    PROVE  PlaceInv'
<1>0. /\ PoolOK /\ TunnelsOK /\ EstablishOK /\ RunOK /\ RunHandsOK /\ WorkerHandsOK
      /\ PlaceInv
  BY SafeParts
<1>t. hostTunnel \in Tunnel
  BY <1>0 DEF RunHandsOK
<1>b. /\ tunnelMutex = "free" /\ tunnelMutex' = "host"
      /\ Elem(tunnels, hostTunnel) /\ ~Elem(tunnels', hostTunnel)
      /\ \A u : u # hostTunnel => (Elem(tunnels', u) <=> Elem(tunnels, u))
      /\ \A u \in Tunnel : u # hostTunnel => conn'[u] = conn[u]
      /\ conn'[hostTunnel] = IF conn[hostTunnel] = "open" THEN "closing" ELSE conn[hostTunnel]
  BY <1>0, RemoveLife, <1>t DEF SafeState
<1>n. tunnels # <<>>
  BY <1>0, <1>b, ChannelElems DEF PoolOK
<1>w. \A w \in Worker : worker[w].tunnel # hostTunnel
  BY <1>b, <1>t DEF SafeState, WorkerOwnsTunnel, Known
<1>1. OneStatusReporter'
  BY <1>0 DEF PlaceInv, OneStatusReporter
<1>2. WorkerHolds'
  BY <1>0, <1>t, <1>b, <1>n, <1>w DEF WorkerHolds, PlaceInv
<1>3. MutexHeld'
  BY <1>0, <1>t, <1>b, <1>n, <1>w DEF MutexHeld, PlaceInv
<1>4. ClosedIdle'
  BY <1>0, <1>t, <1>b, <1>n, <1>w DEF ClosedIdle, PlaceInv
<1>5. ConnectedFresh'
  BY <1>0, <1>t, <1>b, <1>n, <1>w DEF ConnectedFresh, PlaceInv
<1>6. RunHand'
  BY <1>0, <1>t, <1>b, <1>n, <1>w DEF RunHand, RunFresh, RunHolds, RunHandsOK, PlaceInv
<1>7. OperatedPlaced'
  BY <1>0, <1>t, <1>b, <1>n, <1>w DEF OperatedPlaced, Terminating, PlaceInv
<1>8. OpenPlaced'
  BY <1>0, <1>t, <1>b, <1>n, <1>w DEF OpenPlaced, Terminating, RunHolds, RunFresh, PlaceInv
<1>9. FirstAlone'
  BY <1>0, <1>t, <1>b, <1>n, <1>w DEF FirstAlone, PlaceInv
<1>10. ShutdownOrder'
  BY <1>0, <1>t, <1>b, <1>n, <1>w DEF ShutdownOrder, ConnectedClosed, FailedClosed, PlaceInv
<1>11. PoolOpen'
  BY <1>0, <1>t, <1>b, <1>n, <1>w DEF PoolOpen, PlaceInv
<1> QED
  BY <1>1, <1>2, <1>3, <1>4, <1>5, <1>6, <1>7, <1>8, <1>9, <1>10, <1>11 DEF PlaceInv

\* ... or has left it.
LEMMA HostNotTerminatesPlace ==
    ASSUME SafeState, host = "full", host' = "idle",
           UNCHANGED <<tunnels, tunnelMutex, conn, connectedTunnels, op, reporter, worker, rt, rtNext,
                       rtTunnel, isFirstTunnel, isEstablishing>>
    PROVE  PlaceInv'
<1>0. /\ PoolOK /\ TunnelsOK /\ EstablishOK /\ RunOK /\ RunHandsOK /\ WorkerHandsOK
      /\ PlaceInv
  BY SafeParts
<1>1. /\ WorkerHolds' /\ ClosedIdle' /\ ConnectedFresh' /\ RunHand' /\ FirstAlone'
      /\ ShutdownOrder' /\ PoolOpen' /\ OneStatusReporter'
  BY <1>0
     DEF PlaceInv, WorkerHolds, ClosedIdle, ConnectedFresh, RunHand, RunFresh, RunHolds,
         RunHandsOK, FirstAlone, ShutdownOrder, ConnectedClosed, FailedClosed, PoolOpen,
         OneStatusReporter
<1>2. MutexHeld'
  BY <1>0 DEF MutexHeld, PlaceInv
<1>3. OperatedPlaced'
  BY <1>0 DEF OperatedPlaced, Terminating, PlaceInv
<1>4. OpenPlaced'
  BY <1>0 DEF OpenPlaced, Terminating, RunHolds, RunFresh, PlaceInv
<1> QED
  BY <1>1, <1>2, <1>3, <1>4 DEF PlaceInv

\* terminateTunnel returns to the host's thread.
LEMMA HostTerminatedPlace ==
    ASSUME SafeState, HostTerminated
    PROVE  PlaceInv'
<1>0. /\ PoolOK /\ TunnelsOK /\ EstablishOK /\ RunOK /\ RunHandsOK /\ WorkerHandsOK
      /\ PlaceInv
  BY SafeParts
<1>a. UNCHANGED <<tunnels, conn, op, reporter, worker, isFirstTunnel, isEstablishing, connectedTunnels,
                  rt, rtNext, rtTunnel>>
  BY DEF HostTerminated,
         poolVars, channelVars, rtVars, hostVars, establishVars, workerVars, tunnelVars

<1>b. /\ host = "terminating" /\ host' = "idle" /\ conn[hostTunnel] = "closed"
      /\ tunnelMutex' = "free"
  BY DEF HostTerminated
<1>c. hostTunnel \in Tunnel /\ op[hostTunnel] = "none" /\ tunnelMutex = "host"
  BY <1>0, <1>b DEF RunHandsOK, PlaceInv, ClosedIdle, MutexHeld
<1>d. rt \notin {"terminating", "closingAll"} /\ \A t \in Tunnel : op[t] # "self"
  BY <1>0, <1>c DEF PlaceInv, MutexHeld
<1>1. /\ WorkerHolds' /\ ClosedIdle' /\ ConnectedFresh' /\ RunHand' /\ FirstAlone'
      /\ PoolOpen' /\ OneStatusReporter'
  BY <1>0, <1>a
     DEF PlaceInv, WorkerHolds, ClosedIdle, ConnectedFresh, RunHand, RunFresh, RunHolds,
         RunHandsOK, FirstAlone, PoolOpen, OneStatusReporter
<1>2. MutexHeld'
  BY <1>0, <1>a, <1>b, <1>c, <1>d DEF MutexHeld, PlaceInv
<1>3. OperatedPlaced'
  BY <1>0, <1>a, <1>b, <1>c, <1>d DEF OperatedPlaced, Terminating, PlaceInv
<1>4. OpenPlaced'
  BY <1>0, <1>a, <1>b, <1>c, <1>d DEF OpenPlaced, Terminating, RunHolds, RunFresh, PlaceInv
<1>5. ShutdownOrder'
  BY <1>0, <1>a, <1>b, <1>c, <1>d DEF ShutdownOrder, ConnectedClosed, FailedClosed, PlaceInv
<1> QED
  BY <1>1, <1>2, <1>3, <1>4, <1>5 DEF PlaceInv

\* Every step leaves every tunnel in its place.
LEMMA NextPlaceInv ==
    ASSUME SafeState, [Next]_vars
    PROVE  PlaceInv'
<1> USE DEF poolVars, channelVars, tunnelVars, establishVars, workerVars, rtVars, hostVars
<1>1. CASE QuietStep
  BY <1>1, QuietPlace
<1>2. CASE ControlStep
  BY <1>2, StartPlace, RestartPlace, CountPlace, RejectPlace DEF ControlStep
<1>3. ASSUME NEW w \in Worker, DeliverTunnel(w) \/ \E t \in Tunnel : DialSucceeds(w, t)
      PROVE  PlaceInv'
  BY <1>3, DeliverPlace, DialPlace
<1>4. ASSUME NEW t \in Tunnel, OperateNext(t)
      PROVE  PlaceInv'
  <2>1. CASE TunnelClosed(t)
    BY <2>1, ClosedPlace
  <2>2. CASE OperateFails(t) \/ OperateStops(t) \/ OperateSignals(t)
    BY <2>2, OperatePlace
  <2>3. CASE OperateTerminates(t)
    <3>1. CASE RemoveAndClose(t, "operateTunnel") /\ op' = [op EXCEPT ![t] = "self"]
      BY <2>3, <3>1, OperateRemovesPlace DEF OperateTerminates
    <3>2. CASE NothingToTerminate(t) /\ op' = [op EXCEPT ![t] = "none"]
      BY <2>3, <3>2, OperateEndsPlace DEF OperateTerminates, NothingToTerminate
    <3> QED
      BY <2>3, <3>1, <3>2 DEF OperateTerminates
  <2> QED
    BY <1>4, <2>1, <2>2, <2>3 DEF OperateNext
<1>5. CASE RunTerminate
  <2>1. CASE RemoveAndClose(rtTunnel, "runTunnels") /\ rt' = "terminating" /\ UNCHANGED rtTunnel
    BY <1>5, <2>1, TerminatePlace DEF RunTerminate
  <2>2. CASE NothingToTerminate(rtTunnel) /\ rt' = "start"
    BY <1>5, <2>2, NotTerminatePlace DEF RunTerminate, NothingToTerminate
  <2> QED
    BY <1>5, <2>1, <2>2 DEF RunTerminate
<1>6. CASE HostTerminates
  <2>1. CASE RemoveAndClose(hostTunnel, "host") /\ host' = "terminating" /\ UNCHANGED hostTunnel
    BY <1>6, <2>1, HostTerminatesPlace DEF HostTerminates
  <2>2. CASE NothingToTerminate(hostTunnel) /\ host' = "idle"
    BY <1>6, <2>2, HostNotTerminatesPlace DEF HostTerminates, NothingToTerminate
  <2> QED
    BY <1>6, <2>1, <2>2 DEF HostTerminates
<1>7. CASE RunFailed \/ RunTerminated \/ RunConnected \/ RunActivate \/ RunRegister
  BY <1>7, FailedPlace, TerminatedPlace, ConnectedPlace, ActivatePlace, RegisterPlace
<1>8. CASE RunDiscard \/ RunDiscarded \/ RunRegistered \/ RunTerminateAll \/ RunTerminatedAll
  BY <1>8, DiscardPlace, DiscardedPlace, RegisteredPlace, TerminateAllPlace, TerminatedAllPlace
<1>9. CASE RunDrainConnected \/ RunDrainFailed
  BY <1>9, DrainConnectedPlace, DrainedPlace, DrainFailedPlace
<1>10. CASE TerminateNextActiveTunnel \/ HostSignals \/ HostTerminated
  BY <1>10, HostPlace, HostTerminatedPlace
<1> QED
  BY <1>1, <1>2, <1>3, <1>4, <1>5, <1>6, <1>7, <1>8, <1>9, <1>10, NextCases

\* No goroutine of the controller closes a channel twice or sends on a closed one.
LEMMA NextNoPanic ==
    ASSUME SafeState, AffinityOnce, NoPanic, [Next]_vars
    PROVE  NoPanic'
<1> USE DEF poolVars, channelVars, tunnelVars, establishVars, workerVars, rtVars, hostVars
<1>0. EstablishOK /\ WorkerHandsOK /\ PlaceInv /\ affinityDone \in BOOLEAN
  BY SafeParts DEF SafeState, TypeInv, TypeOK, FlagsOK
<1>u. CASE fault' = fault
  BY <1>u DEF NoPanic
<1>1. ASSUME NEW b \in BOOLEAN, GeneratorStart(b)
      PROVE  fault' = fault
  <2>1. ~affinityDone
    BY <1>1 DEF GeneratorStart, AffinityOnce
  <2>2. CloseAffinityIf(~genAffinity')
    BY <1>1, Zenon DEF GeneratorStart
  <2> QED
    BY <2>1, <2>2 DEF CloseAffinityIf, CloseAffinity
<1>2. ASSUME NEW w \in Worker, SkipCandidate(w) \/ DialFails(w)
      PROVE  fault' = fault
  <2>1. affinityDone => ~worker[w].affinity
    BY DEF AffinityOnce
  <2>2. CloseAffinityIf(worker[w].affinity)
    BY <1>2 DEF SkipCandidate, DialFails
  <2> QED
    BY <2>1, <2>2 DEF CloseAffinityIf, CloseAffinity
<1>3. ASSUME NEW w \in Worker, DeliverTunnel(w)
      PROVE  fault' = fault
  <2>1. affinityDone => ~worker[w].affinity
    BY DEF AffinityOnce
  <2>2. isEstablishing
    BY <1>3 DEF SafeState, EstablishmentContained, EstablishIdle, DeliverTunnel
  <2>3. ~ConnectedClosed
    BY <1>0, <2>2 DEF PlaceInv, ShutdownOrder
  <2>4. fault' = fault \cup {c \in {"affinity", "connectedTunnels"} :
                               \/ c = "affinity" /\ worker[w].affinity /\ affinityDone
                               \/ c = "connectedTunnels" /\ ConnectedClosed}
    BY <1>3 DEF DeliverTunnel
  <2>5. {c \in {"affinity", "connectedTunnels"} :
             \/ c = "affinity" /\ worker[w].affinity /\ affinityDone
             \/ c = "connectedTunnels" /\ ConnectedClosed} = {}
    BY <2>1, <2>3
  <2> QED
    BY <2>4, <2>5
<1>4. ASSUME NEW t \in Tunnel, OperateSignals(t)
      PROVE  fault' = fault
  <2>1. ~ConnectedClosed
    BY <1>0, <1>4 DEF PlaceInv, ShutdownOrder, OperateSignals
  <2>2. ~FailedClosed
    BY <2>1 DEF ConnectedClosed, FailedClosed
  <2> QED
    BY <1>4, <2>2 DEF OperateSignals
<1>5. CASE HostSignals
  <2>1. fault' \in {fault, fault \cup {"host"}}
    BY <1>5 DEF HostSignals
  <2> QED
    BY <2>1 DEF NoPanic
<1>6. ASSUME NEW w \in Worker,
             \/ WorkerExits(w) \/ SkipActiveServer(w)
             \/ \E b \in BOOLEAN : BeginDial(w, b)
             \/ \E t \in Tunnel : DialSucceeds(w, t)
      PROVE  fault' = fault
  BY <1>6 DEF WorkerExits, SkipActiveServer, BeginDial, DialSucceeds
<1>7. ASSUME NEW t \in Tunnel,
             TunnelClosed(t) \/ OperateFails(t) \/ OperateStops(t) \/ OperateTerminates(t)
      PROVE  fault' = fault
  BY <1>7 DEF TunnelClosed, OperateFails, OperateStops, OperateTerminates
<1>8. CASE LaunchNext
  BY <1>8, <1>u DEF LaunchNext, AwaitTactics, SetTunnelPoolSize, DoConstraintsScan, SpawnWorkers
<1>9. ASSUME NEW w \in Worker, NEW s \in Server, OfferCandidate(w, s)
      PROVE  fault' = fault
  BY <1>9 DEF OfferCandidate
<1>10. CASE GeneratorAdvance \/ GeneratorStopped \/ IteratorFails
  BY <1>10, <1>u DEF GeneratorAdvance, GeneratorStopped, IteratorFails
<1>11. CASE RunNext
  <2>1. fault' = fault
    BY <1>11 DEF RunNext, RunStart, EstablishingStopped, RunRestart, RunFailed, RunTerminate,
           RunTerminated, RunConnected, RunCount, RunActivate, RunActivateFails, RunRegister,
           RunReject, RunDiscard, RunDiscarded, RunRegistered, RunShutdown, RunTerminateAll,
           RunTerminatedAll, RunDrainConnected, RunDrainFailed
  <2> QED
    BY <1>u, <2>1
<1>12. CASE \/ Dial \/ TerminateNextActiveTunnel \/ HostTerminates \/ HostTerminated
            \/ RequestRestart \/ EstablishTunnelTimeout \/ Stop \/ UNCHANGED vars
  BY <1>12, <1>u DEF Dial, TerminateNextActiveTunnel, HostTerminates, HostTerminated,
         RequestRestart, EstablishTunnelTimeout, Stop, vars
<1>13. CASE GeneratorNext
  BY <1>13, <1>u, <1>1, <1>9, <1>10 DEF GeneratorNext
<1>14. ASSUME NEW w \in Worker, WorkerNext(w)
       PROVE  fault' = fault
  BY <1>14, <1>2, <1>3, <1>6 DEF WorkerNext
<1>15. ASSUME NEW t \in Tunnel, OperateNext(t)
       PROVE  fault' = fault
  BY <1>15, <1>4, <1>7 DEF OperateNext
<1>16. CASE HostNext
  BY <1>16, <1>5, <1>12 DEF HostNext
<1> QED
  BY <1>u, <1>8, <1>10, <1>11, <1>12, <1>13, <1>14, <1>15, <1>16 DEF Next

\* A new controller satisfies it.
LEMMA InitLifeInv == Init => LifeInv
<1> SUFFICES ASSUME Init PROVE LifeInv
  OBVIOUS
<1>0. NoTunnel \notin Tunnel
  BY ControllerAssumption
<1>1. \A w \in Worker : /\ worker[w].pc = "none" /\ worker[w].tunnel = NoTunnel
                        /\ worker[w].affinity = FALSE
  BY IdleFields DEF Init
<1>2. /\ tunnels = <<>> /\ connectedTunnels = <<>> /\ rt = "start" /\ host = "idle"
      /\ \A t \in Tunnel : conn[t] = "closed" /\ op[t] = "none"
  BY DEF Init
<1>3. \A u : ~Elem(tunnels, u) /\ ~Elem(connectedTunnels, u)
  BY <1>2, NoElem
<1>4. LaunchAlone /\ NoPanic
  BY DEF Init, LaunchAlone, NoPanic
<1>5. AffinityOnce
  <2>1. ~genAffinity /\ ~affinityDone /\ gen = "none"
    BY DEF Init
  <2> QED
    BY <1>1, <2>1 DEF AffinityOnce
<1>6. WorkerHolds /\ ClosedIdle /\ ConnectedFresh
  BY <1>0, <1>1, <1>2, <1>3 DEF WorkerHolds, ClosedIdle, ConnectedFresh, Once
<1>7. MutexHeld /\ RunHand /\ OperatedPlaced /\ OpenPlaced
  BY <1>2 DEF MutexHeld, RunHand, RunFresh, RunHolds, OperatedPlaced, OpenPlaced
<1>8. FirstAlone /\ ShutdownOrder /\ PoolOpen /\ OneStatusReporter
  BY <1>2, <1>3 DEF FirstAlone, ShutdownOrder, ConnectedClosed, FailedClosed, PoolOpen,
         OneStatusReporter
<1> QED
  BY <1>4, <1>5, <1>6, <1>7, <1>8 DEF LifeInv, PlaceInv

\* Every step of every goroutine and of the host keeps it.
LEMMA NextLifeInv ==
    ASSUME TypeInv, EstablishmentContained, WorkerOwnsTunnel, PoolServersDistinct, LifeInv,
           [Next]_vars
    PROVE  LifeInv'
<1>1. SafeState /\ AffinityOnce /\ NoPanic /\ WorkerHolds /\ LaunchAlone
  BY DEF SafeState, LifeInv, PlaceInv
<1> QED
  BY <1>1, NextLaunchAlone, NextAffinityOnce, NextPlaceInv, NextNoPanic DEF LifeInv

----------------------------------------------------------------------------
(* Theorems *)

\* TypeInv holds of every behaviour of the controller.
THEOREM ControllerTypeInv == Spec => []TypeInv
BY InitTypeInv, NextTypeInv, PTL DEF Spec

\* The variables of the controller keep their types; in particular the pool
\* size stays between one and MAX_TUNNEL_POOL_SIZE whatever tactics ask for.
THEOREM ControllerTypeOK == Spec => []TypeOK
BY ControllerTypeInv, PTL DEF TypeInv

\* getNextActiveTunnel never indexes past the pool, after any interleaving of
\* registerTunnel, terminateTunnel, terminateAllTunnels and Dial.
THEOREM ControllerNextTunnelInBounds == Spec => []NextTunnelInBounds
BY ControllerTypeInv, PTL DEF TypeInv

\* No launcher, generator or worker outlives its establishment, for any number
\* of workers and any sequence of stops and restarts.
THEOREM ControllerEstablishmentContained == Spec => []EstablishmentContained
BY ControllerTypeInv, InitEstablishmentContained, NextEstablishmentContained, PTL DEF Spec

\* A connected tunnel belongs to its worker until it is delivered.
THEOREM ControllerWorkerOwnsTunnel == Spec => []WorkerOwnsTunnel
BY ControllerTypeInv, InitPoolServers, NextWorkerOwnsTunnel, PTL DEF Spec

\* The pool never has two tunnels to one server, for any number of concurrent
\* workers.
THEOREM ControllerPoolServersDistinct == Spec => []PoolServersDistinct
BY ControllerTypeInv, ControllerWorkerOwnsTunnel, InitPoolServers, NextPoolServersDistinct,
   PTL DEF Spec

\* Where every tunnel is, who may close which channel, and in which order the
\* shutdown happens, in every behaviour of the controller.
THEOREM ControllerLifeInv == Spec => []LifeInv
<1>1. Init => LifeInv
  BY InitLifeInv
<1>2. TypeInv /\ EstablishmentContained /\ WorkerOwnsTunnel /\ PoolServersDistinct
      /\ LifeInv /\ [Next]_vars => LifeInv'
  BY NextLifeInv
<1> QED
  BY <1>1, <1>2, ControllerTypeInv, ControllerEstablishmentContained,
     ControllerWorkerOwnsTunnel, ControllerPoolServersDistinct, PTL DEF Spec

\* A tunnel in the pool is open until terminateAllTunnels, whichever of
\* runTunnels, operateTunnel and the host terminates tunnels.
THEOREM ControllerPoolTunnelsOpen == Spec => []PoolTunnelsOpen
<1>1. TypeInv /\ LifeInv => PoolTunnelsOpen
  BY DEF TypeInv, TypeOK, PoolOK, LifeInv, PlaceInv, PoolOpen, PoolTunnelsOpen, Elem
<1> QED
  BY <1>1, ControllerTypeInv, ControllerLifeInv, PTL

\* Nobody closes the tunnel that runTunnels is activating, so the return of
\* Activate that leaves tunnel.mutex locked is not taken.
THEOREM ControllerActivatingTunnelOpen == Spec => []ActivatingTunnelOpen
<1>1. TypeInv /\ LifeInv => ActivatingTunnelOpen
  BY DEF TypeInv, TypeOK, PoolOK, LifeInv, PlaceInv, RunHand, RunFresh, RunHolds,
         ActivatingTunnelOpen, InPool, Elem
<1> QED
  BY <1>1, ControllerTypeInv, ControllerLifeInv, PTL

\* At most one running tunnel sends status requests, for any pool size.
THEOREM ControllerOneStatusReporter == Spec => []OneStatusReporter
<1>1. LifeInv => OneStatusReporter
  BY DEF LifeInv, PlaceInv
<1> QED
  BY <1>1, ControllerLifeInv, PTL

\* serverAffinityDoneBroadcast is closed once in an establishment, and no
\* goroutine of the controller sends on connectedTunnels or failedTunnels once
\* runTunnels has closed them.
THEOREM ControllerNoPanic == Spec => []NoPanic
<1>1. LifeInv => NoPanic
  BY DEF LifeInv
<1> QED
  BY <1>1, ControllerLifeInv, PTL

\* runTunnels exits with every tunnel closed and none operated: those of the
\* pool, of both channels and of the workers.
THEOREM ControllerExitClosesTunnels == Spec => []ExitClosesTunnels
<1>1. ASSUME TypeInv, EstablishmentContained, LifeInv, rt = "exited", NEW t \in Tunnel
      PROVE  conn[t] = "closed" /\ op[t] = "none"
  <2>1. /\ ~isEstablishing /\ tunnels = <<>> /\ connectedTunnels = <<>>
        /\ tunnelMutex = "free" /\ \A u \in Tunnel : op[u] = "none"
    BY <1>1 DEF LifeInv, PlaceInv, ShutdownOrder, ConnectedClosed, FailedClosed
  <2>2. ~Elem(tunnels, t) /\ ~Elem(connectedTunnels, t)
    BY <2>1, NoElem
  <2>3. \A w \in Worker : worker[w].tunnel # t
    BY <1>1, <2>1, ControllerAssumption
       DEF EstablishmentContained, EstablishIdle, LifeInv, PlaceInv, WorkerHolds
  <2>4. ~Terminating(t) /\ ~RunHolds
    BY <1>1, <2>1 DEF Terminating, RunHolds, RunFresh, LifeInv, PlaceInv, MutexHeld
  <2> QED
    BY <1>1, <2>1, <2>2, <2>3, <2>4 DEF LifeInv, PlaceInv, OpenPlaced
<1>2. TypeInv /\ EstablishmentContained /\ LifeInv => ExitClosesTunnels
  BY <1>1 DEF ExitClosesTunnels
<1> QED
  BY <1>2, ControllerTypeInv, ControllerEstablishmentContained, ControllerLifeInv, PTL

=============================================================================
