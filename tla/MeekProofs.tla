----------------------------- MODULE MeekProofs -----------------------------
(***************************************************************************)
(* Theorems about Meek, for any number of handlers, any number of bytes in *)
(* each direction, any number of failures, and both padding modes.         *)
(***************************************************************************)
EXTENDS Meek, TLAPS

----------------------------------------------------------------------------
(* Types *)

Req == [id : 0..2, data : Seq(Nat), retry : BOOLEAN, position : Nat, live : BOOLEAN]

HandlerState == [pc : {"none", "wait", "read", "respond", "pump"}, req : Req,
                 superseded : BOOLEAN, allowCached : BOOLEAN, first : BOOLEAN]

TripState == [id : 0..2, data : Seq(Nat), acked : BOOLEAN, retried : BOOLEAN,
              received : Nat, morePadding : BOOLEAN]

SessionState == [lastChecksum : 1..2, deleted : BOOLEAN, closed : BOOLEAN,
                 registered : BOOLEAN, padding : BOOLEAN, readBuffer : Seq(Nat),
                 nextWrite : Seq(Nat)]

\* The client and what it has written.
ClientTypes ==
    /\ client \in {"idle", "trip", "failed", "closed"}
    /\ sendBuffer \in Seq(Nat)
    /\ trip \in TripState
    /\ checksum \in 1..2
    /\ upSent \in Nat

\* The response; what it carries is of no concern here.
WireTypes ==
    /\ wire = [status |-> wire.status, data |-> wire.data, eof |-> wire.eof]
    /\ wire.eof \in BOOLEAN

\* The requests.
RequestTypes ==
    /\ transit \in Seq(Req)
    /\ handler \in [Handler -> HandlerState]
    /\ lock \in Handler \cup {None}

\* The session and its streams.
SessionTypes ==
    /\ session \in SessionState
    /\ reaper \in {"idle", "closed", "deleted", "done"}
    /\ upReceived \in Seq(Nat)
    /\ downSent \in Nat

Types == ClientTypes /\ WireTypes /\ RequestTypes /\ SessionTypes

----------------------------------------------------------------------------
(* The lock and the buffers *)

\* The handlers between session.lock.Lock and Unlock.
HoldsLock(h) == handler[h].pc \in {"read", "respond", "pump"}

\* session.lock is held by the one handler that is past it.  A deleted session
\* is deleted under the lock, and no handler gets past the lock afterwards.
LockInv ==
    /\ \A h \in Handler : HoldsLock(h) <=> lock = h
    /\ session.deleted => lock = None /\ ExtendedCount(cache) = 0

\* The reaper closes the meekConn before all else; so does RespondMissing.
CloseOrder ==
    reaper # "idle" \/ session.deleted \/ ~session.registered => session.closed

----------------------------------------------------------------------------
(* The requests and the payload *)

\* The client listens to the newest request alone: a request in transit is the
\* last one, and one that has arrived has superseded those that still wait.
TransitLive ==
    \A i \in DOMAIN transit : transit[i].live =>
        /\ i = Len(transit) /\ client = "trip" /\ ~wire.eof
        /\ \A h \in Handler : ~handler[h].req.live

HandlerLive ==
    \A h \in Handler : handler[h].req.live =>
        /\ client = "trip" /\ ~wire.eof /\ transit = <<>> /\ ~handler[h].superseded
        /\ \A g \in Handler \ {h} :
              ~handler[g].req.live /\ (handler[g].pc = "wait" => handler[g].req.id = Empty)

\* A handler has a payload to relay only until pumpReads is done.
PayloadRead ==
    \A h \in Handler : handler[h].pc \notin {"wait", "read"} => handler[h].req.id = Empty

\* The bytes of s are the ones after the first n.
From(s, n) == \A i \in DOMAIN s : s[i] = n + i

\* How many bytes the server has taken from requests.
Relayed == Len(upReceived) + Len(session.readBuffer)

\* The payload of the last checksum has not been relayed.
Pending == checksum # session.lastChecksum

\* No request has a payload, and the last one was relayed.
Settled ==
    /\ \A i \in DOMAIN transit : transit[i].id = Empty
    /\ \A h \in Handler : handler[h].req.id = Empty
    /\ ~Pending

\* A request has the payload of the last checksum: one that was relayed, or the
\* bytes that come next.
Carries(r) ==
    r.id # Empty =>
        /\ r.id = checksum
        /\ Pending => /\ From(r.data, Relayed) /\ Relayed + Len(r.data) <= upSent
                      /\ client # "closed" => r.data = trip.data

RequestsCarry ==
    /\ \A i \in DOMAIN transit : Carries(transit[i])
    /\ \A h \in Handler : Carries(handler[h].req)

InTrip == client \in {"trip", "failed"}

\* A payload that was acknowledged, or is about to be, was relayed, and no
\* request that has it is left behind.
AckedSettled ==
    /\ client = "idle" => Settled
    /\ InTrip /\ (trip.acked \/ trip.id = Empty) => Settled
    /\ wire.status = "ok" => Settled
    /\ \A h \in Handler : handler[h].pc = "respond" /\ handler[h].req.live => Settled

\* The request the client listens to has the payload until it is acknowledged.
LiveCarries ==
    /\ \A i \in DOMAIN transit :
          transit[i].live /\ transit[i].id = Empty => trip.acked \/ trip.id = Empty
    /\ \A h \in Handler :
          handler[h].pc \in {"wait", "read"} /\ handler[h].req.live
            /\ handler[h].req.id = Empty => trip.acked \/ trip.id = Empty

\* The payload of the round trip in progress.
TripCarries ==
    InTrip /\ trip.id # Empty =>
        trip.id = checksum /\ (Pending => From(trip.data, Relayed))

\* What is buffered for sending comes after the payload of the round trip.
Buffered ==
    client # "closed" =>
        LET n == Relayed + (IF Pending THEN Len(trip.data) ELSE 0)
        IN  From(sendBuffer, n) /\ n + Len(sendBuffer) = upSent

\* What is buffered for reading comes after what was read.
ReadNext == From(session.readBuffer, Len(upReceived)) /\ Relayed <= upSent

\* What the upstream rests on, while the session is open.
UpParts ==
    /\ RequestsCarry /\ AckedSettled /\ LiveCarries
    /\ TripCarries /\ Buffered /\ ReadNext

LiveInv == TransitLive /\ HandlerLive /\ PayloadRead

UpInv == ~session.closed => UpParts

----------------------------------------------------------------------------
(* What the operators return *)

\* The initial values.
LEMMA Constants ==
    /\ NoRequest \in Req /\ NoRequest.id = 0 /\ NoRequest.live = FALSE
    /\ NoHandler \in HandlerState /\ NoHandler.pc = "none" /\ NoHandler.req = NoRequest
    /\ NoHandler.superseded = FALSE
    /\ NoTrip \in TripState
    /\ NoWire.status = "none" /\ NoWire.eof = FALSE
    /\ NoWire = [status |-> NoWire.status, data |-> NoWire.data, eof |-> NoWire.eof]
<1>1. NoRequest \in Req /\ NoRequest.id = 0 /\ NoRequest.live = FALSE
  BY DEF NoRequest, Req, Empty
<1>2. /\ NoHandler \in HandlerState /\ NoHandler.pc = "none" /\ NoHandler.req = NoRequest
      /\ NoHandler.superseded = FALSE
  BY <1>1 DEF NoHandler, HandlerState
<1>3. NoTrip \in TripState
  BY DEF NoTrip, TripState, Empty
<1>4. /\ NoWire.status = "none" /\ NoWire.eof = FALSE
      /\ NoWire = [status |-> NoWire.status, data |-> NoWire.data, eof |-> NoWire.eof]
  BY DEF NoWire
<1> QED
  BY <1>1, <1>2, <1>3, <1>4

\* The request of a try carries the payload until it is acknowledged.
LEMMA TryRequestFacts ==
    ASSUME NEW t \in TripState, NEW retry \in BOOLEAN
    PROVE  /\ TryRequest(t, retry) \in Req
           /\ TryRequest(t, retry).id = IF t.acked THEN 0 ELSE t.id
           /\ ~t.acked => TryRequest(t, retry).data = t.data
           /\ TryRequest(t, retry).live = TRUE
<1>1. /\ t.id \in 0..2 /\ t.data \in Seq(Nat) /\ t.acked \in BOOLEAN /\ t.received \in Nat
  BY DEF TripState
<1>2. /\ (IF t.acked THEN Empty ELSE t.id) \in 0..2
      /\ (IF t.acked THEN <<>> ELSE t.data) \in Seq(Nat)
      /\ (IF retry THEN t.received ELSE 0) \in Nat
  BY <1>1 DEF Empty
<1>3. TryRequest(t, retry) \in Req
  BY <1>2 DEF TryRequest, Req
<1>4. /\ TryRequest(t, retry).id = IF t.acked THEN Empty ELSE t.id
      /\ TryRequest(t, retry).data = IF t.acked THEN <<>> ELSE t.data
      /\ TryRequest(t, retry).live = TRUE
  BY DEF TryRequest
<1> QED
  BY <1>3, <1>4 DEF Empty

\* The client does not listen to an abandoned request; else it is the same.
LEMMA AbandonFacts ==
    ASSUME NEW rs \in Seq(Req)
    PROVE  /\ Abandon(rs) \in Seq(Req) /\ Len(Abandon(rs)) = Len(rs)
           /\ DOMAIN Abandon(rs) = DOMAIN rs
           /\ \A i \in DOMAIN rs : /\ Abandon(rs)[i].id = rs[i].id
                                   /\ Abandon(rs)[i].data = rs[i].data
                                   /\ Abandon(rs)[i].live = FALSE
<1> DEFINE as == Abandon(rs)
<1>0. DOMAIN rs = 1..Len(rs) /\ Len(rs) \in Nat /\ \A i \in 1..Len(rs) : rs[i] \in Req
  OBVIOUS
<1>1. as = [i \in 1..Len(rs) |-> [rs[i] EXCEPT !.live = FALSE]]
  BY <1>0 DEF Abandon
<1>2. ASSUME NEW r \in Req
      PROVE  /\ [r EXCEPT !.live = FALSE] \in Req /\ [r EXCEPT !.live = FALSE].id = r.id
             /\ [r EXCEPT !.live = FALSE].data = r.data
             /\ [r EXCEPT !.live = FALSE].live = FALSE
  BY DEF Req
<1>3. as \in [1..Len(rs) -> Req]
  BY <1>0, <1>1, <1>2
<1>4. as \in Seq(Req) /\ Len(as) = Len(rs) /\ DOMAIN as = 1..Len(rs)
  BY <1>0, <1>3
<1>5. \A i \in 1..Len(rs) : as[i] = [rs[i] EXCEPT !.live = FALSE]
  BY <1>1
<1> HIDE DEF as
<1>6. ASSUME NEW i \in 1..Len(rs)
      PROVE  as[i].id = rs[i].id /\ as[i].data = rs[i].data /\ as[i].live = FALSE
  <2>1. PICK r \in Req : r = rs[i]
    BY <1>0
  <2>2. as[i] = [r EXCEPT !.live = FALSE]
    BY <1>5, <2>1
  <2> QED
    BY <1>2, <2>1, <2>2
<1> QED
  BY <1>0, <1>4, <1>6 DEF as

\* Nor to the handlers.
LEMMA AbandonHandlersFacts ==
    ASSUME RequestTypes, handler' = AbandonHandlers
    PROVE  /\ handler' \in [Handler -> HandlerState]
           /\ \A h \in Handler : /\ handler'[h].pc = handler[h].pc
                                 /\ handler'[h].superseded = handler[h].superseded
                                 /\ handler'[h].req.id = handler[h].req.id
                                 /\ handler'[h].req.data = handler[h].req.data
                                 /\ handler'[h].req.live = FALSE
<1>1. ASSUME NEW k \in HandlerState
      PROVE  LET v == [k EXCEPT !.req.live = FALSE]
             IN  /\ v \in HandlerState /\ v.pc = k.pc /\ v.superseded = k.superseded
                 /\ v.req.id = k.req.id /\ v.req.data = k.req.data /\ v.req.live = FALSE
  BY DEF HandlerState, Req
<1>2. handler \in [Handler -> HandlerState]
  BY DEF RequestTypes
<1>3. handler' = [h \in Handler |-> [handler[h] EXCEPT !.req.live = FALSE]]
  BY DEF AbandonHandlers
<1>4. \A h \in Handler : handler[h] \in HandlerState
                         /\ handler'[h] = [handler[h] EXCEPT !.req.live = FALSE]
  BY <1>2, <1>3
<1>5. handler' \in [Handler -> HandlerState]
  BY <1>1, <1>3, <1>4
<1>6. ASSUME NEW h \in Handler
      PROVE  /\ handler'[h].pc = handler[h].pc
             /\ handler'[h].superseded = handler[h].superseded
             /\ handler'[h].req.id = handler[h].req.id
             /\ handler'[h].req.data = handler[h].req.data
             /\ handler'[h].req.live = FALSE
  <2>1. PICK k \in HandlerState : k = handler[h]
    BY <1>4
  <2>2. handler'[h] = [k EXCEPT !.req.live = FALSE]
    BY <1>4, <2>1
  <2> QED
    BY <1>1, <2>1, <2>2
<1> QED
  BY <1>5, <1>6

\* What a handler writes.
LEMMA RespondFacts ==
    ASSUME WireTypes, NEW r, NEW st, NEW data, NEW eof \in BOOLEAN, Respond(r, st, data, eof)
    PROVE  /\ WireTypes'
           /\ ~r.live => wire' = wire
           /\ r.live => /\ wire'.status = IF st = "none" THEN wire.status ELSE st
                        /\ wire'.eof = eof
<1>1. CASE r.live
  <2>1. wire' = [status |-> IF st = "none" THEN wire.status ELSE st,
                 data |-> wire.data \o data, eof |-> eof]
    BY <1>1 DEF Respond
  <2>2. /\ wire'.status = IF st = "none" THEN wire.status ELSE st
        /\ wire'.data = wire.data \o data /\ wire'.eof = eof
    BY <2>1
  <2> QED
    BY <1>1, <2>1, <2>2 DEF WireTypes
<1>2. CASE ~r.live
  BY <1>2 DEF Respond, WireTypes
<1> QED
  BY <1>1, <1>2

\* A handler returns.
LEMMA EndHandlerFacts ==
    ASSUME RequestTypes, NEW h \in Handler, EndHandler(h)
    PROVE  /\ handler' \in [Handler -> HandlerState] /\ handler'[h] = NoHandler
           /\ \A g \in Handler \ {h} : handler'[g] = handler[g]
BY Constants DEF RequestTypes, EndHandler

\* A handler gets the lock, relays its payload, begins a response, goes on.
LEMMA HandlerMoves ==
    ASSUME RequestTypes, NEW h \in Handler
    PROVE  /\ ServeRequest(h) =>
                /\ handler' \in [Handler -> HandlerState]
                /\ handler'[h].pc = "read" /\ handler'[h].req = handler[h].req
                /\ handler'[h].superseded = handler[h].superseded
                /\ \A g \in Handler \ {h} : handler'[g] = handler[g]
           /\ PumpReads(h) =>
                /\ handler' \in [Handler -> HandlerState]
                /\ handler'[h].pc = "respond" /\ handler'[h].req.id = 0
                /\ handler'[h].req.live = handler[h].req.live
                /\ handler'[h].superseded = handler[h].superseded
                /\ \A g \in Handler \ {h} : handler'[g] = handler[g]
           /\ RespondNew(h) =>
                /\ handler' \in [Handler -> HandlerState]
                /\ handler'[h].pc = "pump" /\ handler'[h].req.id = 0
                /\ handler'[h].req.live = handler[h].req.live
                /\ handler'[h].superseded = FALSE
                /\ \A g \in Handler \ {h} : handler'[g] = handler[g]
           /\ PumpWrites(h, TRUE) =>
                /\ handler' \in [Handler -> HandlerState]
                /\ handler'[h].pc = handler[h].pc /\ handler'[h].req = handler[h].req
                /\ handler'[h].superseded = handler[h].superseded
                /\ \A g \in Handler \ {h} : handler'[g] = handler[g]
<1>0. handler \in [Handler -> HandlerState]
  BY DEF RequestTypes
<1>k. PICK k \in HandlerState : k = handler[h]
  BY <1>0
<1>m. ASSUME NEW v \in HandlerState, handler' = [handler EXCEPT ![h] = v]
      PROVE  /\ handler' \in [Handler -> HandlerState] /\ handler'[h] = v
             /\ \A g \in Handler \ {h} : handler'[g] = handler[g]
  BY <1>0, <1>m
<1>1. ASSUME ServeRequest(h)
      PROVE  /\ handler' \in [Handler -> HandlerState]
             /\ handler'[h].pc = "read" /\ handler'[h].req = handler[h].req
             /\ handler'[h].superseded = handler[h].superseded
             /\ \A g \in Handler \ {h} : handler'[g] = handler[g]
  <2>1. PICK v : v = [k EXCEPT !.pc = "read"]
    OBVIOUS
  <2>2. v \in HandlerState /\ v.pc = "read" /\ v.req = k.req /\ v.superseded = k.superseded
    BY <2>1 DEF HandlerState
  <2>3. handler' = [handler EXCEPT ![h] = v]
    BY <1>0, <1>1, <1>k, <2>1 DEF ServeRequest
  <2> QED
    BY <1>k, <1>m, <2>2, <2>3
<1>2. ASSUME PumpReads(h)
      PROVE  /\ handler' \in [Handler -> HandlerState]
             /\ handler'[h].pc = "respond" /\ handler'[h].req.id = 0
             /\ handler'[h].req.live = handler[h].req.live
             /\ handler'[h].superseded = handler[h].superseded
             /\ \A g \in Handler \ {h} : handler'[g] = handler[g]
  <2>d. PICK d \in BOOLEAN : d = Duplicate(k.req)
    BY DEF Duplicate
  <2>q. k.req \in Req
    BY DEF HandlerState
  <2>r. PICK r : r = [k.req EXCEPT !.id = 0, !.data = <<>>]
    OBVIOUS
  <2>s. r \in Req /\ r.id = 0 /\ r.live = k.req.live
    <3>0. <<>> \in Seq(Nat) /\ 0 \in 0..2
      OBVIOUS
    <3>1. PICK e \in Seq(Nat) : e = <<>>
      BY <3>0, Zenon
    <3>2. PICK z \in 0..2 : z = 0
      BY <3>0, Zenon
    <3>3. r = [k.req EXCEPT !.id = z, !.data = e]
      BY <2>r, <3>1, <3>2
    <3>4. r \in Req /\ r.id = z /\ r.live = k.req.live
      BY ONLY <2>q, e \in Seq(Nat), z \in 0..2, <3>3 DEF Req
    <3> QED
      BY <3>2, <3>4
  <2>1. PICK v : v = [k EXCEPT !.pc = "respond", !.allowCached = d, !.req = r]
    OBVIOUS
  <2>2. /\ v \in HandlerState /\ v.pc = "respond" /\ v.req = r /\ v.superseded = k.superseded
    BY <2>1, <2>s DEF HandlerState
  <2>3. handler' = [handler EXCEPT ![h] = v]
    <3>1. handler' = [handler EXCEPT ![h].pc = "respond", ![h].allowCached = d,
                                     ![h].req.id = 0, ![h].req.data = <<>>]
      BY <1>2, <1>k, <2>d DEF PumpReads, Empty
    <3>2. [k EXCEPT !.pc = "respond", !.allowCached = d, !.req.id = 0, !.req.data = <<>>] = v
      BY <2>1, <2>r DEF HandlerState
    <3> QED
      BY <1>0, <1>k, <3>1, <3>2
  <2> QED
    BY <1>k, <1>m, <2>2, <2>3, <2>s
<1>3. ASSUME RespondNew(h)
      PROVE  /\ handler' \in [Handler -> HandlerState]
             /\ handler'[h].pc = "pump" /\ handler'[h].req.id = 0
             /\ handler'[h].req.live = handler[h].req.live
             /\ handler'[h].superseded = FALSE
             /\ \A g \in Handler \ {h} : handler'[g] = handler[g]
  <2>1. PICK v : v = [NoHandler EXCEPT !.pc = "pump", !.req.live = k.req.live]
    OBVIOUS
  <2>r. PICK r : r = [NoRequest EXCEPT !.live = k.req.live]
    OBVIOUS
  <2>s. r \in Req /\ r.id = 0 /\ r.live = k.req.live
    <3>1. k.req.live \in BOOLEAN /\ <<>> \in Seq(Nat)
      BY DEF HandlerState, Req
    <3> QED
      BY <2>r, <3>1, Constants DEF Req
  <2>v. v = [NoHandler EXCEPT !.pc = "pump", !.req = r]
    BY <2>1, <2>r, Constants DEF HandlerState
  <2>2. /\ v \in HandlerState /\ v.pc = "pump" /\ v.req.id = 0 /\ v.req.live = k.req.live
        /\ v.superseded = FALSE
    BY <2>s, <2>v, Constants DEF HandlerState
  <2>3. handler' = [handler EXCEPT ![h] = v]
    BY <1>3, <1>k, <2>1 DEF RespondNew
  <2> QED
    BY <1>k, <1>m, <2>2, <2>3
<1>4. ASSUME PumpWrites(h, TRUE)
      PROVE  /\ handler' \in [Handler -> HandlerState]
             /\ handler'[h].pc = handler[h].pc /\ handler'[h].req = handler[h].req
             /\ handler'[h].superseded = handler[h].superseded
             /\ \A g \in Handler \ {h} : handler'[g] = handler[g]
  <2>1. PICK v : v = [k EXCEPT !.first = FALSE]
    OBVIOUS
  <2>2. v \in HandlerState /\ v.pc = k.pc /\ v.req = k.req /\ v.superseded = k.superseded
    BY <2>1 DEF HandlerState
  <2>3. handler' = [handler EXCEPT ![h] = v]
    BY <1>0, <1>4, <1>k, <2>1 DEF PumpWrites
  <2> QED
    BY <1>k, <1>m, <2>2, <2>3
<1> QED
  BY <1>1, <1>2, <1>3, <1>4

\* A request arrives and supersedes those that wait.
LEMMA ArrivesFacts ==
    ASSUME RequestTypes, NEW h \in Handler, RequestArrives(h)
    PROVE  /\ transit # <<>> /\ transit' = Tail(transit) /\ Head(transit) \in Req
           /\ handler[h] = NoHandler
           /\ handler' \in [Handler -> HandlerState]
           /\ handler'[h].pc = "wait" /\ handler'[h].req = Head(transit)
           /\ handler'[h].superseded = FALSE
           /\ \A g \in Handler \ {h} :
                 \/ handler[g].pc # "wait" /\ handler'[g] = handler[g]
                 \/ /\ handler[g].pc = "wait" /\ handler'[g].pc = "wait"
                    /\ handler'[g].req = NoRequest /\ handler'[g].superseded = TRUE
<1>0. handler \in [Handler -> HandlerState] /\ transit \in Seq(Req)
  BY DEF RequestTypes
<1>1. transit # <<>> /\ transit' = Tail(transit) /\ handler[h] = NoHandler
  BY DEF RequestArrives
<1>2. Head(transit) \in Req
  BY <1>0, <1>1
<1>3. PICK r \in Req : r = Head(transit)
  BY <1>2
<1>4. PICK v : v = [NoHandler EXCEPT !.pc = "wait", !.req = r]
  OBVIOUS
<1>5. PICK u : u = [NoHandler EXCEPT !.pc = "wait", !.superseded = TRUE]
  OBVIOUS
<1>6. /\ v \in HandlerState /\ v.pc = "wait" /\ v.req = r /\ v.superseded = FALSE
  BY <1>4 DEF HandlerState, NoHandler
<1>7. /\ u \in HandlerState /\ u.pc = "wait" /\ u.req = NoRequest /\ u.superseded = TRUE
  BY <1>5, Constants DEF HandlerState, NoHandler
<1>8. handler' = [g \in Handler |-> CASE g = h -> v
                                      [] g # h /\ handler[g].pc = "wait" -> u
                                      [] OTHER -> handler[g]]
  BY <1>3, <1>4, <1>5 DEF RequestArrives
<1>9. handler'[h] = v
  BY <1>8
<1>10. \A g \in Handler \ {h} : handler'[g] = IF handler[g].pc = "wait" THEN u ELSE handler[g]
  BY <1>8
<1>11. handler' \in [Handler -> HandlerState]
  <2>1. \A g \in Handler : handler'[g] \in HandlerState
    BY <1>0, <1>6, <1>7, <1>9, <1>10
  <2> QED
    BY <1>8, <2>1
<1> QED
  BY <1>1, <1>2, <1>3, <1>6, <1>7, <1>9, <1>10, <1>11

\* What pumpReads relays.
LEMMA PumpReadsSession ==
    ASSUME RequestTypes, SessionTypes, NEW h \in Handler, PumpReads(h)
    PROVE  /\ session' \in SessionState
           /\ session'.closed = session.closed /\ session'.deleted = session.deleted
           /\ session'.registered = session.registered
           /\ \/ session' = session /\ handler[h].req.id \in {0, session.lastChecksum}
              \/ /\ handler[h].req.id \notin {0, session.lastChecksum}
                 /\ session'.lastChecksum = handler[h].req.id
                 /\ session'.readBuffer = session.readBuffer \o handler[h].req.data
<1>0. handler[h] \in HandlerState /\ session \in SessionState
  BY DEF RequestTypes, SessionTypes
<1>1. PICK r \in Req : r = handler[h].req
  BY <1>0 DEF HandlerState
<1>2. r.id \in 0..2 /\ r.data \in Seq(Nat) /\ session.readBuffer \in Seq(Nat)
  BY <1>0 DEF Req, SessionState
<1>3. CASE Duplicate(r)
  <2>1. session' = session
    BY <1>1, <1>3 DEF PumpReads
  <2> QED
    BY <1>0, <1>1, <1>3, <2>1 DEF Duplicate, Empty
<1>4. CASE ~Duplicate(r)
  <2>1. session' = [session EXCEPT !.readBuffer = @ \o r.data, !.lastChecksum = r.id]
    BY <1>1, <1>4 DEF PumpReads
  <2>2. r.id # 0 /\ r.id # session.lastChecksum
    BY <1>4 DEF Duplicate, Empty
  <2>a. session.readBuffer \o r.data \in Seq(Nat)
    BY <1>2
  <2>3. PICK b \in Seq(Nat) : b = session.readBuffer \o r.data
    BY <2>a, Zenon
  <2>4. session' = [session EXCEPT !.readBuffer = b, !.lastChecksum = r.id]
    BY <2>1, <2>3
  <2>5. /\ session' \in SessionState /\ session'.lastChecksum = r.id /\ session'.readBuffer = b
        /\ session'.closed = session.closed /\ session'.deleted = session.deleted
        /\ session'.registered = session.registered
    <3>1. r.id \in 1..2
      BY <1>2, <2>2
    <3> QED
      BY <1>0, <2>4, <3>1 DEF SessionState
  <2> QED
    BY <1>1, <2>2, <2>3, <2>5
<1> QED
  BY <1>3, <1>4

\* What the other steps do to the session.
LEMMA SessionMoves ==
    ASSUME SessionTypes
    PROVE  /\ \A h \in Handler : RespondMissing(h) =>
                /\ session' \in SessionState /\ session'.closed = TRUE
                /\ session'.registered = session.registered
           /\ \A h \in Handler : \A more \in BOOLEAN : PumpWrites(h, more) =>
                /\ session' \in SessionState /\ session'.closed = session.closed
                /\ session'.deleted = session.deleted /\ session'.registered = session.registered
                /\ session'.lastChecksum = session.lastChecksum
                /\ session'.readBuffer = session.readBuffer
           /\ \A h \in Handler : PumpHeaderFails(h) =>
                /\ session' \in SessionState /\ session'.closed = session.closed
                /\ session'.deleted = session.deleted /\ session'.registered = session.registered
                /\ session'.lastChecksum = session.lastChecksum
                /\ session'.readBuffer = session.readBuffer
           /\ ServerRead =>
                /\ session' \in SessionState /\ session'.closed = session.closed
                /\ session'.deleted = session.deleted /\ session'.registered = session.registered
                /\ session'.lastChecksum = session.lastChecksum
                /\ session.readBuffer # <<>> /\ session'.readBuffer = Tail(session.readBuffer)
                /\ upReceived' = Append(upReceived, Head(session.readBuffer))
           /\ \A n \in 1 .. MaxPayload : ServerWrite(n) =>
                /\ session' \in SessionState /\ session'.closed = session.closed
                /\ session'.deleted = session.deleted /\ session'.registered = session.registered
                /\ session'.lastChecksum = session.lastChecksum
                /\ session'.readBuffer = session.readBuffer
           /\ ServerClose \/ DeleteBegin =>
                /\ session' \in SessionState /\ session'.closed = TRUE
                /\ session'.deleted = session.deleted /\ session'.registered = session.registered
           /\ DeleteRelease =>
                /\ session' \in SessionState /\ session'.closed = session.closed
                /\ session'.registered = session.registered
                /\ session'.lastChecksum = session.lastChecksum
                /\ session'.readBuffer = session.readBuffer
           /\ DeleteUnregister =>
                /\ session' \in SessionState /\ session'.closed = session.closed
                /\ session'.deleted = session.deleted
                /\ session'.lastChecksum = session.lastChecksum
                /\ session'.readBuffer = session.readBuffer
<1>0. session \in SessionState /\ downSent \in Nat
  BY DEF SessionTypes
<1>1. ASSUME NEW h \in Handler, RespondMissing(h)
      PROVE  /\ session' \in SessionState /\ session'.closed = TRUE
             /\ session'.registered = session.registered
  BY <1>0, <1>1 DEF RespondMissing, SessionState
<1>2. ASSUME NEW h \in Handler, NEW more \in BOOLEAN, PumpWrites(h, more)
      PROVE  /\ session' \in SessionState /\ session'.closed = session.closed
             /\ session'.deleted = session.deleted /\ session'.registered = session.registered
             /\ session'.lastChecksum = session.lastChecksum
             /\ session'.readBuffer = session.readBuffer
  <2>1. session' = [session EXCEPT !.nextWrite = <<>>] /\ <<>> \in Seq(Nat)
    BY <1>2 DEF PumpWrites
  <2> QED
    BY <1>0, <2>1 DEF SessionState
<1>8. ASSUME NEW h \in Handler, PumpHeaderFails(h)
      PROVE  /\ session' \in SessionState /\ session'.closed = session.closed
             /\ session'.deleted = session.deleted /\ session'.registered = session.registered
             /\ session'.lastChecksum = session.lastChecksum
             /\ session'.readBuffer = session.readBuffer
  <2>1. session' = [session EXCEPT !.nextWrite = <<>>] /\ <<>> \in Seq(Nat)
    BY <1>8 DEF PumpHeaderFails
  <2> QED
    BY <1>0, <2>1 DEF SessionState
<1>3. ASSUME ServerRead
      PROVE  /\ session' \in SessionState /\ session'.closed = session.closed
             /\ session'.deleted = session.deleted /\ session'.registered = session.registered
             /\ session'.lastChecksum = session.lastChecksum
             /\ session.readBuffer # <<>> /\ session'.readBuffer = Tail(session.readBuffer)
             /\ upReceived' = Append(upReceived, Head(session.readBuffer))
  <2>1. /\ session.readBuffer # <<>>
        /\ upReceived' = Append(upReceived, Head(session.readBuffer))
        /\ session' = [session EXCEPT !.readBuffer = Tail(session.readBuffer)]
    BY <1>3 DEF ServerRead
  <2>2. PICK b \in Seq(Nat) : b = Tail(session.readBuffer)
    <3>1. session.readBuffer \in Seq(Nat)
      BY <1>0 DEF SessionState
    <3>2. Tail(session.readBuffer) \in Seq(Nat)
      BY <2>1, <3>1
    <3> QED
      BY <3>2, Zenon
  <2>3. session' = [session EXCEPT !.readBuffer = b]
    BY <2>1, <2>2
  <2>4. /\ session' \in SessionState /\ session'.closed = session.closed
        /\ session'.deleted = session.deleted /\ session'.registered = session.registered
        /\ session'.lastChecksum = session.lastChecksum
        /\ session'.readBuffer = b
    BY <1>0, <2>3 DEF SessionState
  <2> QED
    BY <2>1, <2>2, <2>4
<1>4. ASSUME NEW n \in 1 .. MaxPayload, ServerWrite(n)
      PROVE  /\ session' \in SessionState /\ session'.closed = session.closed
             /\ session'.deleted = session.deleted /\ session'.registered = session.registered
             /\ session'.lastChecksum = session.lastChecksum
             /\ session'.readBuffer = session.readBuffer
  <2>1. session' = [session EXCEPT !.nextWrite = [i \in 1 .. n |-> downSent + i]]
    BY <1>4 DEF ServerWrite
  <2>2. n \in Nat /\ [i \in 1 .. n |-> downSent + i] \in [1..n -> Nat]
    BY <1>0, MeekAssumption
  <2>a. [i \in 1 .. n |-> downSent + i] \in Seq(Nat)
    BY <2>2
  <2>3. PICK b \in Seq(Nat) : b = [i \in 1 .. n |-> downSent + i]
    BY <2>a, Zenon
  <2>4. session' = [session EXCEPT !.nextWrite = b]
    BY <2>1, <2>3
  <2> QED
    BY <1>0, <2>4 DEF SessionState
<1>5. ASSUME ServerClose \/ DeleteBegin
      PROVE  /\ session' \in SessionState /\ session'.closed = TRUE
             /\ session'.deleted = session.deleted /\ session'.registered = session.registered
  <2>1. session' = [session EXCEPT !.closed = TRUE]
    BY <1>5 DEF ServerClose, DeleteBegin
  <2> QED
    BY <1>0, <2>1 DEF SessionState
<1>6. ASSUME DeleteRelease
      PROVE  /\ session' \in SessionState /\ session'.closed = session.closed
             /\ session'.registered = session.registered
             /\ session'.lastChecksum = session.lastChecksum
             /\ session'.readBuffer = session.readBuffer
  <2>1. session' = [session EXCEPT !.deleted = TRUE]
    BY <1>6 DEF DeleteRelease
  <2> QED
    BY <1>0, <2>1 DEF SessionState
<1>7. ASSUME DeleteUnregister
      PROVE  /\ session' \in SessionState /\ session'.closed = session.closed
             /\ session'.deleted = session.deleted
             /\ session'.lastChecksum = session.lastChecksum
             /\ session'.readBuffer = session.readBuffer
  <2>1. session' = [session EXCEPT !.registered = FALSE]
    BY <1>7 DEF DeleteUnregister
  <2> QED
    BY <1>0, <2>1 DEF SessionState
<1> QED
  BY <1>1, <1>2, <1>3, <1>4, <1>5, <1>6, <1>7, <1>8

----------------------------------------------------------------------------
(* Type correctness *)

\* What a step leaves alone keeps its type.
LEMMA TypesFrame ==
    ASSUME Types
    PROVE  /\ UNCHANGED <<clientVars, upSent>> => ClientTypes'
           /\ UNCHANGED wire => WireTypes'
           /\ UNCHANGED <<transit, handler, lock>> => RequestTypes'
           /\ UNCHANGED <<session, reaper, upReceived, downSent>> => SessionTypes'
<1>1. UNCHANGED <<clientVars, upSent>> => ClientTypes'
  BY DEF Types, ClientTypes, clientVars
<1>2. UNCHANGED wire => WireTypes'
  BY DEF Types, WireTypes
<1>3. UNCHANGED <<transit, handler, lock>> => RequestTypes'
  BY DEF Types, RequestTypes
<1>4. UNCHANGED <<session, reaper, upReceived, downSent>> => SessionTypes'
  BY DEF Types, SessionTypes
<1> QED
  BY <1>1, <1>2, <1>3, <1>4

\* The round trip that StartTrip begins.
NewTrip(poll) ==
    [id |-> IF poll /\ ~session.padding THEN Empty ELSE NextChecksum(checksum),
     data |-> IF poll THEN <<>> ELSE sendBuffer, acked |-> FALSE,
     retried |-> FALSE, received |-> 0, morePadding |-> session.padding]

\* StartTrip sends it.
LEMMA StartTripFacts ==
    ASSUME Types, NEW poll \in BOOLEAN, StartTrip(poll)
    PROVE  /\ client = "idle" /\ SendTry(NewTrip(poll), FALSE)
           /\ NewTrip(poll) \in TripState
           /\ NewTrip(poll).acked = FALSE
           /\ NewTrip(poll).id = IF poll /\ ~session.padding THEN 0 ELSE 3 - checksum
           /\ NewTrip(poll).data = IF poll THEN <<>> ELSE sendBuffer
           /\ checksum' = IF NewTrip(poll).id = 0 THEN checksum ELSE NewTrip(poll).id
           /\ sendBuffer' = IF poll THEN sendBuffer ELSE <<>>
           /\ UNCHANGED <<breaks, serverVars, streamVars>>
<1>1. /\ NewTrip(poll).acked = FALSE
      /\ NewTrip(poll).id = IF poll /\ ~session.padding THEN 0 ELSE 3 - checksum
      /\ NewTrip(poll).data = IF poll THEN <<>> ELSE sendBuffer
  BY DEF NewTrip, Empty, NextChecksum
<1>2. checksum \in 1..2 /\ sendBuffer \in Seq(Nat)
  BY DEF Types, ClientTypes
<1>3. /\ (IF poll /\ ~session.padding THEN Empty ELSE NextChecksum(checksum)) \in 0..2
      /\ (IF poll THEN <<>> ELSE sendBuffer) \in Seq(Nat)
      /\ session.padding \in BOOLEAN
  BY <1>2 DEF Empty, NextChecksum, Types, SessionTypes, SessionState
<1>4. NewTrip(poll) \in TripState
  BY <1>3 DEF NewTrip, TripState
<1>5. /\ client = "idle" /\ SendTry(NewTrip(poll), FALSE)
      /\ checksum' = IF NewTrip(poll).id = 0 THEN checksum ELSE NewTrip(poll).id
      /\ sendBuffer' = IF poll THEN sendBuffer ELSE <<>>
      /\ UNCHANGED <<breaks, serverVars, streamVars>>
  BY DEF StartTrip, NewTrip, Empty
<1> QED
  BY <1>1, <1>4, <1>5

\* A try puts its request behind those in transit.
LEMMA SendTryFacts ==
    ASSUME Types, NEW t \in TripState, NEW retry \in BOOLEAN, SendTry(t, retry)
    PROVE  /\ client' = "trip" /\ trip' = t /\ wire' = NoWire
           /\ transit' \in Seq(Req) /\ Len(transit') = Len(transit) + 1
           /\ transit'[Len(transit) + 1] = TryRequest(t, retry)
           /\ \A i \in DOMAIN transit : i # Len(transit) + 1 /\ transit'[i] = transit[i]
           /\ DOMAIN transit' = DOMAIN transit \cup {Len(transit) + 1}
<1>1. transit \in Seq(Req) /\ TryRequest(t, retry) \in Req
  BY TryRequestFacts DEF Types, RequestTypes
<1>2. PICK r \in Req : r = TryRequest(t, retry)
  BY <1>1
<1>3. transit' = Append(transit, r) /\ client' = "trip" /\ trip' = t /\ wire' = NoWire
  BY <1>2 DEF SendTry
<1> QED
  BY <1>1, <1>2, <1>3

\* The client's steps keep the types.
LEMMA ClientTypesNext ==
    ASSUME Types, ClientNext
    PROVE  Types'
<1>0. /\ client \in {"idle", "trip", "failed", "closed"} /\ sendBuffer \in Seq(Nat)
      /\ trip \in TripState /\ checksum \in 1..2 /\ upSent \in Nat
      /\ transit \in Seq(Req) /\ handler \in [Handler -> HandlerState]
      /\ lock \in Handler \cup {None}
  BY DEF Types, ClientTypes, RequestTypes
<1>n. WireTypes' \/ wire' # NoWire
  BY Constants DEF WireTypes
<1>1. ASSUME ClientWrite PROVE Types'
  <2>1. /\ upSent' = upSent + 1 /\ sendBuffer' = Append(sendBuffer, upSent + 1)
        /\ UNCHANGED <<client, trip, checksum>> /\ UNCHANGED wire
        /\ UNCHANGED <<transit, handler, lock>>
        /\ UNCHANGED <<session, reaper, upReceived, downSent>>
    BY <1>1 DEF ClientWrite, netVars, serverVars
  <2>2. ClientTypes'
    BY <1>0, <2>1 DEF ClientTypes
  <2> QED
    BY <2>1, <2>2, TypesFrame DEF Types
<1>2. ASSUME NEW poll \in BOOLEAN, StartTrip(poll) PROVE Types'
  <2>0. /\ SendTry(NewTrip(poll), FALSE) /\ NewTrip(poll) \in TripState
        /\ NewTrip(poll).id = IF poll /\ ~session.padding THEN 0 ELSE 3 - checksum
        /\ checksum' = IF NewTrip(poll).id = 0 THEN checksum ELSE NewTrip(poll).id
        /\ sendBuffer' = IF poll THEN sendBuffer ELSE <<>>
        /\ UNCHANGED <<breaks, serverVars, streamVars>>
    BY <1>2, StartTripFacts
  <2>1. client' = "trip" /\ trip' \in TripState /\ wire' = NoWire /\ transit' \in Seq(Req)
    BY <2>0, SendTryFacts
  <2>2. UNCHANGED <<handler, lock>> /\ UNCHANGED <<session, reaper, upReceived, downSent>>
        /\ upSent' = upSent
    BY <2>0 DEF serverVars, streamVars
  <2>3. checksum' \in 1..2 /\ sendBuffer' \in Seq(Nat)
    BY <1>0, <2>0
  <2>4. ClientTypes'
    BY <1>0, <2>1, <2>2, <2>3 DEF ClientTypes
  <2>5. RequestTypes'
    BY <1>0, <2>1, <2>2 DEF RequestTypes
  <2> QED
    BY <1>n, <2>1, <2>2, <2>4, <2>5, TypesFrame DEF Types
<1>3. ASSUME ReceiveStatus PROVE Types'
  <2>1. /\ wire' = [wire EXCEPT !.status = "none"] /\ trip' = [trip EXCEPT !.acked = TRUE]
        /\ UNCHANGED <<client, sendBuffer, checksum, upSent>>
        /\ UNCHANGED <<transit, handler, lock>>
        /\ UNCHANGED <<session, reaper, upReceived, downSent>>
    BY <1>3 DEF ReceiveStatus, serverVars, streamVars
  <2>2. trip' \in TripState
    BY <1>0, <2>1 DEF TripState
  <2>3. ClientTypes'
    BY <1>0, <2>1, <2>2 DEF ClientTypes
  <2>4. WireTypes'
    BY <2>1 DEF Types, WireTypes
  <2> QED
    BY <2>1, <2>3, <2>4, TypesFrame DEF Types
<1>4. ASSUME ReadPayload PROVE Types'
  <2>1. /\ wire' = [wire EXCEPT !.data = Tail(wire.data)]
        /\ trip' = [trip EXCEPT !.received = trip.received + 1, !.morePadding = FALSE]
        /\ UNCHANGED <<client, sendBuffer, checksum, upSent>>
        /\ UNCHANGED <<transit, handler, lock>>
        /\ UNCHANGED <<session, reaper, upReceived, downSent>>
    BY <1>4 DEF ReadPayload, serverVars
  <2>2. trip' \in TripState
    <3>1. trip.received + 1 \in Nat
      BY <1>0 DEF TripState
    <3>2. PICK n \in Nat : n = trip.received + 1
      BY <3>1, Zenon
    <3> QED
      BY <1>0, <2>1, <3>2 DEF TripState
  <2>3. ClientTypes'
    BY <1>0, <2>1, <2>2 DEF ClientTypes
  <2>4. WireTypes'
    BY <2>1 DEF Types, WireTypes
  <2> QED
    BY <2>1, <2>3, <2>4, TypesFrame DEF Types
<1>5. ASSUME EndTrip PROVE Types'
  <2>1. /\ wire' = NoWire /\ trip' = NoTrip /\ client' = "idle"
        /\ UNCHANGED <<sendBuffer, checksum, upSent>>
        /\ UNCHANGED <<transit, handler, lock>>
        /\ UNCHANGED <<session, reaper, upReceived, downSent>>
    BY <1>5 DEF EndTrip, serverVars, streamVars
  <2>2. ClientTypes'
    BY <1>0, <2>1, Constants DEF ClientTypes
  <2> QED
    BY <1>n, <2>1, <2>2, TypesFrame DEF Types
<1>6. ASSUME TryFails PROVE Types'
  <2>1. /\ wire' = NoWire /\ client' = "failed" /\ transit' = Abandon(transit)
        /\ handler' = AbandonHandlers /\ lock' = lock
        /\ UNCHANGED <<sendBuffer, trip, checksum, upSent>>
        /\ UNCHANGED <<session, reaper, upReceived, downSent>>
    BY <1>6 DEF TryFails, streamVars
  <2>2. ClientTypes'
    BY <1>0, <2>1 DEF ClientTypes
  <2>3. transit' \in Seq(Req) /\ handler' \in [Handler -> HandlerState]
    BY <1>0, <2>1, AbandonFacts, AbandonHandlersFacts DEF Types
  <2>4. RequestTypes'
    BY <1>0, <2>1, <2>3 DEF RequestTypes
  <2> QED
    BY <1>n, <2>1, <2>2, <2>4, TypesFrame DEF Types
<1>7. ASSUME Retry PROVE Types'
  <2>0. PICK t : t = [trip EXCEPT !.retried = TRUE]
    OBVIOUS
  <2>a. t \in TripState
    BY <1>0, <2>0 DEF TripState
  <2>b. SendTry(t, TRUE) /\ UNCHANGED <<sendBuffer, checksum, breaks, serverVars, streamVars>>
    BY <1>7, <2>0 DEF Retry
  <2>1. client' = "trip" /\ trip' \in TripState /\ wire' = NoWire /\ transit' \in Seq(Req)
    BY <2>a, <2>b, SendTryFacts
  <2>2. UNCHANGED <<handler, lock>> /\ UNCHANGED <<session, reaper, upReceived, downSent>>
        /\ UNCHANGED <<upSent, sendBuffer, checksum>>
    BY <2>b DEF serverVars, streamVars
  <2>4. ClientTypes'
    BY <1>0, <2>1, <2>2 DEF ClientTypes
  <2>5. RequestTypes'
    BY <1>0, <2>1, <2>2 DEF RequestTypes
  <2> QED
    BY <1>n, <2>1, <2>2, <2>4, <2>5, TypesFrame DEF Types
<1>8. ASSUME CloseClient PROVE Types'
  <2>1. /\ wire' = NoWire /\ client' = "closed" /\ transit' = Abandon(transit)
        /\ handler' = AbandonHandlers /\ lock' = lock
        /\ sendBuffer' = <<>> /\ trip' = NoTrip /\ UNCHANGED <<checksum, upSent>>
        /\ UNCHANGED <<session, reaper, upReceived, downSent>>
    BY <1>8 DEF CloseClient, streamVars
  <2>2. ClientTypes'
    BY <1>0, <2>1, Constants DEF ClientTypes
  <2>3. transit' \in Seq(Req) /\ handler' \in [Handler -> HandlerState]
    BY <1>0, <2>1, AbandonFacts, AbandonHandlersFacts DEF Types
  <2>4. RequestTypes'
    BY <1>0, <2>1, <2>3 DEF RequestTypes
  <2> QED
    BY <1>n, <2>1, <2>2, <2>4, TypesFrame DEF Types
<1> QED
  BY <1>1, <1>2, <1>3, <1>4, <1>5, <1>6, <1>7, <1>8
  DEF ClientNext, GiveUp, StatusError, ClientClose

\* The variables no handler touches.
LEMMA HandlerKeeps ==
    ASSUME NEW h \in Handler, HandlerNext(h)
    PROVE  UNCHANGED <<clientVars, transit, reaper, streamVars>>
<1>1. Discard(h) \/ RejectDeleted(h) \/ PumpReadsFails(h) \/ RespondCached(h)
        => UNCHANGED <<clientVars, transit, reaper, streamVars>>
  BY DEF Discard, RejectDeleted, PumpReadsFails, RespondCached
<1>2. ServeRequest(h) \/ PumpReads(h)
        => UNCHANGED <<clientVars, transit, reaper, streamVars>>
  BY DEF ServeRequest, PumpReads, netVars
<1>3. RespondMissing(h) \/ RespondNew(h) \/ PumpClosed(h)
        => UNCHANGED <<clientVars, transit, reaper, streamVars>>
  BY DEF RespondMissing, RespondNew, PumpClosed
<1>4. \A more \in BOOLEAN : PumpWrites(h, more)
        => UNCHANGED <<clientVars, transit, reaper, streamVars>>
  BY DEF PumpWrites
<1>5. \A pad \in BOOLEAN : PumpTimeout(h, pad)
        => UNCHANGED <<clientVars, transit, reaper, streamVars>>
  BY DEF PumpTimeout
<1>6. PumpHeaderFails(h) => UNCHANGED <<clientVars, transit, reaper, streamVars>>
  BY DEF PumpHeaderFails, netVars
<1> QED
  BY <1>1, <1>2, <1>3, <1>4, <1>5, <1>6 DEF HandlerNext

\* What the handler's steps do to the response, the lock and the goroutines.
LEMMA HandlerEnds ==
    ASSUME Types, NEW h \in Handler, NEW more \in BOOLEAN, NEW pad \in BOOLEAN,
           \/ Discard(h) \/ RejectDeleted(h) \/ PumpReadsFails(h) \/ RespondCached(h)
           \/ RespondMissing(h) \/ (PumpWrites(h, more) /\ ~more)
           \/ PumpHeaderFails(h) \/ PumpTimeout(h, pad) \/ PumpClosed(h)
    PROVE  /\ WireTypes' /\ RequestTypes' /\ lock' \in {lock, None}
           /\ handler'[h] = NoHandler /\ \A g \in Handler \ {h} : handler'[g] = handler[g]
           /\ ~handler[h].req.live => wire' = wire
<1>0. WireTypes /\ RequestTypes
  BY DEF Types
<1>1. EndHandler(h) /\ lock' \in {lock, None}
  <2>1. Discard(h) \/ RejectDeleted(h) \/ PumpReadsFails(h) \/ RespondCached(h)
          => EndHandler(h) /\ lock' \in {lock, None}
    BY DEF Discard, RejectDeleted, PumpReadsFails, RespondCached
  <2>2. RespondMissing(h) \/ PumpClosed(h) => EndHandler(h) /\ lock' \in {lock, None}
    BY DEF RespondMissing, PumpClosed
  <2>3. PumpWrites(h, more) /\ ~more => EndHandler(h) /\ lock' \in {lock, None}
    BY DEF PumpWrites
  <2>4. PumpTimeout(h, pad) => EndHandler(h) /\ lock' \in {lock, None}
    BY DEF PumpTimeout
  <2>5. PumpHeaderFails(h) => EndHandler(h) /\ lock' \in {lock, None}
    BY DEF PumpHeaderFails
  <2> QED
    BY <2>1, <2>2, <2>3, <2>4, <2>5
<1>a. PumpHeaderFails(h) => wire' = wire
  BY DEF PumpHeaderFails, netVars
<1>2. ASSUME ~PumpHeaderFails(h)
      PROVE  \E st, data, eof : eof \in BOOLEAN /\ Respond(handler[h].req, st, data, eof)
  <2>1. Discard(h) => Respond(handler[h].req, "ok", <<>>, TRUE)
    BY DEF Discard
  <2>2. RejectDeleted(h) => Respond(handler[h].req, "error", <<>>, TRUE)
    BY DEF RejectDeleted
  <2>3. PumpReadsFails(h) => Respond(handler[h].req, "ok", <<>>, TRUE)
    BY DEF PumpReadsFails
  <2>4. RespondCached(h) => Respond(handler[h].req, "ok",
                                    CopyFromPosition(cache, handler[h].req.position), TRUE)
    BY DEF RespondCached
  <2>5. RespondMissing(h) => Respond(handler[h].req, "error", <<>>, TRUE)
    BY DEF RespondMissing
  <2>6. PumpWrites(h, more) => \E data : Respond(handler[h].req, "none", data, ~more)
    BY DEF PumpWrites
  <2>7. PumpTimeout(h, pad) => \E data : Respond(handler[h].req, "none", data, TRUE)
    BY DEF PumpTimeout
  <2>8. PumpClosed(h) => Respond(handler[h].req, "none", <<>>, TRUE)
    BY DEF PumpClosed
  <2>9. (~more) \in BOOLEAN
    OBVIOUS
  <2> QED
    BY <1>2, <2>1, <2>2, <2>3, <2>4, <2>5, <2>6, <2>7, <2>8, <2>9, Zenon
<1>3. WireTypes' /\ (~handler[h].req.live => wire' = wire)
  <2>1. wire' = wire => WireTypes'
    BY TypesFrame
  <2> QED
    BY <1>0, <1>2, <1>a, <2>1, RespondFacts, Zenon
<1>4. /\ handler' \in [Handler -> HandlerState] /\ handler'[h] = NoHandler
      /\ \A g \in Handler \ {h} : handler'[g] = handler[g]
  BY <1>0, <1>1, EndHandlerFacts
<1>5. transit' = transit
  <2>1. HandlerNext(h)
    BY DEF HandlerNext
  <2> QED
    BY <2>1, HandlerKeeps
<1>6. RequestTypes'
  BY <1>0, <1>1, <1>4, <1>5 DEF RequestTypes
<1> QED
  BY <1>1, <1>3, <1>4, <1>6

\* So do the handlers'.
LEMMA HandlerTypesNext ==
    ASSUME Types, NEW h \in Handler, HandlerNext(h)
    PROVE  Types'
<1>0. ClientTypes /\ WireTypes /\ RequestTypes /\ SessionTypes
  BY DEF Types
<1>a. ClientTypes' /\ transit' = transit /\ UNCHANGED <<reaper, upReceived, downSent>>
  BY HandlerKeeps, TypesFrame DEF streamVars
<1>b. session' \in SessionState => SessionTypes'
  BY <1>0, <1>a DEF SessionTypes
<1>c. session' = session => SessionTypes'
  BY <1>0, <1>a DEF SessionTypes
<1>d. handler' \in [Handler -> HandlerState] /\ lock' \in {lock, h} => RequestTypes'
  BY <1>0, <1>a DEF RequestTypes
<1>1. ASSUME Discard(h) \/ RejectDeleted(h) \/ PumpReadsFails(h) \/ RespondCached(h)
             \/ PumpClosed(h)
      PROVE  Types'
  <2>1. session' = session
    BY <1>1 DEF Discard, RejectDeleted, PumpReadsFails, RespondCached, PumpClosed
  <2>2. WireTypes' /\ RequestTypes'
    BY <1>1, HandlerEnds
  <2> QED
    BY <1>a, <1>c, <2>1, <2>2 DEF Types
<1>2. ASSUME RespondMissing(h) PROVE Types'
  BY <1>0, <1>2, <1>a, <1>b, HandlerEnds, SessionMoves DEF Types
<1>3. ASSUME NEW pad \in BOOLEAN, PumpTimeout(h, pad) PROVE Types'
  <2>1. session' = session
    BY <1>3 DEF PumpTimeout
  <2>2. WireTypes' /\ RequestTypes'
    BY <1>3, HandlerEnds
  <2> QED
    BY <1>a, <1>c, <2>1, <2>2 DEF Types
<1>4. ASSUME NEW more \in BOOLEAN, PumpWrites(h, more) PROVE Types'
  <2>1. SessionTypes'
    BY <1>0, <1>4, <1>b, SessionMoves
  <2>2. CASE ~more
    <3>1. WireTypes' /\ RequestTypes'
      BY <1>4, <2>2, HandlerEnds
    <3> QED
      BY <1>a, <2>1, <3>1 DEF Types
  <2>3. CASE more
    <3>1. PumpWrites(h, TRUE)
      BY <1>4, <2>3, Zenon
    <3>2. handler' \in [Handler -> HandlerState]
      BY <1>0, <3>1, HandlerMoves
    <3>3. lock' = lock
      BY <3>1 DEF PumpWrites
    <3>4. PICK data : Respond(handler[h].req, "none", data, ~TRUE)
      BY <3>1 DEF PumpWrites
    <3>5. (~TRUE) \in BOOLEAN
      OBVIOUS
    <3>6. WireTypes'
      BY <1>0, <3>4, <3>5, RespondFacts, Zenon
    <3> QED
      BY <1>a, <1>d, <2>1, <3>2, <3>3, <3>6 DEF Types
  <2> QED
    BY <2>2, <2>3
<1>5. ASSUME ServeRequest(h) PROVE Types'
  <2>1. lock' = h /\ UNCHANGED session /\ UNCHANGED wire
    BY <1>5 DEF ServeRequest, netVars
  <2>2. handler' \in [Handler -> HandlerState]
    BY <1>0, <1>5, HandlerMoves
  <2> QED
    BY <1>a, <1>c, <1>d, <2>1, <2>2, TypesFrame DEF Types
<1>6. ASSUME PumpReads(h) PROVE Types'
  <2>1. UNCHANGED lock /\ UNCHANGED wire
    BY <1>6 DEF PumpReads, netVars
  <2>2. handler' \in [Handler -> HandlerState] /\ session' \in SessionState
    BY <1>0, <1>6, HandlerMoves, PumpReadsSession
  <2> QED
    BY <1>a, <1>b, <1>d, <2>1, <2>2, TypesFrame DEF Types
<1>7. ASSUME RespondNew(h) PROVE Types'
  <2>1. /\ UNCHANGED lock /\ UNCHANGED session
        /\ Respond(handler[h].req, "ok", <<>>, FALSE)
    BY <1>7 DEF RespondNew
  <2>2. handler' \in [Handler -> HandlerState]
    BY <1>0, <1>7, HandlerMoves
  <2>3. WireTypes'
    BY <1>0, <2>1, RespondFacts
  <2> QED
    BY <1>a, <1>c, <1>d, <2>1, <2>2, <2>3 DEF Types
<1>8. ASSUME PumpHeaderFails(h) PROVE Types'
  BY <1>0, <1>8, <1>a, <1>b, HandlerEnds, SessionMoves DEF Types
<1> QED
  BY <1>1, <1>2, <1>3, <1>4, <1>5, <1>6, <1>7, <1>8 DEF HandlerNext

\* So does every step.
LEMMA TypesNext ==
    ASSUME Types, [Next]_vars
    PROVE  Types'
<1>0. ClientTypes /\ WireTypes /\ RequestTypes /\ SessionTypes /\ transit \in Seq(Req)
  BY DEF Types, RequestTypes
<1>1. ASSUME UNCHANGED vars PROVE Types'
  BY <1>1, TypesFrame DEF vars, clientVars, netVars, serverVars, streamVars, Types
<1>2. ASSUME LoseRequest PROVE Types'
  <2>1. /\ transit # <<>> /\ transit' = Tail(transit) /\ UNCHANGED <<clientVars, upSent>>
        /\ UNCHANGED wire /\ UNCHANGED <<handler, lock>>
        /\ UNCHANGED <<session, reaper, upReceived, downSent>>
    BY <1>2 DEF LoseRequest, serverVars, streamVars
  <2>2. transit' \in Seq(Req)
    BY <1>0, <2>1
  <2>3. RequestTypes'
    BY <1>0, <2>1, <2>2 DEF RequestTypes
  <2> QED
    BY <2>1, <2>3, TypesFrame DEF Types
<1>3. ASSUME RequestRejected PROVE Types'
  <2>1. /\ transit # <<>> /\ transit' = Tail(transit) /\ UNCHANGED <<clientVars, upSent>>
        /\ Respond(Head(transit), "error", <<>>, TRUE) /\ UNCHANGED <<handler, lock>>
        /\ UNCHANGED <<session, reaper, upReceived, downSent>>
    BY <1>3 DEF RequestRejected, serverVars, streamVars
  <2>2. transit' \in Seq(Req)
    BY <1>0, <2>1
  <2>3. RequestTypes'
    BY <1>0, <2>1, <2>2 DEF RequestTypes
  <2>4. WireTypes'
    BY <1>0, <2>1, RespondFacts
  <2> QED
    BY <2>1, <2>3, <2>4, TypesFrame DEF Types
<1>4. ASSUME NEW h \in Handler, RequestArrives(h) PROVE Types'
  <2>1. /\ UNCHANGED <<clientVars, upSent>> /\ UNCHANGED wire /\ lock' = lock
        /\ UNCHANGED <<session, reaper, upReceived, downSent>>
    BY <1>4 DEF RequestArrives, streamVars
  <2>2. /\ transit # <<>> /\ transit' = Tail(transit)
        /\ handler' \in [Handler -> HandlerState]
    BY <1>0, <1>4, ArrivesFacts
  <2>3. transit' \in Seq(Req)
    BY <1>0, <2>2
  <2>4. RequestTypes'
    BY <1>0, <2>1, <2>2, <2>3 DEF RequestTypes
  <2> QED
    BY <2>1, <2>4, TypesFrame DEF Types
<1>5. ASSUME ServerNext PROVE Types'
  <2>1. /\ UNCHANGED <<clientVars, upSent>> /\ UNCHANGED wire
        /\ UNCHANGED <<transit, handler, lock>>
    <3>1. ServerRead \/ ServerClose => /\ UNCHANGED <<clientVars, upSent>> /\ UNCHANGED wire
                                       /\ UNCHANGED <<transit, handler, lock>>
      BY DEF ServerRead, ServerClose, netVars, streamVars
    <3>2. \A n \in 1..MaxPayload : ServerWrite(n) =>
             /\ UNCHANGED <<clientVars, upSent>> /\ UNCHANGED wire
             /\ UNCHANGED <<transit, handler, lock>>
      BY DEF ServerWrite, netVars
    <3>3. DeleteBegin \/ DeleteRelease \/ DeleteUnregister \/ OtherSessions =>
             /\ UNCHANGED <<clientVars, upSent>> /\ UNCHANGED wire
             /\ UNCHANGED <<transit, handler, lock>>
      BY DEF DeleteBegin, DeleteRelease, DeleteUnregister, OtherSessions, netVars, streamVars
    <3> QED
      BY <1>5, <3>1, <3>2, <3>3 DEF ServerNext
  <2>2. SessionTypes'
    <3>1. ASSUME ServerRead PROVE SessionTypes'
      <4>1. UNCHANGED <<reaper, downSent>> /\ session' \in SessionState
            /\ session.readBuffer # <<>>
            /\ upReceived' = Append(upReceived, Head(session.readBuffer))
        BY <1>0, <3>1, SessionMoves DEF ServerRead
      <4>2. upReceived \in Seq(Nat) /\ session.readBuffer \in Seq(Nat)
        BY <1>0 DEF SessionTypes, SessionState
      <4>3. upReceived' \in Seq(Nat)
        BY <4>1, <4>2
      <4> QED
        BY <1>0, <4>1, <4>3 DEF SessionTypes
    <3>2. ASSUME NEW n \in 1..MaxPayload, ServerWrite(n) PROVE SessionTypes'
      <4>1. UNCHANGED <<reaper, upReceived>> /\ session' \in SessionState
            /\ downSent' = downSent + n
        BY <1>0, <3>2, SessionMoves DEF ServerWrite
      <4> QED
        BY <1>0, <4>1, MeekAssumption DEF SessionTypes
    <3>3. ASSUME ServerClose PROVE SessionTypes'
      <4>1. UNCHANGED <<reaper, upReceived, downSent>> /\ session' \in SessionState
        BY <1>0, <3>3, SessionMoves DEF ServerClose, streamVars
      <4> QED
        BY <1>0, <4>1 DEF SessionTypes
    <3>4. ASSUME DeleteBegin \/ DeleteRelease \/ DeleteUnregister PROVE SessionTypes'
      <4>1. reaper' \in {"closed", "deleted", "done"} /\ UNCHANGED <<upReceived, downSent>>
        BY <3>4 DEF DeleteBegin, DeleteRelease, DeleteUnregister, streamVars
      <4>2. session' \in SessionState
        BY <1>0, <3>4, SessionMoves
      <4> QED
        BY <1>0, <4>1, <4>2 DEF SessionTypes
    <3>5. ASSUME OtherSessions PROVE SessionTypes'
      BY <3>5, TypesFrame DEF OtherSessions, streamVars
    <3> QED
      BY <1>5, <3>1, <3>2, <3>3, <3>4, <3>5 DEF ServerNext
  <2> QED
    BY <2>1, <2>2, TypesFrame DEF Types
<1> QED
  BY <1>1, <1>2, <1>3, <1>4, <1>5, ClientTypesNext, HandlerTypesNext DEF Next

----------------------------------------------------------------------------
(* The lock and the buffers *)

\* A reset response holds no extended buffer.
LEMMA ResetReleases == ExtendedCount(NewCachedResponse) = 0
<1>1. BufferSize \in Nat /\ BufferSize > 0
  BY CacheAssumption
<1>2. Buffer \in [1..BufferSize -> {Blank}] /\ NewCachedResponse.ring = Buffer
  BY DEF Buffer, NewCachedResponse
<1>3. Buffer \in Seq({Blank}) /\ Len(Buffer) = BufferSize
  BY <1>1, <1>2
<1>4. BufferSize \div BufferSize = 1
  BY <1>1
<1> QED
  BY <1>2, <1>3, <1>4 DEF ExtendedCount

\* Every step keeps the lock's discipline: a deleted session's cache is not used.
LEMMA LockNext ==
    ASSUME Types, LockInv, CloseOrder, [Next]_vars
    PROVE  LockInv' /\ CloseOrder'
<1>0. /\ handler \in [Handler -> HandlerState] /\ session \in SessionState /\ RequestTypes
      /\ SessionTypes /\ Types /\ \A h \in Handler : HoldsLock(h) <=> lock = h
      /\ session.deleted => lock = None /\ ExtendedCount(cache) = 0
      /\ None \notin Handler
  BY MeekAssumption DEF Types, RequestTypes, SessionTypes, LockInv
<1>a. ASSUME \A h \in Handler : handler'[h].pc = handler[h].pc,
             UNCHANGED <<lock, cache, reaper>>, session'.deleted = session.deleted,
             session'.registered = session.registered,
             session'.closed = session.closed \/ session'.closed = TRUE
      PROVE  LockInv' /\ CloseOrder'
  BY <1>0, <1>a DEF LockInv, HoldsLock, CloseOrder
<1>1. ASSUME UNCHANGED vars PROVE LockInv' /\ CloseOrder'
  BY <1>1, <1>a DEF vars, serverVars
<1>2. ASSUME ClientNext PROVE LockInv' /\ CloseOrder'
  <2>1. UNCHANGED <<lock, cache, reaper, session>>
    <3>1. ClientWrite \/ ReceiveStatus \/ ReadPayload \/ EndTrip
            => UNCHANGED <<lock, cache, reaper, session>>
      BY DEF ClientWrite, ReceiveStatus, ReadPayload, EndTrip, serverVars
    <3>2. TryFails \/ Retry \/ CloseClient => UNCHANGED <<lock, cache, reaper, session>>
      BY DEF TryFails, Retry, CloseClient, serverVars
    <3>3. \A poll \in BOOLEAN : StartTrip(poll) => UNCHANGED <<lock, cache, reaper, session>>
      BY DEF StartTrip, serverVars
    <3> QED
      BY <1>2, <3>1, <3>2, <3>3 DEF ClientNext, GiveUp, StatusError, ClientClose
  <2>2. handler' = handler \/ handler' = AbandonHandlers
    <3>1. ClientWrite \/ ReceiveStatus \/ ReadPayload \/ EndTrip => handler' = handler
      BY DEF ClientWrite, ReceiveStatus, ReadPayload, EndTrip, serverVars
    <3>2. Retry => handler' = handler
      BY DEF Retry, serverVars
    <3>3. TryFails \/ CloseClient => handler' = AbandonHandlers
      BY DEF TryFails, CloseClient
    <3>4. \A poll \in BOOLEAN : StartTrip(poll) => handler' = handler
      BY DEF StartTrip, serverVars
    <3> QED
      BY <1>2, <3>1, <3>2, <3>3, <3>4 DEF ClientNext, GiveUp, StatusError, ClientClose
  <2>3. \A h \in Handler : handler'[h].pc = handler[h].pc
    BY <1>0, <2>2, AbandonHandlersFacts
  <2> QED
    BY <1>a, <2>1, <2>3
<1>3. ASSUME LoseRequest \/ RequestRejected PROVE LockInv' /\ CloseOrder'
  BY <1>3, <1>a DEF LoseRequest, RequestRejected, serverVars
<1>4. ASSUME NEW h \in Handler, RequestArrives(h) PROVE LockInv' /\ CloseOrder'
  <2>1. UNCHANGED <<lock, cache, reaper, session>>
    BY <1>4 DEF RequestArrives
  <2>2. \A g \in Handler : HoldsLock(g)' <=> HoldsLock(g)
    BY <1>0, <1>4, ArrivesFacts, Constants DEF HoldsLock
  <2> QED
    BY <1>0, <2>1, <2>2 DEF LockInv, CloseOrder
<1>5. ASSUME NEW h \in Handler, HandlerNext(h) PROVE LockInv' /\ CloseOrder'
  <2>0. reaper' = reaper
    BY <1>5, HandlerKeeps
  <2>a. ASSUME handler'[h] = NoHandler, \A g \in Handler \ {h} : handler'[g] = handler[g],
               HoldsLock(h), lock' = None,
               session'.deleted => ExtendedCount(cache') = 0
        PROVE  LockInv'
    <3>1. lock = h /\ \A g \in Handler \ {h} : ~HoldsLock(g)
      BY <1>0, <2>a
    <3>2. \A g \in Handler : ~HoldsLock(g)'
      BY <2>a, <3>1, Constants DEF HoldsLock
    <3> QED
      BY <1>0, <2>a, <3>2 DEF LockInv
  <2>b. ASSUME session'.deleted = session.deleted, session'.registered = session.registered,
               session'.closed = session.closed
        PROVE  CloseOrder'
    BY <2>0, <2>b DEF CloseOrder
  <2>1. ASSUME Discard(h) \/ RejectDeleted(h) PROVE LockInv' /\ CloseOrder'
    <3>1. UNCHANGED <<lock, cache, session>> /\ handler[h].pc = "wait"
      BY <2>1 DEF Discard, RejectDeleted
    <3>2. handler'[h] = NoHandler /\ \A g \in Handler \ {h} : handler'[g] = handler[g]
      BY <1>0, <2>1, HandlerEnds
    <3>3. \A g \in Handler : HoldsLock(g)' <=> HoldsLock(g)
      BY <3>1, <3>2, Constants DEF HoldsLock
    <3> QED
      BY <1>0, <2>b, <3>1, <3>3 DEF LockInv
  <2>2. ASSUME PumpReadsFails(h) \/ RespondCached(h) \/ PumpClosed(h)
        PROVE  LockInv' /\ CloseOrder'
    <3>1. UNCHANGED <<cache, session>> /\ lock' = None /\ HoldsLock(h)
      BY <2>2 DEF PumpReadsFails, RespondCached, PumpClosed, HoldsLock
    <3>2. handler'[h] = NoHandler /\ \A g \in Handler \ {h} : handler'[g] = handler[g]
      BY <1>0, <2>2, HandlerEnds
    <3> QED
      BY <1>0, <2>a, <2>b, <3>1, <3>2
  <2>3. ASSUME RespondMissing(h) PROVE LockInv' /\ CloseOrder'
    <3>1. cache' = NewCachedResponse /\ lock' = None /\ HoldsLock(h)
      BY <2>3 DEF RespondMissing, HoldsLock, ResetCache, Reset
    <3>2. handler'[h] = NoHandler /\ \A g \in Handler \ {h} : handler'[g] = handler[g]
      BY <1>0, <2>3, HandlerEnds
    <3>3. session'.closed = TRUE
      BY <1>0, <2>3, SessionMoves
    <3> QED
      BY <2>a, <3>1, <3>2, <3>3, ResetReleases DEF CloseOrder
  <2>4. ASSUME NEW more \in BOOLEAN, PumpWrites(h, more), ~more
        PROVE  LockInv' /\ CloseOrder'
    <3>1. lock' = None /\ HoldsLock(h)
      BY <2>4 DEF PumpWrites, HoldsLock
    <3>2. handler'[h] = NoHandler /\ \A g \in Handler \ {h} : handler'[g] = handler[g]
      BY <1>0, <2>4, HandlerEnds
    <3>3. /\ session'.deleted = session.deleted /\ session'.registered = session.registered
          /\ session'.closed = session.closed
      BY <1>0, <2>4, SessionMoves
    <3>4. ~session.deleted
      BY <1>0, <3>1
    <3> QED
      BY <2>a, <2>b, <3>1, <3>2, <3>3, <3>4
  <2>5. ASSUME NEW pad \in BOOLEAN, PumpTimeout(h, pad) PROVE LockInv' /\ CloseOrder'
    <3>1. lock' = None /\ HoldsLock(h) /\ session' = session
      BY <2>5 DEF PumpTimeout, HoldsLock
    <3>2. handler'[h] = NoHandler /\ \A g \in Handler \ {h} : handler'[g] = handler[g]
      BY <1>0, <2>5, HandlerEnds
    <3>4. ~session.deleted
      BY <1>0, <3>1
    <3> QED
      BY <2>a, <2>b, <3>1, <3>2, <3>4
  <2>6. ASSUME ServeRequest(h) PROVE LockInv' /\ CloseOrder'
    <3>1. lock' = h /\ lock = None /\ ~session.deleted /\ session' = session
      BY <2>6 DEF ServeRequest
    <3>2. handler'[h].pc = "read" /\ \A g \in Handler \ {h} : handler'[g] = handler[g]
      BY <1>0, <2>6, HandlerMoves
    <3>3. \A g \in Handler : ~HoldsLock(g)
      BY <1>0, <3>1
    <3>4. \A g \in Handler : HoldsLock(g)' <=> h = g
      BY <3>2, <3>3 DEF HoldsLock
    <3> QED
      BY <2>b, <3>1, <3>4 DEF LockInv
  <2>7. ASSUME PumpReads(h) \/ RespondNew(h) \/ (\E more \in BOOLEAN : PumpWrites(h, more) /\ more)
        PROVE  LockInv' /\ CloseOrder'
    <3>1. lock' = lock /\ HoldsLock(h)
      BY <2>7 DEF PumpReads, RespondNew, PumpWrites, HoldsLock
    <3>2. /\ session'.deleted = session.deleted /\ session'.registered = session.registered
          /\ session'.closed = session.closed
      <4>1. RespondNew(h) => session' = session
        BY DEF RespondNew
      <4> QED
        BY <1>0, <2>7, <4>1, SessionMoves, PumpReadsSession
    <3>3. /\ handler'[h].pc \in {"read", "respond", "pump"}
          /\ \A g \in Handler \ {h} : handler'[g] = handler[g]
      <4>1. ASSUME NEW more \in BOOLEAN, PumpWrites(h, more), more
            PROVE  /\ handler'[h].pc \in {"read", "respond", "pump"}
                   /\ \A g \in Handler \ {h} : handler'[g] = handler[g]
        <5>1. PumpWrites(h, TRUE)
          BY <4>1, Zenon
        <5> QED
          BY <1>0, <3>1, <5>1, HandlerMoves DEF HoldsLock
      <4> QED
        BY <1>0, <2>7, <4>1, HandlerMoves
    <3>4. \A g \in Handler : HoldsLock(g)' <=> HoldsLock(g)
      BY <3>1, <3>3 DEF HoldsLock
    <3>5. ~session.deleted
      BY <1>0, <3>1
    <3> QED
      BY <1>0, <2>b, <3>1, <3>2, <3>4, <3>5 DEF LockInv
  <2>8. ASSUME PumpHeaderFails(h) PROVE LockInv' /\ CloseOrder'
    <3>1. lock' = None /\ HoldsLock(h)
      BY <2>8 DEF PumpHeaderFails, HoldsLock
    <3>2. handler'[h] = NoHandler /\ \A g \in Handler \ {h} : handler'[g] = handler[g]
      BY <1>0, <2>8, HandlerEnds
    <3>3. /\ session'.deleted = session.deleted /\ session'.registered = session.registered
          /\ session'.closed = session.closed
      BY <1>0, <2>8, SessionMoves
    <3>4. ~session.deleted
      BY <1>0, <3>1
    <3> QED
      BY <2>a, <2>b, <3>1, <3>2, <3>3, <3>4
  <2> QED
    BY <1>5, <2>1, <2>2, <2>3, <2>4, <2>5, <2>6, <2>7, <2>8 DEF HandlerNext
<1>6. ASSUME ServerNext PROVE LockInv' /\ CloseOrder'
  <2>1. ASSUME ServerRead \/ \E n \in 1..MaxPayload : ServerWrite(n) PROVE LockInv' /\ CloseOrder'
    <3>1. UNCHANGED <<handler, lock, cache, reaper>>
      BY <2>1 DEF ServerRead, ServerWrite
    <3> QED
      BY <1>0, <1>a, <2>1, <3>1, SessionMoves
  <2>2. ASSUME ServerClose PROVE LockInv' /\ CloseOrder'
    <3>1. UNCHANGED <<handler, lock, cache, reaper>>
      BY <2>2 DEF ServerClose
    <3> QED
      BY <1>0, <1>a, <2>2, <3>1, SessionMoves
  <2>3. ASSUME DeleteBegin PROVE LockInv' /\ CloseOrder'
    <3>1. UNCHANGED <<handler, lock, cache>>
      BY <2>3 DEF DeleteBegin
    <3>2. session'.closed = TRUE /\ session'.deleted = session.deleted
      BY <1>0, <2>3, SessionMoves
    <3> QED
      BY <1>0, <3>1, <3>2 DEF LockInv, HoldsLock, CloseOrder
  <2>4. ASSUME DeleteRelease PROVE LockInv' /\ CloseOrder'
    <3>1. UNCHANGED <<handler, lock>> /\ lock = None /\ reaper # "idle"
          /\ cache' = NewCachedResponse
      BY <2>4 DEF DeleteRelease, ResetCache, Reset
    <3>2. session'.closed = session.closed
      BY <1>0, <2>4, SessionMoves
    <3> QED
      BY <1>0, <3>1, <3>2, ResetReleases DEF LockInv, HoldsLock, CloseOrder
  <2>5. ASSUME DeleteUnregister PROVE LockInv' /\ CloseOrder'
    <3>1. UNCHANGED <<handler, lock, cache>> /\ reaper # "idle"
      BY <2>5 DEF DeleteUnregister
    <3>2. session'.closed = session.closed /\ session'.deleted = session.deleted
      BY <1>0, <2>5, SessionMoves
    <3> QED
      BY <1>0, <3>1, <3>2 DEF LockInv, HoldsLock, CloseOrder
  <2>6. ASSUME OtherSessions PROVE LockInv' /\ CloseOrder'
    BY <1>a, <2>6 DEF OtherSessions
  <2> QED
    BY <1>6, <2>1, <2>2, <2>3, <2>4, <2>5, <2>6 DEF ServerNext
<1> QED
  BY <1>1, <1>2, <1>3, <1>4, <1>5, <1>6 DEF Next

----------------------------------------------------------------------------
(* The newest request, and the payload *)

\* What the parts are about is typed.
LEMMA Sizes ==
    ASSUME Types
    PROVE  /\ transit \in Seq(Req) /\ DOMAIN transit = 1..Len(transit) /\ Len(transit) \in Nat
           /\ handler \in [Handler -> HandlerState] /\ trip \in TripState
           /\ session \in SessionState
           /\ \A i \in DOMAIN transit : transit[i] \in Req
           /\ \A h \in Handler : handler[h] \in HandlerState /\ handler[h].req \in Req
           /\ trip.data \in Seq(Nat) /\ Len(trip.data) \in Nat
           /\ sendBuffer \in Seq(Nat) /\ Len(sendBuffer) \in Nat
           /\ session.readBuffer \in Seq(Nat) /\ Len(session.readBuffer) \in Nat
           /\ upReceived \in Seq(Nat) /\ Len(upReceived) \in Nat
           /\ Relayed \in Nat /\ upSent \in Nat /\ checksum \in 1..2
           /\ session.lastChecksum \in 1..2
<1>1. /\ transit \in Seq(Req) /\ handler \in [Handler -> HandlerState] /\ trip \in TripState
      /\ session \in SessionState /\ sendBuffer \in Seq(Nat) /\ upReceived \in Seq(Nat)
      /\ upSent \in Nat /\ checksum \in 1..2
  BY DEF Types, ClientTypes, RequestTypes, SessionTypes
<1>2. trip.data \in Seq(Nat)
  BY <1>1 DEF TripState
<1>3. session.readBuffer \in Seq(Nat) /\ session.lastChecksum \in 1..2
  BY <1>1 DEF SessionState
<1>4. \A h \in Handler : handler[h] \in HandlerState /\ handler[h].req \in Req
  BY <1>1 DEF HandlerState
<1>5. Relayed \in Nat
  BY <1>1, <1>3 DEF Relayed
<1> QED
  BY <1>1, <1>2, <1>3, <1>4, <1>5

\* A step that touches neither requests nor payloads.
LEMMA QuietStep ==
    ASSUME UNCHANGED <<client, checksum, sendBuffer, upSent, upReceived, transit, handler>>,
           trip'.id = trip.id, trip'.data = trip.data, trip'.acked = trip.acked,
           wire'.status = wire.status, wire'.eof = wire.eof,
           session'.lastChecksum = session.lastChecksum,
           session'.readBuffer = session.readBuffer
    PROVE  (LiveInv => LiveInv') /\ (UpParts => UpParts')
<1>1. LiveInv => LiveInv'
  BY DEF LiveInv, TransitLive, HandlerLive, PayloadRead
<1>2. Relayed' = Relayed /\ (Pending' <=> Pending) /\ (Settled' <=> Settled)
  BY DEF Relayed, Pending, Settled
<1>3. RequestsCarry => RequestsCarry'
  BY <1>2 DEF RequestsCarry, Carries, From
<1>4. AckedSettled => AckedSettled'
  BY <1>2 DEF AckedSettled, InTrip
<1>5. LiveCarries => LiveCarries'
  BY DEF LiveCarries
<1>6. TripCarries => TripCarries'
  BY <1>2 DEF TripCarries, InTrip, From
<1>7. Buffered => Buffered'
  BY <1>2 DEF Buffered, From
<1>8. ReadNext => ReadNext'
  BY <1>2 DEF ReadNext, From
<1> QED
  BY <1>1, <1>3, <1>4, <1>5, <1>6, <1>7, <1>8 DEF UpParts

\* A step of handler h: the client goes on listening to it, or not.
LEMMA HandlerStepLive ==
    ASSUME LiveInv, NEW h \in Handler, UNCHANGED <<client, transit>>,
           \A g \in Handler \ {h} : handler'[g] = handler[g],
           handler'[h].req.live =>
               handler[h].req.live /\ ~handler'[h].superseded /\ ~wire'.eof,
           handler'[h].pc # "wait",
           handler'[h].pc # "read" => handler'[h].req.id = Empty,
           ~handler[h].req.live => wire'.eof = wire.eof
    PROVE  LiveInv'
<1>1. TransitLive'
  BY DEF LiveInv, TransitLive
<1>2. HandlerLive'
  BY DEF LiveInv, HandlerLive
<1>3. PayloadRead'
  BY DEF LiveInv, PayloadRead
<1> QED
  BY <1>1, <1>2, <1>3 DEF LiveInv

\* It has the payload it had, or none, and acknowledges what was relayed.
LEMMA HandlerStepUp ==
    ASSUME UpParts, NEW h \in Handler,
           UNCHANGED <<client, checksum, sendBuffer, trip, upSent, upReceived, transit>>,
           \A g \in Handler \ {h} : handler'[g] = handler[g],
           handler'[h].req.id # Empty => handler'[h].req = handler[h].req,
           handler'[h].pc \notin {"wait", "respond"},
           handler'[h].pc = "read" =>
               handler[h].pc = "wait" /\ handler'[h].req = handler[h].req,
           wire'.status = "ok" => wire.status = "ok" \/ Settled,
           session'.lastChecksum = session.lastChecksum,
           session'.readBuffer = session.readBuffer
    PROVE  UpParts'
<1>0. RequestsCarry /\ AckedSettled /\ LiveCarries /\ TripCarries /\ Buffered /\ ReadNext
  BY DEF UpParts
<1>1. Relayed' = Relayed /\ (Pending' <=> Pending)
  BY DEF Relayed, Pending
<1>2. Settled => Settled'
  BY <1>1 DEF Settled
<1>3. RequestsCarry'
  <2>1. \A i \in DOMAIN transit : Carries(transit[i])'
    BY <1>0, <1>1 DEF RequestsCarry, Carries, From
  <2>2. ASSUME NEW g \in Handler PROVE Carries(handler[g].req)'
    <3>1. Carries(handler[g].req)
      BY <1>0 DEF RequestsCarry
    <3>2. handler'[g].req.id # Empty => handler'[g].req = handler[g].req
      OBVIOUS
    <3> QED
      BY <1>1, <3>1, <3>2 DEF Carries, From
  <2> QED
    BY <2>1, <2>2 DEF RequestsCarry
<1>4. AckedSettled'
  BY <1>0, <1>2 DEF AckedSettled, InTrip
<1>5. LiveCarries'
  BY <1>0 DEF LiveCarries
<1>6. TripCarries' /\ ReadNext'
  BY <1>0, <1>1 DEF TripCarries, InTrip, From, ReadNext
<1>7. Buffered'
  BY <1>0, <1>1 DEF Buffered, From
<1> QED
  BY <1>3, <1>4, <1>5, <1>6, <1>7 DEF UpParts

\* The handler that relays the payload is the only one that has it, if the
\* client listens to it.
LEMMA PumpReadsUp ==
    ASSUME Types, LockInv, LiveInv, UpParts, NEW h \in Handler, PumpReads(h)
    PROVE  UpParts'
<1>0. RequestsCarry /\ AckedSettled /\ LiveCarries /\ TripCarries /\ Buffered /\ ReadNext
  BY DEF UpParts
<1>t. RequestTypes /\ SessionTypes
  BY DEF Types
<1>u. /\ UNCHANGED <<client, sendBuffer, trip, checksum, wire, transit, upSent, upReceived>>
      /\ handler[h].pc = "read"
  BY DEF PumpReads, clientVars, netVars, streamVars
<1>h. /\ handler'[h].pc = "respond" /\ handler'[h].req.id = Empty
      /\ handler'[h].req.live = handler[h].req.live
      /\ \A g \in Handler \ {h} : handler'[g] = handler[g]
  BY <1>t, HandlerMoves DEF Empty
<1>1. LiveCarries'
  BY <1>0, <1>u, <1>h DEF LiveCarries
\* No other handler has a payload when the client listens to this one.
<1>2. handler[h].req.live => /\ client = "trip" /\ transit = <<>>
                             /\ \A g \in Handler : handler'[g].req.id = Empty
  <2>1. \A g \in Handler \ {h} : handler[g].pc # "read"
    BY <1>u, MeekAssumption DEF LockInv, HoldsLock
  <2> QED
    BY <1>h, <2>1 DEF LiveInv, HandlerLive, PayloadRead
<1>3. handler[h].req.live /\ ~Pending' => Settled'
  BY <1>2, <1>u DEF Settled
<1>c. Carries(handler[h].req)
  BY <1>0 DEF RequestsCarry
<1>4. CASE session' = session /\ handler[h].req.id \in {0, session.lastChecksum}
  <2>1. Relayed' = Relayed /\ (Pending' <=> Pending)
    BY <1>4, <1>u DEF Relayed, Pending
  <2>2. Settled => Settled'
    BY <1>h, <1>u, <2>1 DEF Settled
  <2>3. handler[h].req.live => ~Pending
    <3>1. handler[h].req.live /\ handler[h].req.id = 0 => Settled
      BY <1>0, <1>2, <1>u DEF LiveCarries, AckedSettled, InTrip, Empty
    <3>2. handler[h].req.id # 0 => ~Pending
      BY <1>4, <1>c DEF Carries, Pending, Empty
    <3> QED
      BY <3>1, <3>2 DEF Settled
  <2>4. RequestsCarry'
    <3>1. \A i \in DOMAIN transit : Carries(transit[i])'
      BY <1>0, <1>u, <2>1 DEF RequestsCarry, Carries, From
    <3>2. ASSUME NEW g \in Handler PROVE Carries(handler[g].req)'
      <4>1. Carries(handler[g].req)
        BY <1>0 DEF RequestsCarry
      <4>2. handler'[g].req.id # Empty => handler'[g].req = handler[g].req
        BY <1>h
      <4> QED
        BY <1>u, <2>1, <4>1, <4>2 DEF Carries, From
    <3> QED
      BY <1>u, <3>1, <3>2 DEF RequestsCarry
  <2>5. AckedSettled'
    BY <1>0, <1>3, <1>h, <1>u, <2>1, <2>2, <2>3 DEF AckedSettled, InTrip
  <2>6. TripCarries' /\ ReadNext'
    BY <1>0, <1>4, <1>u, <2>1 DEF TripCarries, InTrip, From, ReadNext
  <2>7. Buffered'
    BY <1>0, <1>u, <2>1 DEF Buffered, From
  <2> QED
    BY <1>1, <2>4, <2>5, <2>6, <2>7 DEF UpParts
<1>5. CASE /\ handler[h].req.id \notin {0, session.lastChecksum}
           /\ session'.lastChecksum = handler[h].req.id
           /\ session'.readBuffer = session.readBuffer \o handler[h].req.data
  <2>s. /\ session.readBuffer \in Seq(Nat) /\ upReceived \in Seq(Nat)
        /\ handler[h].req \in Req /\ Relayed \in Nat /\ upSent \in Nat
    BY Sizes
  <2>d. PICK d \in Seq(Nat) : d = handler[h].req.data
    <3>1. handler[h].req.data \in Seq(Nat)
      BY <2>s DEF Req
    <3> QED
      BY <3>1, Zenon
  <2>1. Pending /\ ~Pending' /\ handler[h].req.id = checksum
    BY <1>5, <1>c, <1>u DEF Pending, Carries, Empty
  <2>2. /\ From(d, Relayed) /\ Relayed + Len(d) <= upSent
        /\ client # "closed" => d = trip.data
    BY <1>5, <1>c, <2>1, <2>d DEF Carries, Empty
  <2>3. PICK b \in Seq(Nat) : b = session.readBuffer
    BY <2>s
  <2>b. session'.readBuffer = b \o d
    BY <1>5, <2>3, <2>d
  <2>4. Relayed' = Relayed + Len(d)
    <3>1. Len(b \o d) = Len(b) + Len(d) /\ Len(b) \in Nat /\ Len(d) \in Nat
          /\ Len(upReceived) \in Nat
      BY <2>s
    <3> QED
      BY <1>u, <2>3, <2>b, <3>1 DEF Relayed
  <2>5. RequestsCarry'
    <3>1. \A i \in DOMAIN transit : Carries(transit[i])'
      BY <1>0, <1>u, <2>1 DEF RequestsCarry, Carries
    <3>2. \A g \in Handler : Carries(handler[g].req)'
      BY <1>0, <1>u, <1>h, <2>1 DEF RequestsCarry, Carries
    <3> QED
      BY <1>u, <3>1, <3>2 DEF RequestsCarry
  <2>6. AckedSettled'
    <3>1. ~Settled
      BY <2>1 DEF Settled
    <3> QED
      BY <1>0, <1>3, <1>h, <1>u, <2>1, <3>1 DEF AckedSettled, InTrip
  <2>7. TripCarries'
    BY <1>0, <1>u, <2>1 DEF TripCarries, InTrip
  <2>8. Buffered'
    <3>1. client # "closed" => /\ From(sendBuffer, Relayed + Len(d))
                               /\ Relayed + Len(d) + Len(sendBuffer) = upSent
      BY <1>0, <2>1, <2>2 DEF Buffered
    <3>2. Relayed + Len(d) + 0 = Relayed + Len(d)
      BY <2>s
    <3> QED
      BY <1>u, <2>1, <2>4, <3>1, <3>2 DEF Buffered, From
  <2>9. ReadNext'
    <3>1. From(b, Len(upReceived))
      BY <1>0, <2>3 DEF ReadNext
    <3>2. Relayed = Len(upReceived) + Len(b) /\ Len(b) \in Nat /\ Len(upReceived) \in Nat
      BY <2>3, <2>s DEF Relayed
    <3>3. From(b \o d, Len(upReceived))
      <4>1. ASSUME NEW i \in DOMAIN (b \o d) PROVE (b \o d)[i] = Len(upReceived) + i
        <5>1. /\ DOMAIN b = 1..Len(b) /\ DOMAIN d = 1..Len(d) /\ Len(d) \in Nat
              /\ i \in 1..(Len(b) + Len(d))
              /\ (b \o d)[i] = IF i <= Len(b) THEN b[i] ELSE d[i - Len(b)]
          BY <3>2
        <5>2. CASE i <= Len(b)
          BY <3>1, <3>2, <5>1, <5>2 DEF From
        <5>3. CASE i > Len(b)
          <6>1. i - Len(b) \in DOMAIN d
            BY <3>2, <5>1, <5>3
          <6>2. d[i - Len(b)] = Relayed + (i - Len(b))
            BY <2>2, <6>1 DEF From
          <6> QED
            BY <3>2, <5>1, <5>3, <6>2
        <5> QED
          BY <3>2, <5>1, <5>2, <5>3
      <4> QED
        BY <4>1 DEF From
    <3> QED
      BY <1>u, <2>2, <2>4, <2>b, <3>3 DEF ReadNext, From
  <2> QED
    BY <1>1, <2>5, <2>6, <2>7, <2>8, <2>9 DEF UpParts
<1> QED
  BY <1>4, <1>5, <1>t, PumpReadsSession

\* The handlers keep both.
LEMMA HandlerNextUp ==
    ASSUME Types, LockInv, CloseOrder, LiveInv, UpInv, NEW h \in Handler, HandlerNext(h)
    PROVE  LiveInv' /\ UpInv'
<1>0. /\ UNCHANGED <<client, checksum, sendBuffer, trip, upSent, upReceived, transit>>
      /\ RequestTypes /\ SessionTypes /\ WireTypes
  BY HandlerKeeps DEF clientVars, streamVars, Types
\* A handler that returns.
<1>e. ASSUME handler'[h] = NoHandler, \A g \in Handler \ {h} : handler'[g] = handler[g],
             ~handler[h].req.live => wire' = wire
      PROVE  LiveInv'
  <2>1. /\ handler'[h].req.live = FALSE /\ handler'[h].req.id = Empty
        /\ handler'[h].pc = "none"
    BY <1>e, Constants DEF Empty
  <2> QED
    BY <1>0, <1>e, <2>1, HandlerStepLive
<1>f. ASSUME handler'[h] = NoHandler, \A g \in Handler \ {h} : handler'[g] = handler[g],
             ~session'.closed =>
                 /\ ~session.closed
                 /\ wire'.status = "ok" => wire.status = "ok" \/ Settled
                 /\ session'.lastChecksum = session.lastChecksum
                 /\ session'.readBuffer = session.readBuffer
      PROVE  UpInv'
  <2>1. handler'[h].req.id = Empty /\ handler'[h].pc = "none"
    BY <1>f, Constants DEF Empty
  <2> QED
    BY <1>0, <1>f, <2>1, HandlerStepUp DEF UpInv
<1>1. ASSUME Discard(h) PROVE LiveInv' /\ UpInv'
  <2>1. session' = session /\ handler[h].superseded
    BY <1>1 DEF Discard
  <2>2. ~handler[h].req.live
    BY <2>1 DEF LiveInv, HandlerLive
  <2>3. /\ handler'[h] = NoHandler /\ \A g \in Handler \ {h} : handler'[g] = handler[g]
        /\ wire' = wire
    BY <1>1, <2>2, HandlerEnds
  <2> QED
    BY <1>e, <1>f, <2>1, <2>3
<1>2. ASSUME RejectDeleted(h) \/ RespondMissing(h) \/ PumpClosed(h) PROVE LiveInv' /\ UpInv'
  <2>1. session'.closed
    <3>1. RespondMissing(h) => session'.closed
      BY <1>0, SessionMoves
    <3>2. RejectDeleted(h) => session' = session /\ session.deleted
      BY DEF RejectDeleted
    <3>3. PumpClosed(h) => session' = session /\ session.closed
      BY DEF PumpClosed
    <3> QED
      BY <1>2, <3>1, <3>2, <3>3 DEF CloseOrder
  <2>2. /\ handler'[h] = NoHandler /\ \A g \in Handler \ {h} : handler'[g] = handler[g]
        /\ ~handler[h].req.live => wire' = wire
    BY <1>2, HandlerEnds
  <2> QED
    BY <1>e, <2>1, <2>2 DEF UpInv
<1>3. ASSUME PumpReadsFails(h) PROVE LiveInv' /\ UpInv'
  <2>1. session' = session /\ (session.closed \/ ~handler[h].req.live)
    BY <1>3 DEF PumpReadsFails
  <2>2. /\ handler'[h] = NoHandler /\ \A g \in Handler \ {h} : handler'[g] = handler[g]
        /\ ~handler[h].req.live => wire' = wire
    BY <1>3, HandlerEnds
  <2> QED
    BY <1>e, <1>f, <2>1, <2>2
<1>4. ASSUME RespondCached(h) PROVE LiveInv' /\ UpInv'
  <2>1. session' = session /\ handler[h].pc = "respond"
    BY <1>4 DEF RespondCached
  <2>2. /\ handler'[h] = NoHandler /\ \A g \in Handler \ {h} : handler'[g] = handler[g]
        /\ ~handler[h].req.live => wire' = wire
    BY <1>4, HandlerEnds
  <2>3. ~session.closed /\ handler[h].req.live => Settled
    BY <2>1 DEF UpInv, UpParts, AckedSettled
  <2> QED
    BY <1>e, <1>f, <2>1, <2>2, <2>3
<1>5. ASSUME NEW more \in BOOLEAN, PumpWrites(h, more) PROVE LiveInv' /\ UpInv'
  <2>1. PICK data : Respond(handler[h].req, "none", data, ~more)
    BY <1>5 DEF PumpWrites
  <2>a. (~more) \in BOOLEAN
    OBVIOUS
  <2>2. /\ wire'.status = wire.status
        /\ ~handler[h].req.live => wire' = wire
        /\ handler[h].req.live => wire'.eof = ~more
    BY <1>0, <2>1, <2>a, RespondFacts, Zenon
  <2>3. /\ session'.closed = session.closed /\ session'.lastChecksum = session.lastChecksum
        /\ session'.readBuffer = session.readBuffer
    BY <1>0, <1>5, SessionMoves
  <2>4. CASE ~more
    <3>1. /\ handler'[h] = NoHandler /\ \A g \in Handler \ {h} : handler'[g] = handler[g]
          /\ ~handler[h].req.live => wire' = wire
      BY <1>5, <2>4, HandlerEnds
    <3>2. wire'.status = wire.status
      BY <2>2, <3>1
    <3>3. LiveInv'
      BY <1>e, <3>1
    <3>4. UpInv'
      BY <1>f, <2>3, <3>1, <3>2
    <3> QED
      BY <3>3, <3>4
  <2>5. CASE more
    <3>1. PumpWrites(h, TRUE)
      BY <1>5, <2>5, Zenon
    <3>2. /\ handler'[h].pc = handler[h].pc /\ handler'[h].req = handler[h].req
          /\ handler'[h].superseded = handler[h].superseded
          /\ \A g \in Handler \ {h} : handler'[g] = handler[g]
      BY <1>0, <3>1, HandlerMoves
    <3>3. handler[h].pc = "pump" /\ handler[h].req.id = Empty
      BY <3>1 DEF PumpWrites, LiveInv, PayloadRead
    <3>4. handler[h].req.live => ~handler[h].superseded /\ ~wire'.eof
      BY <2>2, <2>5 DEF LiveInv, HandlerLive
    <3>5. LiveInv'
      BY <1>0, <2>2, <3>2, <3>3, <3>4, HandlerStepLive
    <3>6. wire'.status = wire.status
      BY <2>2
    <3>7. UpParts => UpParts'
      BY <1>0, <2>3, <3>2, <3>3, <3>6, HandlerStepUp
    <3> QED
      BY <2>3, <3>5, <3>7 DEF UpInv
  <2> QED
    BY <2>4, <2>5
<1>6. ASSUME NEW pad \in BOOLEAN, PumpTimeout(h, pad) PROVE LiveInv' /\ UpInv'
  <2>1. PICK data : Respond(handler[h].req, "none", data, TRUE)
    BY <1>6 DEF PumpTimeout
  <2>2. wire'.status = wire.status
    BY <1>0, <2>1, RespondFacts
  <2>3. session' = session
    BY <1>6 DEF PumpTimeout
  <2>4. /\ handler'[h] = NoHandler /\ \A g \in Handler \ {h} : handler'[g] = handler[g]
        /\ ~handler[h].req.live => wire' = wire
    BY <1>6, HandlerEnds
  <2> QED
    BY <1>e, <1>f, <2>2, <2>3, <2>4
<1>g. ASSUME PumpHeaderFails(h) PROVE LiveInv' /\ UpInv'
  <2>1. wire' = wire
    BY <1>g DEF PumpHeaderFails, netVars
  <2>2. /\ session'.closed = session.closed /\ session'.lastChecksum = session.lastChecksum
        /\ session'.readBuffer = session.readBuffer
    BY <1>0, <1>g, SessionMoves
  <2>3. handler'[h] = NoHandler /\ \A g \in Handler \ {h} : handler'[g] = handler[g]
    BY <1>g, HandlerEnds
  <2> QED
    BY <1>e, <1>f, <2>1, <2>2, <2>3
<1>7. ASSUME ServeRequest(h) PROVE LiveInv' /\ UpInv'
  <2>1. session' = session /\ wire' = wire /\ handler[h].pc = "wait"
    BY <1>7 DEF ServeRequest, netVars
  <2>2. /\ handler'[h].pc = "read" /\ handler'[h].req = handler[h].req
        /\ handler'[h].superseded = handler[h].superseded
        /\ \A g \in Handler \ {h} : handler'[g] = handler[g]
    BY <1>0, <1>7, HandlerMoves
  <2>3. handler[h].req.live => ~handler[h].superseded /\ ~wire.eof
    BY DEF LiveInv, HandlerLive
  <2>4. LiveInv'
    BY <1>0, <2>1, <2>2, <2>3, HandlerStepLive
  <2>5. UpParts => UpParts'
    BY <1>0, <2>1, <2>2, HandlerStepUp
  <2> QED
    BY <2>1, <2>4, <2>5 DEF UpInv
<1>8. ASSUME PumpReads(h) PROVE LiveInv' /\ UpInv'
  <2>0. wire' = wire
    BY <1>8 DEF PumpReads, netVars
  <2>1. session'.closed = session.closed /\ wire' = wire
    BY <1>0, <1>8, <2>0, PumpReadsSession
  <2>2. /\ handler'[h].pc = "respond" /\ handler'[h].req.id = Empty
        /\ handler'[h].req.live = handler[h].req.live
        /\ handler'[h].superseded = handler[h].superseded
        /\ \A g \in Handler \ {h} : handler'[g] = handler[g]
    BY <1>0, <1>8, HandlerMoves DEF Empty
  <2>3. handler[h].req.live => ~handler[h].superseded /\ ~wire.eof
    BY DEF LiveInv, HandlerLive
  <2>4. LiveInv'
    BY <1>0, <2>1, <2>2, <2>3, HandlerStepLive
  <2> QED
    BY <1>8, <2>1, <2>4, PumpReadsUp DEF UpInv
<1>9. ASSUME RespondNew(h) PROVE LiveInv' /\ UpInv'
  <2>1. /\ session' = session /\ handler[h].pc = "respond"
        /\ Respond(handler[h].req, "ok", <<>>, FALSE)
    BY <1>9 DEF RespondNew
  <2>2. /\ handler'[h].pc = "pump" /\ handler'[h].req.id = Empty
        /\ handler'[h].req.live = handler[h].req.live
        /\ handler'[h].superseded = FALSE
        /\ \A g \in Handler \ {h} : handler'[g] = handler[g]
    BY <1>0, <1>9, HandlerMoves DEF Empty
  <2>3. /\ ~handler[h].req.live => wire' = wire
        /\ handler[h].req.live => wire'.eof = FALSE
    BY <1>0, <2>1, RespondFacts
  <2>4. LiveInv'
    BY <1>0, <2>2, <2>3, HandlerStepLive
  <2>5. ~session.closed /\ handler[h].req.live => Settled
    BY <2>1 DEF UpInv, UpParts, AckedSettled
  <2>n. handler[h].req.id = Empty
    BY <2>1 DEF LiveInv, PayloadRead
  <2>6. ~session.closed => UpParts'
    BY <1>0, <2>1, <2>2, <2>3, <2>5, HandlerStepUp DEF UpInv
  <2> QED
    BY <2>1, <2>4, <2>6 DEF UpInv
<1> QED
  BY <1>1, <1>2, <1>3, <1>4, <1>5, <1>6, <1>7, <1>8, <1>9, <1>g DEF HandlerNext

\* The oldest request leaves the network, and reaches a handler or is lost.
LEMMA TailFacts ==
    ASSUME Types, transit # <<>>, transit' = Tail(transit)
    PROVE  /\ Head(transit) = transit[1] /\ 1 \in DOMAIN transit
           /\ \A i \in DOMAIN transit' : /\ i + 1 \in DOMAIN transit /\ i \in Nat /\ i >= 1
                                         /\ transit'[i] = transit[i + 1]
           /\ Len(transit') = Len(transit) - 1 /\ Len(transit) \in Nat
           /\ transit' \in Seq(Req)
           /\ Len(transit) = 1 => transit' = <<>>
BY DEF Types, RequestTypes

\* The network keeps the newest request and the payload.
LEMMA NetworkNextUp ==
    ASSUME Types, CloseOrder, LiveInv, UpInv,
           LoseRequest \/ RequestRejected \/ \E h \in Handler : RequestArrives(h)
    PROVE  LiveInv' /\ UpInv'
<1>0. TransitLive /\ HandlerLive /\ PayloadRead
  BY DEF LiveInv
<1>1. /\ transit # <<>> /\ transit' = Tail(transit)
      /\ UNCHANGED <<client, checksum, sendBuffer, trip, upSent, upReceived, session>>
  <2>1. ASSUME LoseRequest \/ RequestRejected
        PROVE  /\ transit # <<>> /\ transit' = Tail(transit)
               /\ UNCHANGED <<client, checksum, sendBuffer, trip, upSent, upReceived, session>>
    BY <2>1 DEF LoseRequest, RequestRejected, clientVars, serverVars, streamVars
  <2>2. ASSUME NEW h \in Handler, RequestArrives(h)
        PROVE  /\ transit # <<>> /\ transit' = Tail(transit)
               /\ UNCHANGED <<client, checksum, sendBuffer, trip, upSent, upReceived, session>>
    BY <2>2 DEF RequestArrives, clientVars, streamVars
  <2> QED
    BY <2>1, <2>2
<1>2. /\ Head(transit) = transit[1] /\ 1 \in DOMAIN transit
      /\ \A i \in DOMAIN transit' : /\ i + 1 \in DOMAIN transit /\ i \in Nat /\ i >= 1
                                    /\ transit'[i] = transit[i + 1]
      /\ Len(transit') = Len(transit) - 1 /\ Len(transit) \in Nat
      /\ Len(transit) = 1 => transit' = <<>>
  BY <1>1, TailFacts
<1>3. Relayed' = Relayed /\ (Pending' <=> Pending)
  BY <1>1 DEF Relayed, Pending
\* The client listens to no handler.
<1>4. \A h \in Handler : ~handler[h].req.live
  BY <1>0, <1>1 DEF HandlerLive
<1>a. ~session'.closed => UpParts
  BY <1>1 DEF UpInv
<1>5. ASSUME UpParts
      PROVE  /\ \A i \in DOMAIN transit' : Carries(transit[i])'
             /\ \A i \in DOMAIN transit' :
                   transit'[i].live /\ transit'[i].id = Empty => trip.acked \/ trip.id = Empty
             /\ TripCarries' /\ Buffered' /\ ReadNext'
  <2>0. RequestsCarry /\ LiveCarries /\ TripCarries /\ Buffered /\ ReadNext
    BY <1>5 DEF UpParts
  <2>1. ASSUME NEW i \in DOMAIN transit' PROVE Carries(transit[i])'
    <3>1. Carries(transit[i + 1]) /\ transit'[i] = transit[i + 1]
      BY <1>2, <2>0 DEF RequestsCarry
    <3> QED
      BY <1>1, <1>3, <3>1 DEF Carries, From
  <2>2. \A i \in DOMAIN transit' :
           transit'[i].live /\ transit'[i].id = Empty => trip.acked \/ trip.id = Empty
    BY <1>2, <2>0 DEF LiveCarries
  <2>3. TripCarries' /\ ReadNext'
    BY <1>1, <1>3, <2>0 DEF TripCarries, InTrip, From, ReadNext
  <2>4. Buffered'
    BY <1>1, <1>3, <2>0 DEF Buffered, From
  <2> QED
    BY <2>1, <2>2, <2>3, <2>4
<1>6. ASSUME handler' = handler, wire' = wire \/ session.closed,
             ~transit[1].live => wire' = wire
      PROVE  LiveInv' /\ UpInv'
  <2>1. TransitLive'
    <3>1. ASSUME NEW i \in DOMAIN transit', transit'[i].live
          PROVE  /\ i = Len(transit') /\ client' = "trip" /\ ~wire'.eof
                 /\ \A h \in Handler : ~handler'[h].req.live
      <4>1. transit[i + 1].live /\ i + 1 \in DOMAIN transit /\ i \in Nat /\ i >= 1
        BY <1>2, <3>1
      <4>2. i + 1 = Len(transit) /\ client = "trip" /\ ~wire.eof
        BY <1>0, <4>1 DEF TransitLive
      <4>3. ~transit[1].live
        BY <1>0, <1>2, <4>1, <4>2 DEF TransitLive
      <4> QED
        BY <1>1, <1>2, <1>4, <1>6, <4>1, <4>2, <4>3
    <3> QED
      BY <3>1 DEF TransitLive
  <2>2. HandlerLive' /\ PayloadRead'
    BY <1>0, <1>4, <1>6 DEF HandlerLive, PayloadRead
  <2>3. ASSUME ~session'.closed PROVE UpParts'
    <3>0. UpParts /\ wire' = wire
      BY <1>1, <1>6, <1>a, <2>3
    <3>1. Settled => Settled'
      BY <1>2, <1>3, <1>6 DEF Settled
    <3>2. RequestsCarry'
      <4>1. \A h \in Handler : Carries(handler[h].req)'
        BY <1>1, <1>3, <1>6, <3>0 DEF UpParts, RequestsCarry, Carries, From
      <4> QED
        BY <1>5, <3>0, <4>1 DEF RequestsCarry
    <3>3. AckedSettled'
      BY <1>1, <1>6, <3>0, <3>1 DEF UpParts, AckedSettled, InTrip
    <3>4. LiveCarries'
      BY <1>1, <1>5, <1>6, <3>0 DEF UpParts, LiveCarries
    <3> QED
      BY <1>5, <3>0, <3>2, <3>3, <3>4 DEF UpParts
  <2> QED
    BY <2>1, <2>2, <2>3 DEF LiveInv, UpInv
<1>7. ASSUME LoseRequest PROVE LiveInv' /\ UpInv'
  <2>1. handler' = handler /\ wire' = wire
    BY <1>7 DEF LoseRequest, serverVars
  <2> QED
    BY <1>6, <2>1
<1>8. ASSUME RequestRejected PROVE LiveInv' /\ UpInv'
  <2>1. /\ handler' = handler /\ session.closed
        /\ Respond(transit[1], "error", <<>>, TRUE)
    BY <1>2, <1>8 DEF RequestRejected, serverVars, CloseOrder
  <2>2. ~transit[1].live => wire' = wire
    BY <2>1 DEF Respond
  <2> QED
    BY <1>6, <2>1, <2>2
<1>9. ASSUME NEW h \in Handler, RequestArrives(h) PROVE LiveInv' /\ UpInv'
  <2>0. wire' = wire /\ RequestTypes
    BY <1>9 DEF RequestArrives, Types
  <2>1. /\ handler'[h].pc = "wait" /\ handler'[h].req = transit[1]
        /\ handler'[h].superseded = FALSE
        /\ \A g \in Handler \ {h} :
              \/ handler[g].pc # "wait" /\ handler'[g] = handler[g]
              \/ /\ handler[g].pc = "wait" /\ handler'[g].pc = "wait"
                 /\ handler'[g].req = NoRequest /\ handler'[g].superseded = TRUE
    BY <1>2, <1>9, <2>0, ArrivesFacts
  <2>2. \A g \in Handler \ {h} : /\ ~handler'[g].req.live
                                 /\ handler'[g].pc = handler[g].pc
                                 /\ handler'[g].req.id # Empty => handler'[g] = handler[g]
                                 /\ handler'[g].pc = "wait" => handler'[g].req.id = Empty
    BY <1>4, <2>1, Constants DEF Empty
  <2>3. TransitLive'
    <3>1. ASSUME NEW i \in DOMAIN transit', transit'[i].live
          PROVE  /\ i = Len(transit') /\ client' = "trip" /\ ~wire'.eof
                 /\ \A g \in Handler : ~handler'[g].req.live
      <4>1. transit[i + 1].live /\ i + 1 \in DOMAIN transit /\ i \in Nat /\ i >= 1
        BY <1>2, <3>1
      <4>2. i + 1 = Len(transit) /\ client = "trip" /\ ~wire.eof
        BY <1>0, <4>1 DEF TransitLive
      <4>3. ~transit[1].live
        BY <1>0, <1>2, <4>1, <4>2 DEF TransitLive
      <4>4. i = Len(transit')
        BY <1>2, <4>1, <4>2
      <4> QED
        BY <1>1, <2>0, <2>1, <2>2, <4>2, <4>3, <4>4
    <3> QED
      BY <3>1 DEF TransitLive
  <2>4. HandlerLive'
    <3>1. ASSUME transit[1].live
          PROVE  client = "trip" /\ ~wire.eof /\ transit' = <<>>
      BY <1>0, <1>2, <3>1 DEF TransitLive
    <3> QED
      BY <1>1, <2>0, <2>1, <2>2, <3>1 DEF HandlerLive
  <2>5. PayloadRead'
    BY <1>0, <2>1, <2>2 DEF PayloadRead
  <2>6. ASSUME ~session'.closed PROVE UpParts'
    <3>0. /\ RequestsCarry /\ AckedSettled /\ LiveCarries /\ UpParts
      BY <1>a, <2>6 DEF UpParts
    <3>1. Settled => Settled'
      BY <1>2, <1>3, <2>1, <2>2 DEF Settled
    <3>2. RequestsCarry'
      <4>1. Carries(handler[h].req)'
        <5>1. Carries(transit[1])
          BY <1>2, <3>0 DEF RequestsCarry
        <5> QED
          BY <1>1, <1>3, <2>1, <5>1 DEF Carries, From
      <4>2. ASSUME NEW g \in Handler \ {h} PROVE Carries(handler[g].req)'
        <5>1. Carries(handler[g].req) /\ (handler'[g].req.id # Empty => handler'[g] = handler[g])
          BY <2>2, <3>0 DEF RequestsCarry
        <5> QED
          BY <1>1, <1>3, <5>1 DEF Carries, From
      <4> QED
        BY <1>5, <3>0, <4>1, <4>2 DEF RequestsCarry
    <3>3. AckedSettled'
      BY <1>1, <2>0, <2>1, <2>2, <3>0, <3>1 DEF AckedSettled, InTrip
    <3>4. LiveCarries'
      <4>1. transit[1].live /\ transit[1].id = Empty => trip.acked \/ trip.id = Empty
        BY <1>2, <3>0 DEF LiveCarries
      <4> QED
        BY <1>1, <1>5, <2>1, <2>2, <3>0, <4>1 DEF LiveCarries
    <3> QED
      BY <1>5, <3>0, <3>2, <3>3, <3>4 DEF UpParts
  <2> QED
    BY <2>3, <2>4, <2>5, <2>6 DEF LiveInv, UpInv
<1> QED
  BY <1>7, <1>8, <1>9

\* The client stops listening: no request is live any more.
LEMMA NoneLive ==
    ASSUME LiveInv, \A i \in DOMAIN transit' : ~transit'[i].live,
           \A h \in Handler : /\ ~handler'[h].req.live /\ handler'[h].pc = handler[h].pc
                              /\ handler'[h].req.id = handler[h].req.id
    PROVE  LiveInv'
BY DEF LiveInv, TransitLive, HandlerLive, PayloadRead

\* The requests in transit once r is sent for a try of the round trip t.
NewRequest(r, t) ==
    /\ r.live = TRUE /\ r.id = IF t.acked THEN 0 ELSE t.id
    /\ ~t.acked => r.data = t.data
    /\ \A i \in DOMAIN transit' : \/ i \in DOMAIN transit /\ transit'[i] = transit[i]
                                  \/ i = Len(transit') /\ transit'[i] = r

\* A try sends a request; until then the client listened to none.
LEMMA SendTryLive ==
    ASSUME Types, LiveInv, client # "trip", NEW t \in TripState, NEW retry \in BOOLEAN,
           SendTry(t, retry), handler' = handler
    PROVE  /\ LiveInv'
           /\ client' = "trip" /\ trip' = t /\ wire'.status = "none" /\ wire'.eof = FALSE
           /\ \E r \in Req : NewRequest(r, t)
           /\ \A i \in DOMAIN transit : ~transit[i].live
           /\ \A h \in Handler : ~handler[h].req.live
<1>1. client' = "trip" /\ trip' = t /\ wire'.status = "none" /\ wire'.eof = FALSE
  BY SendTryFacts, Constants
<1>2. PICK r \in Req : r = TryRequest(t, retry)
  BY TryRequestFacts
<1>a. r.live = TRUE /\ r.id = (IF t.acked THEN 0 ELSE t.id) /\ (~t.acked => r.data = t.data)
  BY <1>2, TryRequestFacts
<1>b. \A i \in DOMAIN transit' : \/ i \in DOMAIN transit /\ transit'[i] = transit[i]
                                 \/ i = Len(transit') /\ transit'[i] = r
  BY <1>2, SendTryFacts
<1>3. /\ \A i \in DOMAIN transit : ~transit[i].live
      /\ \A h \in Handler : ~handler[h].req.live
  BY DEF LiveInv, TransitLive, HandlerLive
<1>4. LiveInv'
  <2>1. TransitLive'
    BY <1>1, <1>3, <1>b DEF TransitLive
  <2>2. HandlerLive' /\ PayloadRead'
    BY <1>3 DEF HandlerLive, PayloadRead, LiveInv
  <2> QED
    BY <2>1, <2>2 DEF LiveInv
<1> QED
  <2>1. NewRequest(r, t)
    BY <1>a, <1>b DEF NewRequest
  <2> QED
    BY <1>1, <1>3, <1>4, <2>1

\* What the try of a round trip t may carry: a payload with a new checksum, or
\* the one of the tries before, until it is acknowledged.  The n bytes before
\* sendBuffer were relayed or are in t.
Sendable(t, n) ==
    /\ t.acked \/ t.id = Empty => Settled /\ checksum' = checksum
    /\ Settled \/ (checksum' = checksum /\ t.data = trip.data)
    /\ t.id # Empty =>
          /\ t.id = checksum'
          /\ Pending' => From(t.data, Relayed) /\ Relayed + Len(t.data) <= upSent
    /\ n = Relayed + (IF Pending' THEN Len(t.data) ELSE 0)
    /\ From(sendBuffer', n) /\ n + Len(sendBuffer') = upSent

\* A try keeps the payload.
LEMMA SendTryUp ==
    ASSUME Types, LiveInv, UpParts, client \in {"idle", "failed"},
           NEW t \in TripState, NEW retry \in BOOLEAN, SendTry(t, retry), NEW n, Sendable(t, n),
           UNCHANGED <<handler, session, upReceived, upSent>>
    PROVE  UpParts'
<1>a. client' = "trip" /\ trip' = t /\ wire'.status = "none"
  BY SendTryLive
<1>b. PICK r \in Req : /\ r.live = TRUE /\ r.id = IF t.acked THEN 0 ELSE t.id
                       /\ ~t.acked => r.data = t.data
                       /\ \A i \in DOMAIN transit' :
                             \/ i \in DOMAIN transit /\ transit'[i] = transit[i]
                             \/ i = Len(transit') /\ transit'[i] = r
  <2>1. client # "trip" /\ handler' = handler
    OBVIOUS
  <2>2. \E r \in Req : NewRequest(r, t)
    BY <2>1, SendTryLive, Zenon
  <2> QED
    BY <2>2 DEF NewRequest
<1>t. \A i \in DOMAIN transit' : (i \in DOMAIN transit /\ transit'[i] = transit[i])
                                \/ transit'[i] = r
  BY <1>b, Zenon
<1>q. r.live /\ (r.id # Empty => r.id = t.id /\ r.data = t.data)
  BY <1>b DEF Empty
<1>c. /\ \A i \in DOMAIN transit : ~transit[i].live
      /\ \A h \in Handler : ~handler[h].req.live
  BY SendTryLive
<1>d. /\ Relayed' = Relayed /\ handler' = handler /\ upSent' = upSent
      /\ session' = session /\ upReceived' = upReceived
  BY DEF Relayed
<1>e. checksum' = checksum => (Pending' <=> Pending)
  BY DEF Pending
<1>0. RequestsCarry /\ AckedSettled /\ LiveCarries /\ TripCarries /\ Buffered /\ ReadNext
  BY DEF UpParts
<1>s. /\ t.acked \/ t.id = Empty => Settled /\ checksum' = checksum
      /\ Settled \/ (checksum' = checksum /\ t.data = trip.data)
      /\ t.id # Empty =>
            /\ t.id = checksum'
            /\ Pending' => From(t.data, Relayed) /\ Relayed + Len(t.data) <= upSent
  BY DEF Sendable
<1>n. /\ n = Relayed + (IF Pending' THEN Len(t.data) ELSE 0)
      /\ From(sendBuffer', n) /\ n + Len(sendBuffer') = upSent
  BY DEF Sendable
<1>z. r.id = Empty <=> t.acked \/ t.id = Empty
  BY <1>b DEF Empty
<1>1. t.acked \/ t.id = Empty => Settled'
  <2>1. ASSUME t.acked \/ t.id = Empty
        PROVE  Settled /\ checksum' = checksum /\ r.id = Empty
    BY <1>s, <1>z, <2>1
  <2> QED
    BY ONLY <1>d, <1>e, <1>t, <2>1 DEF Settled
<1>2. RequestsCarry'
  <2>1. r.id # Empty => /\ r.id = checksum' /\ r.data = trip'.data
                        /\ Pending' => /\ From(r.data, Relayed')
                                       /\ Relayed' + Len(r.data) <= upSent'
    BY ONLY <1>a, <1>d, <1>q, <1>s
  <2>2. ASSUME NEW i \in DOMAIN transit' PROVE Carries(transit[i])'
    <3>0. CASE transit'[i] = r
      BY ONLY <2>1, <3>0 DEF Carries, From
    <3>1. CASE i \in DOMAIN transit /\ transit'[i] = transit[i] /\ Settled
      <4>1. transit[i].id = Empty
        BY <3>1 DEF Settled
      <4> QED
        BY ONLY <3>1, <4>1 DEF Carries
    <3>2. CASE /\ i \in DOMAIN transit /\ transit'[i] = transit[i]
               /\ checksum' = checksum /\ t.data = trip.data
      <4>1. Carries(transit[i]) /\ client # "closed"
        BY <1>0, <3>2 DEF RequestsCarry
      <4> QED
        BY ONLY <1>a, <1>d, <1>e, <3>2, <4>1 DEF Carries, From
    <3> QED
      BY ONLY <1>s, <1>t, <3>0, <3>1, <3>2, i \in DOMAIN transit'
  <2>3. ASSUME NEW h \in Handler PROVE Carries(handler[h].req)'
    <3>1. CASE Settled
      <4>1. handler[h].req.id = Empty
        BY <3>1 DEF Settled
      <4> QED
        BY ONLY <1>d, <4>1 DEF Carries
    <3>2. CASE checksum' = checksum /\ t.data = trip.data
      <4>1. Carries(handler[h].req) /\ client # "closed"
        BY <1>0 DEF RequestsCarry
      <4> QED
        BY ONLY <1>a, <1>d, <1>e, <3>2, <4>1 DEF Carries, From
    <3> QED
      BY ONLY <1>s, <3>1, <3>2
  <2> QED
    BY ONLY <2>2, <2>3 DEF RequestsCarry
<1>3. AckedSettled'
  BY ONLY <1>a, <1>c, <1>d, <1>1 DEF AckedSettled, InTrip
<1>4. LiveCarries'
  BY ONLY <1>a, <1>c, <1>d, <1>t, <1>z DEF LiveCarries
<1>5. TripCarries'
  BY ONLY <1>a, <1>d, <1>s DEF TripCarries, From
<1>6. Buffered'
  BY ONLY <1>a, <1>d, <1>n DEF Buffered, From
<1>7. ReadNext'
  BY ONLY <1>0, <1>d DEF ReadNext, From
<1> QED
  BY <1>2, <1>3, <1>4, <1>5, <1>6, <1>7 DEF UpParts

\* The client keeps both.
LEMMA ClientNextUp ==
    ASSUME Types, LiveInv, UpInv, ClientNext
    PROVE  LiveInv' /\ UpInv'
<1>0. /\ Relayed \in Nat /\ upSent \in Nat /\ checksum \in 1..2 /\ session.lastChecksum \in 1..2
      /\ trip \in TripState /\ transit \in Seq(Req) /\ handler \in [Handler -> HandlerState]
      /\ trip.data \in Seq(Nat) /\ Len(trip.data) \in Nat /\ sendBuffer \in Seq(Nat)
      /\ Len(sendBuffer) \in Nat /\ RequestTypes
  BY Sizes DEF Types
<1>1. ASSUME ClientWrite PROVE LiveInv' /\ UpInv'
  <2>0. /\ UNCHANGED <<client, checksum, trip, upReceived, transit, handler, wire, session>>
        /\ client # "closed" /\ upSent' = upSent + 1
        /\ sendBuffer' = Append(sendBuffer, upSent + 1)
    BY <1>1 DEF ClientWrite, netVars, serverVars
  <2>1. LiveInv'
    BY <2>0 DEF LiveInv, TransitLive, HandlerLive, PayloadRead
  <2>2. ASSUME UpParts PROVE UpParts'
    <3>0. RequestsCarry /\ AckedSettled /\ LiveCarries /\ TripCarries /\ Buffered /\ ReadNext
      BY <2>2 DEF UpParts
    <3>1. Relayed' = Relayed /\ (Pending' <=> Pending) /\ (Settled' <=> Settled)
      BY <2>0 DEF Relayed, Pending, Settled
    <3>2. RequestsCarry'
      <4>1. ASSUME NEW r \in Req, Relayed + Len(r.data) <= upSent
            PROVE  Relayed + Len(r.data) <= upSent + 1
        <5>1. r.data \in Seq(Nat)
          BY DEF Req
        <5>2. Len(r.data) \in Nat
          BY <5>1
        <5> QED
          BY <1>0, <4>1, <5>2
      <4>2. ASSUME NEW i \in DOMAIN transit PROVE Carries(transit[i])'
        <5>1. Carries(transit[i]) /\ transit[i] \in Req
          BY <1>0, <3>0 DEF RequestsCarry
        <5> QED
          BY <2>0, <3>1, <4>1, <5>1 DEF Carries, From
      <4>3. ASSUME NEW h \in Handler PROVE Carries(handler[h].req)'
        <5>1. Carries(handler[h].req) /\ handler[h].req \in Req
          BY <3>0, Sizes DEF RequestsCarry
        <5> QED
          BY <2>0, <3>1, <4>1, <5>1 DEF Carries, From
      <4> QED
        BY <2>0, <4>2, <4>3 DEF RequestsCarry
    <3>3. AckedSettled'
      BY <2>0, <3>0, <3>1 DEF AckedSettled, InTrip
    <3>4. LiveCarries' /\ TripCarries'
      BY <2>0, <3>0, <3>1 DEF LiveCarries, TripCarries, InTrip, From
    <3>5. ReadNext'
      BY <1>0, <2>0, <3>0, <3>1 DEF ReadNext, From
    <3>6. Buffered'
      <4>0. Relayed + (IF Pending THEN Len(trip.data) ELSE 0) \in Nat
        BY <1>0
      <4>1. PICK n \in Nat : n = Relayed + (IF Pending THEN Len(trip.data) ELSE 0)
        BY <4>0, Zenon
      <4>2. From(sendBuffer, n) /\ n + Len(sendBuffer) = upSent
        BY <2>0, <3>0, <4>1 DEF Buffered
      <4>3. From(sendBuffer', n) /\ n + Len(sendBuffer') = upSent'
        <5>1. /\ Len(sendBuffer') = Len(sendBuffer) + 1
              /\ DOMAIN sendBuffer' = 1..(Len(sendBuffer) + 1)
              /\ DOMAIN sendBuffer = 1..Len(sendBuffer)
              /\ \A i \in 1..Len(sendBuffer) : sendBuffer'[i] = sendBuffer[i]
              /\ sendBuffer'[Len(sendBuffer) + 1] = upSent + 1
          BY <1>0, <2>0
        <5>2. ASSUME NEW i \in 1..(Len(sendBuffer) + 1) PROVE sendBuffer'[i] = n + i
          <6>1. CASE i = Len(sendBuffer) + 1
            BY <1>0, <4>2, <5>1, <6>1
          <6>2. CASE i \in 1..Len(sendBuffer)
            BY <4>2, <5>1, <6>2 DEF From
          <6> QED
            BY <1>0, <6>1, <6>2
        <5> QED
          BY <1>0, <2>0, <4>2, <5>1, <5>2 DEF From
      <4>4. n = Relayed' + (IF Pending' THEN Len(trip'.data) ELSE 0)
        BY <2>0, <3>1, <4>1
      <4> QED
        BY <2>0, <4>3, <4>4 DEF Buffered, From
    <3> QED
      BY <3>2, <3>3, <3>4, <3>5, <3>6 DEF UpParts
  <2> QED
    BY <2>0, <2>1, <2>2 DEF UpInv
<1>2. ASSUME NEW poll \in BOOLEAN, StartTrip(poll) PROVE LiveInv' /\ UpInv'
  <2>1. PICK t \in TripState :
           /\ SendTry(t, FALSE) /\ t.acked = FALSE
           /\ t.id = IF poll /\ ~session.padding THEN 0 ELSE 3 - checksum
           /\ t.data = IF poll THEN <<>> ELSE sendBuffer
           /\ checksum' = IF t.id = 0 THEN checksum ELSE t.id
    BY <1>2, StartTripFacts
  <2>2. /\ sendBuffer' = IF poll THEN sendBuffer ELSE <<>>
        /\ UNCHANGED <<handler, session, upReceived, upSent>> /\ client = "idle"
    BY <1>2, StartTripFacts DEF serverVars, streamVars
  <2>3. LiveInv'
    BY <2>1, <2>2, SendTryLive
  <2>4. ASSUME UpParts PROVE UpParts'
    <3>1. Settled /\ ~Pending
      BY <2>2, <2>4 DEF UpParts, AckedSettled, Settled
    <3>2. From(sendBuffer, Relayed) /\ Relayed + Len(sendBuffer) = upSent
      BY <1>0, <2>2, <2>4, <3>1 DEF UpParts, Buffered
    <3>d. <<>> \in Seq(Nat) /\ Len(<<>>) = 0 /\ \A n : From(<<>>, n)
      BY DEF From
    <3>e. PICK e \in Seq(Nat) : e = <<>> /\ Len(e) = 0 /\ \A n : From(e, n)
      BY <3>d, Zenon
    <3>3. From(t.data, Relayed) /\ Relayed + Len(t.data) <= upSent
      BY <1>0, <2>1, <3>2, <3>e
    <3>4. t.id # 0 => checksum' = t.id /\ Pending'
      BY <1>0, <2>1, <2>2, <3>1 DEF Pending
    <3>5. t.id = 0 => checksum' = checksum /\ ~Pending' /\ poll
      BY <1>0, <2>1, <2>2, <3>1 DEF Pending
    <3>a. Relayed + (IF Pending' THEN Len(t.data) ELSE 0) \in Nat
      BY <1>0, <2>1, <3>e
    <3>6. PICK n \in Nat : n = Relayed + (IF Pending' THEN Len(t.data) ELSE 0)
      BY <3>a, Zenon
    <3>7. From(sendBuffer', n) /\ n + Len(sendBuffer') = upSent
      <4>1. CASE poll
        <5>1. n = Relayed /\ sendBuffer' = sendBuffer
          BY <1>0, <2>1, <2>2, <3>6, <3>e, <4>1
        <5> QED
          BY <3>2, <5>1
      <4>2. CASE ~poll
        <5>1. t.id # 0 /\ t.data = sendBuffer /\ sendBuffer' = e
          BY <1>0, <2>1, <2>2, <3>e, <4>2
        <5>2. n = upSent
          BY <3>2, <3>4, <3>6, <5>1
        <5> QED
          BY <1>0, <3>e, <5>1, <5>2
      <4> QED
        BY <4>1, <4>2
    <3>8. Sendable(t, n)
      BY ONLY <2>1, <3>1, <3>3, <3>4, <3>5, <3>6, <3>7 DEF Sendable, Empty
    <3> QED
      BY <2>1, <2>2, <2>4, <3>8, SendTryUp
  <2> QED
    BY <2>2, <2>3, <2>4 DEF UpInv
<1>3. ASSUME ReceiveStatus PROVE LiveInv' /\ UpInv'
  <2>0. /\ UNCHANGED <<client, checksum, sendBuffer, upSent, upReceived, transit, handler, session>>
        /\ client = "trip" /\ wire.status = "ok" /\ wire' = [wire EXCEPT !.status = "none"]
        /\ trip' = [trip EXCEPT !.acked = TRUE]
    BY <1>3 DEF ReceiveStatus, serverVars, streamVars
  <2>1. wire'.status = "none" /\ wire'.eof = wire.eof
    BY <2>0 DEF Types, WireTypes
  <2>2. trip'.id = trip.id /\ trip'.data = trip.data /\ trip'.acked = TRUE
    BY <1>0, <2>0 DEF TripState
  <2>3. LiveInv'
    BY <2>0, <2>1 DEF LiveInv, TransitLive, HandlerLive, PayloadRead
  <2>4. ASSUME UpParts PROVE UpParts'
    <3>0. RequestsCarry /\ AckedSettled /\ LiveCarries /\ TripCarries /\ Buffered /\ ReadNext
      BY <2>4 DEF UpParts
    <3>1. Relayed' = Relayed /\ (Pending' <=> Pending) /\ (Settled' <=> Settled)
      BY <2>0 DEF Relayed, Pending, Settled
    <3>2. Settled
      BY <2>0, <3>0 DEF AckedSettled
    <3>3. RequestsCarry'
      BY <2>0, <3>1, <3>2 DEF RequestsCarry, Carries, Settled
    <3>4. AckedSettled'
      BY <3>1, <3>2 DEF AckedSettled
    <3>5. LiveCarries' /\ TripCarries'
      BY <2>0, <2>2, <3>0, <3>1 DEF LiveCarries, TripCarries, InTrip, From
    <3>6. Buffered'
      BY <2>0, <2>2, <3>0, <3>1 DEF Buffered, From
    <3>7. ReadNext'
      BY <2>0, <3>0, <3>1 DEF ReadNext, From
    <3> QED
      BY <3>3, <3>4, <3>5, <3>6, <3>7 DEF UpParts
  <2> QED
    BY <2>0, <2>3, <2>4 DEF UpInv
<1>4. ASSUME ReadPayload PROVE LiveInv' /\ UpInv'
  <2>0. /\ UNCHANGED <<client, checksum, sendBuffer, upSent, upReceived, transit, handler, session>>
        /\ wire' = [wire EXCEPT !.data = Tail(wire.data)]
        /\ trip' = [trip EXCEPT !.received = trip.received + 1, !.morePadding = FALSE]
    BY <1>4 DEF ReadPayload, serverVars
  <2>1. wire'.status = wire.status /\ wire'.eof = wire.eof
    BY <2>0 DEF Types, WireTypes
  <2>2. trip'.id = trip.id /\ trip'.data = trip.data /\ trip'.acked = trip.acked
    BY <1>0, <2>0 DEF TripState
  <2> QED
    BY <2>0, <2>1, <2>2, QuietStep DEF UpInv
<1>5. ASSUME EndTrip PROVE LiveInv' /\ UpInv'
  <2>0. /\ UNCHANGED <<checksum, sendBuffer, upSent, upReceived, transit, handler, session>>
        /\ client = "trip" /\ trip.acked /\ wire.eof /\ client' = "idle"
        /\ wire'.status = "none"
    BY <1>5, Constants DEF EndTrip, serverVars, streamVars, NoWire
  <2>1. /\ \A i \in DOMAIN transit : ~transit[i].live
        /\ \A h \in Handler : ~handler[h].req.live
    BY <2>0 DEF LiveInv, TransitLive, HandlerLive
  <2>2. LiveInv'
    BY <2>0, <2>1, NoneLive
  <2>3. ASSUME UpParts PROVE UpParts'
    <3>0. RequestsCarry /\ AckedSettled /\ LiveCarries /\ TripCarries /\ Buffered /\ ReadNext
      BY <2>3 DEF UpParts
    <3>1. Relayed' = Relayed /\ (Pending' <=> Pending) /\ (Settled' <=> Settled)
      BY <2>0 DEF Relayed, Pending, Settled
    <3>2. Settled /\ ~Pending
      BY <2>0, <3>0 DEF AckedSettled, InTrip, Settled
    <3>3. RequestsCarry'
      BY <2>0, <3>1, <3>2 DEF RequestsCarry, Carries, Settled
    <3>4. AckedSettled'
      BY <3>1, <3>2 DEF AckedSettled
    <3>5. LiveCarries' /\ TripCarries'
      BY <2>0, <2>1 DEF LiveCarries, TripCarries, InTrip
    <3>6. Buffered'
      BY <2>0, <3>0, <3>1, <3>2 DEF Buffered, From
    <3>7. ReadNext'
      BY <2>0, <3>0, <3>1 DEF ReadNext, From
    <3> QED
      BY <3>3, <3>4, <3>5, <3>6, <3>7 DEF UpParts
  <2> QED
    BY <2>0, <2>2, <2>3 DEF UpInv
\* All the requests are abandoned.
<1>6. ASSUME transit' = Abandon(transit), handler' = AbandonHandlers, wire' = NoWire,
             UNCHANGED <<checksum, upSent, upReceived, session>>,
             \/ client = "trip" /\ client' = "failed" /\ UNCHANGED <<trip, sendBuffer>>
             \/ client' = "closed"
      PROVE  LiveInv' /\ UpInv'
  <2>1. /\ DOMAIN transit' = DOMAIN transit
        /\ \A i \in DOMAIN transit : /\ transit'[i].id = transit[i].id
                                     /\ transit'[i].data = transit[i].data
                                     /\ ~transit'[i].live
    BY <1>0, <1>6, AbandonFacts
  <2>2. \A h \in Handler : /\ handler'[h].pc = handler[h].pc /\ ~handler'[h].req.live
                           /\ handler'[h].req.id = handler[h].req.id
                           /\ handler'[h].req.data = handler[h].req.data
    BY <1>0, <1>6, AbandonHandlersFacts
  <2>3. LiveInv'
    BY <2>1, <2>2, NoneLive
  <2>4. ASSUME UpParts PROVE UpParts'
    <3>0. RequestsCarry /\ AckedSettled /\ LiveCarries /\ TripCarries /\ Buffered /\ ReadNext
      BY <2>4 DEF UpParts
    <3>1. Relayed' = Relayed /\ (Pending' <=> Pending) /\ wire'.status = "none"
      BY <1>6, Constants DEF Relayed, Pending
    <3>2. Settled' <=> Settled
      BY <2>1, <2>2, <3>1 DEF Settled
    <3>3. RequestsCarry'
      <4>1. ASSUME NEW i \in DOMAIN transit PROVE Carries(transit[i])'
        <5>1. Carries(transit[i]) /\ transit'[i].id = transit[i].id
              /\ transit'[i].data = transit[i].data
          BY <2>1, <3>0 DEF RequestsCarry
        <5> QED
          BY <1>6, <3>1, <5>1 DEF Carries, From
      <4>2. ASSUME NEW h \in Handler PROVE Carries(handler[h].req)'
        <5>1. Carries(handler[h].req) /\ handler'[h].req.id = handler[h].req.id
              /\ handler'[h].req.data = handler[h].req.data
          BY <2>2, <3>0 DEF RequestsCarry
        <5> QED
          BY <1>6, <3>1, <5>1 DEF Carries, From
      <4> QED
        BY <2>1, <4>1, <4>2 DEF RequestsCarry
    <3>4. AckedSettled'
      BY <1>6, <2>2, <3>0, <3>1, <3>2 DEF AckedSettled, InTrip
    <3>5. LiveCarries'
      BY <2>1, <2>2 DEF LiveCarries
    <3>6. TripCarries'
      BY <1>6, <3>0, <3>1 DEF TripCarries, InTrip, From
    <3>7. Buffered'
      BY <1>6, <3>0, <3>1 DEF Buffered, From
    <3>8. ReadNext'
      BY <1>6, <3>0, <3>1 DEF ReadNext, From
    <3> QED
      BY <3>3, <3>4, <3>5, <3>6, <3>7, <3>8 DEF UpParts
  <2> QED
    BY <1>6, <2>3, <2>4 DEF UpInv
<1>7. ASSUME TryFails PROVE LiveInv' /\ UpInv'
  BY <1>6, <1>7 DEF TryFails, streamVars
<1>8. ASSUME CloseClient PROVE LiveInv' /\ UpInv'
  BY <1>6, <1>8 DEF CloseClient, streamVars
<1>9. ASSUME Retry PROVE LiveInv' /\ UpInv'
  <2>1. PICK t : t = [trip EXCEPT !.retried = TRUE]
    OBVIOUS
  <2>2. t \in TripState /\ t.id = trip.id /\ t.data = trip.data /\ t.acked = trip.acked
    BY <1>0, <2>1 DEF TripState
  <2>3. /\ SendTry(t, TRUE) /\ client = "failed"
        /\ UNCHANGED <<sendBuffer, checksum, handler, session, upReceived, upSent>>
    BY <1>9, <2>1 DEF Retry, serverVars, streamVars
  <2>4. LiveInv'
    BY <2>2, <2>3, SendTryLive
  <2>5. ASSUME UpParts PROVE UpParts'
    <3>0. RequestsCarry /\ AckedSettled /\ LiveCarries /\ TripCarries /\ Buffered /\ ReadNext
      BY <2>5 DEF UpParts
    <3>1. t.acked \/ t.id = 0 => Settled
      BY <2>2, <2>3, <3>0 DEF AckedSettled, InTrip, Empty
    <3>a. Relayed + (IF Pending THEN Len(trip.data) ELSE 0) \in Nat
      BY <1>0
    <3>2. PICK n \in Nat : n = Relayed + (IF Pending THEN Len(trip.data) ELSE 0)
      BY <3>a, Zenon
    <3>3. From(sendBuffer, n) /\ n + Len(sendBuffer) = upSent
      BY <2>3, <3>0, <3>2 DEF Buffered
    <3>4. Pending <=> Pending'
      BY <2>3 DEF Pending
    <3>5. Pending => Relayed + Len(t.data) <= upSent
      BY <1>0, <2>2, <3>2, <3>3
    <3>6. t.id # 0 => t.id = checksum' /\ (Pending => From(t.data, Relayed))
      BY <2>2, <2>3, <3>0 DEF TripCarries, InTrip, Empty
    <3>7. n = Relayed + (IF Pending' THEN Len(t.data) ELSE 0)
      BY <2>2, <3>2, <3>4
    <3>8. Sendable(t, n)
      BY ONLY <2>2, <2>3, <3>1, <3>3, <3>4, <3>5, <3>6, <3>7 DEF Sendable, Empty
    <3> QED
      BY <2>2, <2>3, <2>5, <3>8, SendTryUp
  <2> QED
    BY <2>3, <2>4, <2>5 DEF UpInv
<1> QED
  BY <1>1, <1>2, <1>3, <1>4, <1>5, <1>7, <1>8, <1>9
  DEF ClientNext, GiveUp, StatusError, ClientClose

\* So do the tunnel server and the reaper.
LEMMA ServerNextUp ==
    ASSUME Types, CloseOrder, LiveInv, UpInv, ServerNext
    PROVE  LiveInv' /\ UpInv'
<1>0. SessionTypes
  BY DEF Types
<1>q. ASSUME UNCHANGED <<client, checksum, sendBuffer, trip, upSent, upReceived, transit, handler,
                        wire>>,
             session'.closed \/ session'.closed = session.closed,
             \/ session'.closed
             \/ /\ session'.lastChecksum = session.lastChecksum
                /\ session'.readBuffer = session.readBuffer
      PROVE  LiveInv' /\ UpInv'
  <2>1. LiveInv'
    BY <1>q DEF LiveInv, TransitLive, HandlerLive, PayloadRead
  <2>2. ASSUME ~session'.closed PROVE UpParts'
    <3>1. UpParts
      BY <1>q, <2>2 DEF UpInv
    <3> QED
      BY <1>q, <2>2, <3>1, QuietStep
  <2> QED
    BY <2>1, <2>2 DEF UpInv
<1>1. ASSUME ServerRead PROVE LiveInv' /\ UpInv'
  <2>0. UNCHANGED <<client, checksum, sendBuffer, trip, upSent, transit, handler, wire>>
    BY <1>1 DEF ServerRead, clientVars, netVars
  <2>1. /\ session'.closed = session.closed /\ session'.lastChecksum = session.lastChecksum
        /\ session.readBuffer # <<>> /\ session'.readBuffer = Tail(session.readBuffer)
        /\ upReceived' = Append(upReceived, Head(session.readBuffer))
    BY <1>0, <1>1, SessionMoves
  <2>2. LiveInv'
    BY <2>0 DEF LiveInv, TransitLive, HandlerLive, PayloadRead
  <2>3. ASSUME UpParts PROVE UpParts'
    <3>0. RequestsCarry /\ AckedSettled /\ LiveCarries /\ TripCarries /\ Buffered /\ ReadNext
      BY <2>3 DEF UpParts
    <3>1. PICK b \in Seq(Nat) : b = session.readBuffer
      BY Sizes
    <3>2. PICK u \in Seq(Nat) : u = upReceived
      BY Sizes
    <3>3. /\ b # <<>> /\ Len(b) \in Nat /\ Len(b) >= 1 /\ Len(Tail(b)) = Len(b) - 1
          /\ DOMAIN b = 1..Len(b) /\ DOMAIN Tail(b) = 1..(Len(b) - 1)
          /\ \A i \in 1..(Len(b) - 1) : Tail(b)[i] = b[i + 1]
      BY <2>1, <3>1
    <3>a. PICK e \in Nat : e = Head(b)
      BY <3>1, <3>3
    <3>b. Len(u) \in Nat /\ upReceived' = Append(u, e) /\ Len(upReceived') = Len(u) + 1
      BY <2>1, <3>1, <3>2, <3>a
    <3>4. Relayed' = Relayed /\ (Pending' <=> Pending)
      <4>1. Len(session'.readBuffer) = Len(b) - 1
        BY <2>1, <3>1, <3>3
      <4>2. Len(u) + 1 + (Len(b) - 1) = Len(u) + Len(b)
        BY <3>3, <3>b
      <4>3. Relayed' = Relayed
        BY ONLY <3>1, <3>2, <3>b, <4>1, <4>2 DEF Relayed
      <4> QED
        BY <2>0, <2>1, <4>3 DEF Pending
    <3>5. Settled' <=> Settled
      BY <2>0, <3>4 DEF Settled
    <3>6. RequestsCarry'
      BY <2>0, <3>0, <3>4 DEF RequestsCarry, Carries, From
    <3>7. AckedSettled' /\ LiveCarries'
      BY <2>0, <3>0, <3>5 DEF AckedSettled, InTrip, LiveCarries
    <3>8. TripCarries'
      BY <2>0, <3>0, <3>4 DEF TripCarries, InTrip, From
    <3>9. Buffered'
      BY <2>0, <3>0, <3>4 DEF Buffered, From
    <3>10. ReadNext'
      <4>1. \A i \in DOMAIN b : b[i] = Len(u) + i
        BY <3>0, <3>1, <3>2 DEF ReadNext, From
      <4>2. \A i \in DOMAIN Tail(b) : Tail(b)[i] = Len(u) + 1 + i
        BY <3>3, <3>b, <4>1
      <4>3. From(session'.readBuffer, Len(upReceived'))
        BY <2>1, <3>1, <3>2, <3>3, <3>b, <4>2 DEF From
      <4> QED
        BY <2>0, <3>0, <3>4, <4>3 DEF ReadNext, From
    <3> QED
      BY <3>6, <3>7, <3>8, <3>9, <3>10 DEF UpParts
  <2> QED
    BY <2>1, <2>2, <2>3 DEF UpInv
<1>2. ASSUME NEW n \in 1..MaxPayload, ServerWrite(n) PROVE LiveInv' /\ UpInv'
  <2>1. UNCHANGED <<client, checksum, sendBuffer, trip, upSent, upReceived, transit, handler, wire>>
    BY <1>2 DEF ServerWrite, clientVars, netVars
  <2> QED
    BY <1>0, <1>2, <1>q, <2>1, SessionMoves
<1>3. ASSUME ServerClose \/ DeleteBegin PROVE LiveInv' /\ UpInv'
  <2>1. UNCHANGED <<client, checksum, sendBuffer, trip, upSent, upReceived, transit, handler, wire>>
    BY <1>3 DEF ServerClose, DeleteBegin, clientVars, netVars, streamVars
  <2> QED
    BY <1>0, <1>3, <1>q, <2>1, SessionMoves
<1>4. ASSUME DeleteRelease \/ DeleteUnregister PROVE LiveInv' /\ UpInv'
  <2>1. UNCHANGED <<client, checksum, sendBuffer, trip, upSent, upReceived, transit, handler, wire>>
    BY <1>4 DEF DeleteRelease, DeleteUnregister, clientVars, netVars, streamVars
  <2> QED
    BY <1>0, <1>4, <1>q, <2>1, SessionMoves
<1>5. ASSUME OtherSessions PROVE LiveInv' /\ UpInv'
  BY <1>5, <1>q DEF OtherSessions, clientVars, netVars, streamVars
<1> QED
  BY <1>1, <1>2, <1>3, <1>4, <1>5 DEF ServerNext

----------------------------------------------------------------------------
(* The theorems *)

MeekInv == Types /\ LockInv /\ CloseOrder /\ LiveInv /\ UpInv

\* The invariant holds initially.
LEMMA InitInv ==
    ASSUME Init
    PROVE  MeekInv
<1>1. /\ client = "idle" /\ sendBuffer = <<>> /\ trip = NoTrip /\ checksum = 1 /\ wire = NoWire
      /\ transit = <<>> /\ handler = [h \in Handler |-> NoHandler] /\ lock = None
      /\ reaper = "idle" /\ upSent = 0 /\ upReceived = <<>> /\ downSent = 0
  BY DEF Init
<1>p. PICK padding \in PayloadPadding :
        session = [lastChecksum |-> 1, deleted |-> FALSE, closed |-> FALSE, registered |-> TRUE,
                   padding |-> padding, readBuffer |-> <<>>, nextWrite |-> <<>>]
  BY DEF Init
<1>2. /\ session.lastChecksum = 1 /\ session.deleted = FALSE /\ session.closed = FALSE
      /\ session.registered = TRUE /\ session.readBuffer = <<>>
  BY <1>p
<1>3. /\ \A h \in Handler : handler[h] = NoHandler
      /\ handler \in [Handler -> HandlerState]
  BY <1>1, Constants
<1>4. Types
  <2>1. ClientTypes
    BY <1>1, Constants DEF ClientTypes
  <2>2. WireTypes
    BY <1>1, Constants DEF WireTypes
  <2>3. RequestTypes
    BY <1>1, <1>3 DEF RequestTypes
  <2>4. SessionTypes
    <3>1. session \in SessionState
      <4>1. <<>> \in Seq(Nat) /\ padding \in BOOLEAN
        BY MeekAssumption
      <4> QED
        BY <1>p, <4>1 DEF SessionState
    <3> QED
      BY <1>1, <3>1 DEF SessionTypes
  <2> QED
    BY <2>1, <2>2, <2>3, <2>4 DEF Types
<1>5. LockInv
  BY <1>1, <1>2, <1>3, Constants, MeekAssumption DEF LockInv, HoldsLock
<1>6. CloseOrder
  BY <1>1, <1>2 DEF CloseOrder
<1>n. \A h \in Handler : /\ handler[h].pc = "none" /\ handler[h].req.id = Empty
                         /\ handler[h].req.live = FALSE
  BY <1>3, Constants DEF Empty
<1>d. DOMAIN transit = {} /\ DOMAIN sendBuffer = {} /\ DOMAIN session.readBuffer = {}
  BY <1>1, <1>2
<1>7. LiveInv
  BY <1>d, <1>n DEF LiveInv, TransitLive, HandlerLive, PayloadRead
<1>8. UpParts
  <2>1. ~Pending /\ Settled
    BY <1>1, <1>2, <1>d, <1>n DEF Pending, Settled
  <2>2. Relayed = 0 /\ Len(sendBuffer) = 0 /\ Len(upReceived) = 0
    BY <1>1, <1>2 DEF Relayed
  <2>3. RequestsCarry
    BY <1>d, <1>n DEF RequestsCarry, Carries
  <2>4. AckedSettled /\ LiveCarries
    BY <1>d, <1>n, <2>1 DEF AckedSettled, LiveCarries
  <2>5. TripCarries
    BY <1>1 DEF TripCarries, InTrip
  <2>6. Buffered
    BY <1>1, <1>d, <2>1, <2>2 DEF Buffered, From
  <2>7. ReadNext
    BY <1>1, <1>d, <2>2 DEF ReadNext, From
  <2> QED
    BY <2>3, <2>4, <2>5, <2>6, <2>7 DEF UpParts
<1> QED
  BY <1>4, <1>5, <1>6, <1>7, <1>8 DEF MeekInv, UpInv

\* Every step preserves it.
LEMMA NextInv ==
    ASSUME MeekInv, [Next]_vars
    PROVE  MeekInv'
<1>0. Types /\ LockInv /\ CloseOrder /\ LiveInv /\ UpInv
  BY DEF MeekInv
<1>1. Types' /\ LockInv' /\ CloseOrder'
  BY <1>0, TypesNext, LockNext
<1>2. ASSUME UNCHANGED vars PROVE LiveInv' /\ UpInv'
  <2>1. UNCHANGED <<client, checksum, sendBuffer, upSent, upReceived, transit, handler, trip, wire,
                    session>>
    BY <1>2 DEF vars, clientVars, netVars, serverVars, streamVars
  <2> QED
    BY <1>0, <2>1, QuietStep DEF UpInv
<1>3. LiveInv' /\ UpInv'
  BY <1>0, <1>2, ClientNextUp, NetworkNextUp, HandlerNextUp, ServerNextUp DEF Next
<1> QED
  BY <1>1, <1>3 DEF MeekInv

\* The inductive invariant: session.lock and the deletion, the newest request,
\* and where the payload not yet acknowledged is.
THEOREM MeekInvariant == Spec => []MeekInv
<1>1. Init => MeekInv
  BY InitInv
<1>2. MeekInv /\ [Next]_vars => MeekInv'
  BY NextInv
<1> QED
  BY <1>1, <1>2, PTL DEF Spec

\* A deleted session holds no extended buffer of the shared pool: session.delete
\* releases them under session.lock, and ServeHTTP looks at session.deleted once
\* it has the lock.
THEOREM MeekBuffersReleased == Spec => []BuffersReleased
<1>1. MeekInv => BuffersReleased
  BY DEF MeekInv, LockInv, BuffersReleased
<1> QED
  BY <1>1, MeekInvariant, PTL

\* Each step is one of the byte stream, or leaves it alone.
LEMMA UpStep ==
    ASSUME MeekInv, [Next]_vars
    PROVE  [Up!Next]_<<upSent, upReceived, session.closed>>
<1>0. Types /\ CloseOrder /\ UpInv /\ SessionTypes /\ RequestTypes
      /\ session \in SessionState /\ session.closed \in BOOLEAN
  BY DEF MeekInv, Types, SessionTypes, SessionState
<1>a. ASSUME UNCHANGED <<upSent, upReceived>>,
             session'.closed = session.closed \/ session'.closed = TRUE
      PROVE  [Up!Next]_<<upSent, upReceived, session.closed>>
  BY <1>a DEF Up!Next, Up!Break
<1>1. ASSUME UNCHANGED vars PROVE [Up!Next]_<<upSent, upReceived, session.closed>>
  BY <1>1, <1>a DEF vars, serverVars, streamVars
<1>2. ASSUME ClientNext PROVE [Up!Next]_<<upSent, upReceived, session.closed>>
  <2>1. ClientWrite => upSent' = upSent + 1 /\ UNCHANGED <<upReceived, session>>
    BY DEF ClientWrite, serverVars
  <2>2. ClientWrite => Up!Send
    BY <2>1 DEF Up!Send, Types, ClientTypes, MeekInv
  <2>3. ReceiveStatus \/ EndTrip \/ Retry => UNCHANGED <<upSent, upReceived, session>>
    BY DEF ReceiveStatus, EndTrip, Retry, serverVars, streamVars
  <2>4. ReadPayload => UNCHANGED <<upSent, upReceived, session>>
    BY DEF ReadPayload, serverVars
  <2>5. TryFails \/ CloseClient => UNCHANGED <<upSent, upReceived, session>>
    BY DEF TryFails, CloseClient, streamVars
  <2>6. \A poll \in BOOLEAN : StartTrip(poll) => UNCHANGED <<upSent, upReceived, session>>
    BY DEF StartTrip, serverVars, streamVars
  <2>7. ClientWrite \/ UNCHANGED <<upSent, upReceived, session>>
    BY <1>2, <2>3, <2>4, <2>5, <2>6 DEF ClientNext, GiveUp, StatusError, ClientClose
  <2> QED
    BY <1>a, <2>2, <2>7 DEF Up!Next
<1>3. ASSUME LoseRequest \/ RequestRejected
      PROVE  [Up!Next]_<<upSent, upReceived, session.closed>>
  BY <1>3, <1>a DEF LoseRequest, RequestRejected, serverVars, streamVars
<1>4. ASSUME NEW h \in Handler, RequestArrives(h)
      PROVE  [Up!Next]_<<upSent, upReceived, session.closed>>
  BY <1>4, <1>a DEF RequestArrives, streamVars
<1>5. ASSUME NEW h \in Handler, HandlerNext(h)
      PROVE  [Up!Next]_<<upSent, upReceived, session.closed>>
  <2>1. UNCHANGED <<upSent, upReceived>>
    BY <1>5, HandlerKeeps DEF streamVars
  <2>2. session'.closed = session.closed \/ session'.closed = TRUE
    <3>1. Discard(h) \/ RejectDeleted(h) \/ ServeRequest(h) \/ PumpReadsFails(h)
             \/ RespondCached(h) \/ RespondNew(h) \/ PumpClosed(h) => session' = session
      BY DEF Discard, RejectDeleted, ServeRequest, PumpReadsFails, RespondCached, RespondNew,
             PumpClosed
    <3>2. \A pad \in BOOLEAN : PumpTimeout(h, pad) => session' = session
      BY DEF PumpTimeout
    <3>3. PumpReads(h) => session'.closed = session.closed
      BY <1>0, PumpReadsSession
    <3>4. /\ RespondMissing(h) => session'.closed = TRUE
          /\ \A more \in BOOLEAN : PumpWrites(h, more) => session'.closed = session.closed
          /\ PumpHeaderFails(h) => session'.closed = session.closed
      BY <1>0, SessionMoves
    <3> QED
      BY <1>5, <3>1, <3>2, <3>3, <3>4 DEF HandlerNext
  <2> QED
    BY <1>a, <2>1, <2>2
<1>6. ASSUME ServerNext PROVE [Up!Next]_<<upSent, upReceived, session.closed>>
  <2>1. ASSUME ServerRead PROVE [Up!Next]_<<upSent, upReceived, session.closed>>
    <3>1. /\ session'.closed = session.closed /\ session.readBuffer # <<>>
          /\ upReceived' = Append(upReceived, Head(session.readBuffer)) /\ upSent' = upSent
      BY <1>0, <2>1, SessionMoves DEF ServerRead
    <3>2. CASE session.closed
      BY <3>1, <3>2 DEF Up!Next, Up!Broken
    <3>3. CASE ~session.closed
      <4>0. ReadNext
        BY <1>0, <3>3 DEF UpInv, UpParts
      <4>1. PICK b \in Seq(Nat) : b = session.readBuffer
        BY <1>0, Sizes
      <4>2. Len(b) \in Nat /\ Len(b) >= 1 /\ Head(b) = b[1] /\ 1 \in DOMAIN b
        BY <3>1, <4>1
      <4>3. Head(b) = Len(upReceived) + 1 /\ Len(upReceived) \in Nat /\ upSent \in Nat
        BY <1>0, <4>0, <4>1, <4>2, Sizes DEF ReadNext, From
      <4>4. Len(upReceived) < upSent
        BY <4>0, <4>1, <4>2, <4>3 DEF ReadNext, Relayed
      <4> QED
        BY <3>1, <4>1, <4>3, <4>4 DEF Up!Next, Up!Receive
    <3> QED
      BY <3>2, <3>3
  <2>2. ASSUME NEW n \in 1..MaxPayload, ServerWrite(n)
        PROVE  [Up!Next]_<<upSent, upReceived, session.closed>>
    <3>1. UNCHANGED <<upSent, upReceived>> /\ session'.closed = session.closed
      BY <1>0, <2>2, SessionMoves DEF ServerWrite
    <3> QED
      BY <1>a, <3>1
  <2>3. ASSUME ServerClose \/ DeleteBegin \/ DeleteRelease \/ DeleteUnregister
        PROVE  [Up!Next]_<<upSent, upReceived, session.closed>>
    <3>1. UNCHANGED <<upSent, upReceived>>
      BY <2>3 DEF ServerClose, DeleteBegin, DeleteRelease, DeleteUnregister, streamVars
    <3>2. session'.closed = session.closed \/ session'.closed = TRUE
      BY <1>0, <2>3, SessionMoves
    <3> QED
      BY <1>a, <3>1, <3>2
  <2>4. ASSUME OtherSessions PROVE [Up!Next]_<<upSent, upReceived, session.closed>>
    BY <1>a, <2>4 DEF OtherSessions, streamVars
  <2> QED
    BY <1>6, <2>1, <2>2, <2>3, <2>4 DEF ServerNext
<1> QED
  BY <1>1, <1>2, <1>3, <1>4, <1>5, <1>6 DEF Next

\* Whatever requests and responses are lost, retried, overtaken or relayed
\* twice, and however many handlers are alive, the tunnel server reads what the
\* client wrote, once and in order, until the session is closed: the meek session
\* implements the reliable byte stream.
THEOREM MeekUpStream == Spec => UpStream
<1>1. Init => Up!Init
  BY DEF Init, Up!Init
<1>2. MeekInv /\ [Next]_vars => [Up!Next]_<<upSent, upReceived, session.closed>>
  BY UpStep
<1> QED
  BY <1>1, <1>2, MeekInvariant, PTL DEF Spec, UpStream, Up!Spec

=============================================================================
