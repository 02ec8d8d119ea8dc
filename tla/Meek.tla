-------------------------------- MODULE Meek --------------------------------
(***************************************************************************)
(* One meek session: the client's relay (psiphon/meekConn.go), which makes *)
(* one HTTP request at a time and retries it when it fails, the server's   *)
(* request handlers (psiphon/server/meek.go ServeHTTP), of which several   *)
(* may be alive because the handler of an abandoned request goes on, the   *)
(* session's cached response, and the reaper that deletes the session.     *)
(*                                                                         *)
(* Bytes are numbered in each direction in the order they are written.     *)
(* The model starts when the client holds the session ID cookie and its    *)
(* first round trip is over.  Requests reach the server in the order they  *)
(* were sent, or are lost.  In payload padding mode a response begins with *)
(* a byte Pad and a poll has a body; without it polls have no body.        *)
(***************************************************************************)
EXTENDS CachedResponse, FiniteSets

CONSTANTS
    Handler,            \* ServeHTTP goroutines alive together (a bound)
    PayloadPadding,     \* payload padding modes of a session, with no omitted padding
    MaxUp,              \* bytes the client writes (a bound)
    MaxDown,            \* bytes the server writes (a bound)
    MaxBreaks,          \* failures of a round trip (a bound)
    MaxTransit,         \* requests in the network together (a bound)
    MaxPayload,         \* bytes of a request payload, of a read buffer and of a chunk
    PoolSize,           \* buffers of the CachedResponseBufferPool
    None                \* no handler

ASSUME MeekAssumption ==
    /\ PayloadPadding \subseteq BOOLEAN
    /\ {MaxUp, MaxDown, MaxBreaks, PoolSize} \subseteq Nat
    /\ {MaxTransit, MaxPayload} \subseteq Nat \ {0}
    /\ None \notin Handler

Pad == MaxDown + 1      \* a response byte that is padding
Empty == 0              \* the checksum of a request without a body

VARIABLES
    client,     \* where relay is: "idle", "trip", "failed" or "closed"
    sendBuffer, \* what MeekConn.Write has buffered
    trip,       \* the round trip in progress
    checksum,   \* of the last payload the client has sent
    breaks,     \* failures so far
    wire,       \* the connection of the client's current try
    transit,    \* requests on their way to the server, oldest first
    handler,    \* the ServeHTTP goroutines
    lock,       \* the handler that holds session.lock
    session,    \* the meekSession and its meekConn
    cache,      \* session.cachedResponse
    pool,       \* extended buffers available
    reaper,     \* deleteSession: "idle", "closed", "deleted" or "done"
    overrun,    \* history: the server has dropped a response it could not resend
    spoiled,    \* history: the server has dropped a chunk, or sent a stale response
    answered,   \* history: a response was begun for the current round trip
    upSent,     \* bytes the client has written
    upReceived, \* bytes the tunnel server has read
    downSent,   \* bytes the tunnel server has written
    downReceived \* bytes the client has relayed to its reader

clientVars == <<client, sendBuffer, trip, checksum, breaks>>
netVars == <<wire, transit>>
serverVars == <<handler, lock, session, cache, pool, reaper>>
historyVars == <<overrun, spoiled, answered>>
streamVars == <<upSent, upReceived, downSent, downReceived>>
vars == <<clientVars, netVars, serverVars, historyVars, streamVars>>

NoWire == [status |-> "none", data |-> <<>>, eof |-> FALSE]
NoRequest == [id |-> Empty, data |-> <<>>, retry |-> FALSE, position |-> 0, live |-> FALSE]
NoHandler == [pc |-> "none", req |-> NoRequest, superseded |-> FALSE,
              allowCached |-> FALSE, first |-> TRUE]
NoTrip == [id |-> Empty, data |-> <<>>, acked |-> TRUE, retried |-> FALSE,
           received |-> 0, morePadding |-> FALSE]

\* Checksums of request payloads, which "almost surely" differ when the
\* payloads do.  Two values suffice: a payload is compared with the last one
\* relayed only, and a round trip ends only after its payload was relayed.
Checksum == 1 .. 2
NextChecksum(id) == 3 - id

Request == [id : Checksum \cup {Empty}, data : Seq(1 .. MaxUp),
            retry : BOOLEAN, position : 0 .. MaxDown + 2, live : BOOLEAN]

\* Type correctness: in particular response positions stay within what the
\* server can have written and the buffer pool is never overfull.
TypeOK ==
    /\ client \in {"idle", "trip", "failed", "closed"}
    /\ sendBuffer \in Seq(1 .. MaxUp) /\ Len(sendBuffer) <= MaxPayload
    /\ trip.id \in Checksum \cup {Empty}
    /\ checksum \in Checksum
    /\ trip.data \in Seq(1 .. MaxUp)
    /\ {trip.acked, trip.retried, trip.morePadding} \subseteq BOOLEAN
    /\ trip.received \in 0 .. MaxDown + 2
    /\ breaks \in 0 .. MaxBreaks
    /\ wire.status \in {"none", "ok", "error"}
    /\ wire.data \in Seq(1 .. Pad)
    /\ wire.eof \in BOOLEAN
    /\ Len(transit) <= MaxTransit
    /\ \A i \in DOMAIN transit : transit[i] \in Request
    /\ handler \in [Handler -> [pc : {"none", "wait", "read", "respond", "pump"},
                                req : Request, superseded : BOOLEAN,
                                allowCached : BOOLEAN, first : BOOLEAN]]
    /\ lock \in Handler \cup {None}
    /\ session.lastChecksum \in Checksum
    /\ {session.deleted, session.closed, session.registered, session.padding} \subseteq BOOLEAN
    /\ session.readBuffer \in Seq(1 .. MaxUp)
    /\ session.nextWrite \in Seq(1 .. MaxDown)
    /\ pool \in 0 .. PoolSize
    /\ reaper \in {"idle", "closed", "deleted", "done"}
    /\ {overrun, spoiled, answered} \subseteq BOOLEAN
    /\ upSent \in 0 .. MaxUp
    /\ downSent \in 0 .. MaxDown
    /\ upReceived \in Seq(1 .. MaxUp)
    /\ downReceived \in Seq(1 .. MaxDown)

Init ==
    /\ client = "idle"
    /\ sendBuffer = <<>>
    /\ trip = NoTrip
    /\ checksum = 1
    /\ breaks = 0
    /\ wire = NoWire
    /\ transit = <<>>
    /\ handler = [h \in Handler |-> NoHandler]
    /\ lock = None
    /\ \E padding \in PayloadPadding :
          session = [lastChecksum |-> 1, deleted |-> FALSE, closed |-> FALSE, registered |-> TRUE,
                     padding |-> padding, readBuffer |-> <<>>, nextWrite |-> <<>>]
    /\ cache = NewCachedResponse
    /\ pool = PoolSize
    /\ reaper = "idle"
    /\ overrun = FALSE /\ spoiled = FALSE /\ answered = FALSE
    /\ upSent = 0
    /\ upReceived = <<>>
    /\ downSent = 0
    /\ downReceived = <<>>

----------------------------------------------------------------------------
(* The client: Write, relay and relayRoundTrip *)

\* The buffer is with the round trip until the server acknowledges it.
SendBufferTaken == client \in {"trip", "failed"} /\ trip.data # <<>> /\ ~trip.acked

\* MeekConn.Write of one byte.
ClientWrite ==
    /\ client # "closed"
    /\ ~SendBufferTaken
    /\ Len(sendBuffer) < MaxPayload
    /\ upSent < MaxUp
    /\ upSent' = upSent + 1
    /\ sendBuffer' = Append(sendBuffer, upSent + 1)
    /\ UNCHANGED <<client, trip, checksum, breaks, netVars, serverVars, historyVars, upReceived, downSent,
                   downReceived>>

\* Mutant: a retry never carries the payload.
Mutant_RetryWithoutPayload(t, retry) ==
    [id |-> IF t.acked \/ retry THEN Empty ELSE t.id,
     data |-> IF t.acked \/ retry THEN <<>> ELSE t.data,
     retry |-> retry, position |-> IF retry THEN t.received ELSE 0, live |-> TRUE]

\* The request of a try: the payload until it is acknowledged, and, from
\* the second try on, a Range header with what was received.
TryRequest(t, retry) ==
    [id |-> IF t.acked THEN Empty ELSE t.id,
     data |-> IF t.acked THEN <<>> ELSE t.data,
     retry |-> retry, position |-> IF retry THEN t.received ELSE 0, live |-> TRUE]

SendTry(t, retry) ==
    /\ Len(transit) < MaxTransit
    /\ transit' = Append(transit, TryRequest(t, retry))
    /\ wire' = NoWire
    /\ client' = "trip"
    /\ trip' = t

\* relay starts a round trip, for what was written or as a poll.
StartTrip(poll) ==
    /\ client = "idle"
    /\ poll \/ sendBuffer # <<>>
    /\ LET id == IF poll /\ ~session.padding THEN Empty ELSE NextChecksum(checksum) IN
       /\ checksum' = IF id = Empty THEN checksum ELSE id
       /\ SendTry([id |-> id, data |-> IF poll THEN <<>> ELSE sendBuffer, acked |-> FALSE,
                   retried |-> FALSE, received |-> 0, morePadding |-> session.padding],
                  FALSE)
    /\ sendBuffer' = IF poll THEN sendBuffer ELSE <<>>
    /\ answered' = FALSE
    /\ UNCHANGED <<breaks, serverVars, overrun, spoiled, streamVars>>

\* The response status arrives: the server must have received the payload.
ReceiveStatus ==
    /\ client = "trip"
    /\ wire.status = "ok"
    /\ wire' = [wire EXCEPT !.status = "none"]
    /\ trip' = [trip EXCEPT !.acked = TRUE]
    /\ UNCHANGED <<client, sendBuffer, checksum, breaks, transit, serverVars, historyVars, streamVars>>

\* The next byte of the response: padding first, then payload that goes to
\* the receive buffer.  Both count for the position of a retry.
ReadPayload ==
    /\ client = "trip"
    /\ trip.acked
    /\ wire.status = "none"
    /\ wire.data # <<>>
    /\ wire' = [wire EXCEPT !.data = Tail(@)]
    /\ trip' = [trip EXCEPT !.received = @ + 1, !.morePadding = FALSE]
    /\ downReceived' = IF trip.morePadding
                       THEN downReceived ELSE Append(downReceived, Head(wire.data))
    /\ UNCHANGED <<client, sendBuffer, checksum, breaks, transit, serverVars, historyVars, upSent, upReceived,
                   downSent>>

\* The end of the response: the round trip is over.
EndTrip ==
    /\ client = "trip"
    /\ trip.acked
    /\ wire = [NoWire EXCEPT !.eof = TRUE]
    /\ client' = "idle"
    /\ wire' = NoWire
    /\ trip' = NoTrip
    /\ UNCHANGED <<sendBuffer, checksum, breaks, transit, serverVars, historyVars, streamVars>>

\* Nothing more reaches the client from the requests sent so far.
Abandon(rs) == [i \in DOMAIN rs |-> [rs[i] EXCEPT !.live = FALSE]]
AbandonHandlers == [h \in Handler |-> [handler[h] EXCEPT !.req.live = FALSE]]

\* The round trip fails or times out, or its connection breaks while the
\* response is read; a request in transit may be lost with it, or not.
TryFails ==
    /\ client = "trip"
    /\ breaks < MaxBreaks
    /\ breaks' = breaks + 1
    /\ client' = "failed"
    /\ wire' = NoWire
    /\ transit' = Abandon(transit)
    /\ handler' = AbandonHandlers
    /\ UNCHANGED <<sendBuffer, trip, checksum, lock, session, cache, pool, reaper, historyVars, streamVars>>

\* One retry is always made, and more while the deadline allows it.  (A
\* failure while reading the padding retries without delay or deadline.)
Retry ==
    /\ client = "failed"
    /\ SendTry([trip EXCEPT !.retried = TRUE], TRUE)
    /\ UNCHANGED <<sendBuffer, checksum, breaks, serverVars, historyVars, streamVars>>

CloseClient ==
    /\ client' = "closed"
    /\ wire' = NoWire
    /\ transit' = Abandon(transit)
    /\ handler' = AbandonHandlers
    /\ sendBuffer' = <<>>
    /\ trip' = NoTrip
    /\ UNCHANGED <<checksum, breaks, lock, session, cache, pool, reaper, historyVars, streamVars>>

\* The retry deadline has passed: relay fails and closes the connection.
GiveUp ==
    /\ client = "failed"
    /\ trip.retried
    /\ CloseClient

\* An unexpected status code is not retried.
StatusError ==
    /\ client = "trip"
    /\ wire.status = "error"
    /\ CloseClient

\* MeekConn.Close, called by the tunnel.
ClientClose ==
    /\ client # "closed"
    /\ CloseClient

----------------------------------------------------------------------------
(* The network *)

\* A request of an abandoned try never reaches the server.
LoseRequest ==
    /\ transit # <<>>
    /\ ~Head(transit).live
    /\ transit' = Tail(transit)
    /\ UNCHANGED <<clientVars, wire, serverVars, historyVars, streamVars>>

----------------------------------------------------------------------------
(* The server: ServeHTTP *)

\* What a handler writes reaches the client only if it still listens.
Respond(req, status, data, eof) ==
    wire' = IF req.live
            THEN [status |-> IF status = "none" THEN wire.status ELSE status,
                  data |-> wire.data \o data, eof |-> eof]
            ELSE wire

EndHandler(h) == handler' = [handler EXCEPT ![h] = NoHandler]

\* getSessionOrEndpoint finds the session; the request is counted, which
\* makes it the newest.  What an overtaken request asked for is not used.
RequestArrives(h) ==
    /\ transit # <<>>
    /\ session.registered
    /\ handler[h] = NoHandler
    /\ transit' = Tail(transit)
    /\ handler' = [g \in Handler |->
                      CASE g = h -> [NoHandler EXCEPT !.pc = "wait", !.req = Head(transit)]
                        [] g # h /\ handler[g].pc = "wait" ->
                               [NoHandler EXCEPT !.pc = "wait", !.superseded = TRUE]
                        [] OTHER -> handler[g]]
    /\ UNCHANGED <<clientVars, wire, lock, session, cache, pool, reaper, historyVars, streamVars>>

\* The session ID is not known any more: the session lookup fails.
RequestRejected ==
    /\ transit # <<>>
    /\ ~session.registered
    /\ transit' = Tail(transit)
    /\ Respond(Head(transit), "error", <<>>, TRUE)
    /\ UNCHANGED <<clientVars, serverVars, historyVars, streamVars>>

\* session.lock obtained, but a newer request arrived meanwhile: discarded.
Discard(h) ==
    /\ handler[h].pc = "wait"
    /\ lock = None
    /\ handler[h].superseded
    /\ Respond(handler[h].req, "ok", <<>>, TRUE)
    /\ EndHandler(h)
    /\ UNCHANGED <<clientVars, transit, lock, session, cache, pool, reaper, historyVars, streamVars>>

\* session.lock obtained, but the session was deleted meanwhile.
RejectDeleted(h) ==
    /\ handler[h].pc = "wait"
    /\ lock = None
    /\ ~handler[h].superseded
    /\ session.deleted
    /\ Respond(handler[h].req, "error", <<>>, TRUE)
    /\ EndHandler(h)
    /\ UNCHANGED <<clientVars, transit, lock, session, cache, pool, reaper, historyVars, streamVars>>

\* Mutant: the handler does not look at session.deleted.
Mutant_DeletedNotChecked(h) ==
    /\ handler[h].pc = "wait"
    /\ lock = None
    /\ ~handler[h].superseded
    /\ lock' = h
    /\ handler' = [handler EXCEPT ![h].pc = "read"]
    /\ UNCHANGED <<clientVars, netVars, session, cache, pool, reaper, historyVars, streamVars>>

\* session.lock obtained: the newest request is served.
ServeRequest(h) ==
    /\ handler[h].pc = "wait"
    /\ lock = None
    /\ ~handler[h].superseded
    /\ ~session.deleted
    /\ lock' = h
    /\ handler' = [handler EXCEPT ![h].pc = "read"]
    /\ UNCHANGED <<clientVars, netVars, session, cache, pool, reaper, historyVars, streamVars>>

\* Mutant: the handler returns without giving session.lock back.
Mutant_LockKept(h) ==
    /\ handler[h].pc = "read"
    /\ session.closed \/ (handler[h].req.id # Empty /\ ~handler[h].req.live)
    /\ Respond(handler[h].req, "ok", <<>>, TRUE)
    /\ EndHandler(h)
    /\ UNCHANGED <<clientVars, transit, lock, session, cache, pool, reaper, historyVars, streamVars>>

\* pumpReads fails, since the connection broke before the whole body was
\* read or since the meekConn is closed.  Nothing is relayed, no checksum
\* is kept, and the handler returns without an error status.
PumpReadsFails(h) ==
    /\ handler[h].pc = "read"
    /\ \/ session.closed
       \/ /\ Len(session.readBuffer) < MaxPayload
          /\ handler[h].req.id # Empty
          /\ ~handler[h].req.live
    /\ Respond(handler[h].req, "ok", <<>>, TRUE)
    /\ lock' = None
    /\ EndHandler(h)
    /\ UNCHANGED <<clientVars, transit, session, cache, pool, reaper, historyVars, streamVars>>

\* Mutant: the checksum of the previous payload is not compared.
Mutant_ChecksumIgnored(req) == req.id = Empty

\* A payload that is the immediately previous one, or none at all.
Duplicate(req) == req.id = Empty \/ req.id = session.lastChecksum

\* pumpReads: the body is read and relayed, unless it is a duplicate.
PumpReads(h) ==
    LET req == handler[h].req IN
    /\ handler[h].pc = "read"
    /\ Len(session.readBuffer) < MaxPayload
    /\ session' = IF Duplicate(req) THEN session
                  ELSE [session EXCEPT !.readBuffer = @ \o req.data,
                                       !.lastChecksum = req.id]
    /\ handler' = [handler EXCEPT ![h].pc = "respond", ![h].allowCached = Duplicate(req),
                                ![h].req.id = Empty, ![h].req.data = <<>>]
    /\ UNCHANGED <<clientVars, netVars, lock, cache, pool, reaper, historyVars, streamVars>>

\* Mutant: any retry from position 0 is answered from the cache.
Mutant_AnyCached(h) ==
    LET req == handler[h].req IN
    /\ req.retry
    /\ req.position > 0 \/ HasPosition(cache, 0)

\* A retry is answered from the cache when it resumes a response, and when
\* it repeats a request whose response is cached from its first byte.
UseCached(h) ==
    LET req == handler[h].req IN
    /\ req.retry
    /\ req.position > 0 \/ (HasPosition(cache, 0) /\ handler[h].allowCached)

\* cachedResponse.Reset returns the borrowed buffers.
ResetCache ==
    /\ cache' = Reset(cache)
    /\ pool' = pool + ExtendedCount(cache)

\* The rest of the response is sent again from the cache.  For a poll
\* without a body that never reached the server, that is the response of the
\* previous round trip ("Limitation": allowCachedResponse is a heuristic).
RespondCached(h) ==
    /\ handler[h].pc = "respond"
    /\ UseCached(h)
    /\ HasPosition(cache, handler[h].req.position)
    /\ Respond(handler[h].req, "ok", CopyFromPosition(cache, handler[h].req.position), TRUE)
    /\ lock' = None
    /\ EndHandler(h)
    /\ spoiled' = (spoiled \/ (handler[h].req.live /\ trip.id = Empty /\ ~answered))
    /\ UNCHANGED <<clientVars, transit, session, cache, pool, reaper, overrun, answered,
                   streamVars>>

\* The position is no longer cached: session.delete(true).
RespondMissing(h) ==
    /\ handler[h].pc = "respond"
    /\ UseCached(h)
    /\ ~HasPosition(cache, handler[h].req.position)
    /\ Respond(handler[h].req, "error", <<>>, TRUE)
    /\ session' = [session EXCEPT !.closed = TRUE, !.deleted = TRUE]
    /\ ResetCache
    /\ lock' = None
    /\ EndHandler(h)
    /\ UNCHANGED <<clientVars, transit, reaper, historyVars, streamVars>>

\* A new response: the buffers of the previous one are released.
RespondNew(h) ==
    /\ handler[h].pc = "respond"
    /\ ~UseCached(h)
    /\ Respond(handler[h].req, "ok", <<>>, FALSE)
    /\ ResetCache
    /\ overrun' = (overrun \/ (handler[h].req.retry /\ answered /\ cache.readPosition > 0))
    /\ answered' = TRUE
    /\ handler' = [handler EXCEPT ![h] = [NoHandler EXCEPT !.pc = "pump",
                                                             !.req.live = handler[h].req.live]]
    /\ UNCHANGED <<clientVars, transit, lock, session, reaper, spoiled, streamVars>>

\* The bytes written to the multi writer: to the cache first.
WriteResponse(h, data) ==
    /\ cache' = Write(cache, pool, data)
    /\ pool' = pool + ExtendedCount(cache) - ExtendedCount(cache')

\* pumpWrites takes the chunk a Write is blocked on.  It goes on for more,
\* or returns: fast or extended turn around, or a failed write, which the
\* cache has recorded all the same.
PumpWrites(h, more) ==
    LET data == IF session.padding /\ handler[h].first
                THEN <<Pad>> \o session.nextWrite ELSE session.nextWrite IN
    /\ handler[h].pc = "pump"
    /\ session.nextWrite # <<>>
    /\ WriteResponse(h, data)
    /\ Respond(handler[h].req, "none", data, ~more)
    /\ session' = [session EXCEPT !.nextWrite = <<>>]
    /\ IF more
       THEN /\ handler' = [handler EXCEPT ![h].first = FALSE]
            /\ UNCHANGED lock
       ELSE /\ EndHandler(h)
            /\ lock' = None
    /\ UNCHANGED <<clientVars, transit, reaper, historyVars, streamVars>>

\* In payload padding mode the padding header goes first.  If writing it
\* fails, pumpWrites returns with the header in the cache; the chunk reaches
\* neither cache nor response, and the Write that waits for it is told of an
\* error that it ignores.
PumpHeaderFails(h) ==
    /\ handler[h].pc = "pump"
    /\ session.nextWrite # <<>>
    /\ session.padding /\ handler[h].first
    /\ ~handler[h].req.live
    /\ WriteResponse(h, <<Pad>>)
    /\ session' = [session EXCEPT !.nextWrite = <<>>]
    /\ spoiled' = TRUE
    /\ EndHandler(h)
    /\ lock' = None
    /\ UNCHANGED <<clientVars, netVars, reaper, overrun, answered, streamVars>>

\* The turn around timeout: the response ends.  A response without payload
\* may get padding.
PumpTimeout(h, pad) ==
    /\ handler[h].pc = "pump"
    /\ pad => session.padding /\ handler[h].first
    /\ LET data == IF pad THEN <<Pad>> ELSE <<>> IN
       /\ WriteResponse(h, data)
       /\ Respond(handler[h].req, "none", data, TRUE)
    /\ EndHandler(h)
    /\ lock' = None
    /\ UNCHANGED <<clientVars, transit, session, reaper, historyVars, streamVars>>

\* closeBroadcast interrupts pumpWrites.
PumpClosed(h) ==
    /\ handler[h].pc = "pump"
    /\ session.closed
    /\ Respond(handler[h].req, "none", <<>>, TRUE)
    /\ EndHandler(h)
    /\ lock' = None
    /\ UNCHANGED <<clientVars, transit, session, cache, pool, reaper, historyVars, streamVars>>

----------------------------------------------------------------------------
(* The tunnel server's use of the meekConn *)

\* meekConn.Read of one byte.
ServerRead ==
    /\ session.readBuffer # <<>>
    /\ upReceived' = Append(upReceived, Head(session.readBuffer))
    /\ session' = [session EXCEPT !.readBuffer = Tail(@)]
    /\ UNCHANGED <<clientVars, netVars, handler, lock, cache, pool, reaper, historyVars, upSent, downSent,
                   downReceived>>

\* meekConn.Write hands over a chunk and blocks until it is taken.
ServerWrite(n) ==
    /\ ~session.closed
    /\ session.nextWrite = <<>>
    /\ downSent + n <= MaxDown
    /\ downSent' = downSent + n
    /\ session' = [session EXCEPT !.nextWrite = [i \in 1 .. n |-> downSent + i]]
    /\ UNCHANGED <<clientVars, netVars, handler, lock, cache, pool, reaper, historyVars, upSent, upReceived,
                   downReceived>>

\* meekConn.Close, when the tunnel server ends the client's connection.
ServerClose ==
    /\ ~session.closed
    /\ session' = [session EXCEPT !.closed = TRUE]
    /\ UNCHANGED <<clientVars, netVars, handler, lock, cache, pool, reaper, historyVars, streamVars>>

----------------------------------------------------------------------------
(* deleteSession, for an expired session *)

\* session.delete(false) first closes the conn, to interrupt the handlers.
DeleteBegin ==
    /\ reaper = "idle"
    /\ reaper' = "closed"
    /\ session' = [session EXCEPT !.closed = TRUE]
    /\ UNCHANGED <<clientVars, netVars, handler, lock, cache, pool, historyVars, streamVars>>

\* With session.lock: the buffers are released.
DeleteRelease ==
    /\ reaper = "closed"
    /\ lock = None
    /\ reaper' = "deleted"
    /\ ResetCache
    /\ session' = [session EXCEPT !.deleted = TRUE]
    /\ UNCHANGED <<clientVars, netVars, handler, lock, historyVars, streamVars>>

\* The session leaves the map of sessions.
DeleteUnregister ==
    /\ reaper = "deleted"
    /\ reaper' = "done"
    /\ session' = [session EXCEPT !.registered = FALSE]
    /\ UNCHANGED <<clientVars, netVars, handler, lock, cache, pool, historyVars, streamVars>>

\* Other sessions borrow and release extended buffers.
OtherSessions ==
    /\ pool' \in {pool - 1, pool + 1} \cap 0 .. PoolSize - ExtendedCount(cache)
    /\ UNCHANGED <<clientVars, netVars, handler, lock, session, cache, reaper, historyVars, streamVars>>

----------------------------------------------------------------------------

ClientNext ==
    \/ ClientWrite
    \/ \E poll \in BOOLEAN : StartTrip(poll)
    \/ ReceiveStatus
    \/ ReadPayload
    \/ EndTrip
    \/ TryFails
    \/ Retry
    \/ GiveUp
    \/ StatusError
    \/ ClientClose

HandlerNext(h) ==
    \/ Discard(h)
    \/ RejectDeleted(h)
    \/ ServeRequest(h)
    \/ PumpReadsFails(h)
    \/ PumpReads(h)
    \/ RespondCached(h)
    \/ RespondMissing(h)
    \/ RespondNew(h)
    \/ \E more \in BOOLEAN : PumpWrites(h, more)
    \/ PumpHeaderFails(h)
    \/ \E pad \in BOOLEAN : PumpTimeout(h, pad)
    \/ PumpClosed(h)

ServerNext ==
    \/ ServerRead
    \/ \E n \in 1 .. MaxPayload : ServerWrite(n)
    \/ ServerClose
    \/ DeleteBegin
    \/ DeleteRelease
    \/ DeleteUnregister
    \/ OtherSessions

Next ==
    \/ ClientNext
    \/ LoseRequest
    \/ \E h \in Handler : RequestArrives(h)
    \/ RequestRejected
    \/ \E h \in Handler : HandlerNext(h)
    \/ ServerNext

Spec == Init /\ [][Next]_vars

\* Every goroutine that can take a step takes one: the relay, whose timers
\* and HTTP client end every wait, the handlers, bounded by the turn around
\* timeout, and the tunnel server's reader.  The select of relay chooses at
\* random and session.lock is a Go mutex, which starves nobody: the strong
\* fairness.  Nothing makes anyone write, close, fail or start a delete.
Fairness ==
    /\ WF_vars(\E poll \in BOOLEAN : StartTrip(poll))
    /\ SF_vars(StartTrip(FALSE))
    /\ WF_vars(ReceiveStatus \/ ReadPayload \/ EndTrip \/ StatusError)
    /\ WF_vars(Retry \/ GiveUp)
    /\ WF_vars((\E h \in Handler : RequestArrives(h)) \/ RequestRejected)
    /\ \A h \in Handler : WF_vars(HandlerNext(h))
    /\ WF_vars(ServerRead)
    /\ SF_vars(DeleteRelease)
    /\ WF_vars(DeleteUnregister)

FairSpec == Spec /\ Fairness

----------------------------------------------------------------------------
(* Properties *)

Up == INSTANCE ByteStream
          WITH sent <- upSent, received <- upReceived, broken <- session.closed
Down == INSTANCE ByteStream
          WITH sent <- downSent, received <- downReceived,
               broken <- overrun \/ spoiled \/ session.closed

\* The meek session implements a reliable upstream until the server closes
\* it: whatever fails and is retried, pumpReads relays every payload once and in
\* order (the checksum of the previous payload, the discarding of overtaken
\* requests).
UpStream == Up!Spec

\* The session implements a reliable downstream, with and without payload
\* padding, until it is closed: a retry resumes the cached response exactly
\* after what was received, and no response is sent for a request with a body
\* that the server has not seen.  Three things break it in an open session:
\* a retry at position 0 of a response that the cache no longer has in full
\* (overrun, see DownComplete); and, in spoiled, a chunk that is dropped with
\* a failed padding header, and the stale response to a poll without a body
\* that got lost, which the comment on allowCachedResponse concedes.
DownStream == Down!Spec

\* A deleted session holds no buffer of the shared pool, whatever requests
\* were waiting for session.lock while the reaper deleted it.
BuffersReleased == session.deleted => ExtendedCount(cache) = 0

\* The comment on the resend position in ServeHTTP: when the position is not
\* available the session is closed, "as there's no way to resume streaming
\* the payload uninterrupted".  So in an open session the client never misses
\* a byte, the two causes of spoiled set aside.
DownComplete ==
    ~session.closed /\ ~spoiled => \A i \in DOMAIN downReceived : downReceived[i] = i

\* What the client writes reaches the tunnel server unless an end closes:
\* no retry, duplicate or discarded request leaves a payload behind.
UpDelivered ==
    \A n \in 1 .. MaxUp :
        upSent >= n ~> Len(upReceived) >= n \/ client = "closed" \/ session.closed

\* The reaper that started to delete a session finishes: closing the conn
\* makes every handler give session.lock back.
DeleteCompletes == reaper = "closed" ~> reaper = "done"

=============================================================================
