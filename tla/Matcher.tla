------------------------------ MODULE Matcher -------------------------------
(***************************************************************************)
(* The in-proxy broker's matcher (psiphon/common/inproxy/matcher.go):      *)
(* proxies Announce, clients Offer, one worker pairs them, and the proxy's *)
(* Answer is routed to the client that waits for it.  Every call has a     *)
(* context which may end at any time.                                      *)
(*                                                                         *)
(* Announcements and offers are numbered in the order of their deadlines,  *)
(* and are enqueued in that order (Announce assumes it), so a queue is the *)
(* set of its entries, the lowest first.  The broker                       *)
(* chooses a new connection ID for every announcement, so a pending answer *)
(* is found under its announcement, and only the proxy that received the   *)
(* offer can answer, once.  Stop, which is not synchronised with anything, *)
(* is left out.                                                            *)
(***************************************************************************)
EXTENDS Naturals, FiniteSets, Sequences

CONSTANTS
    MaxAnnouncements, MaxOffers,    \* calls of Announce and of Offer (bounds)
    AnnouncementProps,  \* what an announcement may be
    OfferProps,         \* what an offer may be
    LimitEntryCount,    \* the entry limits of both queues; 0 is unlimited
    MaxLimitEntryCount, \* matcherMaxLimitEntryCount, the limit of exempt proxies
    QueueMaxSize,       \* matcherAnnouncementQueueMaxSize, matcherOfferQueueMaxSize
    MaxProbe, MaxPreferredNATProbe, YieldCount,     \* matcher.go 46-48
    None                \* no offer

Announcement == 1 .. MaxAnnouncements
Offer == 1 .. MaxOffers

\* NATTraversal
Traversal == {"unlimited", "partial", "strict"}

\* The properties of an announcement are a record with the fields common (or
\* personal) and compartment, priority, nat, quality (the places of clients for
\* which HasQuality knows the proxy), version, place (country and ASN; AllowMatch
\* rejects nothing more), ip and exempt; those of an offer have common,
\* compartments, nat, version, media (UseMediaStreams), place and ip.
ASSUME MatcherAssumption ==
    /\ {MaxAnnouncements, MaxOffers, LimitEntryCount, MaxProbe, MaxPreferredNATProbe} \subseteq Nat
    /\ {QueueMaxSize, YieldCount, MaxLimitEntryCount} \subseteq Nat \ {0}
    /\ LimitEntryCount <= MaxLimitEntryCount   \* SetLimits clamps it
    /\ None \notin Offer
    \* enqueue refuses a priority announcement of a personal compartment, and
    \* Offer an offer without compartments
    /\ AnnouncementProps # {} /\ OfferProps # {}
    /\ \A p \in AnnouncementProps :
        p.nat \in Traversal /\ {p.common, p.priority} \subseteq BOOLEAN /\ (p.priority => p.common)
    /\ \A q \in OfferProps :
        q.nat \in Traversal /\ q.common \in BOOLEAN /\ q.compartments # {}

VARIABLES
    ann,        \* per announcement: where its Announce call, then its proxy, is
    annProps,   \* per announcement: its properties
    annDone,    \* waiting Announce calls whose context has ended
    queues,     \* announcementMultiQueue: per compartment queue, its entries
    natCounts,  \* per compartment queue and NATTraversal, the counter
    annCount,   \* announcementQueueEntryCountByIP
    offerChan,  \* per announcement: the offer sent to its channel
    off,        \* per offer: where its Offer call is
    offProps,   \* per offer: its properties
    offCtx,     \* per offer: its context, and the time it has left
    offQueue,   \* offerQueue
    offCount,   \* offerQueueEntryCountByIP
    answerChan, \* per offer: the content of its channel
    pending,    \* pendingAnswers: per announcement, the offer that awaits an answer
    signal,     \* matchSignal holds a signal
    worker,     \* matchWorker: "idle", "matching" or "yielding"
    rest,       \* the offers the pass has still to visit, from nextOffer on
    index       \* offerIndex

annVars == <<ann, annProps, annDone, queues, natCounts, annCount, offerChan>>
offVars == <<off, offProps, offCtx, offQueue, offCount, answerChan>>
workVars == <<signal, worker, rest, index>>
vars == <<annVars, offVars, pending, workVars>>

\* The compartment queues: common or personal, priority or not.
QueueKey ==
    {<<p.common, p.priority, p.compartment>> : p \in AnnouncementProps}
KeyOf(p) == <<p.common, p.priority, p.compartment>>
\* limitIP: "-exempt" keeps an exempt proxy's counts apart
LimitIP(p) == <<p.ip, p.exempt>>
AnnIP == {LimitIP(p) : p \in AnnouncementProps}
OffIP == {q.ip : q \in OfferProps}

\* The values of the properties before a call.
NoAnn == CHOOSE p \in AnnouncementProps : TRUE
NoOff == CHOOSE q \in OfferProps : TRUE

Queued(a) == \E k \in QueueKey : a \in queues[k]
AnnTotal == Cardinality({a \in Announcement : Queued(a)})

Init ==
    /\ ann = [a \in Announcement |-> "new"]
    /\ annProps = [a \in Announcement |-> NoAnn]
    /\ annDone = {}
    /\ queues = [k \in QueueKey |-> {}]
    /\ natCounts = [k \in QueueKey |-> [t \in Traversal |-> 0]]
    /\ annCount = [i \in AnnIP |-> 0]
    /\ offerChan = [a \in Announcement |-> None]
    /\ off = [o \in Offer |-> "new"]
    /\ offProps = [o \in Offer |-> NoOff]
    /\ offCtx = [o \in Offer |-> "ample"]
    /\ offQueue = {}
    /\ offCount = [i \in OffIP |-> 0]
    /\ answerChan = [o \in Offer |-> <<>>]
    /\ pending = [a \in Announcement |-> None]
    /\ signal = FALSE
    /\ worker = "idle"
    /\ rest = {}
    /\ index = 0

-----------------------------------------------------------------------------
(* Announce and Offer.  matchAllOffers holds both queue mutexes, except    *)
(* the announcements' while it yields.                                     *)

AnnouncementsUnlocked == worker # "matching"
OffersUnlocked == worker = "idle"

\* applyLoadLimit, in the load limiting state: only the shorter queue grows.
LoadAllows(limiting, len, other) == limiting => len < other \div 2

\* An exempt proxy is held to the sanity limit only.
EntryLimit(exempt) == IF exempt THEN MaxLimitEntryCount ELSE LimitEntryCount

\* Mutant: one entry too many.
Mutant_IPAllowsOneMore(limited, exempt, count) ==
    ~limited /\ (LimitEntryCount > 0 => count <= EntryLimit(exempt))

\* applyIPLimits; the rate limiter's verdict is the environment's.
IPAllows(limited, exempt, count) ==
    ~limited /\ (LimitEntryCount > 0 => count < EntryLimit(exempt))

Enqueue(a, p) ==
    /\ queues' = [queues EXCEPT ![KeyOf(p)] = @ \cup {a}]
    /\ natCounts' = [natCounts EXCEPT ![KeyOf(p)][p.nat] = @ + 1]
    /\ annCount' = [annCount EXCEPT ![LimitIP(p)] = @ + 1]

\* Mutant: a worker in the middle of a pass is not signalled.
Mutant_SignalIdleOnly(a, p, limiting, limited) ==
    /\ ann[a] = "new"
    /\ \A b \in 1 .. a - 1 : ann[b] # "new"
    /\ AnnouncementsUnlocked
    /\ IF /\ LoadAllows(limiting, AnnTotal, Cardinality(offQueue))
          /\ AnnTotal < QueueMaxSize
          /\ IPAllows(limited, p.exempt, annCount[LimitIP(p)])
       THEN /\ Enqueue(a, p)
            /\ annProps' = [annProps EXCEPT ![a] = p]
            /\ ann' = [ann EXCEPT ![a] = "waiting"]
            /\ signal' = (signal \/ worker = "idle")
       ELSE /\ ann' = [ann EXCEPT ![a] = "rejected"]
            /\ UNCHANGED <<annProps, queues, natCounts, annCount, signal>>
    /\ UNCHANGED <<annDone, offerChan, offVars, pending, worker, rest, index>>

Announce(a, p, limiting, limited) ==
    /\ ann[a] = "new"
    /\ \A b \in 1 .. a - 1 : ann[b] # "new"
    /\ AnnouncementsUnlocked
    /\ IF /\ LoadAllows(limiting, AnnTotal, Cardinality(offQueue))
          /\ AnnTotal < QueueMaxSize
          /\ IPAllows(limited, p.exempt, annCount[LimitIP(p)])
       THEN /\ Enqueue(a, p)
            /\ annProps' = [annProps EXCEPT ![a] = p]
            /\ ann' = [ann EXCEPT ![a] = "waiting"]
            /\ signal' = TRUE
       ELSE /\ ann' = [ann EXCEPT ![a] = "rejected"]
            /\ UNCHANGED <<annProps, queues, natCounts, annCount, signal>>
    /\ UNCHANGED <<annDone, offerChan, offVars, pending, worker, rest, index>>

MakeOffer(o, q, limiting, limited) ==
    /\ off[o] = "new"
    /\ \A r \in 1 .. o - 1 : off[r] # "new"
    /\ OffersUnlocked
    /\ IF /\ LoadAllows(limiting, Cardinality(offQueue), AnnTotal)
          /\ Cardinality(offQueue) < QueueMaxSize
          /\ IPAllows(limited, FALSE, offCount[q.ip])
       THEN /\ offProps' = [offProps EXCEPT ![o] = q]
            /\ offQueue' = offQueue \cup {o}
            /\ offCount' = [offCount EXCEPT ![q.ip] = @ + 1]
            /\ off' = [off EXCEPT ![o] = "waiting"]
            /\ signal' = TRUE
       ELSE /\ off' = [off EXCEPT ![o] = "rejected"]
            /\ UNCHANGED <<offProps, offQueue, offCount, signal>>
    /\ UNCHANGED <<annVars, offCtx, answerChan, pending, worker, rest, index>>

-----------------------------------------------------------------------------
(* Contexts end, calls return.                                             *)

AnnounceContextEnds(a) ==
    /\ ann[a] = "waiting"
    /\ annDone' = annDone \cup {a}
    /\ annDone # annDone'
    /\ UNCHANGED <<ann, annProps, queues, natCounts, annCount, offerChan, offVars, pending, workVars>>

\* The context of an Offer call: time passes, or the client gives up.  After the
\* call has returned the deadline matters only to its pending answer.
OfferContextEnds(o) ==
    /\ \/ /\ off[o] = "waiting" /\ offCtx[o] = "ample"
          /\ offCtx' = [offCtx EXCEPT ![o] = "short"]
       \/ /\ off[o] = "waiting" /\ offCtx[o] \in {"ample", "short"}
          /\ offCtx' = [offCtx EXCEPT ![o] = "cancelled"]
       \/ /\ off[o] = "waiting" \/ \E a \in Announcement : pending[a] = o
          /\ offCtx[o] # "expired"
          /\ offCtx' = [offCtx EXCEPT ![o] = "expired"]
    /\ UNCHANGED <<annVars, off, offProps, offQueue, offCount, answerChan, pending, workVars>>

OfferEnded(o) == offCtx[o] \in {"cancelled", "expired"}

\* The entry of pendingAnswers lives until the offer's deadline.
PendingAnswer(a) == pending[a] # None /\ offCtx[pending[a]] # "expired"

\* dequeue reverses the counts of each entry it finds and nothing for one that
\* is already dequeued; removeAnnouncementEntry counts by IP.
RemoveAnnouncements(S) ==
    LET found == {a \in S : Queued(a)} IN
    /\ queues' = [k \in QueueKey |-> queues[k] \ found]
    /\ natCounts' = [k \in QueueKey |-> [t \in Traversal |->
           natCounts[k][t] - Cardinality({a \in found : KeyOf(annProps[a]) = k /\ annProps[a].nat = t})]]
    /\ annCount' = [i \in AnnIP |->
           annCount[i] - Cardinality({a \in found : LimitIP(annProps[a]) = i})]

\* Mutant: an offer of an ended context keeps its place in the count.
Mutant_RemoveCountKept(o) ==
    /\ offQueue' = offQueue \ {o}
    /\ offCount' = IF o \in offQueue /\ ~OfferEnded(o)
                   THEN [offCount EXCEPT ![offProps[o].ip] = @ - 1]
                   ELSE offCount

RemoveOffer(o) ==
    /\ offQueue' = offQueue \ {o}
    /\ offCount' = IF o \in offQueue
                   THEN [offCount EXCEPT ![offProps[o].ip] = @ - 1]
                   ELSE offCount

AnnounceReturns(a) ==
    /\ ann[a] = "waiting"
    /\ offerChan[a] # None
    /\ ann' = [ann EXCEPT ![a] = "offered"]
    /\ annDone' = annDone \ {a}
    /\ UNCHANGED <<annProps, queues, natCounts, annCount, offerChan, offVars, pending, workVars>>

\* Mutant: the aborting call does not look for a match.
Mutant_AbortKeepsPending(a) ==
    /\ ann[a] = "waiting"
    /\ a \in annDone
    /\ AnnouncementsUnlocked
    /\ ann' = [ann EXCEPT ![a] = "aborted"]
    /\ annDone' = annDone \ {a}
    /\ RemoveAnnouncements({a})
    /\ IF Queued(a) /\ PendingAnswer(a)
       THEN /\ answerChan' = [answerChan EXCEPT ![pending[a]] = Append(@, "closed")]
            /\ pending' = [pending EXCEPT ![a] = None]
       ELSE UNCHANGED <<answerChan, pending>>
    /\ UNCHANGED <<annProps, offerChan, off, offProps, offCtx, offQueue, offCount, workVars>>

\* Announce's context is done and the call takes its entry back.  An entry no
\* longer in the queue may have been matched: the client is told.
AnnounceAborts(a) ==
    /\ ann[a] = "waiting"
    /\ a \in annDone
    /\ AnnouncementsUnlocked
    /\ ann' = [ann EXCEPT ![a] = "aborted"]
    /\ annDone' = annDone \ {a}
    /\ RemoveAnnouncements({a})
    /\ IF ~Queued(a) /\ PendingAnswer(a)
       THEN /\ answerChan' = [answerChan EXCEPT ![pending[a]] = Append(@, "closed")]
            /\ pending' = [pending EXCEPT ![a] = None]
       ELSE UNCHANGED <<answerChan, pending>>
    /\ UNCHANGED <<annProps, offerChan, off, offProps, offCtx, offQueue, offCount, workVars>>

\* The first value of the channel decides what Offer returns.
OfferReturns(o) ==
    /\ off[o] = "waiting"
    /\ answerChan[o] # <<>>
    /\ off' = [off EXCEPT ![o] = Head(answerChan[o])]
    /\ UNCHANGED <<annVars, offProps, offCtx, offQueue, offCount, answerChan, pending, workVars>>

OfferAborts(o) ==
    /\ off[o] = "waiting"
    /\ OfferEnded(o)
    /\ OffersUnlocked
    /\ off' = [off EXCEPT ![o] = "aborted"]
    /\ RemoveOffer(o)
    /\ UNCHANGED <<annVars, offProps, offCtx, answerChan, pending, workVars>>

\* handleProxyAnswer finds the pending answer; without one the proxy is told
\* that no client is waiting.
AnswerLookup(a) ==
    /\ ann[a] = "offered"
    /\ ann' = [ann EXCEPT ![a] = IF PendingAnswer(a) THEN "answering" ELSE "late"]
    /\ UNCHANGED <<annProps, annDone, queues, natCounts, annCount, offerChan, offVars, pending, workVars>>

\* Mutant: the pending answer key leaves out the connection ID.
Mutant_AnswerByProxy(a, result) ==
    LET same == {b \in Announcement : /\ LimitIP(annProps[b]) = LimitIP(annProps[a])
                                      /\ PendingAnswer(b)} IN
    /\ ann[a] = "answering"
    /\ \E b \in same :
        /\ pending' = [pending EXCEPT ![b] = None]
        /\ answerChan' = [answerChan EXCEPT ![pending[b]] = Append(@, result)]
    /\ ann' = [ann EXCEPT ![a] = "answered"]
    /\ UNCHANGED <<annProps, annDone, queues, natCounts, annCount, offerChan,
                   off, offProps, offCtx, offQueue, offCount, workVars>>

\* Answer, or AnswerError when the proxy could not make an answer: Get, Delete
\* and the channel operation.
Answer(a, result) ==
    /\ ann[a] = "answering"
    /\ IF PendingAnswer(a)
       THEN /\ pending' = [pending EXCEPT ![a] = None]
            /\ answerChan' = [answerChan EXCEPT ![pending[a]] = Append(@, result)]
            /\ ann' = [ann EXCEPT ![a] = IF result = "answer" THEN "answered" ELSE "failed"]
       ELSE /\ ann' = [ann EXCEPT ![a] = "late"]
            /\ UNCHANGED <<pending, answerChan>>
    /\ UNCHANGED <<annProps, annDone, queues, natCounts, annCount, offerChan,
                   off, offProps, offCtx, offQueue, offCount, workVars>>

-----------------------------------------------------------------------------
(* matchOffer.                                                             *)

IsPreferredMatch(t, u) ==
    CASE t = "unlimited" -> u = "strict"
      [] t = "partial"   -> u \in {"unlimited", "partial"}
      [] t = "strict"    -> u = "unlimited"

\* negotiateProtocolVersion succeeds.
VersionsAgree(p, q) ==
    \/ (p.version = 1 \/ q.version = 1) /\ ~q.media
    \/ p.version >= q.version

\* The candidate may be matched.  A common match never stays in one place.
Compatible(p, q) == VersionsAgree(p, q) /\ (q.common => p.place # q.place)

\* The compartment queues of startMatching.
MatchingQueues(q) == {k \in QueueKey : k[1] = q.common /\ k[3] \in q.compartments}

\* The announcement is the head of a queue, once the older ones are passed.
IsCandidate(q, a, pri) == \E k \in MatchingQueues(q) : k[2] = pri /\ a \in queues[k]

\* getNATCounts and ExistsPreferredNATMatch.
ExistsPreferredMatch(q) ==
    \E k \in MatchingQueues(q), t \in Traversal :
        natCounts[k][t] > 0 /\ IsPreferredMatch(q.nat, t)

\* The NAT match, or for a priority candidate the proxy quality that stands for it.
MatchNAT(p, q) == IsPreferredMatch(q.nat, p.nat) \/ (p.priority /\ q.place \in p.quality)

\* Mutant: the search goes on past a priority match.
Mutant_ProbePastPriority(q, exists, s, a) ==
    LET p == annProps[a]
        nat == MatchNAT(p, q)
        t == IF s.best = {} \/ (~s.nat /\ nat)
             THEN [s EXCEPT !.best = {a}, !.at = s.probed, !.pri = p.priority, !.nat = nat]
             ELSE s
    IN  IF s.stop \/ s.probed > MaxProbe + 1
        THEN [s EXCEPT !.stop = TRUE]
        ELSE IF a \in annDone THEN [s EXCEPT !.probed = @ + 1, !.removed = @ \cup {a}]
        ELSE IF ~Compatible(p, q) THEN [s EXCEPT !.probed = @ + 1]
        ELSE [t EXCEPT !.probed = @ + 1,
                       !.stop = t.nat \/ ~exists \/ s.probed - t.at >= MaxPreferredNATProbe]

\* One iteration of matchOffer's loop; s.probed is candidateIndex + 1.
Probe(q, exists, s, a) ==
    LET p == annProps[a]
        nat == MatchNAT(p, q)
        t == IF s.best = {} \/ (~s.nat /\ nat)
             THEN [s EXCEPT !.best = {a}, !.at = s.probed, !.pri = p.priority, !.nat = nat]
             ELSE s
    IN  IF s.stop \/ s.probed > MaxProbe + 1 \/ (~p.priority /\ s.pri)
        THEN [s EXCEPT !.stop = TRUE]
        ELSE IF a \in annDone THEN [s EXCEPT !.probed = @ + 1, !.removed = @ \cup {a}]
        ELSE IF ~Compatible(p, q) THEN [s EXCEPT !.probed = @ + 1]
        ELSE [t EXCEPT !.probed = @ + 1,
                       !.stop = t.nat \/ ~exists \/ s.probed - t.at >= MaxPreferredNATProbe]

NoneProbed == [best |-> {}, at |-> 0, pri |-> FALSE, nat |-> FALSE,
               probed |-> 0, removed |-> {}, stop |-> FALSE]

\* getNext yields the oldest head, from the priority queues first: the place i
\* is that of announcement i, and then that of announcement i without priority.
ProbePlace(q, s, i) ==
    LET pri == i <= MaxAnnouncements
        a == IF pri THEN i ELSE i - MaxAnnouncements
    IN  IF IsCandidate(q, a, pri) THEN Probe(q, ExistsPreferredMatch(q), s, a) ELSE s

\* The state of matchOffer's loop after each place.
Search(q) ==
    LET after[i \in 0 .. 2 * MaxAnnouncements] ==
            IF i = 0 THEN NoneProbed ELSE ProbePlace(q, after[i - 1], i)
    IN  after

\* matchOffer: the announcement chosen, if any, and the expired ones removed.
MatchOffer(q) == Search(q)[2 * MaxAnnouncements]

-----------------------------------------------------------------------------
(* matchWorker and matchAllOffers.                                         *)

ReceiveSignal ==
    /\ worker = "idle"
    /\ signal
    /\ signal' = FALSE
    /\ worker' = "locking"
    /\ UNCHANGED <<annVars, offVars, pending, rest, index>>

StartPass ==
    /\ worker = "locking"
    /\ worker' = "matching"
    /\ rest' = offQueue
    /\ index' = 0
    /\ UNCHANGED <<annVars, offVars, pending, signal>>

PassGoesOn == rest # {} /\ AnnTotal > 0
YieldDue == index > 0 /\ index % YieldCount = 0

Yield ==
    /\ worker = "matching"
    /\ PassGoesOn
    /\ YieldDue
    /\ worker' = "yielding"
    /\ UNCHANGED <<annVars, offVars, pending, signal, rest, index>>

\* The pass goes on with offer o, the announcements locked.
Visit(o) ==
    /\ \/ worker = "yielding"
       \/ worker = "matching" /\ PassGoesOn /\ ~YieldDue
    /\ o \in rest /\ \A r \in rest : o <= r
    /\ worker' = "matching"
    /\ rest' = rest \ {o}
    /\ index' = index + 1
    /\ UNCHANGED <<ann, annProps, annDone, off, offProps, offCtx, signal>>

\* The offer's context has ended; its Offer call will return by itself.
VisitEnded(o) ==
    /\ OfferEnded(o)
    /\ RemoveOffer(o)
    /\ UNCHANGED <<queues, natCounts, annCount, offerChan, answerChan, pending>>

\* Too little time is left for an answer.
VisitDropped(o) ==
    /\ offCtx[o] = "short"
    /\ RemoveOffer(o)
    /\ answerChan' = [answerChan EXCEPT ![o] = Append(@, "dropped")]
    /\ UNCHANGED <<queues, natCounts, annCount, offerChan, pending>>

VisitUnmatched(o) ==
    /\ offCtx[o] = "ample"
    /\ LET m == MatchOffer(offProps[o]) IN
       /\ m.best = {}
       /\ RemoveAnnouncements(m.removed)
    /\ UNCHANGED <<offQueue, offCount, offerChan, answerChan, pending>>

VisitMatched(o, a) ==
    /\ offCtx[o] = "ample"
    /\ LET m == MatchOffer(offProps[o]) IN
       /\ m.best = {a}
       /\ RemoveAnnouncements(m.removed \cup {a})
    /\ pending' = [pending EXCEPT ![a] = o]
    /\ offerChan' = [offerChan EXCEPT ![a] = o]
    /\ RemoveOffer(o)
    /\ UNCHANGED answerChan

VisitOffer(o) ==
    /\ Visit(o)
    /\ \/ VisitEnded(o)
       \/ VisitDropped(o)
       \/ VisitUnmatched(o)
       \/ \E a \in Announcement : VisitMatched(o, a)

EndPass ==
    /\ worker = "matching"
    /\ ~PassGoesOn
    /\ worker' = "idle"
    /\ rest' = {}
    /\ index' = 0
    /\ UNCHANGED <<annVars, offVars, pending, signal>>

WorkerStep == ReceiveSignal \/ StartPass \/ Yield \/ (\E o \in Offer : VisitOffer(o)) \/ EndPass

Next ==
    \/ \E a \in Announcement :
        \/ \E p \in AnnouncementProps, limiting, limited \in BOOLEAN : Announce(a, p, limiting, limited)
        \/ AnnounceContextEnds(a)
        \/ AnnounceReturns(a)
        \/ AnnounceAborts(a)
        \/ AnswerLookup(a)
        \/ \E result \in {"answer", "closed"} : Answer(a, result)
    \/ \E o \in Offer :
        \/ \E q \in OfferProps, limiting, limited \in BOOLEAN : MakeOffer(o, q, limiting, limited)
        \/ OfferContextEnds(o)
        \/ OfferReturns(o)
        \/ OfferAborts(o)
    \/ WorkerStep

Spec == Init /\ [][Next]_vars

-----------------------------------------------------------------------------
(* Properties.                                                             *)

\* Type correctness of the queues, the channels, the calls and the worker.
TypeOK ==
    /\ ann \in [Announcement -> {"new", "rejected", "waiting", "aborted", "offered",
                                 "answering", "answered", "failed", "late"}]
    /\ annProps \in [Announcement -> AnnouncementProps]
    /\ annDone \subseteq Announcement
    /\ queues \in [QueueKey -> SUBSET Announcement]
    /\ natCounts \in [QueueKey -> [Traversal -> Nat]]
    /\ annCount \in [AnnIP -> Nat]
    /\ offerChan \in [Announcement -> Offer \cup {None}]
    /\ off \in [Offer -> {"new", "rejected", "waiting", "aborted", "answer", "closed", "dropped"}]
    /\ offProps \in [Offer -> OfferProps]
    /\ offCtx \in [Offer -> {"ample", "short", "cancelled", "expired"}]
    /\ offQueue \subseteq Offer
    /\ offCount \in [OffIP -> Nat]
    /\ answerChan \in [Offer -> Seq({"answer", "closed", "dropped"})]
    /\ pending \in [Announcement -> Offer \cup {None}]
    /\ signal \in BOOLEAN
    /\ worker \in {"idle", "locking", "matching", "yielding"}
    /\ rest \subseteq Offer
    /\ index \in Nat

\* The counters that limit an IP address and that steer the NAT preference say
\* what is in the queues, whichever of the worker and the caller removes an
\* entry first, or both do.
CountsExact ==
    /\ \A k \in QueueKey, t \in Traversal :
        natCounts[k][t] = Cardinality({a \in queues[k] : annProps[a].nat = t})
    /\ \A i \in AnnIP :
        annCount[i] = Cardinality({a \in Announcement : Queued(a) /\ LimitIP(annProps[a]) = i})
    /\ \A i \in OffIP :
        offCount[i] = Cardinality({o \in offQueue : offProps[o].ip = i})

\* The queues, and what one IP address has in them, stay within their limits,
\* exempt proxies of an address being counted apart: the limits look at
\* counters that calls and worker decrement, this at the entries.
LimitsHold ==
    /\ AnnTotal <= QueueMaxSize /\ Cardinality(offQueue) <= QueueMaxSize
    /\ LimitEntryCount > 0 =>
        /\ \A i \in AnnIP :
            Cardinality({a \in Announcement : Queued(a) /\ LimitIP(annProps[a]) = i}) <= EntryLimit(i[2])
        /\ \A i \in OffIP :
            Cardinality({o \in offQueue : offProps[o].ip = i}) <= EntryLimit(FALSE)

\* An offer is given to one announcement at most, and an Offer call that returns
\* an answer returns the answer of the proxy that was given this offer.
AnswersRouted ==
    /\ \A a, b \in Announcement :
        offerChan[a] # None /\ offerChan[a] = offerChan[b] => a = b
    /\ \A o \in Offer : off[o] = "answer" =>
        \E a \in Announcement : ann[a] = "answered" /\ offerChan[a] = o

\* A waiting pair that may be matched: both contexts have time left.
Matchable(a, o) ==
    /\ Queued(a) /\ a \notin annDone
    /\ o \in offQueue /\ offCtx[o] = "ample"
    /\ KeyOf(annProps[a]) \in MatchingQueues(offProps[o])
    /\ Compatible(annProps[a], offProps[o])

\* The worker sleeps without a signal only when no pair can be matched, though
\* it gives up the announcements' mutex in the middle of a pass and a signal
\* sent to a full channel is dropped.  (The queues are within MaxProbe here.)
NoMissedMatch ==
    worker = "idle" /\ ~signal => \A a \in Announcement, o \in Offer : ~Matchable(a, o)

\* What matchOffer looks for, stated without the search: the oldest of the
\* matchable announcements, priority ones before all others, and among these
\* those with the preferred NAT first, if such a NAT is in the queues at all.
BestMatch ==
    \A o \in offQueue :
        LET q == offProps[o]
            live == {a \in Announcement : Matchable(a, o)}
            priority == {a \in live : annProps[a].priority}
            class == IF priority # {} THEN priority ELSE live
            preferred == {a \in class : ExistsPreferredMatch(q) /\ MatchNAT(annProps[a], q)}
            choice == IF preferred # {} THEN preferred ELSE class
        IN  offCtx[o] = "ample" =>
                MatchOffer(q).best = {a \in choice : \A b \in choice : a <= b}

\* A client whose proxy is gone is told: when an Announce call aborts although
\* its announcement was matched, the Offer call has something to return, and
\* need not wait for its own context to end.
AbortedMatchReported ==
    \A a \in Announcement :
        ann[a] = "aborted" /\ offerChan[a] # None =>
            answerChan[offerChan[a]] # <<>> \/ offCtx[offerChan[a]] = "expired"

=============================================================================
