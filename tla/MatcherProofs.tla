---------------------------- MODULE MatcherProofs ----------------------------
(***************************************************************************)
(* Theorems about Matcher, for any number of announcements and offers, any *)
(* properties of theirs and any limits.                                    *)
(***************************************************************************)
EXTENDS Matcher, WellFoundedInduction, FiniteSetTheorems, SequenceTheorems, TLAPS

\* The types, but for the counters: that these are numbers is CountsExact.
CallTypes ==
    /\ ann \in [Announcement -> {"new", "rejected", "waiting", "aborted", "offered",
                                 "answering", "answered", "failed", "late"}]
    /\ annProps \in [Announcement -> AnnouncementProps]
    /\ annDone \subseteq Announcement
    /\ queues \in [QueueKey -> SUBSET Announcement]
    /\ natCounts \in [QueueKey -> [Traversal -> Int]]
    /\ annCount \in [AnnIP -> Int]
    /\ offerChan \in [Announcement -> Offer \cup {None}]
    /\ off \in [Offer -> {"new", "rejected", "waiting", "aborted", "answer", "closed", "dropped"}]
    /\ offProps \in [Offer -> OfferProps]
    /\ offCtx \in [Offer -> {"ample", "short", "cancelled", "expired"}]
    /\ offQueue \subseteq Offer
    /\ offCount \in [OffIP -> Int]
    /\ answerChan \in [Offer -> Seq({"answer", "closed", "dropped"})]
    /\ pending \in [Announcement -> Offer \cup {None}]
    /\ signal \in BOOLEAN
    /\ worker \in {"idle", "locking", "matching", "yielding"}
    /\ rest \subseteq Offer
    /\ index \in Nat

\* A queued announcement is in the queue of its compartment, its call waits and
\* it has no offer.
QueuedWaiting ==
    \A k \in QueueKey : \A a \in queues[k] :
        KeyOf(annProps[a]) = k /\ ann[a] = "waiting" /\ offerChan[a] = None

\* The call of a queued offer waits, has no answer and no announcement.
OffersWaiting ==
    \A o \in Offer :
        /\ o \in offQueue => off[o] = "waiting"
        /\ o \in offQueue \/ off[o] = "new" =>
             answerChan[o] = <<>> /\ \A a \in Announcement : offerChan[a] # o

\* A pass visits queued offers only.
RestQueued ==
    /\ rest \subseteq offQueue
    /\ worker \in {"idle", "locking"} => rest = {}

\* A pending answer is to the offer that the announcement was given, and it is
\* pending until the proxy answers or its call aborts.
PendingGiven ==
    \A a \in Announcement :
        /\ pending[a] \in {None, offerChan[a]}
        /\ ann[a] \in {"new", "waiting", "offered", "answering"} => pending[a] = offerChan[a]
        /\ ann[a] = "new" => offerChan[a] = None

AnsweredFor(o) == \E a \in Announcement : ann[a] = "answered" /\ offerChan[a] = o

\* An answer in a channel is that of the proxy that was given the offer.
AnswersSent ==
    \A o \in Offer : \A i \in 1 .. Len(answerChan[o]) :
        answerChan[o][i] = "answer" => AnsweredFor(o)

RoutingInv ==
    /\ CallTypes
    /\ QueuedWaiting
    /\ OffersWaiting
    /\ RestQueued
    /\ PendingGiven
    /\ AnswersSent
    /\ AnswersRouted
    /\ AbortedMatchReported

-----------------------------------------------------------------------------
(* The search of matchOffer.  Its state after each place is a recursive     *)
(* function; that the function exists, and what it keeps, is shown by       *)
(* induction over the places, from the least number principle.              *)

\* A nonempty set of naturals has a least member.
LEMMA LeastNumber ==
  ASSUME NEW T, T \subseteq Nat, T # {}
  PROVE  \E n \in T : \A m \in T : ~ (m < n)
<1>1. PICK n \in T : \A m \in T : ~ (<<m, n>> \in OpToRel(<, Nat))
  BY NatLessThanWellFounded, WFMin, Zenon
<1> QED
  BY <1>1 DEF OpToRel

\* A set that has 0, and with a number below n the next one, has all up to n.
LEMMA Induction ==
  ASSUME NEW n \in Nat, NEW S, 0 \in S, \A i \in 0 .. n - 1 : i \in S => i + 1 \in S
  PROVE  0 .. n \subseteq S
<1> SUFFICES ASSUME ~ (0 .. n \subseteq S)
             PROVE  FALSE
  OBVIOUS
<1> DEFINE T == {i \in 0 .. n : i \notin S}
<1>1. T \subseteq Nat /\ T # {}
  OBVIOUS
<1>2. PICK m \in T : \A j \in T : ~ (j < m)
  BY <1>1, LeastNumber
<1>3. m # 0 /\ m - 1 \in 0 .. n - 1 /\ m - 1 \notin T
  BY <1>2
<1> QED
  BY <1>2, <1>3

IsSearch(f, q, n) ==
    f = [i \in 0 .. n |-> IF i = 0 THEN NoneProbed ELSE ProbePlace(q, f[i - 1], i)]

\* By induction, a function takes the steps of the search up to any place.
LEMMA SearchExists ==
  ASSUME NEW q, NEW n \in Nat
  PROVE  \E f : IsSearch(f, q, n)
<1> DEFINE S == {k \in Nat : \E f : IsSearch(f, q, k)}
<1>1. 0 \in S
  <2>1. IsSearch([i \in 0 .. 0 |-> NoneProbed], q, 0)
    BY DEF IsSearch
  <2> QED
    BY <2>1
<1>2. ASSUME NEW k \in 0 .. n - 1, k \in S
      PROVE  k + 1 \in S
  <2>1. PICK f : IsSearch(f, q, k)
    BY <1>2
  <2> DEFINE g == [i \in 0 .. k + 1 |-> IF i = k + 1 THEN ProbePlace(q, f[k], k + 1) ELSE f[i]]
  <2>2. \A i \in 0 .. k : f[i] = IF i = 0 THEN NoneProbed ELSE ProbePlace(q, f[i - 1], i)
    BY <2>1 DEF IsSearch
  <2>3. \A i \in 0 .. k + 1 : g[i] = IF i = 0 THEN NoneProbed ELSE ProbePlace(q, g[i - 1], i)
    <3> TAKE i \in 0 .. k + 1
    <3>1. CASE i = k + 1
      <4>1. g[i] = ProbePlace(q, f[k], k + 1) /\ g[i - 1] = f[k] /\ i # 0
        BY <1>2, <3>1
      <4> QED
        BY <3>1, <4>1
    <3>2. CASE i # k + 1
      <4>1. i \in 0 .. k /\ g[i] = f[i] /\ (i # 0 => g[i - 1] = f[i - 1])
        BY <1>2, <3>2
      <4> QED
        BY <2>2, <4>1
    <3> QED
      BY <3>1, <3>2
  <2>4. IsSearch(g, q, k + 1)
    <3>1. g = [i \in 0 .. k + 1 |-> g[i]]
      OBVIOUS
    <3> HIDE DEF g
    <3> QED
      BY <2>3, <3>1 DEF IsSearch
  <2> QED
    BY <1>2, <2>4
<1>3. 0 .. n \subseteq S
  <2> HIDE DEF S
  <2> QED
    BY <1>1, <1>2, Induction
<1> QED
  BY <1>3

\* The search probes nothing first, and then one place after the other.
LEMMA SearchSteps ==
  ASSUME NEW q
  PROVE  /\ Search(q)[0] = NoneProbed
         /\ \A i \in 1 .. 2 * MaxAnnouncements :
              Search(q)[i] = ProbePlace(q, Search(q)[i - 1], i)
<1>0. 2 * MaxAnnouncements \in Nat
  BY MatcherAssumption
<1>1. PICK f : IsSearch(f, q, 2 * MaxAnnouncements)
  BY <1>0, SearchExists
<1>2. IsSearch(Search(q), q, 2 * MaxAnnouncements)
  BY <1>1 DEF Search, IsSearch
<1> QED
  BY <1>0, <1>2 DEF IsSearch

Loop == [best : SUBSET Announcement, at : Nat, pri : BOOLEAN, nat : BOOLEAN,
         probed : Nat, removed : SUBSET Announcement, stop : BOOLEAN]

\* The search stops before it takes the candidate.
Passes(s, p) == s.stop \/ s.probed > MaxProbe + 1 \/ (~ p.priority /\ s.pri)

\* The candidate cannot be matched.
Skipped(q, a) == a \in annDone \/ ~ Compatible(annProps[a], q)

\* The candidate is the best one so far.
Better(q, s, a) == s.best = {} \/ (~ s.nat /\ MatchNAT(annProps[a], q))

\* What an iteration does, field by field.
ProbeResult(q, e, s, a, r) ==
    /\ r \in Loop
    /\ Passes(s, annProps[a]) =>
         /\ r.best = s.best /\ r.at = s.at /\ r.pri = s.pri /\ r.nat = s.nat
         /\ r.probed = s.probed /\ r.stop
    /\ ~ Passes(s, annProps[a]) => r.probed = s.probed + 1
    /\ ~ Passes(s, annProps[a]) /\ Skipped(q, a) =>
         /\ r.best = s.best /\ r.at = s.at /\ r.pri = s.pri /\ r.nat = s.nat
         /\ r.stop = s.stop
    /\ ~ Passes(s, annProps[a]) /\ ~ Skipped(q, a) /\ Better(q, s, a) =>
         /\ r.best = {a} /\ r.at = s.probed /\ r.pri = annProps[a].priority
         /\ r.nat = MatchNAT(annProps[a], q)
    /\ ~ Passes(s, annProps[a]) /\ ~ Skipped(q, a) /\ ~ Better(q, s, a) =>
         r.best = s.best /\ r.at = s.at /\ r.pri = s.pri /\ r.nat = s.nat
    /\ ~ Passes(s, annProps[a]) /\ ~ Skipped(q, a) =>
         (r.stop <=> r.nat \/ ~ e \/ s.probed - r.at >= MaxPreferredNATProbe)

\* What one iteration of the loop over the queues does.
LEMMA ProbeFacts ==
  ASSUME NEW q, NEW e \in BOOLEAN, NEW s \in Loop, NEW a \in Announcement,
         annProps[a].priority \in BOOLEAN, MatchNAT(annProps[a], q) \in BOOLEAN,
         NEW r, r = Probe(q, e, s, a)
  PROVE  ProbeResult(q, e, s, a, r)
<1> DEFINE p == annProps[a]
           nat == MatchNAT(p, q)
           t == IF s.best = {} \/ (~ s.nat /\ nat)
                THEN [s EXCEPT !.best = {a}, !.at = s.probed, !.pri = p.priority, !.nat = nat]
                ELSE s
           done == t.nat \/ ~ e \/ s.probed - t.at >= MaxPreferredNATProbe
<1>1. /\ t \in Loop /\ t.probed = s.probed /\ t.removed = s.removed /\ t.stop = s.stop
      /\ Better(q, s, a) => /\ t.best = {a} /\ t.at = s.probed /\ t.pri = p.priority
                            /\ t.nat = nat
      /\ ~ Better(q, s, a) => t = s
  BY DEF Better, Loop
<1>2. CASE Passes(s, p)
  <2>1. s.stop \/ s.probed > MaxProbe + 1 \/ (~ p.priority /\ s.pri)
    BY <1>2 DEF Passes
  <2> HIDE DEF t, nat
  <2>2. r = [s EXCEPT !.stop = TRUE]
    BY <2>1 DEF Probe
  <2>3. /\ r \in Loop /\ r.best = s.best /\ r.at = s.at /\ r.pri = s.pri /\ r.nat = s.nat
        /\ r.probed = s.probed /\ r.stop = TRUE
    BY <2>2 DEF Loop
  <2> QED
    BY <1>2, <2>3 DEF ProbeResult
<1>3. CASE ~ Passes(s, p) /\ Skipped(q, a)
  <2>1. ~ (s.stop \/ s.probed > MaxProbe + 1 \/ (~ p.priority /\ s.pri))
    BY <1>3 DEF Passes
  <2> HIDE DEF t, nat
  <2>2. \/ r = [s EXCEPT !.probed = @ + 1, !.removed = @ \cup {a}]
        \/ r = [s EXCEPT !.probed = @ + 1]
    BY <1>3, <2>1 DEF Probe, Skipped
  <2>3. s.probed + 1 \in Nat /\ s.removed \cup {a} \in SUBSET Announcement
    BY DEF Loop
  <2>4. /\ r \in Loop /\ r.best = s.best /\ r.at = s.at /\ r.pri = s.pri /\ r.nat = s.nat
        /\ r.probed = s.probed + 1 /\ r.stop = s.stop
    <3>1. CASE r = [s EXCEPT !.probed = @ + 1, !.removed = @ \cup {a}]
      BY <2>3, <3>1 DEF Loop
    <3>2. CASE r = [s EXCEPT !.probed = @ + 1]
      BY <2>3, <3>2 DEF Loop
    <3> QED
      BY <2>2, <3>1, <3>2
  <2> QED
    BY <1>3, <2>4 DEF ProbeResult
<1>4. CASE ~ Passes(s, p) /\ ~ Skipped(q, a)
  <2>1. r = [t EXCEPT !.probed = @ + 1, !.stop = done]
    <3>1. ~ (s.stop \/ s.probed > MaxProbe + 1 \/ (~ p.priority /\ s.pri))
      BY <1>4 DEF Passes
    <3> QED
      BY <1>4, <3>1 DEF Probe, Skipped
  <2> HIDE DEF t, nat
  <2>2. t \in Loop /\ t.nat \in BOOLEAN
    BY <1>1 DEF Loop
  <2>3. done \in BOOLEAN
    BY <2>2
  <2>4. (done <=> t.nat \/ ~ e \/ s.probed - t.at >= MaxPreferredNATProbe)
    OBVIOUS
  <2> HIDE DEF done
  <2>5. t.probed + 1 \in Nat
    BY <2>2 DEF Loop
  <2>6. /\ r \in Loop /\ r.probed = t.probed + 1 /\ r.stop = done
        /\ r.best = t.best /\ r.at = t.at /\ r.pri = t.pri /\ r.nat = t.nat
    BY <2>1, <2>2, <2>3, <2>5 DEF Loop
  <2> QED
    BY <1>1, <1>4, <2>4, <2>6 DEF nat, ProbeResult
<1> QED
  BY <1>2, <1>3, <1>4

\* The properties of an announcement are typed.
LEMMA PropsFacts ==
  ASSUME CallTypes, NEW a \in Announcement
  PROVE  /\ annProps[a] \in AnnouncementProps
         /\ annProps[a].priority \in BOOLEAN /\ annProps[a].common \in BOOLEAN
         /\ annProps[a].nat \in Traversal
         /\ KeyOf(annProps[a]) \in QueueKey /\ LimitIP(annProps[a]) \in AnnIP
BY MatcherAssumption DEF CallTypes, KeyOf, LimitIP, QueueKey, AnnIP

\* The NAT comparison is a Boolean.
LEMMA MatchNATBoolean ==
  ASSUME NEW p, p.priority \in BOOLEAN, NEW q \in OfferProps
  PROVE  MatchNAT(p, q) \in BOOLEAN
BY MatcherAssumption DEF MatchNAT, IsPreferredMatch, Traversal

\* The place in the search of an announcement, and what a place adds.
Placed(i) == IF i <= MaxAnnouncements THEN i ELSE i - MaxAnnouncements

\* Every place of the iteration is that of an announcement.
LEMMA PlaceFacts ==
  ASSUME NEW i \in 1 .. 2 * MaxAnnouncements
  PROVE  Placed(i) \in Announcement
BY MatcherAssumption DEF Placed, Announcement

\* A place is probed when a candidate is there.
LEMMA ProbePlaceIs ==
  ASSUME NEW q, NEW s, NEW i
  PROVE  ProbePlace(q, s, i) =
           IF IsCandidate(q, Placed(i), i <= MaxAnnouncements)
           THEN Probe(q, ExistsPreferredMatch(q), s, Placed(i)) ELSE s
BY DEF ProbePlace, Placed

\* A candidate is in a queue.
LEMMA CandidateQueued ==
  ASSUME NEW q, NEW a, NEW b, IsCandidate(q, a, b)
  PROVE  Queued(a)
BY DEF IsCandidate, MatchingQueues, Queued

\* Where the loop starts.
LEMMA NoneProbedFacts ==
  /\ NoneProbed \in Loop /\ NoneProbed.best = {} /\ NoneProbed.probed = 0
  /\ NoneProbed.at = 0 /\ NoneProbed.pri = FALSE /\ NoneProbed.nat = FALSE
  /\ NoneProbed.stop = FALSE
BY DEF NoneProbed, Loop

\* matchOffer chooses a queued announcement.
LEMMA MatchQueued ==
  ASSUME CallTypes, NEW q \in OfferProps
  PROVE  /\ MatchOffer(q) \in Loop
         /\ \A a \in MatchOffer(q).best : a \in Announcement /\ Queued(a)
<1> DEFINE n == 2 * MaxAnnouncements
           f == Search(q)
           S == {i \in 0 .. n : f[i] \in Loop /\ \A a \in f[i].best : Queued(a)}
<1>0. n \in Nat /\ 0 \in 0 .. n
  BY MatcherAssumption
<1>1. f[0] = NoneProbed /\ \A i \in 1 .. n : f[i] = ProbePlace(q, f[i - 1], i)
  BY SearchSteps
<1> HIDE DEF f, n
<1>2. 0 \in S
  BY <1>0, <1>1, NoneProbedFacts
<1>3. ASSUME NEW j \in 0 .. n - 1, j \in S
      PROVE  j + 1 \in S
  <2> DEFINE i == j + 1
             a == Placed(i)
  <2>1. i \in 1 .. n /\ i \in 0 .. n /\ i - 1 = j
    BY <1>0, <1>3
  <2>2. a \in Announcement
    BY <2>1, PlaceFacts DEF n
  <2>3. f[i] = ProbePlace(q, f[j], i)
    BY <1>1, <2>1
  <2>4. f[j] \in Loop /\ \A b \in f[j].best : Queued(b)
    BY <1>3
  <2> HIDE DEF i, a
  <2>5. CASE IsCandidate(q, a, i <= MaxAnnouncements)
    <3> DEFINE e == ExistsPreferredMatch(q)
    <3>1. f[i] = Probe(q, e, f[j], a)
      BY <2>3, <2>5, ProbePlaceIs DEF a
    <3>2. e \in BOOLEAN
      BY DEF ExistsPreferredMatch
    <3>3. annProps[a].priority \in BOOLEAN /\ MatchNAT(annProps[a], q) \in BOOLEAN
      BY <2>2, PropsFacts, MatchNATBoolean
    <3> HIDE DEF e
    <3>4. f[i] \in Loop /\ (f[i].best = f[j].best \/ f[i].best = {a})
      <4>1. ProbeResult(q, e, f[j], a, f[i])
        BY <2>2, <2>4, <3>1, <3>2, <3>3, ProbeFacts
      <4> QED
        BY <4>1 DEF ProbeResult
    <3>5. Queued(a)
      BY <2>5, CandidateQueued
    <3>6. i \in S
      BY <2>1, <2>4, <3>4, <3>5
    <3> QED
      BY <3>6 DEF i
  <2>6. CASE ~ IsCandidate(q, a, i <= MaxAnnouncements)
    <3>1. f[i] = f[j]
      BY <2>3, <2>6, ProbePlaceIs DEF a
    <3>2. i \in S
      BY <2>1, <2>4, <3>1
    <3> QED
      BY <3>2 DEF i
  <2> QED
    BY <2>5, <2>6
<1>4. n \in S
  <2> HIDE DEF S
  <2>1. 0 .. n \subseteq S
    BY <1>0, <1>2, <1>3, Induction
  <2> QED
    BY <1>0, <2>1
<1>5. MatchOffer(q) = f[n]
  BY DEF MatchOffer, f, n
<1> QED
  BY <1>4, <1>5 DEF Loop

-----------------------------------------------------------------------------
(* Routing                                                                  *)

\* What a channel holds after a send.
LEMMA SendFacts ==
  ASSUME CallTypes, NEW o \in Offer, NEW v \in {"answer", "closed", "dropped"},
         answerChan' = [answerChan EXCEPT ![o] = Append(@, v)]
  PROVE  /\ answerChan' \in [Offer -> Seq({"answer", "closed", "dropped"})]
         /\ \A r \in Offer : r # o => answerChan'[r] = answerChan[r]
         /\ answerChan'[o] # <<>>
         /\ \A i \in 1 .. Len(answerChan'[o]) :
              \/ i \in 1 .. Len(answerChan[o]) /\ answerChan'[o][i] = answerChan[o][i]
              \/ answerChan'[o][i] = v
<1>1. answerChan[o] \in Seq({"answer", "closed", "dropped"})
  BY DEF CallTypes
<1>2. /\ Append(answerChan[o], v) \in Seq({"answer", "closed", "dropped"})
      /\ Append(answerChan[o], v) # <<>>
      /\ Len(Append(answerChan[o], v)) = Len(answerChan[o]) + 1
      /\ \A i \in 1 .. Len(answerChan[o]) : Append(answerChan[o], v)[i] = answerChan[o][i]
      /\ Append(answerChan[o], v)[Len(answerChan[o]) + 1] = v
  BY <1>1, AppendProperties
<1>3. Len(answerChan[o]) \in Nat
  BY <1>1, LenProperties
<1>4. /\ answerChan'[o] = Append(answerChan[o], v)
      /\ \A r \in Offer : r # o => answerChan'[r] = answerChan[r]
  BY DEF CallTypes
<1>5. answerChan' \in [Offer -> Seq({"answer", "closed", "dropped"})]
  BY <1>2 DEF CallTypes
<1> QED
  BY <1>2, <1>3, <1>4, <1>5

\* Nothing is routed; time may pass.
LEMMA SameRouting ==
  ASSUME RoutingInv, CallTypes', RestQueued',
         UNCHANGED <<ann, annProps, queues, offerChan, off, offQueue, answerChan, pending>>,
         \A o \in Offer : offCtx[o] = "expired" => offCtx'[o] = "expired"
  PROVE  RoutingInv'
<1>1. QueuedWaiting'
  BY DEF RoutingInv, QueuedWaiting
<1>2. OffersWaiting'
  BY DEF RoutingInv, OffersWaiting
<1>3. PendingGiven'
  BY DEF RoutingInv, PendingGiven
<1>4. AnswersSent'
  BY DEF RoutingInv, AnswersSent, AnsweredFor
<1>5. AnswersRouted'
  BY DEF RoutingInv, AnswersRouted
<1>6. AbortedMatchReported'
  BY DEF RoutingInv, AbortedMatchReported, CallTypes
<1> QED
  BY <1>1, <1>2, <1>3, <1>4, <1>5, <1>6 DEF RoutingInv

\* The proxies that answered stay, with their offers.
LEMMA AnsweredStays ==
  ASSUME \A a \in Announcement :
           ann[a] = "answered" => ann'[a] = "answered" /\ offerChan'[a] = offerChan[a]
  PROVE  \A o : AnsweredFor(o) => AnsweredFor(o)'
BY DEF AnsweredFor

\* A context that ends is the call's own: the queues do not change.
LEMMA ContextsRouting ==
  ASSUME RoutingInv,
         \/ \E a \in Announcement : AnnounceContextEnds(a)
         \/ \E o \in Offer : OfferContextEnds(o)
  PROVE  RoutingInv'
<1>1. CASE \E a \in Announcement : AnnounceContextEnds(a)
  <2>1. PICK a \in Announcement : AnnounceContextEnds(a)
    BY <1>1
  <2>2. /\ annDone' = annDone \cup {a}
        /\ UNCHANGED <<ann, annProps, queues, natCounts, annCount, offerChan>>
        /\ UNCHANGED <<off, offProps, offCtx, offQueue, offCount, answerChan>>
        /\ UNCHANGED <<pending, signal, worker, rest, index>>
    BY <2>1 DEF AnnounceContextEnds, offVars, workVars
  <2>3. CallTypes' /\ RestQueued'
    BY <2>2 DEF RoutingInv, CallTypes, RestQueued
  <2> QED
    BY <2>2, <2>3, SameRouting
<1>2. CASE \E o \in Offer : OfferContextEnds(o)
  <2>1. PICK o \in Offer : OfferContextEnds(o)
    BY <1>2
  <2>2. /\ UNCHANGED <<ann, annProps, annDone, queues, natCounts, annCount, offerChan>>
        /\ UNCHANGED <<off, offProps, offQueue, offCount, answerChan>>
        /\ UNCHANGED <<pending, signal, worker, rest, index>>
    BY <2>1 DEF OfferContextEnds, annVars, workVars
  <2>3. \E c \in {"short", "cancelled", "expired"} :
          offCtx' = [offCtx EXCEPT ![o] = c] /\ (offCtx[o] = "expired" => c = "expired")
    BY <2>1 DEF OfferContextEnds
  <2>4. /\ offCtx' \in [Offer -> {"ample", "short", "cancelled", "expired"}]
        /\ \A r \in Offer : offCtx[r] = "expired" => offCtx'[r] = "expired"
    BY <2>3 DEF RoutingInv, CallTypes
  <2>5. CallTypes' /\ RestQueued'
    BY <2>2, <2>4 DEF RoutingInv, CallTypes, RestQueued
  <2> QED
    BY <2>2, <2>4, <2>5, SameRouting
<1> QED
  BY <1>1, <1>2

\* The pass of matchAllOffers itself hands over nothing.
LEMMA PassRouting ==
  ASSUME RoutingInv, ReceiveSignal \/ StartPass \/ Yield \/ EndPass
  PROVE  RoutingInv'
<1>1. /\ UNCHANGED <<ann, annProps, annDone, queues, natCounts, annCount, offerChan>>
      /\ UNCHANGED <<off, offProps, offCtx, offQueue, offCount, answerChan, pending>>
  BY DEF ReceiveSignal, StartPass, Yield, EndPass, annVars, offVars
<1>2. /\ signal' \in BOOLEAN /\ index' \in Nat
      /\ worker' \in {"idle", "locking", "matching", "yielding"}
      /\ rest' \in {rest, {}, offQueue}
      /\ worker' \in {"idle", "locking"} => rest' = {}
  <2>1. /\ signal \in BOOLEAN /\ index \in Nat
        /\ worker \in {"idle", "locking"} => rest = {}
    BY DEF RoutingInv, CallTypes, RestQueued
  <2>2. CASE ReceiveSignal
    BY <2>1, <2>2 DEF ReceiveSignal
  <2>3. CASE StartPass
    BY <2>1, <2>3 DEF StartPass
  <2>4. CASE Yield
    BY <2>1, <2>4 DEF Yield
  <2>5. CASE EndPass
    BY <2>1, <2>5 DEF EndPass
  <2> QED
    BY <2>2, <2>3, <2>4, <2>5
<1>3. RestQueued'
  BY <1>1, <1>2 DEF RoutingInv, RestQueued
<1>4. CallTypes'
  BY <1>1, <1>2 DEF RoutingInv, CallTypes
<1> QED
  BY <1>1, <1>3, <1>4, SameRouting

\* The calls of an announcement.
LEMMA AnnounceRouting ==
  ASSUME RoutingInv, NEW a \in Announcement, NEW p \in AnnouncementProps,
         NEW limiting, NEW limited, Announce(a, p, limiting, limited)
  PROVE  RoutingInv'
<1>0. /\ ann[a] = "new"
      /\ UNCHANGED <<annDone, offerChan, off, offProps, offCtx, offQueue, offCount>>
      /\ UNCHANGED <<answerChan, pending, worker, rest, index>>
  BY DEF Announce, offVars
<1>1. /\ \A b \in Announcement : b # a => ann'[b] = ann[b]
      /\ ann'[a] \in {"waiting", "rejected"}
      /\ ann' \in [Announcement -> {"new", "rejected", "waiting", "aborted", "offered",
                                    "answering", "answered", "failed", "late"}]
  BY DEF Announce, RoutingInv, CallTypes
<1>2. \A k \in QueueKey : a \notin queues[k]
  BY <1>0 DEF RoutingInv, QueuedWaiting
<1>3. /\ annProps' \in [Announcement -> AnnouncementProps]
      /\ queues' \in [QueueKey -> SUBSET Announcement]
      /\ \A b \in Announcement : b # a => annProps'[b] = annProps[b]
      /\ \A k \in QueueKey : \A b \in queues'[k] :
           \/ b \in queues[k]
           \/ b = a /\ k = KeyOf(annProps'[a]) /\ ann'[a] = "waiting"
      /\ natCounts' \in [QueueKey -> [Traversal -> Int]]
      /\ annCount' \in [AnnIP -> Int]
      /\ signal' \in BOOLEAN
  <2>1. CASE Enqueue(a, p) /\ annProps' = [annProps EXCEPT ![a] = p]
              /\ ann' = [ann EXCEPT ![a] = "waiting"] /\ signal' = TRUE
    <3>1. annProps' \in [Announcement -> AnnouncementProps] /\ annProps'[a] = p
          /\ ann'[a] = "waiting" /\ \A b \in Announcement : b # a => annProps'[b] = annProps[b]
      BY <2>1 DEF RoutingInv, CallTypes
    <3>2. KeyOf(p) \in QueueKey /\ LimitIP(p) \in AnnIP /\ p.nat \in Traversal
      BY MatcherAssumption DEF KeyOf, QueueKey, LimitIP, AnnIP
    <3>3. /\ queues' \in [QueueKey -> SUBSET Announcement]
          /\ \A k \in QueueKey : \A b \in queues'[k] : b \in queues[k] \/ (b = a /\ k = KeyOf(p))
      <4>1. queues' = [queues EXCEPT ![KeyOf(p)] = @ \cup {a}]
        BY <2>1 DEF Enqueue
      <4>2. queues \in [QueueKey -> SUBSET Announcement]
        BY DEF RoutingInv, CallTypes
      <4>3. \A k \in QueueKey : queues'[k] = IF k = KeyOf(p) THEN queues[k] \cup {a} ELSE queues[k]
        BY <4>1, <4>2
      <4>4. queues' \in [QueueKey -> SUBSET Announcement]
        BY <3>2, <4>1, <4>2
      <4> QED
        BY <4>3, <4>4
    <3>4. natCounts' \in [QueueKey -> [Traversal -> Int]]
      <4> DEFINE row == [natCounts[KeyOf(p)] EXCEPT ![p.nat] = @ + 1]
      <4>1. natCounts \in [QueueKey -> [Traversal -> Int]]
        BY DEF RoutingInv, CallTypes
      <4>2. row \in [Traversal -> Int]
        BY <3>2, <4>1
      <4>3. natCounts' = [natCounts EXCEPT ![KeyOf(p)] = row]
        BY <2>1, <3>2 DEF Enqueue
      <4> HIDE DEF row
      <4> QED
        BY <4>1, <4>2, <4>3
    <3>5. annCount' \in [AnnIP -> Int]
      BY <2>1, <3>2 DEF Enqueue, RoutingInv, CallTypes
    <3> QED
      BY <2>1, <3>1, <3>3, <3>4, <3>5
  <2>2. CASE UNCHANGED <<annProps, queues, natCounts, annCount, signal>>
    BY <2>2 DEF RoutingInv, CallTypes
  <2> QED
    BY <2>1, <2>2 DEF Announce
<1>4. CallTypes'
  BY <1>0, <1>1, <1>3 DEF RoutingInv, CallTypes
<1>5. PendingGiven'
  BY <1>0, <1>1 DEF RoutingInv, PendingGiven
<1>6. QueuedWaiting'
  <2> SUFFICES ASSUME NEW k \in QueueKey, NEW b \in queues'[k]
               PROVE  KeyOf(annProps'[b]) = k /\ ann'[b] = "waiting" /\ offerChan'[b] = None
    BY DEF QueuedWaiting, KeyOf
  <2>1. CASE b \in queues[k]
    <3>1. b \in Announcement /\ b # a
      BY <1>2, <2>1 DEF RoutingInv, CallTypes
    <3>2. KeyOf(annProps[b]) = k /\ ann[b] = "waiting" /\ offerChan[b] = None
      BY <2>1 DEF RoutingInv, QueuedWaiting
    <3> QED
      BY <1>0, <1>1, <1>3, <3>1, <3>2
  <2>2. CASE b = a /\ k = KeyOf(annProps'[a]) /\ ann'[a] = "waiting"
    <3>1. offerChan[a] = None
      BY <1>0 DEF RoutingInv, PendingGiven
    <3> QED
      BY <1>0, <2>2, <3>1
  <2> QED
    BY <1>3, <2>1, <2>2
<1>7. OffersWaiting'
  BY <1>0 DEF RoutingInv, OffersWaiting
<1>8. RestQueued'
  BY <1>0 DEF RoutingInv, RestQueued
<1>9. \A o : AnsweredFor(o) => AnsweredFor(o)'
  BY <1>0, <1>1, AnsweredStays
<1>10. AnswersSent'
  BY <1>0, <1>9 DEF RoutingInv, AnswersSent
<1>11. AnswersRouted'
  BY <1>0, <1>9 DEF RoutingInv, AnswersRouted, AnsweredFor
<1>12. AbortedMatchReported'
  BY <1>0, <1>1 DEF RoutingInv, AbortedMatchReported
<1> QED
  BY <1>4, <1>5, <1>6, <1>7, <1>8, <1>10, <1>11, <1>12 DEF RoutingInv

\* A step of the proxy of announcement a that leaves the queues, the offers given
\* and the channels alone.
LEMMA ProxyRouting ==
  ASSUME RoutingInv, NEW a \in Announcement, \A k \in QueueKey : a \notin queues[k],
         NEW s \in {"offered", "answering", "late"},
         ann' = [ann EXCEPT ![a] = s],
         ann[a] \in {"waiting", "offered", "answering"},
         annDone' \subseteq annDone,
         UNCHANGED <<annProps, queues, natCounts, annCount, offerChan, off, offProps>>,
         UNCHANGED <<offCtx, offQueue, offCount, answerChan, pending>>,
         UNCHANGED <<signal, worker, rest, index>>
  PROVE  RoutingInv'
<1>1. /\ ann'[a] = s /\ \A b \in Announcement : b # a => ann'[b] = ann[b]
      /\ ann' \in [Announcement -> {"new", "rejected", "waiting", "aborted", "offered",
                                    "answering", "answered", "failed", "late"}]
  BY DEF RoutingInv, CallTypes
<1>2. CallTypes'
  BY <1>1 DEF RoutingInv, CallTypes
<1>3. QueuedWaiting'
  BY <1>1 DEF RoutingInv, QueuedWaiting, CallTypes
<1>4. OffersWaiting'
  BY DEF RoutingInv, OffersWaiting
<1>5. RestQueued'
  BY DEF RoutingInv, RestQueued
<1>6. PendingGiven'
  BY <1>1 DEF RoutingInv, PendingGiven
<1>7. \A o : AnsweredFor(o) => AnsweredFor(o)'
  BY <1>1, AnsweredStays
<1>8. AnswersSent'
  BY <1>7 DEF RoutingInv, AnswersSent
<1>9. AnswersRouted'
  BY <1>7 DEF RoutingInv, AnswersRouted, AnsweredFor
<1>10. AbortedMatchReported'
  BY <1>1 DEF RoutingInv, AbortedMatchReported
<1> QED
  BY <1>2, <1>3, <1>4, <1>5, <1>6, <1>8, <1>9, <1>10 DEF RoutingInv

\* An Announce call returns with its offer, and the pending answer is looked up.
LEMMA ReturnsRouting ==
  ASSUME RoutingInv, NEW a \in Announcement, AnnounceReturns(a) \/ AnswerLookup(a)
  PROVE  RoutingInv'
<1>1. /\ UNCHANGED <<annProps, queues, natCounts, annCount, offerChan, off, offProps>>
      /\ UNCHANGED <<offCtx, offQueue, offCount, answerChan, pending>>
      /\ UNCHANGED <<signal, worker, rest, index>>
      /\ annDone' \subseteq annDone
  BY DEF AnnounceReturns, AnswerLookup, offVars, workVars
<1>2. ann[a] \in {"waiting", "offered"} /\ (ann[a] = "waiting" => offerChan[a] # None)
  BY DEF AnnounceReturns, AnswerLookup
<1>3. \E s \in {"offered", "answering", "late"} : ann' = [ann EXCEPT ![a] = s]
  BY DEF AnnounceReturns, AnswerLookup
<1>4. \A k \in QueueKey : a \notin queues[k]
  BY <1>2 DEF RoutingInv, QueuedWaiting
<1> QED
  BY <1>1, <1>2, <1>3, <1>4, ProxyRouting

\* There are finitely many calls.
LEMMA CallsFinite == IsFiniteSet(Announcement) /\ IsFiniteSet(Offer)
<1>1. MaxAnnouncements \in Int /\ MaxOffers \in Int /\ 1 \in Int
  BY MatcherAssumption
<1> QED
  BY <1>1, FS_Interval DEF Announcement, Offer

\* removeAnnouncementEntry and its dequeue take entries out of the queues.
LEMMA RemoveFacts ==
  ASSUME CallTypes, NEW S, RemoveAnnouncements(S)
  PROVE  /\ queues' \in [QueueKey -> SUBSET Announcement]
         /\ \A k \in QueueKey : queues'[k] = queues[k] \ S
         /\ natCounts' \in [QueueKey -> [Traversal -> Int]]
         /\ annCount' \in [AnnIP -> Int]
<1> DEFINE found == {a \in S : Queued(a)}
           inQueue(k, t) == {a \in found : KeyOf(annProps[a]) = k /\ annProps[a].nat = t}
           at(i) == {a \in found : LimitIP(annProps[a]) = i}
<1>1. /\ queues' = [k \in QueueKey |-> queues[k] \ found]
      /\ natCounts' = [k \in QueueKey |-> [t \in Traversal |->
                         natCounts[k][t] - Cardinality(inQueue(k, t))]]
      /\ annCount' = [i \in AnnIP |-> annCount[i] - Cardinality(at(i))]
  BY DEF RemoveAnnouncements
<1>2. IsFiniteSet(found) /\ found \subseteq Announcement
  <2>1. found \subseteq Announcement
    BY DEF Queued, CallTypes
  <2> QED
    BY <2>1, CallsFinite, FS_Subset
<1>3. \A k, t : Cardinality(inQueue(k, t)) \in Nat
  <2> TAKE k, t
  <2>1. inQueue(k, t) \in SUBSET found
    OBVIOUS
  <2> HIDE DEF inQueue, found
  <2> QED
    BY <1>2, <2>1, FS_Subset, FS_CardinalityType
<1>4. \A i : Cardinality(at(i)) \in Nat
  <2> TAKE i
  <2>1. at(i) \in SUBSET found
    OBVIOUS
  <2> HIDE DEF at, found
  <2> QED
    BY <1>2, <2>1, FS_Subset, FS_CardinalityType
<1>5. \A k \in QueueKey : queues'[k] = queues[k] \ S
  BY <1>1 DEF Queued
<1>6. queues' \in [QueueKey -> SUBSET Announcement]
  BY <1>1 DEF CallTypes
<1> HIDE DEF inQueue, at, found
<1>7. natCounts' \in [QueueKey -> [Traversal -> Int]]
  BY <1>1, <1>3 DEF CallTypes
<1>8. annCount' \in [AnnIP -> Int]
  BY <1>1, <1>4 DEF CallTypes
<1> QED
  BY <1>5, <1>6, <1>7, <1>8

\* An Announce call whose context is done leaves the queue.
LEMMA AbortsRouting ==
  ASSUME RoutingInv, NEW a \in Announcement, AnnounceAborts(a)
  PROVE  RoutingInv'
<1>0. /\ ann[a] = "waiting" /\ ann' = [ann EXCEPT ![a] = "aborted"]
      /\ annDone' = annDone \ {a} /\ RemoveAnnouncements({a})
      /\ UNCHANGED <<annProps, offerChan, off, offProps, offCtx, offQueue, offCount>>
      /\ UNCHANGED <<signal, worker, rest, index>>
  BY DEF AnnounceAborts, workVars
<1>1. /\ ann'[a] = "aborted" /\ \A b \in Announcement : b # a => ann'[b] = ann[b]
      /\ ann' \in [Announcement -> {"new", "rejected", "waiting", "aborted", "offered",
                                    "answering", "answered", "failed", "late"}]
  BY <1>0 DEF RoutingInv, CallTypes
<1>2. /\ queues' \in [QueueKey -> SUBSET Announcement]
      /\ \A k \in QueueKey : queues'[k] = queues[k] \ {a}
      /\ natCounts' \in [QueueKey -> [Traversal -> Int]]
      /\ annCount' \in [AnnIP -> Int]
  BY <1>0, RemoveFacts DEF RoutingInv
<1>3. pending[a] = offerChan[a] /\ (Queued(a) => offerChan[a] = None)
  BY <1>0 DEF RoutingInv, PendingGiven, QueuedWaiting, Queued
<1>4. CallTypes
  BY DEF RoutingInv
\* What the client is told, and what stays of the pending answer.
<1>5. /\ answerChan' \in [Offer -> Seq({"answer", "closed", "dropped"})]
      /\ pending' \in [Announcement -> Offer \cup {None}]
      /\ \A b \in Announcement : b # a => pending'[b] = pending[b]
      /\ pending'[a] \in {None, pending[a]}
      /\ \A o \in Offer : o \in offQueue \/ off[o] = "new" => answerChan'[o] = answerChan[o]
      /\ \A o \in Offer : \A i \in 1 .. Len(answerChan'[o]) :
           answerChan'[o][i] = "answer" => AnsweredFor(o)
      /\ \A o \in Offer : answerChan[o] # <<>> => answerChan'[o] # <<>>
      /\ offerChan[a] # None =>
           answerChan'[offerChan[a]] # <<>> \/ offCtx[offerChan[a]] = "expired"
  <2>0. \A o \in Offer : \A i \in 1 .. Len(answerChan[o]) :
           answerChan[o][i] = "answer" => AnsweredFor(o)
    BY DEF RoutingInv, AnswersSent
  <2>1. CASE ~ Queued(a) /\ PendingAnswer(a)
    <3> DEFINE o == pending[a]
    <3>1. /\ answerChan' = [answerChan EXCEPT ![o] = Append(@, "closed")]
          /\ pending' = [pending EXCEPT ![a] = None]
      BY <2>1 DEF AnnounceAborts
    <3>2. o \in Offer
      BY <1>4, <2>1 DEF PendingAnswer, CallTypes
    <3>3. offerChan[a] = o
      BY <1>3
    <3> HIDE DEF o
    <3>4. /\ answerChan' \in [Offer -> Seq({"answer", "closed", "dropped"})]
          /\ \A r \in Offer : r # o => answerChan'[r] = answerChan[r]
          /\ answerChan'[o] # <<>>
          /\ \A i \in 1 .. Len(answerChan'[o]) :
               \/ i \in 1 .. Len(answerChan[o]) /\ answerChan'[o][i] = answerChan[o][i]
               \/ answerChan'[o][i] = "closed"
      BY <1>4, <3>1, <3>2, SendFacts
    <3>5. o \notin offQueue /\ off[o] # "new"
      BY <3>2, <3>3 DEF RoutingInv, OffersWaiting
    <3>6. /\ pending' \in [Announcement -> Offer \cup {None}] /\ pending'[a] = None
          /\ \A b \in Announcement : b # a => pending'[b] = pending[b]
      BY <1>4, <3>1 DEF CallTypes
    <3>7. \A r \in Offer : \A i \in 1 .. Len(answerChan'[r]) :
             answerChan'[r][i] = "answer" => AnsweredFor(r)
      BY <2>0, <3>4
    <3> QED
      BY <3>3, <3>4, <3>5, <3>6, <3>7
  <2>2. CASE ~ (~ Queued(a) /\ PendingAnswer(a))
    <3>1. answerChan' = answerChan /\ pending' = pending
      BY <2>2 DEF AnnounceAborts
    <3>2. offerChan[a] # None => offCtx[offerChan[a]] = "expired"
      BY <1>3, <2>2 DEF PendingAnswer
    <3> QED
      BY <1>4, <2>0, <3>1, <3>2 DEF CallTypes
  <2> QED
    BY <2>1, <2>2
<1>6. CallTypes'
  BY <1>0, <1>1, <1>2, <1>4, <1>5 DEF CallTypes
<1>7. QueuedWaiting'
  BY <1>0, <1>1, <1>2 DEF RoutingInv, QueuedWaiting, CallTypes
<1>8. OffersWaiting'
  BY <1>0, <1>5 DEF RoutingInv, OffersWaiting
<1>9. RestQueued'
  BY <1>0 DEF RoutingInv, RestQueued
<1>10. PendingGiven'
  BY <1>0, <1>1, <1>3, <1>5 DEF RoutingInv, PendingGiven
<1>11. \A o : AnsweredFor(o) => AnsweredFor(o)'
  BY <1>0, <1>1, AnsweredStays
<1>12. AnswersSent'
  BY <1>5, <1>11 DEF AnswersSent
<1>13. AnswersRouted'
  BY <1>0, <1>11 DEF RoutingInv, AnswersRouted, AnsweredFor
<1>14. AbortedMatchReported'
  <2> SUFFICES ASSUME NEW b \in Announcement, ann'[b] = "aborted", offerChan[b] # None
               PROVE  answerChan'[offerChan[b]] # <<>> \/ offCtx[offerChan[b]] = "expired"
    BY <1>0 DEF AbortedMatchReported
  <2>1. offerChan[b] \in Offer
    BY <1>4 DEF CallTypes
  <2>2. CASE b = a
    BY <1>5, <2>2
  <2>3. CASE b # a
    BY <1>1, <1>5, <2>1, <2>3 DEF RoutingInv, AbortedMatchReported
  <2> QED
    BY <2>2, <2>3
<1> QED
  BY <1>6, <1>7, <1>8, <1>9, <1>10, <1>12, <1>13, <1>14 DEF RoutingInv

\* An answer goes to the offer its pending answer names.
LEMMA AnswerRouting ==
  ASSUME RoutingInv, NEW a \in Announcement, NEW result \in {"answer", "closed"},
         Answer(a, result)
  PROVE  RoutingInv'
<1>0. /\ ann[a] = "answering"
      /\ UNCHANGED <<annProps, annDone, queues, natCounts, annCount, offerChan>>
      /\ UNCHANGED <<off, offProps, offCtx, offQueue, offCount>>
      /\ UNCHANGED <<signal, worker, rest, index>>
  BY DEF Answer, workVars
<1>1. \A k \in QueueKey : a \notin queues[k]
  BY <1>0 DEF RoutingInv, QueuedWaiting
<1>2. CallTypes
  BY DEF RoutingInv
<1>3. CASE ~ PendingAnswer(a)
  <2>1. ann' = [ann EXCEPT ![a] = "late"] /\ pending' = pending /\ answerChan' = answerChan
    BY <1>3 DEF Answer
  <2> QED
    BY <1>0, <1>1, <2>1, ProxyRouting
<1>4. CASE PendingAnswer(a)
  <2>0. pending[a] \in Offer
    BY <1>2, <1>4 DEF PendingAnswer, CallTypes
  <2>2. PICK o \in Offer : o = pending[a]
    BY <2>0
  <2> DEFINE s == IF result = "answer" THEN "answered" ELSE "failed"
  <2>1. /\ pending' = [pending EXCEPT ![a] = None]
        /\ answerChan' = [answerChan EXCEPT ![o] = Append(@, result)]
        /\ ann' = [ann EXCEPT ![a] = s]
    BY <1>4, <2>2 DEF Answer
  <2>3. offerChan[a] = o
    BY <1>0, <2>2 DEF RoutingInv, PendingGiven
  <2>4. s \in {"answered", "failed"} /\ (result = "answer" => s = "answered")
    OBVIOUS
  <2> HIDE DEF s
  <2>5. /\ ann'[a] = s /\ \A b \in Announcement : b # a => ann'[b] = ann[b]
        /\ ann' \in [Announcement -> {"new", "rejected", "waiting", "aborted", "offered",
                                      "answering", "answered", "failed", "late"}]
    BY <1>2, <2>1, <2>4 DEF CallTypes
  <2>6. /\ answerChan' \in [Offer -> Seq({"answer", "closed", "dropped"})]
        /\ \A r \in Offer : r # o => answerChan'[r] = answerChan[r]
        /\ answerChan'[o] # <<>>
        /\ \A i \in 1 .. Len(answerChan'[o]) :
             \/ i \in 1 .. Len(answerChan[o]) /\ answerChan'[o][i] = answerChan[o][i]
             \/ answerChan'[o][i] = result
    <3>1. result \in {"answer", "closed", "dropped"}
      OBVIOUS
    <3>2. answerChan' = [answerChan EXCEPT ![o] = Append(@, result)]
      BY <2>1
    <3> QED
      BY ONLY <1>2, <3>1, <3>2, o \in Offer, SendFacts
  <2>7. /\ pending' \in [Announcement -> Offer \cup {None}] /\ pending'[a] = None
        /\ \A b \in Announcement : b # a => pending'[b] = pending[b]
    BY <1>2, <2>1 DEF CallTypes
  <2>8. o \notin offQueue /\ off[o] # "new"
    BY <2>2, <2>3 DEF RoutingInv, OffersWaiting
  <2>9. CallTypes'
    BY <1>0, <1>2, <2>5, <2>6, <2>7 DEF CallTypes
  <2>10. QueuedWaiting'
    BY <1>0, <1>1, <2>5 DEF RoutingInv, QueuedWaiting, CallTypes
  <2>11. OffersWaiting'
    BY <1>0, <2>6, <2>8 DEF RoutingInv, OffersWaiting
  <2>12. RestQueued'
    BY <1>0 DEF RoutingInv, RestQueued
  <2>13. PendingGiven'
    BY <1>0, <2>4, <2>5, <2>7 DEF RoutingInv, PendingGiven
  <2>14. \A r : AnsweredFor(r) => AnsweredFor(r)'
    BY <1>0, <2>5, AnsweredStays
  <2>15. result = "answer" => AnsweredFor(o)'
    BY <1>0, <2>3, <2>4, <2>5 DEF AnsweredFor
  <2>16. AnswersSent'
    <3> SUFFICES ASSUME NEW r \in Offer, NEW i \in 1 .. Len(answerChan'[r]),
                        answerChan'[r][i] = "answer"
                 PROVE  AnsweredFor(r)'
      BY DEF AnswersSent
    <3>1. CASE i \in 1 .. Len(answerChan[r]) /\ answerChan'[r][i] = answerChan[r][i]
      BY <2>14, <3>1 DEF RoutingInv, AnswersSent
    <3>2. CASE r = o /\ result = "answer"
      BY <2>15, <3>2
    <3> QED
      BY <2>6, <3>1, <3>2
  <2>17. AnswersRouted'
    BY <1>0, <2>14 DEF RoutingInv, AnswersRouted, AnsweredFor
  <2>18. AbortedMatchReported'
    <3> SUFFICES ASSUME NEW b \in Announcement, ann'[b] = "aborted", offerChan[b] # None
                 PROVE  answerChan'[offerChan[b]] # <<>> \/ offCtx[offerChan[b]] = "expired"
      BY <1>0 DEF AbortedMatchReported
    <3>1. offerChan[b] \in Offer /\ ann[b] = "aborted"
      BY <1>2, <2>4, <2>5 DEF CallTypes
    <3>2. answerChan[offerChan[b]] # <<>> \/ offCtx[offerChan[b]] = "expired"
      BY <3>1 DEF RoutingInv, AbortedMatchReported
    <3> QED
      BY <2>6, <3>1, <3>2
  <2> QED
    BY <2>9, <2>10, <2>11, <2>12, <2>13, <2>16, <2>17, <2>18 DEF RoutingInv
<1> QED
  BY <1>3, <1>4

\* The calls of an offer.
LEMMA MakeOfferRouting ==
  ASSUME RoutingInv, NEW o \in Offer, NEW q \in OfferProps,
         NEW limiting, NEW limited, MakeOffer(o, q, limiting, limited)
  PROVE  RoutingInv'
<1>0. /\ off[o] = "new"
      /\ UNCHANGED <<ann, annProps, annDone, queues, natCounts, annCount, offerChan>>
      /\ UNCHANGED <<offCtx, answerChan, pending, worker, rest, index>>
  BY DEF MakeOffer, annVars
<1>1. CallTypes
  BY DEF RoutingInv
<1>2. /\ off' \in [Offer -> {"new", "rejected", "waiting", "aborted", "answer", "closed", "dropped"}]
      /\ \A r \in Offer : r # o => off'[r] = off[r]
      /\ off'[o] \in {"waiting", "rejected"}
  BY <1>1 DEF MakeOffer, CallTypes
<1>3. /\ offProps' \in [Offer -> OfferProps] /\ offCount' \in [OffIP -> Int] /\ signal' \in BOOLEAN
      /\ \/ offQueue' = offQueue
         \/ offQueue' = offQueue \cup {o} /\ off'[o] = "waiting"
  <2>1. CASE /\ offProps' = [offProps EXCEPT ![o] = q] /\ offQueue' = offQueue \cup {o}
             /\ offCount' = [offCount EXCEPT ![q.ip] = @ + 1]
             /\ off' = [off EXCEPT ![o] = "waiting"] /\ signal' = TRUE
    <3>1. q.ip \in OffIP
      BY DEF OffIP
    <3> QED
      BY <1>1, <2>1, <3>1 DEF CallTypes
  <2>2. CASE UNCHANGED <<offProps, offQueue, offCount, signal>>
    BY <1>1, <2>2 DEF CallTypes
  <2> QED
    BY <2>1, <2>2 DEF MakeOffer
<1>4. CallTypes'
  BY <1>0, <1>1, <1>2, <1>3 DEF CallTypes
<1>5. QueuedWaiting'
  BY <1>0 DEF RoutingInv, QueuedWaiting
<1>6. OffersWaiting'
  BY <1>0, <1>2, <1>3 DEF RoutingInv, OffersWaiting
<1>7. RestQueued'
  BY <1>0, <1>3 DEF RoutingInv, RestQueued
<1>8. PendingGiven'
  BY <1>0 DEF RoutingInv, PendingGiven
<1>9. AnswersSent'
  BY <1>0 DEF RoutingInv, AnswersSent, AnsweredFor
<1>10. AnswersRouted'
  BY <1>0, <1>2 DEF RoutingInv, AnswersRouted
<1>11. AbortedMatchReported'
  BY <1>0 DEF RoutingInv, AbortedMatchReported
<1> QED
  BY <1>4, <1>5, <1>6, <1>7, <1>8, <1>9, <1>10, <1>11 DEF RoutingInv

\* removeOfferEntry
LEMMA RemoveOfferFacts ==
  ASSUME CallTypes, NEW o \in Offer, RemoveOffer(o)
  PROVE  offQueue' = offQueue \ {o} /\ offCount' \in [OffIP -> Int]
<1>1. offProps[o].ip \in OffIP
  BY DEF CallTypes, OffIP
<1> QED
  BY <1>1 DEF RemoveOffer, CallTypes

\* The first value of the channel is what the call returns.
LEMMA OfferEndsRouting ==
  ASSUME RoutingInv, NEW o \in Offer, OfferReturns(o) \/ OfferAborts(o)
  PROVE  RoutingInv'
<1>0. /\ off[o] = "waiting"
      /\ UNCHANGED <<ann, annProps, annDone, queues, natCounts, annCount, offerChan>>
      /\ UNCHANGED <<offProps, offCtx, answerChan, pending, signal, worker, rest, index>>
  BY DEF OfferReturns, OfferAborts, annVars, workVars
<1>1. CallTypes
  BY DEF RoutingInv
<1>2. PICK v : /\ v \in {"aborted", "answer", "closed", "dropped"}
               /\ off' = [off EXCEPT ![o] = v]
               /\ v = "answer" => AnsweredFor(o)
  <2>1. CASE OfferReturns(o)
    <3>1. answerChan[o] \in Seq({"answer", "closed", "dropped"}) /\ answerChan[o] # <<>>
      BY <1>1, <2>1 DEF OfferReturns, CallTypes
    <3>2. 1 \in 1 .. Len(answerChan[o]) /\ Head(answerChan[o]) = answerChan[o][1]
      BY <3>1, EmptySeq, LenProperties, HeadTailProperties
    <3>3. answerChan[o][1] \in {"answer", "closed", "dropped"}
      BY <3>1, <3>2, ElementOfSeq
    <3>4. answerChan[o][1] = "answer" => AnsweredFor(o)
      BY <3>2 DEF RoutingInv, AnswersSent
    <3> QED
      BY <2>1, <3>2, <3>3, <3>4 DEF OfferReturns
  <2>2. CASE OfferAborts(o)
    BY <2>2 DEF OfferAborts
  <2> QED
    BY <2>1, <2>2
<1>3. /\ off' \in [Offer -> {"new", "rejected", "waiting", "aborted", "answer", "closed", "dropped"}]
      /\ off'[o] = v /\ \A r \in Offer : r # o => off'[r] = off[r]
  BY <1>1, <1>2 DEF CallTypes
<1>4. /\ offQueue' = offQueue \ {o} /\ offCount' \in [OffIP -> Int]
      /\ rest \subseteq offQueue'
  <2>1. CASE OfferReturns(o)
    BY <1>1, <2>1 DEF OfferReturns, RoutingInv, OffersWaiting, RestQueued, CallTypes
  <2>2. CASE OfferAborts(o)
    <3>1. RemoveOffer(o) /\ worker = "idle"
      BY <2>2 DEF OfferAborts, OffersUnlocked
    <3>2. rest = {}
      BY <3>1 DEF RoutingInv, RestQueued
    <3> QED
      BY <1>1, <3>1, <3>2, RemoveOfferFacts
  <2> QED
    BY <2>1, <2>2
<1>5. CallTypes'
  BY <1>0, <1>1, <1>3, <1>4 DEF CallTypes
<1>6. QueuedWaiting'
  BY <1>0 DEF RoutingInv, QueuedWaiting
<1>7. OffersWaiting'
  BY <1>0, <1>2, <1>3, <1>4 DEF RoutingInv, OffersWaiting
<1>8. RestQueued'
  BY <1>0, <1>4 DEF RoutingInv, RestQueued
<1>9. PendingGiven'
  BY <1>0 DEF RoutingInv, PendingGiven
<1>10. AnswersSent'
  BY <1>0 DEF RoutingInv, AnswersSent, AnsweredFor
<1>11. AnswersRouted'
  <2>1. \A r \in Offer : off'[r] = "answer" => AnsweredFor(r)
    BY <1>2, <1>3 DEF RoutingInv, AnswersRouted, AnsweredFor
  <2> QED
    BY <1>0, <2>1 DEF RoutingInv, AnswersRouted, AnsweredFor
<1>12. AbortedMatchReported'
  BY <1>0 DEF RoutingInv, AbortedMatchReported
<1> QED
  BY <1>5, <1>6, <1>7, <1>8, <1>9, <1>10, <1>11, <1>12 DEF RoutingInv

\* A visit of the pass: the offer leaves the queue, or stays when nothing matches.
LEMMA VisitFacts ==
  ASSUME RoutingInv, NEW o \in Offer, Visit(o)
  PROVE  /\ o \in offQueue /\ rest' = rest \ {o} /\ worker' = "matching" /\ index' \in Nat
         /\ UNCHANGED <<ann, annProps, annDone, off, offProps, offCtx, signal>>
         /\ off[o] = "waiting" /\ answerChan[o] = <<>>
         /\ \A a \in Announcement : offerChan[a] # o
<1>1. /\ o \in rest /\ rest' = rest \ {o} /\ worker' = "matching" /\ index' = index + 1
      /\ UNCHANGED <<ann, annProps, annDone, off, offProps, offCtx, signal>>
  BY DEF Visit
<1>2. o \in offQueue /\ index' \in Nat
  BY <1>1 DEF RoutingInv, RestQueued, CallTypes
<1> QED
  BY <1>1, <1>2 DEF RoutingInv, OffersWaiting

\* The offer is taken off the queue, and told or not.
LEMMA DropRouting ==
  ASSUME RoutingInv, NEW o \in Offer, Visit(o), RemoveOffer(o),
         UNCHANGED <<queues, natCounts, annCount, offerChan, pending>>,
         \/ UNCHANGED answerChan
         \/ answerChan' = [answerChan EXCEPT ![o] = Append(@, "dropped")]
  PROVE  RoutingInv'
<1>0. CallTypes
  BY DEF RoutingInv
<1>1. /\ o \in offQueue /\ rest' = rest \ {o} /\ worker' = "matching" /\ index' \in Nat
      /\ UNCHANGED <<ann, annProps, annDone, off, offProps, offCtx, signal>>
      /\ off[o] = "waiting"
  BY VisitFacts
<1>2. offQueue' = offQueue \ {o} /\ offCount' \in [OffIP -> Int]
  BY <1>0, RemoveOfferFacts
<1>3. /\ answerChan' \in [Offer -> Seq({"answer", "closed", "dropped"})]
      /\ \A r \in Offer : r # o => answerChan'[r] = answerChan[r]
      /\ \A r \in Offer : answerChan[r] # <<>> => answerChan'[r] # <<>>
      /\ \A r \in Offer : \A i \in 1 .. Len(answerChan'[r]) :
           answerChan'[r][i] = "answer" => AnsweredFor(r)
  <2>0. \A r \in Offer : \A i \in 1 .. Len(answerChan[r]) :
           answerChan[r][i] = "answer" => AnsweredFor(r)
    BY DEF RoutingInv, AnswersSent
  <2>1. CASE answerChan' = answerChan
    BY <1>0, <2>0, <2>1 DEF CallTypes
  <2>2. CASE answerChan' = [answerChan EXCEPT ![o] = Append(@, "dropped")]
    <3>1. /\ answerChan' \in [Offer -> Seq({"answer", "closed", "dropped"})]
          /\ \A r \in Offer : r # o => answerChan'[r] = answerChan[r]
          /\ answerChan'[o] # <<>>
          /\ \A i \in 1 .. Len(answerChan'[o]) :
               \/ i \in 1 .. Len(answerChan[o]) /\ answerChan'[o][i] = answerChan[o][i]
               \/ answerChan'[o][i] = "dropped"
      BY <1>0, <2>2, SendFacts
    <3> QED
      BY <2>0, <3>1
  <2> QED
    BY <2>1, <2>2
<1>4. CallTypes'
  BY <1>0, <1>1, <1>2, <1>3 DEF CallTypes
<1>5. QueuedWaiting'
  BY <1>1 DEF RoutingInv, QueuedWaiting
<1>6. OffersWaiting'
  BY <1>1, <1>2, <1>3 DEF RoutingInv, OffersWaiting
<1>7. RestQueued'
  BY <1>1, <1>2 DEF RoutingInv, RestQueued
<1>8. PendingGiven'
  BY <1>1 DEF RoutingInv, PendingGiven
<1>9. \A r : AnsweredFor(r) => AnsweredFor(r)'
  BY <1>1, AnsweredStays
<1>10. AnswersSent'
  BY <1>3, <1>9 DEF AnswersSent
<1>11. AnswersRouted'
  BY <1>1, <1>9 DEF RoutingInv, AnswersRouted, AnsweredFor
<1>12. AbortedMatchReported'
  BY <1>0, <1>1, <1>3 DEF RoutingInv, AbortedMatchReported, CallTypes
<1> QED
  BY <1>4, <1>5, <1>6, <1>7, <1>8, <1>10, <1>11, <1>12 DEF RoutingInv

\* An offer without a match stays in the queue.
LEMMA UnmatchedRouting ==
  ASSUME RoutingInv, NEW o \in Offer, Visit(o), VisitUnmatched(o)
  PROVE  RoutingInv'
<1>0. CallTypes
  BY DEF RoutingInv
<1>1. /\ o \in offQueue /\ rest' = rest \ {o} /\ worker' = "matching" /\ index' \in Nat
      /\ UNCHANGED <<ann, annProps, annDone, off, offProps, offCtx, signal>>
  BY VisitFacts
<1>2. PICK S : RemoveAnnouncements(S)
  BY DEF VisitUnmatched
<1>3. UNCHANGED <<offQueue, offCount, offerChan, answerChan, pending>>
  BY DEF VisitUnmatched
<1>4. /\ queues' \in [QueueKey -> SUBSET Announcement]
      /\ \A k \in QueueKey : queues'[k] = queues[k] \ S
      /\ natCounts' \in [QueueKey -> [Traversal -> Int]]
      /\ annCount' \in [AnnIP -> Int]
  BY <1>0, <1>2, RemoveFacts
<1>5. CallTypes'
  BY <1>0, <1>1, <1>3, <1>4 DEF CallTypes
<1>6. QueuedWaiting'
  BY <1>1, <1>3, <1>4 DEF RoutingInv, QueuedWaiting
<1>7. OffersWaiting'
  BY <1>1, <1>3 DEF RoutingInv, OffersWaiting
<1>8. RestQueued'
  BY <1>1, <1>3 DEF RoutingInv, RestQueued
<1>9. PendingGiven'
  BY <1>1, <1>3 DEF RoutingInv, PendingGiven
<1>10. AnswersSent'
  BY <1>1, <1>3 DEF RoutingInv, AnswersSent, AnsweredFor
<1>11. AnswersRouted'
  BY <1>1, <1>3 DEF RoutingInv, AnswersRouted
<1>12. AbortedMatchReported'
  BY <1>1, <1>3 DEF RoutingInv, AbortedMatchReported
<1> QED
  BY <1>5, <1>6, <1>7, <1>8, <1>9, <1>10, <1>11, <1>12 DEF RoutingInv

\* The offer is given to an announcement that was in a queue until now.
LEMMA MatchedRouting ==
  ASSUME RoutingInv, NEW o \in Offer, NEW a \in Announcement, Visit(o), VisitMatched(o, a)
  PROVE  RoutingInv'
<1>0. CallTypes
  BY DEF RoutingInv
<1>1. /\ o \in offQueue /\ rest' = rest \ {o} /\ worker' = "matching" /\ index' \in Nat
      /\ UNCHANGED <<ann, annProps, annDone, off, offProps, offCtx, signal>>
      /\ off[o] = "waiting" /\ \A b \in Announcement : offerChan[b] # o
  BY VisitFacts
<1>2. /\ MatchOffer(offProps[o]).best = {a} /\ pending' = [pending EXCEPT ![a] = o]
      /\ offerChan' = [offerChan EXCEPT ![a] = o] /\ RemoveOffer(o) /\ answerChan' = answerChan
  BY DEF VisitMatched
<1>3. PICK S : RemoveAnnouncements(S) /\ a \in S
  BY DEF VisitMatched
<1>4. /\ queues' \in [QueueKey -> SUBSET Announcement]
      /\ \A k \in QueueKey : queues'[k] = queues[k] \ S
      /\ natCounts' \in [QueueKey -> [Traversal -> Int]]
      /\ annCount' \in [AnnIP -> Int]
  BY <1>0, <1>3, RemoveFacts
<1>5. offQueue' = offQueue \ {o} /\ offCount' \in [OffIP -> Int]
  BY <1>0, <1>2, RemoveOfferFacts
<1>6. ann[a] = "waiting" /\ offerChan[a] = None
  <2>1. offProps[o] \in OfferProps
    BY <1>0 DEF CallTypes
  <2>2. Queued(a)
    BY <1>0, <1>2, <2>1, MatchQueued
  <2> QED
    BY <2>2 DEF RoutingInv, QueuedWaiting, Queued
<1>7. /\ pending' \in [Announcement -> Offer \cup {None}]
      /\ offerChan' \in [Announcement -> Offer \cup {None}]
      /\ pending'[a] = o /\ offerChan'[a] = o
      /\ \A b \in Announcement : b # a => pending'[b] = pending[b] /\ offerChan'[b] = offerChan[b]
  BY <1>0, <1>2 DEF CallTypes
<1>8. CallTypes'
  BY <1>0, <1>1, <1>2, <1>4, <1>5, <1>7 DEF CallTypes
<1>9. QueuedWaiting'
  <2> SUFFICES ASSUME NEW k \in QueueKey, NEW b \in queues'[k]
               PROVE  KeyOf(annProps'[b]) = k /\ ann'[b] = "waiting" /\ offerChan'[b] = None
    BY DEF QueuedWaiting, KeyOf
  <2>1. b \in queues[k] /\ b # a /\ b \in Announcement
    BY <1>0, <1>3, <1>4 DEF CallTypes
  <2>2. KeyOf(annProps[b]) = k /\ ann[b] = "waiting" /\ offerChan[b] = None
    BY <2>1 DEF RoutingInv, QueuedWaiting
  <2> QED
    BY <1>1, <1>7, <2>1, <2>2
<1>10. OffersWaiting'
  BY <1>1, <1>2, <1>5, <1>7 DEF RoutingInv, OffersWaiting
<1>11. RestQueued'
  BY <1>1, <1>5 DEF RoutingInv, RestQueued
<1>12. PendingGiven'
  BY <1>1, <1>6, <1>7 DEF RoutingInv, PendingGiven
<1>13. \A r : AnsweredFor(r) => AnsweredFor(r)'
  BY <1>1, <1>6, <1>7, AnsweredStays
<1>14. AnswersSent'
  BY <1>2, <1>13 DEF RoutingInv, AnswersSent
<1>15. AnswersRouted'
  <2>1. \A b, c \in Announcement :
          offerChan'[b] # None /\ offerChan'[b] = offerChan'[c] => b = c
    BY <1>1, <1>7 DEF RoutingInv, AnswersRouted
  <2>2. \A r \in Offer : off'[r] = "answer" => AnsweredFor(r)'
    BY <1>1, <1>13 DEF RoutingInv, AnswersRouted, AnsweredFor
  <2> QED
    BY <2>1, <2>2 DEF AnswersRouted, AnsweredFor
<1>16. AbortedMatchReported'
  <2> SUFFICES ASSUME NEW b \in Announcement, ann'[b] = "aborted", offerChan'[b] # None
               PROVE  answerChan'[offerChan'[b]] # <<>> \/ offCtx'[offerChan'[b]] = "expired"
    BY DEF AbortedMatchReported
  <2>1. b # a /\ ann[b] = "aborted"
    BY <1>1, <1>6
  <2> QED
    BY <1>1, <1>2, <1>7, <2>1 DEF RoutingInv, AbortedMatchReported
<1> QED
  BY <1>8, <1>9, <1>10, <1>11, <1>12, <1>14, <1>15, <1>16 DEF RoutingInv

\* Every step preserves the routing of offers and answers.
LEMMA RoutingInductive ==
  ASSUME RoutingInv, [Next]_vars
  PROVE  RoutingInv'
<1>1. CASE UNCHANGED vars
  <2>1. /\ UNCHANGED <<ann, annProps, annDone, queues, natCounts, annCount, offerChan>>
        /\ UNCHANGED <<off, offProps, offCtx, offQueue, offCount, answerChan>>
        /\ UNCHANGED <<pending, signal, worker, rest, index>>
    BY <1>1 DEF vars, annVars, offVars, workVars
  <2>2. CallTypes' /\ RestQueued'
    BY <2>1 DEF RoutingInv, CallTypes, RestQueued
  <2> QED
    BY <2>1, <2>2, SameRouting
<1>2. ASSUME NEW o \in Offer, VisitOffer(o)
      PROVE  RoutingInv'
  <2>1. CASE VisitEnded(o)
    BY <1>2, <2>1, DropRouting DEF VisitOffer, VisitEnded
  <2>2. CASE VisitDropped(o)
    BY <1>2, <2>2, DropRouting DEF VisitOffer, VisitDropped
  <2>3. CASE VisitUnmatched(o)
    BY <1>2, <2>3, UnmatchedRouting DEF VisitOffer
  <2>4. CASE \E a \in Announcement : VisitMatched(o, a)
    BY <1>2, <2>4, MatchedRouting DEF VisitOffer
  <2> QED
    BY <1>2, <2>1, <2>2, <2>3, <2>4 DEF VisitOffer
<1>3. CASE \E a \in Announcement :
             \/ \E p \in AnnouncementProps, limiting, limited \in BOOLEAN :
                  Announce(a, p, limiting, limited)
             \/ AnnounceContextEnds(a) \/ AnnounceReturns(a) \/ AnnounceAborts(a)
             \/ AnswerLookup(a) \/ \E result \in {"answer", "closed"} : Answer(a, result)
  BY <1>3, AnnounceRouting, ContextsRouting, ReturnsRouting, AbortsRouting, AnswerRouting
<1>4. CASE \E o \in Offer :
             \/ \E q \in OfferProps, limiting, limited \in BOOLEAN :
                  MakeOffer(o, q, limiting, limited)
             \/ OfferContextEnds(o) \/ OfferReturns(o) \/ OfferAborts(o)
  BY <1>4, MakeOfferRouting, ContextsRouting, OfferEndsRouting
<1>5. CASE WorkerStep
  BY <1>2, <1>5, PassRouting DEF WorkerStep
<1> QED
  BY <1>1, <1>3, <1>4, <1>5 DEF Next

\* It holds initially.
LEMMA RoutingInit ==
  ASSUME Init
  PROVE  RoutingInv
<1>0. /\ ann = [a \in Announcement |-> "new"] /\ annDone = {}
      /\ queues = [k \in QueueKey |-> {}] /\ offerChan = [a \in Announcement |-> None]
      /\ off = [o \in Offer |-> "new"] /\ offCtx = [o \in Offer |-> "ample"]
      /\ offQueue = {} /\ answerChan = [o \in Offer |-> <<>>]
      /\ pending = [a \in Announcement |-> None] /\ signal = FALSE /\ worker = "idle"
      /\ rest = {} /\ index = 0
  BY DEF Init
<1>1. NoAnn \in AnnouncementProps /\ NoOff \in OfferProps
  BY MatcherAssumption DEF NoAnn, NoOff
<1>2. /\ annProps \in [Announcement -> AnnouncementProps]
      /\ offProps \in [Offer -> OfferProps]
  BY <1>1 DEF Init
<1>3. natCounts \in [QueueKey -> [Traversal -> Int]]
  BY DEF Init
<1>4. annCount \in [AnnIP -> Int] /\ offCount \in [OffIP -> Int]
  BY DEF Init
<1>5. answerChan \in [Offer -> Seq({"answer", "closed", "dropped"})]
  BY <1>0, EmptySeq
<1>6. CallTypes
  BY <1>0, <1>2, <1>3, <1>4, <1>5 DEF CallTypes
<1>7. QueuedWaiting /\ RestQueued /\ PendingGiven
  BY <1>0 DEF QueuedWaiting, RestQueued, PendingGiven
<1>8. OffersWaiting
  <2>1. \A o \in Offer : o # None
    BY MatcherAssumption
  <2> QED
    BY <1>0, <2>1 DEF OffersWaiting
<1>9. AnswersSent
  BY <1>0, EmptySeq DEF AnswersSent
<1>10. AnswersRouted /\ AbortedMatchReported
  BY <1>0 DEF AnswersRouted, AbortedMatchReported
<1> QED
  BY <1>6, <1>7, <1>8, <1>9, <1>10 DEF RoutingInv

-----------------------------------------------------------------------------
(* The counters                                                             *)

QueuedOf(k, t) == {a \in queues[k] : annProps[a].nat = t}
QueuedAt(i) == {a \in Announcement : Queued(a) /\ LimitIP(annProps[a]) = i}
OffersAt(i) == {o \in offQueue : offProps[o].ip = i}

NATCountsExact ==
    \A k \in QueueKey, t \in Traversal : natCounts[k][t] = Cardinality(QueuedOf(k, t))
AnnCountsExact == \A i \in AnnIP : annCount[i] = Cardinality(QueuedAt(i))
OffCountsExact == \A i \in OffIP : offCount[i] = Cardinality(OffersAt(i))

\* The three counts can be treated one by one.
LEMMA CountsParts ==
  /\ CountsExact <=> NATCountsExact /\ AnnCountsExact /\ OffCountsExact
  /\ CountsExact' <=> NATCountsExact' /\ AnnCountsExact' /\ OffCountsExact'
BY DEF CountsExact, NATCountsExact, AnnCountsExact, OffCountsExact, QueuedOf, QueuedAt, OffersAt

\* What is counted is finite.
LEMMA CountedFinite ==
  ASSUME CallTypes
  PROVE  /\ \A k \in QueueKey : \A t : IsFiniteSet(QueuedOf(k, t))
         /\ \A i : IsFiniteSet(QueuedAt(i))
         /\ \A i : IsFiniteSet(OffersAt(i))
<1>1. /\ \A k \in QueueKey : \A t : QueuedOf(k, t) \in SUBSET Announcement
      /\ \A i : QueuedAt(i) \in SUBSET Announcement
      /\ \A i : OffersAt(i) \in SUBSET Offer
  BY DEF CallTypes, QueuedOf, QueuedAt, OffersAt
<1> QED
  BY <1>1, CallsFinite, FS_Subset

\* The cardinality of a difference.
LEMMA TakeAway ==
  ASSUME NEW A, NEW B, IsFiniteSet(A), B \subseteq A
  PROVE  Cardinality(A \ B) = Cardinality(A) - Cardinality(B)
<1>1. A \cap B = B
  OBVIOUS
<1> QED
  BY <1>1, FS_Difference

\* dequeue takes what it finds off the counters, whoever calls it.
LEMMA RemoveCounts ==
  ASSUME RoutingInv, NATCountsExact, AnnCountsExact, NEW S, RemoveAnnouncements(S),
         annProps' = annProps
  PROVE  NATCountsExact' /\ AnnCountsExact'
<1> DEFINE found == {a \in S : Queued(a)}
           inQueue(k, t) == {a \in found : KeyOf(annProps[a]) = k /\ annProps[a].nat = t}
           at(i) == {a \in found : LimitIP(annProps[a]) = i}
<1>0. CallTypes
  BY DEF RoutingInv
<1>1. /\ queues' = [k \in QueueKey |-> queues[k] \ found]
      /\ natCounts' = [k \in QueueKey |-> [t \in Traversal |->
                         natCounts[k][t] - Cardinality(inQueue(k, t))]]
      /\ annCount' = [i \in AnnIP |-> annCount[i] - Cardinality(at(i))]
  BY DEF RemoveAnnouncements
<1>2. \A k \in QueueKey : \A a \in queues[k] : KeyOf(annProps[a]) = k /\ a \in Announcement
  BY DEF RoutingInv, QueuedWaiting, CallTypes
<1>3. \A a \in found : a \in queues[KeyOf(annProps[a])] /\ KeyOf(annProps[a]) \in QueueKey
  BY <1>2 DEF Queued
<1>4. NATCountsExact'
  <2> SUFFICES ASSUME NEW k \in QueueKey, NEW t \in Traversal
               PROVE  natCounts'[k][t] = Cardinality(QueuedOf(k, t)')
    BY DEF NATCountsExact
  <2>1. natCounts'[k][t] = natCounts[k][t] - Cardinality(inQueue(k, t))
    BY <1>1
  <2>2. inQueue(k, t) \subseteq QueuedOf(k, t)
    BY <1>3 DEF QueuedOf
  <2>3. QueuedOf(k, t)' = QueuedOf(k, t) \ inQueue(k, t)
    BY <1>1, <1>2 DEF QueuedOf
  <2> HIDE DEF inQueue
  <2>4. Cardinality(QueuedOf(k, t) \ inQueue(k, t))
          = Cardinality(QueuedOf(k, t)) - Cardinality(inQueue(k, t))
    BY <1>0, <2>2, CountedFinite, TakeAway
  <2>5. natCounts[k][t] = Cardinality(QueuedOf(k, t))
    BY DEF NATCountsExact
  <2> QED
    BY <2>1, <2>3, <2>4, <2>5
<1>5. AnnCountsExact'
  <2> SUFFICES ASSUME NEW i \in AnnIP
               PROVE  annCount'[i] = Cardinality(QueuedAt(i)')
    BY DEF AnnCountsExact
  <2>1. annCount'[i] = annCount[i] - Cardinality(at(i))
    BY <1>1
  <2>2. at(i) \subseteq QueuedAt(i)
    BY <1>2, <1>3 DEF QueuedAt
  <2>3. QueuedAt(i)' = QueuedAt(i) \ at(i)
    <3>1. \A a \in Announcement : Queued(a)' <=> Queued(a) /\ a \notin found
      BY <1>1 DEF Queued
    <3> QED
      BY <3>1 DEF QueuedAt
  <2> HIDE DEF at
  <2>4. Cardinality(QueuedAt(i) \ at(i)) = Cardinality(QueuedAt(i)) - Cardinality(at(i))
    BY <1>0, <2>2, CountedFinite, TakeAway
  <2>5. annCount[i] = Cardinality(QueuedAt(i))
    BY DEF AnnCountsExact
  <2> QED
    BY <2>1, <2>3, <2>4, <2>5
<1> QED
  BY <1>4, <1>5

\* enqueue counts the entry once.
LEMMA EnqueueCounts ==
  ASSUME RoutingInv, NATCountsExact, AnnCountsExact,
         NEW a \in Announcement, NEW p \in AnnouncementProps, ann[a] = "new",
         Enqueue(a, p), annProps' = [annProps EXCEPT ![a] = p]
  PROVE  NATCountsExact' /\ AnnCountsExact'
<1>0. CallTypes
  BY DEF RoutingInv
<1>1. \A k \in QueueKey : a \notin queues[k]
  BY DEF RoutingInv, QueuedWaiting
<1>2. KeyOf(p) \in QueueKey /\ LimitIP(p) \in AnnIP /\ p.nat \in Traversal
  BY MatcherAssumption DEF KeyOf, QueueKey, LimitIP, AnnIP
<1>3. \A k \in QueueKey : queues'[k] = IF k = KeyOf(p) THEN queues[k] \cup {a} ELSE queues[k]
  <2>1. queues' = [queues EXCEPT ![KeyOf(p)] = @ \cup {a}]
    BY DEF Enqueue
  <2> QED
    BY <1>0, <2>1 DEF CallTypes
<1>4. annProps'[a] = p /\ \A b \in Announcement : b # a => annProps'[b] = annProps[b]
  BY <1>0 DEF CallTypes
<1>5. \A k \in QueueKey : queues[k] \subseteq Announcement
  BY <1>0 DEF CallTypes
<1>6. NATCountsExact'
  <2> SUFFICES ASSUME NEW k \in QueueKey, NEW t \in Traversal
               PROVE  natCounts'[k][t] = Cardinality(QueuedOf(k, t)')
    BY DEF NATCountsExact
  <2>0. IsFiniteSet(QueuedOf(k, t)) /\ natCounts[k][t] = Cardinality(QueuedOf(k, t))
    BY <1>0, CountedFinite DEF NATCountsExact
  <2>1. natCounts'[k][t] = IF k = KeyOf(p) /\ t = p.nat THEN natCounts[k][t] + 1
                           ELSE natCounts[k][t]
    <3>1. natCounts' = [natCounts EXCEPT ![KeyOf(p)][p.nat] = @ + 1]
      BY DEF Enqueue
    <3>2. natCounts \in [QueueKey -> [Traversal -> Int]]
      BY <1>0 DEF CallTypes
    <3> QED
      BY <1>2, <3>1, <3>2
  <2>2. CASE k = KeyOf(p) /\ t = p.nat
    <3>1. QueuedOf(k, t)' = QueuedOf(k, t) \cup {a} /\ a \notin QueuedOf(k, t)
      BY <1>1, <1>3, <1>4, <1>5, <2>2 DEF QueuedOf
    <3>2. Cardinality(QueuedOf(k, t) \cup {a}) = Cardinality(QueuedOf(k, t)) + 1
      BY <2>0, <3>1, FS_AddElement
    <3> QED
      BY <2>0, <2>1, <2>2, <3>1, <3>2
  <2>3. CASE ~ (k = KeyOf(p) /\ t = p.nat)
    <3>1. QueuedOf(k, t)' = QueuedOf(k, t)
      <4>1. \A b \in queues[k] : annProps'[b] = annProps[b]
        BY <1>1, <1>4, <1>5
      <4>2. CASE k # KeyOf(p)
        <5>1. queues'[k] = queues[k]
          BY <1>3, <4>2
        <5> QED
          BY <4>1, <5>1 DEF QueuedOf
      <4>3. CASE k = KeyOf(p)
        <5>1. queues'[k] = queues[k] \cup {a} /\ annProps'[a].nat # t
          BY <1>3, <1>4, <2>3, <4>3
        <5> QED
          BY <4>1, <5>1 DEF QueuedOf
      <4> QED
        BY <4>2, <4>3
    <3> QED
      BY <2>0, <2>1, <2>3, <3>1
  <2> QED
    BY <2>2, <2>3
<1>7. AnnCountsExact'
  <2> SUFFICES ASSUME NEW i \in AnnIP
               PROVE  annCount'[i] = Cardinality(QueuedAt(i)')
    BY DEF AnnCountsExact
  <2>0. IsFiniteSet(QueuedAt(i)) /\ annCount[i] = Cardinality(QueuedAt(i))
    BY <1>0, CountedFinite DEF AnnCountsExact
  <2>1. annCount'[i] = IF i = LimitIP(p) THEN annCount[i] + 1 ELSE annCount[i]
    <3>1. annCount' = [annCount EXCEPT ![LimitIP(p)] = @ + 1]
      BY DEF Enqueue
    <3> QED
      BY <1>0, <1>2, <3>1 DEF CallTypes
  <2>2. /\ ~ Queued(a) /\ Queued(a)'
        /\ \A b \in Announcement : b # a => (Queued(b)' <=> Queued(b))
    BY <1>1, <1>2, <1>3 DEF Queued
  <2>3. CASE i = LimitIP(p)
    <3>1. QueuedAt(i)' = QueuedAt(i) \cup {a} /\ a \notin QueuedAt(i)
      BY <1>4, <2>2, <2>3 DEF QueuedAt
    <3>2. Cardinality(QueuedAt(i) \cup {a}) = Cardinality(QueuedAt(i)) + 1
      BY <2>0, <3>1, FS_AddElement
    <3> QED
      BY <2>0, <2>1, <2>3, <3>1, <3>2
  <2>4. CASE i # LimitIP(p)
    <3>1. QueuedAt(i)' = QueuedAt(i)
      BY <1>4, <2>2, <2>4 DEF QueuedAt
    <3> QED
      BY <2>0, <2>1, <2>4, <3>1
  <2> QED
    BY <2>3, <2>4
<1> QED
  BY <1>6, <1>7

\* The announcement counts stay exact when their queues stay.
LEMMA SameAnnCounts ==
  ASSUME NATCountsExact, AnnCountsExact, UNCHANGED <<annProps, queues, natCounts, annCount>>
  PROVE  NATCountsExact' /\ AnnCountsExact'
BY DEF NATCountsExact, AnnCountsExact, QueuedOf, QueuedAt, Queued

\* The offer counts stay exact when their queue stays.
LEMMA SameOffCounts ==
  ASSUME OffCountsExact, UNCHANGED <<offProps, offQueue, offCount>>
  PROVE  OffCountsExact'
BY DEF OffCountsExact, OffersAt

\* removeOfferEntry takes the entry off the counter if it finds it.
LEMMA RemoveOfferCounts ==
  ASSUME CallTypes, OffCountsExact, NEW o \in Offer, RemoveOffer(o), offProps' = offProps
  PROVE  OffCountsExact'
<1> SUFFICES ASSUME NEW i \in OffIP
             PROVE  offCount'[i] = Cardinality(OffersAt(i)')
  BY DEF OffCountsExact
<1>0. IsFiniteSet(OffersAt(i)) /\ offCount[i] = Cardinality(OffersAt(i))
  BY CountedFinite DEF OffCountsExact
<1>1. offQueue' = offQueue \ {o}
  BY DEF RemoveOffer
<1>2. OffersAt(i)' = OffersAt(i) \ {o}
  BY <1>1 DEF OffersAt
<1>3. Cardinality(OffersAt(i) \ {o}) =
        IF o \in OffersAt(i) THEN Cardinality(OffersAt(i)) - 1 ELSE Cardinality(OffersAt(i))
  BY <1>0, FS_RemoveElement
<1>4. offCount'[i] = IF o \in OffersAt(i) THEN offCount[i] - 1 ELSE offCount[i]
  <2>1. offCount \in [OffIP -> Int] /\ offProps[o].ip \in OffIP
    BY DEF CallTypes, OffIP
  <2>2. CASE o \in offQueue
    <3>1. offCount' = [offCount EXCEPT ![offProps[o].ip] = @ - 1]
      BY <2>2 DEF RemoveOffer
    <3> QED
      BY <2>1, <2>2, <3>1 DEF OffersAt
  <2>3. CASE o \notin offQueue
    BY <2>3 DEF RemoveOffer, OffersAt
  <2> QED
    BY <2>2, <2>3
<1> QED
  BY <1>0, <1>2, <1>3, <1>4

\* A new offer is counted for its IP.
LEMMA MakeOfferCounts ==
  ASSUME RoutingInv, OffCountsExact, NEW o \in Offer, NEW q \in OfferProps,
         NEW limiting, NEW limited, MakeOffer(o, q, limiting, limited)
  PROVE  OffCountsExact'
<1>0. CallTypes /\ off[o] = "new" /\ o \notin offQueue
  BY DEF RoutingInv, OffersWaiting, MakeOffer
<1>1. CASE UNCHANGED <<offProps, offQueue, offCount>>
  BY <1>1, SameOffCounts
<1>2. CASE /\ offProps' = [offProps EXCEPT ![o] = q] /\ offQueue' = offQueue \cup {o}
           /\ offCount' = [offCount EXCEPT ![q.ip] = @ + 1]
  <2> SUFFICES ASSUME NEW i \in OffIP
               PROVE  offCount'[i] = Cardinality(OffersAt(i)')
    BY DEF OffCountsExact
  <2>0. IsFiniteSet(OffersAt(i)) /\ offCount[i] = Cardinality(OffersAt(i))
    BY <1>0, CountedFinite DEF OffCountsExact
  <2>1. offProps'[o] = q /\ \A r \in Offer : r # o => offProps'[r] = offProps[r]
    BY <1>0, <1>2 DEF CallTypes
  <2>2. offCount'[i] = IF i = q.ip THEN offCount[i] + 1 ELSE offCount[i]
    BY <1>0, <1>2 DEF CallTypes
  <2>3. offQueue \subseteq Offer
    BY <1>0 DEF CallTypes
  <2>4. CASE i = q.ip
    <3>1. OffersAt(i)' = OffersAt(i) \cup {o} /\ o \notin OffersAt(i)
      BY <1>0, <1>2, <2>1, <2>3, <2>4 DEF OffersAt
    <3>2. Cardinality(OffersAt(i) \cup {o}) = Cardinality(OffersAt(i)) + 1
      BY <2>0, <3>1, FS_AddElement
    <3> QED
      BY <2>0, <2>2, <2>4, <3>1, <3>2
  <2>5. CASE i # q.ip
    <3>1. OffersAt(i)' = OffersAt(i)
      BY <1>0, <1>2, <2>1, <2>3, <2>5 DEF OffersAt
    <3> QED
      BY <2>0, <2>2, <2>5, <3>1
  <2> QED
    BY <2>4, <2>5
<1> QED
  BY <1>1, <1>2 DEF MakeOffer

\* Every step keeps the counts exact.
LEMMA CountsInductive ==
  ASSUME RoutingInv, CountsExact, [Next]_vars
  PROVE  CountsExact'
<1>0. CallTypes /\ NATCountsExact /\ AnnCountsExact /\ OffCountsExact
  BY CountsParts DEF RoutingInv
<1> SUFFICES (NATCountsExact /\ AnnCountsExact)' /\ OffCountsExact'
  BY CountsParts
<1>1. CASE UNCHANGED <<annProps, queues, natCounts, annCount, offProps, offQueue, offCount>>
  BY <1>0, <1>1, SameAnnCounts, SameOffCounts
<1>2. ASSUME NEW a \in Announcement, NEW p \in AnnouncementProps,
             NEW limiting \in BOOLEAN, NEW limited \in BOOLEAN, Announce(a, p, limiting, limited)
      PROVE  (NATCountsExact /\ AnnCountsExact)' /\ OffCountsExact'
  <2>1. UNCHANGED <<offProps, offQueue, offCount>> /\ ann[a] = "new"
    BY <1>2 DEF Announce, offVars
  <2>2. \/ Enqueue(a, p) /\ annProps' = [annProps EXCEPT ![a] = p]
        \/ UNCHANGED <<annProps, queues, natCounts, annCount>>
    BY <1>2 DEF Announce
  <2>3. OffCountsExact'
    BY <1>0, <2>1, SameOffCounts
  <2>4. CASE Enqueue(a, p) /\ annProps' = [annProps EXCEPT ![a] = p]
    BY <1>0, <2>1, <2>3, <2>4, EnqueueCounts
  <2>5. CASE UNCHANGED <<annProps, queues, natCounts, annCount>>
    BY <1>0, <2>3, <2>5, SameAnnCounts
  <2> QED
    BY <2>2, <2>4, <2>5
<1>3. ASSUME NEW a \in Announcement, AnnounceAborts(a)
      PROVE  (NATCountsExact /\ AnnCountsExact)' /\ OffCountsExact'
  <2>1. UNCHANGED <<offProps, offQueue, offCount>> /\ RemoveAnnouncements({a}) /\ annProps' = annProps
    BY <1>3 DEF AnnounceAborts
  <2>2. OffCountsExact'
    BY <1>0, <2>1, SameOffCounts
  <2> QED
    BY <1>0, <2>1, <2>2, RemoveCounts
<1>4. ASSUME NEW o \in Offer, NEW q \in OfferProps,
             NEW limiting \in BOOLEAN, NEW limited \in BOOLEAN, MakeOffer(o, q, limiting, limited)
      PROVE  (NATCountsExact /\ AnnCountsExact)' /\ OffCountsExact'
  <2>1. UNCHANGED <<annProps, queues, natCounts, annCount>>
    BY <1>4 DEF MakeOffer, annVars
  <2> QED
    BY <1>0, <1>4, <2>1, MakeOfferCounts, SameAnnCounts
<1>5. ASSUME NEW o \in Offer, OfferAborts(o)
      PROVE  (NATCountsExact /\ AnnCountsExact)' /\ OffCountsExact'
  <2>1. UNCHANGED <<annProps, queues, natCounts, annCount>> /\ RemoveOffer(o) /\ offProps' = offProps
    BY <1>5 DEF OfferAborts, annVars
  <2> QED
    BY <1>0, <2>1, RemoveOfferCounts, SameAnnCounts
<1>6. ASSUME NEW o \in Offer, VisitOffer(o)
      PROVE  (NATCountsExact /\ AnnCountsExact)' /\ OffCountsExact'
  <2>1. annProps' = annProps /\ offProps' = offProps
    BY <1>6 DEF VisitOffer, Visit
  <2>2. CASE VisitEnded(o) \/ VisitDropped(o)
    <3>1. UNCHANGED <<queues, natCounts, annCount>> /\ RemoveOffer(o)
      BY <2>2 DEF VisitEnded, VisitDropped
    <3> QED
      BY <1>0, <2>1, <3>1, RemoveOfferCounts, SameAnnCounts
  <2>3. CASE VisitUnmatched(o)
    <3>1. UNCHANGED <<offQueue, offCount>>
      BY <2>3 DEF VisitUnmatched
    <3>2. PICK S : S = MatchOffer(offProps[o]).removed
      OBVIOUS
    <3>3. RemoveAnnouncements(S)
      BY <2>3, <3>2 DEF VisitUnmatched
    <3>5. OffCountsExact'
      BY <1>0, <2>1, <3>1, SameOffCounts
    <3> QED
      BY <1>0, <2>1, <3>3, <3>5, RemoveCounts
  <2>4. ASSUME NEW a \in Announcement, VisitMatched(o, a)
        PROVE  (NATCountsExact /\ AnnCountsExact)' /\ OffCountsExact'
    <3>2. PICK S : S = MatchOffer(offProps[o]).removed \cup {a}
      OBVIOUS
    <3>3. RemoveAnnouncements(S) /\ RemoveOffer(o)
      BY <2>4, <3>2 DEF VisitMatched
    <3>5. OffCountsExact'
      BY <1>0, <2>1, <3>3, RemoveOfferCounts
    <3> QED
      BY <1>0, <2>1, <3>3, <3>5, RemoveCounts
  <2> QED
    BY <1>6, <2>2, <2>3, <2>4 DEF VisitOffer
<1>7. ASSUME NEW a \in Announcement,
             \/ AnnounceContextEnds(a) \/ AnnounceReturns(a) \/ AnswerLookup(a)
             \/ \E result \in {"answer", "closed"} : Answer(a, result)
      PROVE  UNCHANGED <<annProps, queues, natCounts, annCount, offProps, offQueue, offCount>>
  BY <1>7 DEF AnnounceContextEnds, AnnounceReturns, AnswerLookup, Answer, offVars
<1>8. ASSUME NEW o \in Offer, OfferContextEnds(o) \/ OfferReturns(o)
      PROVE  UNCHANGED <<annProps, queues, natCounts, annCount, offProps, offQueue, offCount>>
  BY <1>8 DEF OfferContextEnds, OfferReturns, annVars
<1>9. ASSUME ReceiveSignal \/ StartPass \/ Yield \/ EndPass \/ UNCHANGED vars
      PROVE  UNCHANGED <<annProps, queues, natCounts, annCount, offProps, offQueue, offCount>>
  BY <1>9 DEF ReceiveSignal, StartPass, Yield, EndPass, annVars, offVars, vars
<1>10. CASE UNCHANGED vars
  BY <1>1, <1>9, <1>10
<1>11. CASE \E a \in Announcement :
             \/ \E p \in AnnouncementProps, limiting, limited \in BOOLEAN :
                  Announce(a, p, limiting, limited)
             \/ AnnounceContextEnds(a) \/ AnnounceReturns(a) \/ AnnounceAborts(a)
             \/ AnswerLookup(a) \/ \E result \in {"answer", "closed"} : Answer(a, result)
  BY <1>1, <1>2, <1>3, <1>7, <1>11
<1>12. CASE \E o \in Offer :
             \/ \E q \in OfferProps, limiting, limited \in BOOLEAN :
                  MakeOffer(o, q, limiting, limited)
             \/ OfferContextEnds(o) \/ OfferReturns(o) \/ OfferAborts(o)
  BY <1>1, <1>4, <1>5, <1>8, <1>12
<1>13. CASE WorkerStep
  BY <1>1, <1>6, <1>9, <1>13 DEF WorkerStep
<1> QED
  BY <1>10, <1>11, <1>12, <1>13 DEF Next

\* They are exact initially.
LEMMA CountsInit ==
  ASSUME Init
  PROVE  CountsExact
<1>0. Cardinality({}) = 0
  BY FS_EmptySet
<1>1. NATCountsExact
  <2>1. \A k \in QueueKey, t \in Traversal : natCounts[k][t] = 0 /\ QueuedOf(k, t) = {}
    BY DEF Init, QueuedOf
  <2> QED
    BY <1>0, <2>1 DEF NATCountsExact
<1>2. AnnCountsExact
  <2>1. \A a \in Announcement : ~ Queued(a)
    BY DEF Init, Queued
  <2>2. \A i \in AnnIP : annCount[i] = 0 /\ QueuedAt(i) = {}
    BY <2>1 DEF Init, QueuedAt
  <2> QED
    BY <1>0, <2>2 DEF AnnCountsExact
<1>3. OffCountsExact
  <2>1. \A i \in OffIP : offCount[i] = 0 /\ OffersAt(i) = {}
    BY DEF Init, OffersAt
  <2> QED
    BY <1>0, <2>1 DEF OffCountsExact
<1> QED
  BY <1>1, <1>2, <1>3, CountsParts

-----------------------------------------------------------------------------
(* The limits                                                               *)

AnnLimits ==
    /\ AnnTotal <= QueueMaxSize
    /\ LimitEntryCount > 0 => \A i \in AnnIP : Cardinality(QueuedAt(i)) <= EntryLimit(i[2])

OffLimits ==
    /\ Cardinality(offQueue) <= QueueMaxSize
    /\ LimitEntryCount > 0 => \A i \in OffIP : Cardinality(OffersAt(i)) <= EntryLimit(FALSE)

\* The limits of both queues can be treated one by one.
LEMMA LimitsParts ==
  /\ LimitsHold <=> AnnLimits /\ OffLimits
  /\ LimitsHold' <=> AnnLimits' /\ OffLimits'
BY DEF LimitsHold, AnnLimits, OffLimits, QueuedAt, OffersAt

LEMMA LimitsNatural ==
  QueueMaxSize \in Nat /\ \A exempt : EntryLimit(exempt) \in Nat
BY MatcherAssumption DEF EntryLimit

\* A set that shrinks stays within its limit, and so does one that grows by one
\* element where there was room.
LEMMA WithinLimit ==
  ASSUME NEW A, NEW B, NEW n \in Nat, IsFiniteSet(A), Cardinality(A) <= n,
         \/ B \subseteq A
         \/ Cardinality(A) < n /\ \E x : B = A \cup {x}
  PROVE  Cardinality(B) <= n
<1>0. Cardinality(A) \in Nat
  BY FS_CardinalityType
<1>1. CASE B \subseteq A
  <2>1. Cardinality(B) \in Nat /\ Cardinality(B) <= Cardinality(A)
    BY <1>1, FS_Subset, FS_CardinalityType
  <2> QED
    BY <1>0, <2>1
<1>2. CASE Cardinality(A) < n /\ \E x : B = A \cup {x}
  <2>1. PICK x : B = A \cup {x}
    BY <1>2
  <2>2. Cardinality(B) = Cardinality(A) \/ Cardinality(B) = Cardinality(A) + 1
    BY <2>1, FS_AddElement
  <2> QED
    BY <1>0, <1>2, <2>2
<1> QED
  BY <1>1, <1>2

QueuedAll == {a \in Announcement : Queued(a)}

\* Entries that leave their queues.
LEMMA AnnShrinks ==
  ASSUME CallTypes, AnnLimits, annProps' = annProps,
         \A k \in QueueKey : queues'[k] \subseteq queues[k]
  PROVE  AnnLimits'
<1>1. IsFiniteSet(QueuedAll) /\ \A i : IsFiniteSet(QueuedAt(i))
  BY CallsFinite, CountedFinite, FS_Subset, QueuedAll \subseteq Announcement DEF QueuedAll
<1>2. QueuedAll' \subseteq QueuedAll /\ \A i : QueuedAt(i)' \subseteq QueuedAt(i)
  BY DEF QueuedAll, QueuedAt, Queued
<1>3. Cardinality(QueuedAll') <= QueueMaxSize
  BY <1>1, <1>2, LimitsNatural, WithinLimit DEF AnnLimits, AnnTotal, QueuedAll
<1>4. ASSUME LimitEntryCount > 0, NEW i \in AnnIP
      PROVE  Cardinality(QueuedAt(i)') <= EntryLimit(i[2])
  BY <1>1, <1>2, <1>4, LimitsNatural, WithinLimit DEF AnnLimits
<1> QED
  BY <1>3, <1>4 DEF AnnLimits, AnnTotal, QueuedAll, EntryLimit

\* Offers that leave the queue.
LEMMA OffShrinks ==
  ASSUME CallTypes, OffLimits, offProps' = offProps, offQueue' \subseteq offQueue
  PROVE  OffLimits'
<1>1. IsFiniteSet(offQueue) /\ \A i : IsFiniteSet(OffersAt(i))
  BY CallsFinite, CountedFinite, FS_Subset DEF CallTypes
<1>2. \A i : OffersAt(i)' \subseteq OffersAt(i)
  BY DEF OffersAt
<1>3. Cardinality(offQueue') <= QueueMaxSize
  BY <1>1, LimitsNatural, WithinLimit DEF OffLimits
<1>4. ASSUME LimitEntryCount > 0, NEW i \in OffIP
      PROVE  Cardinality(OffersAt(i)') <= EntryLimit(FALSE)
  BY <1>1, <1>2, <1>4, LimitsNatural, WithinLimit DEF OffLimits
<1> QED
  BY <1>3, <1>4 DEF OffLimits, EntryLimit

\* addAnnouncementEntry checks the limits under the queue's mutex.
LEMMA AnnounceLimits ==
  ASSUME RoutingInv, CountsExact, AnnLimits,
         NEW a \in Announcement, NEW p \in AnnouncementProps,
         NEW limiting \in BOOLEAN, NEW limited \in BOOLEAN, Announce(a, p, limiting, limited)
  PROVE  AnnLimits'
<1>0. CallTypes /\ AnnCountsExact
  BY CountsParts DEF RoutingInv
<1>1. CASE UNCHANGED <<annProps, queues>>
  BY <1>0, <1>1, AnnShrinks
<1>2. CASE /\ Enqueue(a, p) /\ annProps' = [annProps EXCEPT ![a] = p]
           /\ AnnTotal < QueueMaxSize /\ IPAllows(limited, p.exempt, annCount[LimitIP(p)])
  <2>1. /\ \A k \in QueueKey : a \notin queues[k]
        /\ \A k \in QueueKey : queues'[k] = IF k = KeyOf(p) THEN queues[k] \cup {a} ELSE queues[k]
    BY <1>0, <1>2 DEF RoutingInv, QueuedWaiting, Announce, Enqueue, CallTypes
  <2>2. KeyOf(p) \in QueueKey
    BY DEF KeyOf, QueueKey
  <2>3. \A b \in Announcement : Queued(b)' <=> Queued(b) \/ b = a
    BY <2>1, <2>2 DEF Queued
  <2>4. /\ annProps'[a] = p /\ ~Queued(a)
        /\ \A b \in Announcement \ {a} : annProps'[b] = annProps[b]
    BY <1>0, <1>2, <2>1 DEF CallTypes, Queued
  <2>5. QueuedAll' = QueuedAll \cup {a}
    BY <2>3 DEF QueuedAll
  <2>6. \A i : QueuedAt(i)' = IF i = LimitIP(p) THEN QueuedAt(i) \cup {a} ELSE QueuedAt(i)
    BY <2>3, <2>4 DEF QueuedAt
  <2>7. IsFiniteSet(QueuedAll) /\ \A i : IsFiniteSet(QueuedAt(i))
    BY <1>0, CallsFinite, CountedFinite, FS_Subset, QueuedAll \subseteq Announcement DEF QueuedAll
  <2>8. Cardinality(QueuedAll') <= QueueMaxSize
    <3>1. Cardinality(QueuedAll) <= QueueMaxSize /\ Cardinality(QueuedAll) < QueueMaxSize
      BY <1>2 DEF AnnLimits, AnnTotal, QueuedAll
    <3> QED
      BY <2>5, <2>7, <3>1, LimitsNatural, WithinLimit
  <2>9. ASSUME LimitEntryCount > 0, NEW i \in AnnIP
        PROVE  Cardinality(QueuedAt(i)') <= EntryLimit(i[2])
    <3>1. Cardinality(QueuedAt(i)) <= EntryLimit(i[2])
      BY <2>9 DEF AnnLimits
    <3>2. i = LimitIP(p) => Cardinality(QueuedAt(i)) < EntryLimit(i[2])
      BY <1>0, <1>2, <2>9 DEF IPAllows, AnnCountsExact, LimitIP
    <3> QED
      BY <2>6, <2>7, <3>1, <3>2, LimitsNatural, WithinLimit
  <2> QED
    BY <2>8, <2>9 DEF AnnLimits, AnnTotal, QueuedAll, EntryLimit
<1> QED
  BY <1>1, <1>2 DEF Announce

\* So does addOfferEntry.
LEMMA MakeOfferLimits ==
  ASSUME RoutingInv, CountsExact, OffLimits, NEW o \in Offer, NEW q \in OfferProps,
         NEW limiting \in BOOLEAN, NEW limited \in BOOLEAN, MakeOffer(o, q, limiting, limited)
  PROVE  OffLimits'
<1>0. CallTypes /\ OffCountsExact /\ o \notin offQueue
  BY CountsParts DEF RoutingInv, OffersWaiting, MakeOffer
<1>1. CASE UNCHANGED <<offProps, offQueue>>
  BY <1>0, <1>1, OffShrinks
<1>2. CASE /\ offProps' = [offProps EXCEPT ![o] = q] /\ offQueue' = offQueue \cup {o}
           /\ Cardinality(offQueue) < QueueMaxSize /\ IPAllows(limited, FALSE, offCount[q.ip])
  <2>1. offProps'[o] = q /\ \A r \in Offer : r # o => offProps'[r] = offProps[r]
    BY <1>0, <1>2 DEF CallTypes
  <2>2. offQueue \subseteq Offer
    BY <1>0 DEF CallTypes
  <2>3. \A i : OffersAt(i)' = IF i = q.ip THEN OffersAt(i) \cup {o} ELSE OffersAt(i)
    BY <1>0, <1>2, <2>1, <2>2 DEF OffersAt
  <2>4. IsFiniteSet(offQueue) /\ \A i : IsFiniteSet(OffersAt(i))
    BY <1>0, <2>2, CallsFinite, CountedFinite, FS_Subset
  <2>5. Cardinality(offQueue') <= QueueMaxSize
    BY <1>2, <2>4, LimitsNatural, WithinLimit DEF OffLimits
  <2>6. ASSUME LimitEntryCount > 0, NEW i \in OffIP
        PROVE  Cardinality(OffersAt(i)') <= EntryLimit(FALSE)
    <3>1. Cardinality(OffersAt(i)) <= EntryLimit(FALSE)
      BY <2>6 DEF OffLimits
    <3>2. i = q.ip => Cardinality(OffersAt(i)) < EntryLimit(FALSE)
      BY <1>0, <1>2, <2>6 DEF IPAllows, OffCountsExact
    <3> QED
      BY <2>3, <2>4, <3>1, <3>2, LimitsNatural, WithinLimit
  <2> QED
    BY <2>5, <2>6 DEF OffLimits, EntryLimit
<1> QED
  BY <1>1, <1>2 DEF MakeOffer

\* The other steps take entries out, or leave the queues alone.
LEMMA LimitsInductive ==
  ASSUME RoutingInv, CountsExact, LimitsHold, [Next]_vars
  PROVE  LimitsHold'
<1>0. CallTypes /\ AnnLimits /\ OffLimits
  BY LimitsParts DEF RoutingInv
<1> SUFFICES AnnLimits' /\ OffLimits'
  BY LimitsParts
<1>1. ASSUME UNCHANGED <<annProps, queues, offProps, offQueue>> PROVE AnnLimits' /\ OffLimits'
  BY <1>0, <1>1, AnnShrinks, OffShrinks
<1>2. ASSUME NEW a \in Announcement, NEW p \in AnnouncementProps,
             NEW limiting \in BOOLEAN, NEW limited \in BOOLEAN, Announce(a, p, limiting, limited)
      PROVE  AnnLimits' /\ OffLimits'
  <2>1. UNCHANGED <<offProps, offQueue>>
    BY <1>2 DEF Announce, offVars
  <2> QED
    BY <1>0, <1>2, <2>1, AnnounceLimits, OffShrinks
<1>3. ASSUME NEW a \in Announcement, AnnounceAborts(a) PROVE AnnLimits' /\ OffLimits'
  <2>1. UNCHANGED <<annProps, offProps, offQueue>> /\ RemoveAnnouncements({a})
    BY <1>3 DEF AnnounceAborts
  <2>2. \A k \in QueueKey : queues'[k] \subseteq queues[k]
    BY <1>0, <2>1, RemoveFacts
  <2> QED
    BY <1>0, <2>1, <2>2, AnnShrinks, OffShrinks
<1>4. ASSUME NEW o \in Offer, NEW q \in OfferProps,
             NEW limiting \in BOOLEAN, NEW limited \in BOOLEAN, MakeOffer(o, q, limiting, limited)
      PROVE  AnnLimits' /\ OffLimits'
  <2>1. UNCHANGED <<annProps, queues>>
    BY <1>4 DEF MakeOffer, annVars
  <2> QED
    BY <1>0, <1>4, <2>1, MakeOfferLimits, AnnShrinks
<1>5. ASSUME NEW o \in Offer, OfferAborts(o) PROVE AnnLimits' /\ OffLimits'
  <2>1. UNCHANGED <<annProps, queues, offProps>> /\ RemoveOffer(o)
    BY <1>5 DEF OfferAborts, annVars
  <2> QED
    BY <1>0, <2>1, RemoveOfferFacts, AnnShrinks, OffShrinks
<1>6. ASSUME NEW o \in Offer, VisitOffer(o) PROVE AnnLimits' /\ OffLimits'
  <2>1. annProps' = annProps /\ offProps' = offProps
    BY <1>6 DEF VisitOffer, Visit
  <2>2. CASE VisitEnded(o) \/ VisitDropped(o)
    <3>1. UNCHANGED queues /\ RemoveOffer(o)
      BY <2>2 DEF VisitEnded, VisitDropped
    <3> QED
      BY <1>0, <2>1, <3>1, RemoveOfferFacts, AnnShrinks, OffShrinks
  <2>3. CASE VisitUnmatched(o)
    <3>1. PICK S : S = MatchOffer(offProps[o]).removed
      OBVIOUS
    <3>2. RemoveAnnouncements(S) /\ offQueue' = offQueue
      BY <2>3, <3>1 DEF VisitUnmatched
    <3>3. \A k \in QueueKey : queues'[k] \subseteq queues[k]
      BY <1>0, <3>2, RemoveFacts
    <3> QED
      BY <1>0, <2>1, <3>2, <3>3, AnnShrinks, OffShrinks
  <2>4. ASSUME NEW a \in Announcement, VisitMatched(o, a) PROVE AnnLimits' /\ OffLimits'
    <3>1. PICK S : S = MatchOffer(offProps[o]).removed \cup {a}
      OBVIOUS
    <3>2. RemoveAnnouncements(S) /\ RemoveOffer(o)
      BY <2>4, <3>1 DEF VisitMatched
    <3>3. \A k \in QueueKey : queues'[k] \subseteq queues[k]
      BY <1>0, <3>2, RemoveFacts
    <3> QED
      BY <1>0, <2>1, <3>2, <3>3, RemoveOfferFacts, AnnShrinks, OffShrinks
  <2> QED
    BY <1>6, <2>2, <2>3, <2>4 DEF VisitOffer
<1>7. ASSUME NEW a \in Announcement,
             \/ AnnounceContextEnds(a) \/ AnnounceReturns(a) \/ AnswerLookup(a)
             \/ \E result \in {"answer", "closed"} : Answer(a, result)
      PROVE  UNCHANGED <<annProps, queues, offProps, offQueue>>
  BY <1>7 DEF AnnounceContextEnds, AnnounceReturns, AnswerLookup, Answer, offVars
<1>8. ASSUME NEW o \in Offer, OfferContextEnds(o) \/ OfferReturns(o)
      PROVE  UNCHANGED <<annProps, queues, offProps, offQueue>>
  BY <1>8 DEF OfferContextEnds, OfferReturns, annVars
<1>9. ASSUME ReceiveSignal \/ StartPass \/ Yield \/ EndPass \/ UNCHANGED vars
      PROVE  UNCHANGED <<annProps, queues, offProps, offQueue>>
  BY <1>9 DEF ReceiveSignal, StartPass, Yield, EndPass, annVars, offVars, vars
<1>10. CASE UNCHANGED vars
  BY <1>1, <1>9, <1>10
<1>11. CASE \E a \in Announcement :
             \/ \E p \in AnnouncementProps, limiting, limited \in BOOLEAN :
                  Announce(a, p, limiting, limited)
             \/ AnnounceContextEnds(a) \/ AnnounceReturns(a) \/ AnnounceAborts(a)
             \/ AnswerLookup(a) \/ \E result \in {"answer", "closed"} : Answer(a, result)
  BY <1>1, <1>2, <1>3, <1>7, <1>11
<1>12. CASE \E o \in Offer :
             \/ \E q \in OfferProps, limiting, limited \in BOOLEAN :
                  MakeOffer(o, q, limiting, limited)
             \/ OfferContextEnds(o) \/ OfferReturns(o) \/ OfferAborts(o)
  BY <1>1, <1>4, <1>5, <1>8, <1>12
<1>13. CASE WorkerStep
  BY <1>1, <1>6, <1>9, <1>13 DEF WorkerStep
<1> QED
  BY <1>10, <1>11, <1>12, <1>13 DEF Next

\* The queues are empty initially.
LEMMA LimitsInit ==
  ASSUME Init
  PROVE  LimitsHold
<1>0. (\A a \in Announcement : ~Queued(a)) /\ offQueue = {}
  BY DEF Init, Queued
<1>1. QueuedAll = {} /\ offQueue = {} /\ (\A i : QueuedAt(i) = {}) /\ (\A i : OffersAt(i) = {})
  BY <1>0 DEF QueuedAll, QueuedAt, OffersAt
<1>2. Cardinality({}) = 0
  BY FS_EmptySet
<1>3. AnnTotal = 0 /\ Cardinality(offQueue) = 0
  BY <1>1, <1>2 DEF AnnTotal, QueuedAll
<1>4. \A i : Cardinality(QueuedAt(i)) = 0 /\ Cardinality(OffersAt(i)) = 0
  BY <1>1, <1>2
<1>5. AnnLimits
  BY <1>3, <1>4, LimitsNatural DEF AnnLimits
<1>6. OffLimits
  <2>1. LimitEntryCount \in Nat /\ QueueMaxSize \in Nat
    BY MatcherAssumption
  <2>2. Cardinality(offQueue) <= QueueMaxSize
    BY <1>3, <2>1
  <2>3. \A i \in OffIP : Cardinality(OffersAt(i)) <= EntryLimit(FALSE)
    BY <1>4, <2>1 DEF EntryLimit
  <2> QED
    BY <2>2, <2>3, Zenon DEF OffLimits
<1> QED
  BY <1>5, <1>6, LimitsParts

\* The routing invariant holds: queues, channels, pending answers and calls fit
\* together whichever of the worker, the callers and the contexts comes first.
THEOREM MatcherRoutingInvariant == Spec => []RoutingInv
<1>1. Init => RoutingInv
  BY RoutingInit
<1>2. RoutingInv /\ [Next]_vars => RoutingInv'
  BY RoutingInductive
<1> QED
  BY <1>1, <1>2, PTL DEF Spec

\* An offer goes to one announcement at most, and what an Offer call returns as
\* an answer is the answer of the proxy that was given the offer.
THEOREM MatcherAnswersRouted == Spec => []AnswersRouted
<1>1. RoutingInv => AnswersRouted
  BY DEF RoutingInv
<1> QED
  BY <1>1, MatcherRoutingInvariant, PTL

\* When a matched announcement aborts, its client has something to return or its
\* deadline is over.
THEOREM MatcherAbortedMatchReported == Spec => []AbortedMatchReported
<1>1. RoutingInv => AbortedMatchReported
  BY DEF RoutingInv
<1> QED
  BY <1>1, MatcherRoutingInvariant, PTL

\* The counters by NAT type and by IP address are exact in every state.
THEOREM MatcherCountsExact == Spec => []CountsExact
<1>1. Init => CountsExact
  BY CountsInit
<1>2. RoutingInv /\ CountsExact /\ [Next]_vars => CountsExact'
  BY CountsInductive
<1> QED
  BY <1>1, <1>2, MatcherRoutingInvariant, PTL DEF Spec

\* Neither queue grows beyond its size, and no IP address has more entries in
\* one than its limit, whatever leaves the queues while calls check the limits.
THEOREM MatcherLimitsHold == Spec => []LimitsHold
<1>1. Init => LimitsHold
  BY LimitsInit
<1>2. RoutingInv /\ CountsExact /\ LimitsHold /\ [Next]_vars => LimitsHold'
  BY LimitsInductive
<1> QED
  BY <1>1, <1>2, MatcherRoutingInvariant, MatcherCountsExact, PTL DEF Spec

\* The type invariant; that a counter never drops below zero is a consequence of
\* its being exact.
THEOREM MatcherTypeCorrect == Spec => []TypeOK
<1>1. RoutingInv /\ CountsExact => TypeOK
  <2> SUFFICES ASSUME RoutingInv, CountsExact
               PROVE  TypeOK
    OBVIOUS
  <2>0. CallTypes /\ NATCountsExact /\ AnnCountsExact /\ OffCountsExact
    BY CountsParts DEF RoutingInv
  <2>1. natCounts \in [QueueKey -> [Traversal -> Nat]]
    <3>1. \A k \in QueueKey, t \in Traversal : natCounts[k][t] \in Nat
      BY <2>0, CountedFinite, FS_CardinalityType DEF NATCountsExact
    <3> QED
      BY <2>0, <3>1 DEF CallTypes
  <2>2. annCount \in [AnnIP -> Nat]
    <3>1. \A i \in AnnIP : annCount[i] \in Nat
      BY <2>0, CountedFinite, FS_CardinalityType DEF AnnCountsExact
    <3> QED
      BY <2>0, <3>1 DEF CallTypes
  <2>3. offCount \in [OffIP -> Nat]
    <3>1. \A i \in OffIP : offCount[i] \in Nat
      BY <2>0, CountedFinite, FS_CardinalityType DEF OffCountsExact
    <3> QED
      BY <2>0, <3>1 DEF CallTypes
  <2> QED
    BY <2>0, <2>1, <2>2, <2>3 DEF CallTypes, TypeOK
<1> QED
  BY <1>1, MatcherRoutingInvariant, MatcherCountsExact, PTL

-----------------------------------------------------------------------------
(* What the search finds.  Each candidate has one place.                    *)

Candidates(q) == {a \in Announcement : Queued(a) /\ KeyOf(annProps[a]) \in MatchingQueues(q)}
PlaceOf(a) == IF annProps[a].priority THEN a ELSE MaxAnnouncements + a

\* The candidates up to place i, and those of them that can be matched.
Seen(q, i) == {a \in Candidates(q) : PlaceOf(a) <= i}
Open(q, i) == {a \in Seen(q, i) : ~ Skipped(q, a)}

\* Each candidate has one place in the iteration.
LEMMA CandidatePlace ==
  ASSUME CallTypes, QueuedWaiting, NEW q, NEW i \in 1 .. 2 * MaxAnnouncements,
         NEW a \in Announcement
  PROVE  IsCandidate(q, Placed(i), i <= MaxAnnouncements) /\ a = Placed(i)
           <=> a \in Candidates(q) /\ PlaceOf(a) = i
<1>0. MaxAnnouncements \in Nat /\ a \in 1 .. MaxAnnouncements
  BY MatcherAssumption DEF Announcement
<1>1. annProps[a].priority \in BOOLEAN
  BY PropsFacts
<1>2. \A k \in QueueKey : a \in queues[k] => k = KeyOf(annProps[a])
  BY DEF QueuedWaiting
<1>3. KeyOf(annProps[a])[2] = annProps[a].priority
  BY DEF KeyOf
<1>4. MatchingQueues(q) \subseteq QueueKey
  BY DEF MatchingQueues
<1>5. IsCandidate(q, a, i <= MaxAnnouncements) <=>
         a \in Candidates(q) /\ ((i <= MaxAnnouncements) <=> annProps[a].priority)
  BY <1>1, <1>2, <1>3, <1>4 DEF IsCandidate, Candidates, Queued
<1>6. IsCandidate(q, Placed(i), i <= MaxAnnouncements) /\ a = Placed(i)
        <=> IsCandidate(q, a, i <= MaxAnnouncements) /\ a = Placed(i)
  BY Zenon
<1>7. CASE annProps[a].priority
  <2>1. PlaceOf(a) = a
    BY <1>7 DEF PlaceOf
  <2>2. a = Placed(i) /\ i <= MaxAnnouncements <=> i = a
    BY <1>0 DEF Placed
  <2>3. IsCandidate(q, a, i <= MaxAnnouncements) <=> a \in Candidates(q) /\ i <= MaxAnnouncements
    BY <1>5, <1>7
  <2> QED
    BY <1>6, <2>1, <2>2, <2>3, Zenon
<1>8. CASE ~ annProps[a].priority
  <2>1. PlaceOf(a) = MaxAnnouncements + a
    BY <1>8 DEF PlaceOf
  <2>2. a = Placed(i) /\ ~ (i <= MaxAnnouncements) <=> i = MaxAnnouncements + a
    BY <1>0 DEF Placed
  <2>3. IsCandidate(q, a, i <= MaxAnnouncements) <=> a \in Candidates(q) /\ ~ (i <= MaxAnnouncements)
    BY <1>5, <1>8
  <2> QED
    BY <1>6, <2>1, <2>2, <2>3, Zenon
<1> QED
  BY <1>7, <1>8

\* The candidates seen grow by the one at each place.
LEMMA SeenSteps ==
  ASSUME CallTypes, QueuedWaiting, NEW q
  PROVE  /\ Seen(q, 0) = {} /\ Seen(q, 2 * MaxAnnouncements) = Candidates(q)
         /\ \A i \in 1 .. 2 * MaxAnnouncements :
              /\ IsCandidate(q, Placed(i), i <= MaxAnnouncements) =>
                   /\ Placed(i) \in Candidates(q) /\ PlaceOf(Placed(i)) = i
                   /\ Seen(q, i) = Seen(q, i - 1) \cup {Placed(i)}
                   /\ Placed(i) \notin Seen(q, i - 1)
              /\ ~ IsCandidate(q, Placed(i), i <= MaxAnnouncements) =>
                   Seen(q, i) = Seen(q, i - 1)
<1>0. MaxAnnouncements \in Nat /\ \A a \in Candidates(q) : a \in Announcement
  BY MatcherAssumption DEF Candidates
<1>1. \A a \in Announcement : a \in 1 .. MaxAnnouncements
  BY DEF Announcement
<1>2. \A a \in Candidates(q) : PlaceOf(a) \in 1 .. 2 * MaxAnnouncements
  BY <1>0, <1>1 DEF PlaceOf
<1>3. Seen(q, 0) = {} /\ Seen(q, 2 * MaxAnnouncements) = Candidates(q)
  BY <1>0, <1>2 DEF Seen
<1>4. ASSUME NEW i \in 1 .. 2 * MaxAnnouncements
      PROVE  /\ IsCandidate(q, Placed(i), i <= MaxAnnouncements) =>
                  /\ Placed(i) \in Candidates(q) /\ PlaceOf(Placed(i)) = i
                  /\ Seen(q, i) = Seen(q, i - 1) \cup {Placed(i)}
                  /\ Placed(i) \notin Seen(q, i - 1)
             /\ ~ IsCandidate(q, Placed(i), i <= MaxAnnouncements) =>
                  Seen(q, i) = Seen(q, i - 1)
  <2>1. \A a \in Announcement :
          IsCandidate(q, Placed(i), i <= MaxAnnouncements) /\ a = Placed(i)
            <=> a \in Candidates(q) /\ PlaceOf(a) = i
    BY CandidatePlace
  <2>2. Placed(i) \in Announcement
    BY PlaceFacts
  <2>3. \A a \in Candidates(q) : PlaceOf(a) <= i <=> PlaceOf(a) <= i - 1 \/ PlaceOf(a) = i
    BY <1>0, <1>2
  <2>4. ~ (i <= i - 1)
    BY <1>0
  <2>5. CASE IsCandidate(q, Placed(i), i <= MaxAnnouncements)
    <3>1. Placed(i) \in Candidates(q) /\ PlaceOf(Placed(i)) = i
      BY <2>1, <2>2, <2>5
    <3>2. \A a \in Candidates(q) : PlaceOf(a) = i <=> a = Placed(i)
      BY <1>0, <2>1, <2>5
    <3> QED
      BY <2>3, <2>4, <2>5, <3>1, <3>2 DEF Seen
  <2>6. CASE ~ IsCandidate(q, Placed(i), i <= MaxAnnouncements)
    <3>1. \A a \in Candidates(q) : PlaceOf(a) # i
      BY <1>0, <2>1, <2>6
    <3> QED
      BY <2>3, <2>6, <3>1 DEF Seen
  <2> QED
    BY <2>5, <2>6
<1> QED
  BY <1>3, <1>4

\* A candidate not seen before leaves one place in the count of the queues.
LEMMA SeenCounts ==
  ASSUME CallTypes, QueuedWaiting, NEW q
  PROVE  /\ \A i : IsFiniteSet(Seen(q, i)) /\ Cardinality(Seen(q, i)) \in Nat
         /\ Cardinality(Seen(q, 0)) = 0
         /\ AnnTotal \in Nat /\ \A i : Cardinality(Seen(q, i)) <= AnnTotal
         /\ \A i \in 1 .. 2 * MaxAnnouncements :
              /\ IsCandidate(q, Placed(i), i <= MaxAnnouncements) =>
                   Cardinality(Seen(q, i)) = Cardinality(Seen(q, i - 1)) + 1
              /\ IsCandidate(q, Placed(i), i <= MaxAnnouncements) /\ Seen(q, i) # Candidates(q) =>
                   Cardinality(Seen(q, i)) < AnnTotal
<1> DEFINE all == {a \in Announcement : Queued(a)}
<1>1. IsFiniteSet(Announcement) /\ all \subseteq Announcement
  BY CallsFinite
<1>2. \A i : Seen(q, i) \subseteq Candidates(q)
  BY DEF Seen
<1>3. Candidates(q) \subseteq all
  BY DEF Candidates
<1>4. IsFiniteSet(all) /\ AnnTotal = Cardinality(all)
  BY <1>1, FS_Subset DEF AnnTotal
<1> HIDE DEF all
<1>5. AnnTotal \in Nat
  BY <1>4, FS_CardinalityType
<1>6. IsFiniteSet(Candidates(q)) /\ Cardinality(Candidates(q)) <= AnnTotal
  BY <1>3, <1>4, FS_Subset
<1>7. \A i : /\ IsFiniteSet(Seen(q, i)) /\ Cardinality(Seen(q, i)) \in Nat
             /\ Cardinality(Seen(q, i)) <= Cardinality(Candidates(q))
             /\ Seen(q, i) # Candidates(q) =>
                  Cardinality(Seen(q, i)) < Cardinality(Candidates(q))
  BY <1>2, <1>6, FS_Subset, FS_CardinalityType
<1>8. Cardinality(Candidates(q)) \in Nat
  BY <1>6, FS_CardinalityType
<1>9. Cardinality(Seen(q, 0)) = 0
  BY SeenSteps, FS_EmptySet
<1>10. ASSUME NEW i \in 1 .. 2 * MaxAnnouncements,
              IsCandidate(q, Placed(i), i <= MaxAnnouncements)
       PROVE  Cardinality(Seen(q, i)) = Cardinality(Seen(q, i - 1)) + 1
  <2>1. Seen(q, i) = Seen(q, i - 1) \cup {Placed(i)} /\ Placed(i) \notin Seen(q, i - 1)
    BY <1>10, SeenSteps
  <2> QED
    BY <1>7, <2>1, FS_AddElement
<1>11. \A i : /\ Cardinality(Seen(q, i)) <= AnnTotal
              /\ Seen(q, i) # Candidates(q) => Cardinality(Seen(q, i)) < AnnTotal
  BY <1>5, <1>6, <1>7, <1>8
<1> QED
  BY <1>5, <1>7, <1>9, <1>10, <1>11

\* While the queues are within MaxProbe the search misses no candidate.
WithinMaxProbe == AnnTotal <= MaxProbe + 2

\* While nothing is chosen no match was passed by.
LEMMA SearchMissesNone ==
  ASSUME CallTypes, QueuedWaiting, WithinMaxProbe, NEW q \in OfferProps,
         NEW i \in 0 .. 2 * MaxAnnouncements
  PROVE  /\ Search(q)[i] \in Loop
         /\ Search(q)[i].probed <= Cardinality(Seen(q, i))
         /\ Search(q)[i].best = {} =>
              /\ ~ Search(q)[i].stop /\ ~ Search(q)[i].pri /\ ~ Search(q)[i].nat
              /\ Open(q, i) = {}
<1> DEFINE n == 2 * MaxAnnouncements
           f == Search(q)
           Good(j) == /\ f[j] \in Loop
                      /\ f[j].probed <= Cardinality(Seen(q, j))
                      /\ f[j].best = {} => /\ ~ f[j].stop /\ ~ f[j].pri /\ ~ f[j].nat
                                           /\ Open(q, j) = {}
           S == {j \in 0 .. n : Good(j)}
<1>0. n \in Nat /\ 0 \in 0 .. n
  BY MatcherAssumption
<1>1. f[0] = NoneProbed /\ \A j \in 1 .. n : f[j] = ProbePlace(q, f[j - 1], j)
  BY SearchSteps
<1> HIDE DEF f, n
<1>2. 0 \in S
  <2>1. Open(q, 0) = {} /\ Cardinality(Seen(q, 0)) = 0
    BY SeenSteps, SeenCounts DEF Open
  <2> QED
    BY <1>0, <1>1, <2>1, NoneProbedFacts
<1>3. ASSUME NEW j \in 0 .. n - 1, j \in S
      PROVE  j + 1 \in S
  <2> DEFINE k == j + 1
             a == Placed(k)
             s == f[j]
             r == f[k]
  <2>1. k \in 1 .. n /\ k \in 0 .. n /\ k - 1 = j
    BY <1>0, <1>3
  <2>2. a \in Announcement
    BY <2>1, PlaceFacts DEF n
  <2>3. r = ProbePlace(q, s, k)
    BY <1>1, <2>1
  <2>4. Good(j)
    BY <1>3
  <2>5. /\ Cardinality(Seen(q, j)) \in Nat /\ Cardinality(Seen(q, k)) \in Nat
        /\ Cardinality(Seen(q, k)) <= AnnTotal /\ AnnTotal \in Nat
    BY SeenCounts
  <2>6. s \in Loop /\ s.probed \in Nat
    BY <2>4 DEF Loop
  <2> HIDE DEF k, a, s, r
  <2>7. CASE IsCandidate(q, a, k <= MaxAnnouncements)
    <3>1. /\ Seen(q, k) = Seen(q, j) \cup {a}
          /\ Cardinality(Seen(q, k)) = Cardinality(Seen(q, j)) + 1
      BY <2>1, <2>7, SeenSteps, SeenCounts DEF a, n
    <3>2. PICK e : e = ExistsPreferredMatch(q)
      OBVIOUS
    <3>3. r = Probe(q, e, s, a)
      BY <2>3, <2>7, <3>2, ProbePlaceIs DEF a
    <3>4. e \in BOOLEAN
      BY <3>2 DEF ExistsPreferredMatch
    <3>5. annProps[a].priority \in BOOLEAN /\ MatchNAT(annProps[a], q) \in BOOLEAN
      BY <2>2, PropsFacts, MatchNATBoolean
    <3>6. ProbeResult(q, e, s, a, r)
      BY <2>2, <2>6, <3>3, <3>4, <3>5, ProbeFacts
    <3>7. r \in Loop /\ (r.probed = s.probed \/ r.probed = s.probed + 1)
      BY <3>6 DEF ProbeResult
    <3>8. s.probed <= Cardinality(Seen(q, j))
      BY <2>4 DEF s
    <3>9. r.probed <= Cardinality(Seen(q, k))
      BY <2>5, <2>6, <3>1, <3>7, <3>8
    <3>10. ~ (s.probed > MaxProbe + 1)
      BY <2>5, <2>6, <3>1, <3>8, MatcherAssumption DEF WithinMaxProbe
    <3>11. ASSUME r.best = {}
           PROVE  ~ r.stop /\ ~ r.pri /\ ~ r.nat /\ Open(q, k) = {}
      <4>1. s.best = {}
        BY <3>6, <3>11 DEF ProbeResult
      <4>2. ~ s.stop /\ ~ s.pri /\ ~ s.nat /\ Open(q, j) = {}
        BY <2>4, <4>1 DEF s
      <4>3. ~ Passes(s, annProps[a])
        BY <3>10, <4>2 DEF Passes
      <4>4. Skipped(q, a)
        BY <3>6, <3>11, <4>1, <4>3 DEF ProbeResult, Better
      <4>5. ~ r.stop /\ ~ r.pri /\ ~ r.nat
        BY <3>6, <4>2, <4>3, <4>4 DEF ProbeResult
      <4>6. Open(q, k) = {}
        BY <3>1, <4>2, <4>4 DEF Open
      <4> QED
        BY <4>5, <4>6
    <3>12. Good(k)
      BY <3>7, <3>9, <3>11 DEF r
    <3> QED
      BY <2>1, <3>12 DEF k
  <2>8. CASE ~ IsCandidate(q, a, k <= MaxAnnouncements)
    <3>1. r = s
      BY <2>3, <2>8, ProbePlaceIs DEF a
    <3>2. Seen(q, k) = Seen(q, j)
      BY <2>1, <2>8, SeenSteps DEF a, n
    <3>3. Open(q, k) = Open(q, j)
      BY <3>2 DEF Open
    <3>4. Good(k)
      BY <2>4, <3>1, <3>2, <3>3 DEF r, s
    <3> QED
      BY <2>1, <3>4 DEF k
  <2> QED
    BY <2>7, <2>8
<1>4. i \in S
  <2> HIDE DEF S
  <2>1. 0 .. n \subseteq S
    BY <1>0, <1>2, <1>3, Induction
  <2> QED
    BY <2>1 DEF n
<1> QED
  BY <1>4 DEF f

\* BestMatch's choice among the candidates up to place i.
Priorities(q, i) == {a \in Open(q, i) : annProps[a].priority}
Class(q, i) == IF Priorities(q, i) # {} THEN Priorities(q, i) ELSE Open(q, i)
Preferred(q, i) == {a \in Class(q, i) : ExistsPreferredMatch(q) /\ MatchNAT(annProps[a], q)}
Choice(q, i) == IF Preferred(q, i) # {} THEN Preferred(q, i) ELSE Class(q, i)
Oldest(X) == {a \in X : \A b \in X : a <= b}

\* The oldest of a set that grows by younger members.
LEMMA OldestFacts ==
  /\ Oldest({}) = {}
  /\ \A a \in Nat : Oldest({a}) = {a}
  /\ \A X \in SUBSET Nat, a \in Nat :
       X # {} /\ (\A b \in X : b < a) => Oldest(X \cup {a}) = Oldest(X)
<1>1. Oldest({}) = {} /\ \A a \in Nat : Oldest({a}) = {a}
  BY DEF Oldest
<1>2. ASSUME NEW X \in SUBSET Nat, NEW a \in Nat, X # {}, \A b \in X : b < a
      PROVE  Oldest(X \cup {a}) = Oldest(X)
  <2>1. PICK c \in X : TRUE
    BY <1>2
  <2>2. a \notin Oldest(X \cup {a})
    <3>1. c < a /\ c \in Nat
      BY <1>2, <2>1
    <3>2. ~ (a <= c)
      BY <3>1
    <3> QED
      BY <2>1, <3>2 DEF Oldest
  <2>3. \A b \in X : b <= a
    BY <1>2
  <2>4. \A b \in X : b \in Oldest(X \cup {a}) <=> b \in Oldest(X)
    BY <2>3 DEF Oldest
  <2>5. Oldest(X \cup {a}) \subseteq X \cup {a} /\ Oldest(X) \subseteq X
    BY DEF Oldest
  <2> QED
    BY <2>2, <2>4, <2>5
<1> QED
  BY <1>1, <1>2

\* What a candidate that can be matched adds to the class.
LEMMA ClassStep ==
  ASSUME CallTypes, QueuedWaiting, NEW q \in OfferProps,
         NEW i \in 1 .. 2 * MaxAnnouncements, NEW a, a = Placed(i), NEW j, j = i - 1,
         IsCandidate(q, a, i <= MaxAnnouncements), ~ Skipped(q, a)
  PROVE  /\ Open(q, i) = Open(q, j) \cup {a}
         /\ a \in Announcement /\ (annProps[a].priority <=> i <= MaxAnnouncements)
         /\ Class(q, j) \subseteq Announcement
         /\ Open(q, j) = {} => /\ Class(q, i) = {a}
                               /\ (Priorities(q, i) # {} <=> annProps[a].priority)
         /\ ~ annProps[a].priority /\ Priorities(q, j) # {} =>
              Class(q, i) = Class(q, j) /\ Priorities(q, i) = Priorities(q, j)
         /\ Open(q, j) # {} /\ (annProps[a].priority \/ Priorities(q, j) = {}) =>
              /\ Class(q, i) = Class(q, j) \cup {a} /\ Class(q, j) # {}
              /\ \A b \in Class(q, j) : b < a
              /\ (Priorities(q, i) # {} <=> Priorities(q, j) # {})
<1>0. /\ MaxAnnouncements \in Nat /\ i \in Nat /\ j \in Nat
      /\ \A b \in Announcement : b \in 1 .. MaxAnnouncements
      /\ a \in Announcement
  BY MatcherAssumption, PlaceFacts DEF Announcement
<1>1. /\ a \in Candidates(q) /\ PlaceOf(a) = i
      /\ Seen(q, i) = Seen(q, j) \cup {a}
  BY SeenSteps
<1>2. Open(q, i) = Open(q, j) \cup {a}
  BY <1>1 DEF Open
<1>3. \A b \in Open(q, j) : /\ b \in Announcement /\ PlaceOf(b) <= j
                            /\ annProps[b].priority \in BOOLEAN
  BY PropsFacts DEF Open, Seen, Candidates
<1>4. annProps[a].priority \in BOOLEAN
  BY <1>0, PropsFacts
<1>5. annProps[a].priority <=> i <= MaxAnnouncements
  BY <1>0, <1>1, <1>4 DEF PlaceOf
<1>6. ASSUME NEW b \in Open(q, j)
      PROVE  /\ annProps[a].priority => annProps[b].priority
             /\ (annProps[b].priority <=> annProps[a].priority) => b < a
  <2>1. /\ b \in 1 .. MaxAnnouncements /\ a \in 1 .. MaxAnnouncements /\ PlaceOf(b) < i
        /\ annProps[b].priority \in BOOLEAN
    BY <1>0, <1>3, <1>6 DEF PlaceOf
  <2>2. PlaceOf(b) < PlaceOf(a)
    BY <1>1, <2>1
  <2> QED
    BY <1>0, <1>4, <2>1, <2>2 DEF PlaceOf
<1>7. Priorities(q, i) = IF annProps[a].priority THEN Priorities(q, j) \cup {a}
                         ELSE Priorities(q, j)
  BY <1>2, <1>3, <1>4 DEF Priorities
<1>8. Class(q, j) \subseteq Open(q, j)
  BY DEF Class, Priorities
<1>9. ASSUME Open(q, j) = {}
      PROVE  Class(q, i) = {a} /\ (Priorities(q, i) # {} <=> annProps[a].priority)
  <2>1. Priorities(q, j) = {}
    BY <1>9 DEF Priorities
  <2> QED
    BY <1>2, <1>4, <1>7, <1>9, <2>1 DEF Class
<1>10. ASSUME ~ annProps[a].priority, Priorities(q, j) # {}
       PROVE  Class(q, i) = Class(q, j) /\ Priorities(q, i) = Priorities(q, j)
  BY <1>7, <1>10 DEF Class
<1>11. ASSUME Open(q, j) # {}, annProps[a].priority
       PROVE  /\ Class(q, i) = Class(q, j) \cup {a} /\ Class(q, j) # {}
              /\ \A b \in Class(q, j) : b < a
              /\ (Priorities(q, i) # {} <=> Priorities(q, j) # {})
  <2>1. Priorities(q, j) = Open(q, j)
    BY <1>6, <1>11 DEF Priorities
  <2>2. Class(q, j) = Open(q, j) /\ Class(q, i) = Open(q, j) \cup {a}
    BY <1>7, <1>11, <2>1 DEF Class
  <2>3. \A b \in Open(q, j) : b < a
    BY <1>6, <1>11
  <2> QED
    BY <1>7, <1>11, <2>1, <2>2, <2>3
<1>12. ASSUME Open(q, j) # {}, ~ annProps[a].priority, Priorities(q, j) = {}
       PROVE  /\ Class(q, i) = Class(q, j) \cup {a} /\ Class(q, j) # {}
              /\ \A b \in Class(q, j) : b < a
              /\ (Priorities(q, i) # {} <=> Priorities(q, j) # {})
  <2>1. Priorities(q, i) = {}
    BY <1>7, <1>12
  <2>2. Class(q, j) = Open(q, j) /\ Class(q, i) = Open(q, j) \cup {a}
    BY <1>2, <1>12, <2>1 DEF Class
  <2>3. \A b \in Open(q, j) : ~ annProps[b].priority
    BY <1>12 DEF Priorities
  <2>4. \A b \in Open(q, j) : b < a
    BY <1>6, <1>12, <2>3
  <2> QED
    BY <1>12, <2>1, <2>2, <2>4
<1>13. Class(q, j) \subseteq Announcement
  BY <1>3, <1>8
<1>14. ASSUME Open(q, j) # {}, annProps[a].priority \/ Priorities(q, j) = {}
       PROVE  /\ Class(q, i) = Class(q, j) \cup {a} /\ Class(q, j) # {}
              /\ \A b \in Class(q, j) : b < a
              /\ (Priorities(q, i) # {} <=> Priorities(q, j) # {})
  <2>1. CASE annProps[a].priority
    BY <1>11, <1>14, <2>1
  <2>2. CASE ~ annProps[a].priority
    BY <1>12, <1>14, <2>2
  <2> QED
    BY <2>1, <2>2
<1> QED
  BY <1>0, <1>2, <1>5, <1>9, <1>10, <1>13, <1>14

\* While the queues are within both limits the search finds BestMatch's choice.
WithinPreferredProbe == AnnTotal <= MaxPreferredNATProbe + 1

\* The loop invariant: what the search has chosen is the choice so far, and it
\* has stopped only when the candidates to come do not change the choice.
ChoiceSoFar(q, s, j) ==
    /\ s.best = Oldest(Choice(q, j))
    /\ s.pri <=> Priorities(q, j) # {}
    /\ ExistsPreferredMatch(q) => (s.nat <=> Preferred(q, j) # {})
    /\ Open(q, j) # {} /\ ~ ExistsPreferredMatch(q) => s.stop
    /\ s.stop => \/ ~ ExistsPreferredMatch(q) \/ s.nat
                 \/ s.pri /\ j >= MaxAnnouncements
                 \/ Seen(q, j) = Candidates(q)

\* A place without a candidate changes nothing.
LEMMA SameChoice ==
  ASSUME NEW q, NEW s, NEW j \in Nat, ChoiceSoFar(q, s, j), NEW i, i = j + 1,
         Seen(q, i) = Seen(q, j),
         NEW r, r.best = s.best, r.pri = s.pri, r.nat = s.nat, r.stop = s.stop
  PROVE  ChoiceSoFar(q, r, i)
<1>1. Open(q, i) = Open(q, j)
  BY DEF Open
<1>2. Priorities(q, i) = Priorities(q, j)
  BY <1>1 DEF Priorities
<1>3. Class(q, i) = Class(q, j)
  BY <1>1, <1>2 DEF Class
<1>4. Preferred(q, i) = Preferred(q, j)
  BY <1>3 DEF Preferred
<1>5. Choice(q, i) = Choice(q, j)
  BY <1>3, <1>4 DEF Choice
<1>6. j >= MaxAnnouncements => i >= MaxAnnouncements
  BY MatcherAssumption
<1> QED
  BY <1>1, <1>2, <1>4, <1>5, <1>6 DEF ChoiceSoFar

\* The choice depends on the candidates that can be matched only.
LEMMA ChoiceOfClass ==
  ASSUME NEW q, NEW i, NEW j
  PROVE  /\ Open(q, i) = Open(q, j) =>
              /\ Priorities(q, i) = Priorities(q, j) /\ Class(q, i) = Class(q, j)
         /\ Class(q, i) = Class(q, j) =>
              Preferred(q, i) = Preferred(q, j) /\ Choice(q, i) = Choice(q, j)
         /\ \A a : Class(q, i) = Class(q, j) \cup {a} =>
              Preferred(q, i) = IF ExistsPreferredMatch(q) /\ MatchNAT(annProps[a], q)
                                THEN Preferred(q, j) \cup {a} ELSE Preferred(q, j)
         /\ Open(q, i) = {} => Choice(q, i) = {}
         /\ \A a : Class(q, i) = {a} =>
              /\ Choice(q, i) = {a}
              /\ Preferred(q, i) # {} <=> ExistsPreferredMatch(q) /\ MatchNAT(annProps[a], q)
<1>1. Open(q, i) = Open(q, j) =>
        Priorities(q, i) = Priorities(q, j) /\ Class(q, i) = Class(q, j)
  BY DEF Priorities, Class
<1>2. Class(q, i) = Class(q, j) =>
        Preferred(q, i) = Preferred(q, j) /\ Choice(q, i) = Choice(q, j)
  BY DEF Preferred, Choice
<1>3. ASSUME NEW a, Class(q, i) = Class(q, j) \cup {a}
      PROVE  Preferred(q, i) = IF ExistsPreferredMatch(q) /\ MatchNAT(annProps[a], q)
                               THEN Preferred(q, j) \cup {a} ELSE Preferred(q, j)
  BY <1>3 DEF Preferred
<1>4. Open(q, i) = {} => Choice(q, i) = {}
  BY DEF Priorities, Class, Preferred, Choice
<1>5. ASSUME NEW a, Class(q, i) = {a}
      PROVE  /\ Choice(q, i) = {a}
             /\ Preferred(q, i) # {} <=> ExistsPreferredMatch(q) /\ MatchNAT(annProps[a], q)
  BY <1>5 DEF Preferred, Choice
<1> QED
  BY <1>1, <1>2, <1>3, <1>4, <1>5

\* An iteration chooses what is best among the candidates seen.
LEMMA ChoiceStep ==
  ASSUME CallTypes, QueuedWaiting, WithinMaxProbe, WithinPreferredProbe, NEW q \in OfferProps,
         NEW i \in 1 .. 2 * MaxAnnouncements, NEW a, a = Placed(i), NEW j, j = i - 1,
         IsCandidate(q, a, i <= MaxAnnouncements),
         NEW s \in Loop, s.probed <= Cardinality(Seen(q, j)),
         s.best = {} => ~ s.stop /\ ~ s.pri /\ ~ s.nat /\ Open(q, j) = {},
         ChoiceSoFar(q, s, j),
         NEW r, ProbeResult(q, ExistsPreferredMatch(q), s, a, r)
  PROVE  ChoiceSoFar(q, r, i)
<1> DEFINE E == ExistsPreferredMatch(q)
           N == MatchNAT(annProps[a], q)
<1>0. /\ MaxAnnouncements \in Nat /\ MaxProbe \in Nat /\ MaxPreferredNATProbe \in Nat
      /\ i \in Nat /\ j \in Nat /\ a \in Announcement
  BY MatcherAssumption, PlaceFacts
<1>1. /\ E \in BOOLEAN /\ N \in BOOLEAN /\ annProps[a].priority \in BOOLEAN
      /\ annProps[a] \in AnnouncementProps
  BY <1>0, PropsFacts, MatchNATBoolean DEF ExistsPreferredMatch
<1>2. /\ s.stop \in BOOLEAN /\ s.pri \in BOOLEAN /\ s.nat \in BOOLEAN /\ s.probed \in Nat
      /\ r.stop \in BOOLEAN /\ r.pri \in BOOLEAN /\ r.nat \in BOOLEAN /\ r.at \in Nat
  <2>1. r \in Loop
    BY DEF ProbeResult
  <2> QED
    BY <2>1 DEF Loop
<1>3. /\ a \in Candidates(q) /\ PlaceOf(a) = i
      /\ Seen(q, i) = Seen(q, j) \cup {a} /\ a \notin Seen(q, j)
  BY SeenSteps
<1>4. annProps[a].priority <=> i <= MaxAnnouncements
  <2>1. a \in 1 .. MaxAnnouncements
    BY <1>0 DEF Announcement
  <2> QED
    BY <1>0, <1>1, <1>3, <2>1 DEF PlaceOf
<1>5. /\ Cardinality(Seen(q, j)) \in Nat /\ Cardinality(Seen(q, i)) \in Nat /\ AnnTotal \in Nat
      /\ Cardinality(Seen(q, i)) = Cardinality(Seen(q, j)) + 1
      /\ Cardinality(Seen(q, i)) <= AnnTotal
      /\ Seen(q, i) # Candidates(q) => Cardinality(Seen(q, i)) < AnnTotal
  BY SeenCounts
<1>6. ~ (s.probed > MaxProbe + 1)
  BY <1>0, <1>2, <1>5 DEF WithinMaxProbe
<1>7. Passes(s, annProps[a]) <=> s.stop \/ (~ annProps[a].priority /\ s.pri)
  BY <1>1, <1>2, <1>6 DEF Passes
<1>8. s.probed - r.at >= MaxPreferredNATProbe => Seen(q, i) = Candidates(q)
  BY <1>0, <1>2, <1>5 DEF WithinPreferredProbe
<1>9. s.stop => ~ E \/ s.nat \/ (s.pri /\ ~ annProps[a].priority)
  <2>1. Seen(q, j) # Candidates(q)
    BY <1>3
  <2>2. j >= MaxAnnouncements => ~ annProps[a].priority
    BY <1>0, <1>4
  <2> QED
    BY <2>1, <2>2 DEF ChoiceSoFar
<1>10. ~ annProps[a].priority => i >= MaxAnnouncements
  BY <1>0, <1>4
<1>11. /\ s.best = Oldest(Choice(q, j))
       /\ s.pri <=> Priorities(q, j) # {}
       /\ E => (s.nat <=> Preferred(q, j) # {})
       /\ Open(q, j) # {} /\ ~ E => s.stop
  BY DEF ChoiceSoFar
<1> HIDE DEF E, N
\* the search takes nothing, and the choice does not change
<1>12. ASSUME Choice(q, i) = Choice(q, j), Preferred(q, i) = Preferred(q, j),
              Priorities(q, i) = Priorities(q, j), Open(q, j) = {} => Open(q, i) = {},
              r.best = s.best, r.pri = s.pri, r.nat = s.nat,
              Passes(s, annProps[a]) => r.stop, ~ Passes(s, annProps[a]) => r.stop = s.stop
       PROVE  ChoiceSoFar(q, r, i)
  <2>1. r.stop => ~ E \/ r.nat \/ (r.pri /\ i >= MaxAnnouncements)
    BY <1>2, <1>7, <1>9, <1>10, <1>12
  <2>2. Open(q, i) # {} /\ ~ E => r.stop
    BY <1>7, <1>11, <1>12
  <2> QED
    BY <1>11, <1>12, <2>1, <2>2 DEF ChoiceSoFar, E
<1>13. CASE Skipped(q, a)
  <2>1. Open(q, i) = Open(q, j)
    BY <1>3, <1>13 DEF Open
  <2>2. /\ r.best = s.best /\ r.pri = s.pri /\ r.nat = s.nat
        /\ Passes(s, annProps[a]) => r.stop
        /\ ~ Passes(s, annProps[a]) => r.stop = s.stop
    BY <1>13 DEF ProbeResult
  <2>3. /\ Priorities(q, i) = Priorities(q, j) /\ Preferred(q, i) = Preferred(q, j)
        /\ Choice(q, i) = Choice(q, j)
    BY <2>1, ChoiceOfClass
  <2> QED
    BY <1>12, <2>1, <2>2, <2>3
<1>14. CASE ~ Skipped(q, a) /\ Open(q, j) = {}
  <2>1. s.best = {}
    <3>1. Choice(q, j) = {}
      BY <1>14, ChoiceOfClass
    <3> QED
      BY <1>11, <3>1, OldestFacts
  <2>2. ~ Passes(s, annProps[a]) /\ Better(q, s, a)
    BY <1>7, <2>1 DEF Better
  <2>3. /\ r.best = {a} /\ r.pri = annProps[a].priority /\ r.nat = N
        /\ r.stop <=> r.nat \/ ~ E \/ s.probed - r.at >= MaxPreferredNATProbe
    BY <1>14, <2>2 DEF ProbeResult, E, N
  <2>4. Class(q, i) = {a} /\ (Priorities(q, i) # {} <=> annProps[a].priority)
    BY <1>14, ClassStep
  <2>5. Choice(q, i) = {a} /\ (Preferred(q, i) # {} <=> E /\ N)
    BY <2>4, ChoiceOfClass DEF E, N
  <2>6. Oldest({a}) = {a}
    BY <1>0, OldestFacts DEF Announcement
  <2>7. r.best = Oldest(Choice(q, i)) /\ (r.pri <=> Priorities(q, i) # {})
    BY <2>3, <2>4, <2>5, <2>6
  <2>8. E => (r.nat <=> Preferred(q, i) # {})
    BY <2>3, <2>5
  <2>9. /\ ~ E => r.stop
        /\ r.stop => ~ E \/ r.nat \/ Seen(q, i) = Candidates(q)
    BY <1>8, <2>3
  <2> QED
    BY <2>7, <2>8, <2>9 DEF ChoiceSoFar, E
<1>15. CASE ~ Skipped(q, a) /\ Open(q, j) # {} /\ ~ annProps[a].priority /\ Priorities(q, j) # {}
  <2>1. Class(q, i) = Class(q, j) /\ Priorities(q, i) = Priorities(q, j)
    BY <1>15, ClassStep
  <2>2. Preferred(q, i) = Preferred(q, j) /\ Choice(q, i) = Choice(q, j)
    BY <2>1, ChoiceOfClass
  <2>3. Passes(s, annProps[a])
    BY <1>7, <1>11, <1>15
  <2>4. r.best = s.best /\ r.pri = s.pri /\ r.nat = s.nat /\ r.stop
    BY <2>3 DEF ProbeResult
  <2> QED
    BY <1>12, <1>15, <2>1, <2>2, <2>3, <2>4
<1>16. CASE /\ ~ Skipped(q, a) /\ Open(q, j) # {}
            /\ annProps[a].priority \/ Priorities(q, j) = {}
  <2>1. /\ Class(q, i) = Class(q, j) \cup {a} /\ Class(q, j) # {}
        /\ Class(q, j) \subseteq Announcement
        /\ \A b \in Class(q, j) : b < a
        /\ (Priorities(q, i) # {} <=> Priorities(q, j) # {})
        /\ Open(q, i) = Open(q, j) \cup {a}
    BY <1>16, ClassStep
  <2>2. Preferred(q, i) = IF E /\ N THEN Preferred(q, j) \cup {a} ELSE Preferred(q, j)
    BY <2>1, ChoiceOfClass DEF E, N
  <2>3. Passes(s, annProps[a]) <=> s.stop
    BY <1>7, <1>11, <1>16
  <2>4. \A X \in SUBSET Class(q, j) : X # {} => Oldest(X \cup {a}) = Oldest(X)
    <3>1. a \in Nat /\ \A X \in SUBSET Class(q, j) : X \in SUBSET Nat
      BY <1>0, <2>1 DEF Announcement
    <3> QED
      BY <2>1, <3>1, OldestFacts
  <2>5. Preferred(q, j) \subseteq Class(q, j)
    BY DEF Preferred
  \* the choice of old and new candidates, when the old ones decide
  <2>6. ASSUME Preferred(q, j) # {} \/ Preferred(q, i) = {}
        PROVE  /\ Oldest(Choice(q, i)) = Oldest(Choice(q, j))
               /\ Preferred(q, i) # {} <=> Preferred(q, j) # {}
    <3>1. CASE Preferred(q, j) # {}
      <4>1. Choice(q, j) = Preferred(q, j)
        BY <3>1 DEF Choice
      <4>2. Preferred(q, i) # {} /\ Choice(q, i) = Preferred(q, i)
        BY <2>2, <3>1 DEF Choice
      <4>3. Preferred(q, i) = Preferred(q, j) \cup {a} \/ Preferred(q, i) = Preferred(q, j)
        BY <2>2
      <4> QED
        BY <2>4, <2>5, <3>1, <4>1, <4>2, <4>3
    <3>2. CASE Preferred(q, i) = {} /\ Preferred(q, j) = {}
      <4>1. Choice(q, j) = Class(q, j) /\ Choice(q, i) = Class(q, j) \cup {a}
        BY <2>1, <3>2 DEF Choice
      <4> QED
        BY <2>1, <2>4, <3>2, <4>1
    <3> QED
      BY <2>6, <3>1, <3>2
  <2>7. CASE s.stop
    <3>1. r.best = s.best /\ r.pri = s.pri /\ r.nat = s.nat /\ r.stop
      BY <2>3, <2>7 DEF ProbeResult
    <3>2. ~ E \/ s.nat
      BY <1>9, <1>11, <1>16, <2>7
    <3>3. ~ E => Preferred(q, i) = {}
      BY DEF Preferred, E
    <3>4. Preferred(q, j) # {} \/ Preferred(q, i) = {}
      BY <1>11, <3>2, <3>3
    <3> QED
      BY <1>11, <2>1, <2>6, <3>1, <3>2, <3>4 DEF ChoiceSoFar, E
  <2>8. CASE ~ s.stop
    <3>1. E /\ ~ Passes(s, annProps[a])
      BY <1>1, <1>11, <1>16, <2>3, <2>8
    <3>2. Better(q, s, a) <=> ~ s.nat /\ N
      <4>1. s.best # {}
        BY <1>16
      <4> QED
        BY <4>1 DEF Better, N
    <3>3. r.stop => r.nat \/ Seen(q, i) = Candidates(q)
      <4>1. r.stop <=> r.nat \/ ~ E \/ s.probed - r.at >= MaxPreferredNATProbe
        BY <1>16, <3>1 DEF ProbeResult, E
      <4> QED
        BY <1>8, <3>1, <4>1
    <3>4. CASE ~ s.nat /\ N
      <4>1. r.best = {a} /\ r.pri = annProps[a].priority /\ r.nat = N
        BY <1>16, <3>1, <3>2, <3>4 DEF ProbeResult, N
      <4>2. Preferred(q, i) = {a}
        BY <1>11, <2>2, <3>1, <3>4
      <4>3. Choice(q, i) = {a}
        BY <4>2 DEF Choice
      <4>4. r.best = Oldest(Choice(q, i))
        BY <1>0, <4>1, <4>3, OldestFacts DEF Announcement
      <4>5. r.pri <=> Priorities(q, i) # {}
        <5>1. CASE annProps[a].priority
          <6>1. a \in Priorities(q, i)
            BY <2>1, <5>1 DEF Priorities
          <6> QED
            BY <4>1, <5>1, <6>1
        <5>2. CASE ~ annProps[a].priority
          BY <1>16, <2>1, <4>1, <5>2
        <5> QED
          BY <5>1, <5>2
      <4>6. r.nat <=> Preferred(q, i) # {}
        BY <3>4, <4>1, <4>2
      <4> QED
        BY <3>1, <3>3, <4>4, <4>5, <4>6 DEF ChoiceSoFar, E
    <3>5. CASE ~ (~ s.nat /\ N)
      <4>1. r.best = s.best /\ r.pri = s.pri /\ r.nat = s.nat
        BY <1>16, <3>1, <3>2, <3>5 DEF ProbeResult
      <4>2. Preferred(q, j) # {} \/ Preferred(q, i) = {}
        BY <1>2, <1>11, <2>2, <3>1, <3>5
      <4> QED
        BY <1>11, <2>1, <2>6, <3>1, <3>3, <4>1, <4>2 DEF ChoiceSoFar, E
    <3> QED
      BY <3>4, <3>5
  <2> QED
    BY <2>7, <2>8
<1> QED
  BY <1>1, <1>13, <1>14, <1>15, <1>16

\* So the search chooses what is best among all of them.
LEMMA SearchChooses ==
  ASSUME CallTypes, QueuedWaiting, WithinMaxProbe, WithinPreferredProbe, NEW q \in OfferProps
  PROVE  ChoiceSoFar(q, MatchOffer(q), 2 * MaxAnnouncements)
<1> DEFINE n == 2 * MaxAnnouncements
           f == Search(q)
           S == {j \in 0 .. n : ChoiceSoFar(q, f[j], j)}
<1>0. n \in Nat /\ 0 \in 0 .. n /\ MaxAnnouncements \in Nat
  BY MatcherAssumption
<1>1. f[0] = NoneProbed /\ \A j \in 1 .. n : f[j] = ProbePlace(q, f[j - 1], j)
  BY SearchSteps
<1>2. \A j \in 0 .. n :
        /\ f[j] \in Loop /\ f[j].probed <= Cardinality(Seen(q, j))
        /\ f[j].best = {} => ~ f[j].stop /\ ~ f[j].pri /\ ~ f[j].nat /\ Open(q, j) = {}
  BY SearchMissesNone
<1>3. MatchOffer(q) = f[n]
  BY DEF MatchOffer
<1> HIDE DEF f, n
<1>4. 0 \in S
  <2>1. Open(q, 0) = {}
    BY SeenSteps DEF Open
  <2>2. /\ Priorities(q, 0) = {} /\ Preferred(q, 0) = {} /\ Choice(q, 0) = {}
    BY <2>1 DEF Priorities, Class, Preferred, Choice
  <2>3. Oldest(Choice(q, 0)) = {}
    BY <2>2, OldestFacts
  <2>4. ChoiceSoFar(q, NoneProbed, 0)
    BY <2>1, <2>2, <2>3, NoneProbedFacts DEF ChoiceSoFar
  <2> QED
    BY <1>0, <1>1, <2>4
<1>5. ASSUME NEW j \in 0 .. n - 1, j \in S
      PROVE  j + 1 \in S
  <2>1. PICK k : k = j + 1
    OBVIOUS
  <2>2. k \in 1 .. n /\ k \in 0 .. n /\ k - 1 = j /\ j \in 0 .. n /\ j \in Nat
    BY <1>0, <1>5, <2>1
  <2>3. f[k] = ProbePlace(q, f[j], k)
    BY <1>1, <2>2
  <2>4. ChoiceSoFar(q, f[j], j)
    BY <1>5
  <2>5. PICK a : a = Placed(k)
    OBVIOUS
  <2>6. a \in Announcement
    BY <2>2, <2>5, PlaceFacts DEF n
  <2>7. CASE IsCandidate(q, a, k <= MaxAnnouncements)
    <3>1. PICK e : e = ExistsPreferredMatch(q)
      OBVIOUS
    <3>2. f[k] = Probe(q, e, f[j], a)
      BY <2>3, <2>5, <2>7, <3>1, ProbePlaceIs
    <3>3. e \in BOOLEAN
      BY <3>1 DEF ExistsPreferredMatch
    <3>4. annProps[a].priority \in BOOLEAN /\ MatchNAT(annProps[a], q) \in BOOLEAN
      BY <2>6, PropsFacts, MatchNATBoolean
    <3>5. ProbeResult(q, e, f[j], a, f[k])
      BY <1>2, <2>2, <2>6, <3>2, <3>3, <3>4, ProbeFacts
    <3>6. ChoiceSoFar(q, f[k], k)
      BY <1>2, <2>2, <2>4, <2>5, <2>7, <3>1, <3>5, ChoiceStep DEF n
    <3> QED
      BY <2>1, <2>2, <3>6
  <2>8. CASE ~ IsCandidate(q, a, k <= MaxAnnouncements)
    <3>1. f[k] = f[j]
      BY <2>3, <2>5, <2>8, ProbePlaceIs
    <3>2. Seen(q, k) = Seen(q, j)
      BY <2>2, <2>5, <2>8, SeenSteps DEF n
    <3>3. ChoiceSoFar(q, f[k], k)
      BY <2>1, <2>2, <2>4, <3>1, <3>2, SameChoice
    <3> QED
      BY <2>1, <2>2, <3>3
  <2> QED
    BY <2>7, <2>8
<1>6. n \in S
  <2> HIDE DEF S
  <2>1. 0 .. n \subseteq S
    BY <1>0, <1>4, <1>5, Induction
  <2> QED
    BY <1>0, <2>1
<1> QED
  BY <1>3, <1>6 DEF n

\* The candidates that can be matched are the Matchable announcements.
LEMMA OpenMatchable ==
  ASSUME CallTypes, QueuedWaiting, NEW o \in offQueue, offCtx[o] = "ample"
  PROVE  Open(offProps[o], 2 * MaxAnnouncements) = {a \in Announcement : Matchable(a, o)}
<1>1. Seen(offProps[o], 2 * MaxAnnouncements) = Candidates(offProps[o])
  BY SeenSteps
<1>2. \A a \in Announcement : a \in Candidates(offProps[o]) <=>
        Queued(a) /\ KeyOf(annProps[a]) \in MatchingQueues(offProps[o])
  BY DEF Candidates
<1>3. \A a \in Announcement : Matchable(a, o) <=>
        a \in Candidates(offProps[o]) /\ ~ Skipped(offProps[o], a)
  BY <1>2 DEF Matchable, Skipped
<1>4. Candidates(offProps[o]) \subseteq Announcement
  BY DEF Candidates
<1> QED
  BY <1>1, <1>3, <1>4 DEF Open

\* And that is BestMatch.
LEMMA SearchIsBest ==
  ASSUME CallTypes, QueuedWaiting, WithinMaxProbe, WithinPreferredProbe
  PROVE  BestMatch
<1> SUFFICES ASSUME NEW o \in offQueue, offCtx[o] = "ample"
             PROVE  LET q == offProps[o]
                        live == {a \in Announcement : Matchable(a, o)}
                        priority == {a \in live : annProps[a].priority}
                        class == IF priority # {} THEN priority ELSE live
                        preferred == {a \in class : ExistsPreferredMatch(q) /\ MatchNAT(annProps[a], q)}
                        choice == IF preferred # {} THEN preferred ELSE class
                    IN  MatchOffer(q).best = {a \in choice : \A b \in choice : a <= b}
  BY DEF BestMatch
<1> DEFINE q == offProps[o]
           n == 2 * MaxAnnouncements
           live == {a \in Announcement : Matchable(a, o)}
           priority == {a \in live : annProps[a].priority}
           class == IF priority # {} THEN priority ELSE live
           preferred == {a \in class : ExistsPreferredMatch(q) /\ MatchNAT(annProps[a], q)}
           choice == IF preferred # {} THEN preferred ELSE class
<1>0. q \in OfferProps
  BY DEF CallTypes
<1>1. Open(q, n) = live
  BY OpenMatchable
<1> HIDE DEF q, n, live
<1>2. Priorities(q, n) = priority
  BY <1>1 DEF Priorities
<1> HIDE DEF priority
<1>3. Class(q, n) = class
  BY <1>1, <1>2 DEF Class
<1> HIDE DEF class
<1>4. Preferred(q, n) = preferred
  BY <1>3 DEF Preferred
<1> HIDE DEF preferred
<1>5. Choice(q, n) = choice
  BY <1>3, <1>4 DEF Choice
<1> HIDE DEF choice
<1>6. MatchOffer(q).best = Oldest(Choice(q, n))
  BY <1>0, SearchChooses DEF ChoiceSoFar, n
<1>7. MatchOffer(q).best = {a \in choice : \A b \in choice : a <= b}
  BY <1>5, <1>6 DEF Oldest
<1> QED
  BY <1>7 DEF choice, preferred, class, priority, live, q

\* While the queues are within MaxProbe and MaxPreferredNATProbe, which bound
\* the loop, matchOffer chooses for every waiting offer the announcement that
\* BestMatch defines without a search.
THEOREM MatcherBestMatch ==
  Spec => [](AnnTotal <= MaxProbe + 2 /\ AnnTotal <= MaxPreferredNATProbe + 1 => BestMatch)
<1>1. RoutingInv =>
        (AnnTotal <= MaxProbe + 2 /\ AnnTotal <= MaxPreferredNATProbe + 1 => BestMatch)
  BY SearchIsBest DEF RoutingInv, WithinMaxProbe, WithinPreferredProbe
<1> QED
  BY <1>1, MatcherRoutingInvariant, PTL

-----------------------------------------------------------------------------
(* No pair is missed                                                        *)

\* What the pass has left behind it, no announcement matches, unless a signal
\* will start another pass.
PassCovers ==
    worker \in {"matching", "yielding"} /\ ~ signal =>
        \A a \in Announcement, o \in Offer : Matchable(a, o) => o \in rest

\* A pair becomes matchable only with a signal.
LEMMA NewPairSignalled ==
  ASSUME RoutingInv, [Next]_vars, ~ signal', NEW a \in Announcement, NEW o \in Offer,
         Matchable(a, o)'
  PROVE  Matchable(a, o)
<1>0. CallTypes /\ QueuedWaiting
  BY DEF RoutingInv
<1>1. \* what suffices
      ASSUME annProps'[a] = annProps[a], offProps' = offProps, Queued(a)' => Queued(a),
             o \in offQueue' => o \in offQueue, offCtx'[o] = "ample" => offCtx[o] = "ample",
             Queued(a)' => (a \in annDone => a \in annDone')
      PROVE  Matchable(a, o)
  BY <1>1 DEF Matchable, MatchingQueues
<1>2. CASE UNCHANGED <<annProps, annDone, queues, offProps, offQueue>> /\ offCtx' = offCtx
  BY <1>1, <1>2 DEF Queued
<1>3. ASSUME NEW b \in Announcement, NEW p \in AnnouncementProps,
             NEW limiting \in BOOLEAN, NEW limited \in BOOLEAN, Announce(b, p, limiting, limited)
      PROVE  UNCHANGED <<annProps, annDone, queues, offProps, offQueue>> /\ offCtx' = offCtx
  BY <1>3 DEF Announce, offVars
<1>4. ASSUME NEW r \in Offer, NEW q \in OfferProps,
             NEW limiting \in BOOLEAN, NEW limited \in BOOLEAN, MakeOffer(r, q, limiting, limited)
      PROVE  UNCHANGED <<annProps, annDone, queues, offProps, offQueue>> /\ offCtx' = offCtx
  BY <1>4 DEF MakeOffer, annVars
<1>5. ASSUME NEW b \in Announcement, AnnounceContextEnds(b)
      PROVE  Matchable(a, o)
  <2>1. UNCHANGED <<annProps, queues, offProps, offQueue, offCtx>> /\ annDone \subseteq annDone'
    BY <1>5 DEF AnnounceContextEnds, offVars
  <2> QED
    BY <1>1, <2>1 DEF Queued
<1>6. ASSUME NEW b \in Announcement, AnnounceReturns(b)
      PROVE  Matchable(a, o)
  <2>1. /\ UNCHANGED <<annProps, queues, offProps, offQueue, offCtx>>
        /\ annDone' = annDone \ {b} /\ offerChan[b] # None
    BY <1>6 DEF AnnounceReturns, offVars
  <2>2. ~ Queued(b)
    BY <1>0, <2>1 DEF QueuedWaiting, Queued
  <2> QED
    BY <1>1, <2>1, <2>2 DEF Queued
<1>7. ASSUME NEW b \in Announcement, AnnounceAborts(b)
      PROVE  Matchable(a, o)
  <2>1. /\ UNCHANGED <<annProps, offProps, offQueue, offCtx>>
        /\ annDone' = annDone \ {b} /\ RemoveAnnouncements({b})
    BY <1>7 DEF AnnounceAborts
  <2>2. \A k \in QueueKey : queues'[k] = queues[k] \ {c \in {b} : Queued(c)}
    BY <2>1 DEF RemoveAnnouncements
  <2>3. (Queued(a)' => Queued(a)) /\ (Queued(a)' => a # b)
    BY <2>2 DEF Queued
  <2> QED
    BY <1>1, <2>1, <2>3
<1>8. ASSUME NEW b \in Announcement,
             AnswerLookup(b) \/ \E result \in {"answer", "closed"} : Answer(b, result)
      PROVE  UNCHANGED <<annProps, annDone, queues, offProps, offQueue>> /\ offCtx' = offCtx
  BY <1>8 DEF AnswerLookup, Answer, offVars
<1>9. ASSUME NEW r \in Offer, OfferContextEnds(r)
      PROVE  Matchable(a, o)
  <2>1. UNCHANGED <<annProps, annDone, queues, offProps, offQueue>>
    BY <1>9 DEF OfferContextEnds, annVars
  <2>2. \E c \in {"short", "cancelled", "expired"} : offCtx' = [offCtx EXCEPT ![r] = c]
    BY <1>9 DEF OfferContextEnds
  <2>3. offCtx'[o] = "ample" => offCtx[o] = "ample"
    BY <1>0, <2>2 DEF CallTypes
  <2> QED
    BY <1>1, <2>1, <2>3 DEF Queued
<1>10. ASSUME NEW r \in Offer, OfferReturns(r)
       PROVE  UNCHANGED <<annProps, annDone, queues, offProps, offQueue>> /\ offCtx' = offCtx
  BY <1>10 DEF OfferReturns, annVars
<1>11. ASSUME NEW r \in Offer, OfferAborts(r)
       PROVE  Matchable(a, o)
  <2>1. UNCHANGED <<annProps, annDone, queues, offProps, offCtx>> /\ offQueue' = offQueue \ {r}
    BY <1>11 DEF OfferAborts, annVars, RemoveOffer
  <2> QED
    BY <1>1, <2>1 DEF Queued
<1>12. ASSUME NEW r \in Offer, VisitOffer(r)
       PROVE  Matchable(a, o)
  <2>1. UNCHANGED <<annProps, annDone, offProps, offCtx>>
    BY <1>12 DEF VisitOffer, Visit
  <2>2. offQueue' \subseteq offQueue
    BY <1>12 DEF VisitOffer, VisitEnded, VisitDropped, VisitUnmatched, VisitMatched, RemoveOffer
  <2>3. queues' = queues \/ \E T : RemoveAnnouncements(T)
    BY <1>12 DEF VisitOffer, VisitEnded, VisitDropped, VisitUnmatched, VisitMatched
  <2>4. \A k \in QueueKey : queues'[k] \subseteq queues[k]
    <3>1. ASSUME NEW T, RemoveAnnouncements(T)
          PROVE  \A k \in QueueKey : queues'[k] \subseteq queues[k]
      BY <3>1 DEF RemoveAnnouncements
    <3> QED
      BY <2>3, <3>1
  <2>5. Queued(a)' => Queued(a)
    BY <2>4 DEF Queued
  <2> QED
    BY <1>1, <2>1, <2>2, <2>5
<1>13. ASSUME ReceiveSignal \/ StartPass \/ Yield \/ EndPass \/ UNCHANGED vars
       PROVE  UNCHANGED <<annProps, annDone, queues, offProps, offQueue>> /\ offCtx' = offCtx
  BY <1>13 DEF ReceiveSignal, StartPass, Yield, EndPass, annVars, offVars, vars
<1>14. CASE UNCHANGED vars
  BY <1>2, <1>13, <1>14
<1>15. CASE \E b \in Announcement :
             \/ \E p \in AnnouncementProps, limiting, limited \in BOOLEAN :
                  Announce(b, p, limiting, limited)
             \/ AnnounceContextEnds(b) \/ AnnounceReturns(b) \/ AnnounceAborts(b)
             \/ AnswerLookup(b) \/ \E result \in {"answer", "closed"} : Answer(b, result)
  BY <1>2, <1>3, <1>5, <1>6, <1>7, <1>8, <1>15
<1>16. CASE \E r \in Offer :
             \/ \E q \in OfferProps, limiting, limited \in BOOLEAN :
                  MakeOffer(r, q, limiting, limited)
             \/ OfferContextEnds(r) \/ OfferReturns(r) \/ OfferAborts(r)
  BY <1>2, <1>4, <1>9, <1>10, <1>11, <1>16
<1>17. CASE WorkerStep
  BY <1>2, <1>12, <1>13, <1>17 DEF WorkerStep
<1> QED
  BY <1>14, <1>15, <1>16, <1>17 DEF Next

\* After the visit of an offer that stays queued nothing matches it.
LEMMA VisitedUnmatched ==
  ASSUME RoutingInv, WithinMaxProbe, NEW r \in Offer, VisitOffer(r),
         r \in offQueue', NEW a \in Announcement
  PROVE  ~ Matchable(a, r)
<1>0. CallTypes /\ QueuedWaiting
  BY DEF RoutingInv
<1>1. VisitUnmatched(r)
  BY DEF VisitOffer, VisitEnded, VisitDropped, VisitMatched, RemoveOffer
<1>2. r \in offQueue /\ offCtx[r] = "ample" /\ MatchOffer(offProps[r]).best = {}
  BY <1>1 DEF VisitUnmatched
<1>3. offProps[r] \in OfferProps /\ 2 * MaxAnnouncements \in 0 .. 2 * MaxAnnouncements
  BY <1>0, MatcherAssumption DEF CallTypes
<1>4. Open(offProps[r], 2 * MaxAnnouncements) = {}
  BY <1>0, <1>2, <1>3, SearchMissesNone DEF MatchOffer
<1> QED
  BY <1>0, <1>2, <1>4, OpenMatchable

\* A pass passes by no match that existed when it began.
LEMMA CoverInductive ==
  ASSUME RoutingInv, WithinMaxProbe, PassCovers, NoMissedMatch, [Next]_vars
  PROVE  PassCovers' /\ NoMissedMatch'
<1>0. CallTypes /\ RestQueued
  BY DEF RoutingInv
<1> SUFFICES ASSUME ~ signal', NEW a \in Announcement, NEW o \in Offer, Matchable(a, o)'
             PROVE  /\ worker' # "idle"
                    /\ worker' \in {"matching", "yielding"} => o \in rest'
  BY DEF PassCovers, NoMissedMatch
<1>1. Matchable(a, o)
  BY NewPairSignalled
<1>2. o \in offQueue /\ o \in offQueue'
  BY <1>1 DEF Matchable
<1>3. CASE UNCHANGED <<worker, rest>> /\ signal' = signal
  BY <1>1, <1>3 DEF PassCovers, NoMissedMatch
<1>4. ASSUME NEW b \in Announcement, NEW p \in AnnouncementProps,
             NEW limiting \in BOOLEAN, NEW limited \in BOOLEAN, Announce(b, p, limiting, limited)
      PROVE  UNCHANGED <<worker, rest>> /\ signal' = signal
  BY <1>4 DEF Announce
<1>5. ASSUME NEW r \in Offer, NEW q \in OfferProps,
             NEW limiting \in BOOLEAN, NEW limited \in BOOLEAN, MakeOffer(r, q, limiting, limited)
      PROVE  UNCHANGED <<worker, rest>> /\ signal' = signal
  BY <1>5 DEF MakeOffer
<1>6. ASSUME NEW b \in Announcement,
             \/ AnnounceContextEnds(b) \/ AnnounceReturns(b) \/ AnnounceAborts(b)
             \/ AnswerLookup(b) \/ \E result \in {"answer", "closed"} : Answer(b, result)
      PROVE  UNCHANGED <<worker, rest>> /\ signal' = signal
  BY <1>6 DEF AnnounceContextEnds, AnnounceReturns, AnnounceAborts, AnswerLookup, Answer, workVars
<1>7. ASSUME NEW r \in Offer, OfferContextEnds(r) \/ OfferReturns(r) \/ OfferAborts(r)
      PROVE  UNCHANGED <<worker, rest>> /\ signal' = signal
  BY <1>7 DEF OfferContextEnds, OfferReturns, OfferAborts, workVars
<1>8. CASE ReceiveSignal
  BY <1>8 DEF ReceiveSignal
<1>9. CASE StartPass
  BY <1>2, <1>9 DEF StartPass
<1>10. CASE Yield
  BY <1>1, <1>10 DEF Yield, PassCovers
<1>11. CASE EndPass
  <2>1. worker = "matching" /\ ~ PassGoesOn /\ signal' = signal
    BY <1>11 DEF EndPass
  <2>2. o \in rest
    BY <1>1, <2>1 DEF PassCovers
  <2>3. AnnTotal \in Nat /\ AnnTotal # 0
    <3>1. a \in {b \in Announcement : Queued(b)}
      BY <1>1 DEF Matchable
    <3>2. IsFiniteSet({b \in Announcement : Queued(b)})
      BY CallsFinite, FS_Subset
    <3> QED
      BY <3>1, <3>2, FS_CardinalityType, FS_EmptySet DEF AnnTotal
  <2> QED
    BY <2>1, <2>2, <2>3 DEF PassGoesOn
<1>12. ASSUME NEW r \in Offer, VisitOffer(r)
       PROVE  worker' = "matching" /\ o \in rest'
  <2>1. /\ worker \in {"matching", "yielding"} /\ worker' = "matching" /\ signal' = signal
        /\ rest' = rest \ {r}
    BY <1>12 DEF VisitOffer, Visit
  <2>2. o \in rest
    BY <1>1, <2>1 DEF PassCovers
  <2>3. o # r
    BY <1>1, <1>2, <1>12, VisitedUnmatched
  <2> QED
    BY <2>1, <2>2, <2>3
<1>13. CASE UNCHANGED vars
  BY <1>3, <1>13 DEF vars, workVars
<1>14. CASE \E b \in Announcement :
             \/ \E p \in AnnouncementProps, limiting, limited \in BOOLEAN :
                  Announce(b, p, limiting, limited)
             \/ AnnounceContextEnds(b) \/ AnnounceReturns(b) \/ AnnounceAborts(b)
             \/ AnswerLookup(b) \/ \E result \in {"answer", "closed"} : Answer(b, result)
  BY <1>3, <1>4, <1>6, <1>14
<1>15. CASE \E r \in Offer :
             \/ \E q \in OfferProps, limiting, limited \in BOOLEAN :
                  MakeOffer(r, q, limiting, limited)
             \/ OfferContextEnds(r) \/ OfferReturns(r) \/ OfferAborts(r)
  BY <1>3, <1>5, <1>7, <1>15
<1>16. CASE WorkerStep
  BY <1>8, <1>9, <1>10, <1>11, <1>12, <1>16 DEF WorkerStep
<1> QED
  BY <1>13, <1>14, <1>15, <1>16 DEF Next

\* In a behaviour whose queues stay within MaxProbe, the loop bound of
\* matchOffer, the worker never sleeps while a pair could be matched: neither
\* the yield in the middle of a pass nor the one-place signal channel loses one.
THEOREM MatcherNoMissedMatch ==
  Spec /\ [](AnnTotal <= MaxProbe + 2) => []NoMissedMatch
<1>1. Init => PassCovers /\ NoMissedMatch
  <2> SUFFICES ASSUME Init
               PROVE  worker = "idle" /\ offQueue = {}
    BY DEF PassCovers, NoMissedMatch, Matchable
  <2> QED
    BY DEF Init
<1>2. /\ RoutingInv /\ AnnTotal <= MaxProbe + 2
      /\ PassCovers /\ NoMissedMatch /\ [Next]_vars
      => PassCovers' /\ NoMissedMatch'
  BY CoverInductive DEF WithinMaxProbe
<1> QED
  BY <1>1, <1>2, MatcherRoutingInvariant, PTL DEF Spec

=============================================================================
