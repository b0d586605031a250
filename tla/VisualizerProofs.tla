--------------------------- MODULE VisualizerProofs ---------------------------
(***************************************************************************)
(* Proofs about Visualizer, for a ring of any length.  The bucket of every *)
(* second of the ring's span holds what was received in it, or is nil and  *)
(* nothing was (Matches); the later seconds have received nothing yet.     *)
(* That a second finds its own bucket, and getBucket clears those of       *)
(* nobody else, is arithmetic modulo MaxHistory.                           *)
(*                                                                         *)
(* What the page draws is argued for apart (PageInv): as long as the page   *)
(* is not excused, it and every answer under way tell the truth of the      *)
(* second they are of.                                                     *)
(***************************************************************************)
EXTENDS Visualizer, Integers, NaturalsInduction, WellFoundedInduction, TLAPS

\* A second's bucket of a ring holds what the second received.
Matches(ring, t) ==
  IF ring[t % MaxHistory] = None THEN received[t] = EmptyBucket
                                 ELSE ring[t % MaxHistory] = received[t]

\* The seconds whose buckets are in the ring after a look at second t.
Span(t) == t - MaxHistory + 1 .. t

\* No later second has received anything.
NothingYet == \A t \in lastUpdate + 1 .. LastSecond : received[t] = EmptyBucket

\* The present bucket is exact even after a long pause.
PresentMatches == Matches(timeseries, lastUpdate)

\* Only the second of the start may have no bucket when it is the last one seen.
BucketUnlessStart == timeseries[lastUpdate % MaxHistory] = None => lastUpdate = born

SpanMatches == ~late => \A t \in Span(lastUpdate) : Matches(timeseries, t)

Inv ==
  /\ TypeOK
  /\ NothingYet /\ PresentMatches /\ SpanMatches
  /\ BucketUnlessStart /\ PanicsOnlyAtStart

\* The rates of second at: edges that flow had traffic just before, and edges that
\* are not in the answer had none in the seconds whose buckets are in the ring.
Truthful(bytes, rates, at) ==
  /\ DOMAIN rates \subseteq Edges
  /\ \A e \in Flowing(rates) : \E t \in at - Quiet + 1 .. at : bytes[t][e] > 0
  /\ \A e \in Edges \ DOMAIN rates : \A t \in at - MaxHistory + 1 .. at - 1 : bytes[t][e] = 0

AnswersAreTruthful ==
  \A i \in 1..MaxPolls : polls[i].state = "answered" =>
    Truthful(received, polls[i].rates, polls[i].at)

PageTypeOK ==
  /\ polls = [i \in 1..MaxPolls |-> polls[i]]
  /\ \A i \in 1..MaxPolls : polls[i].state = "answered" => polls[i].at \in FirstSecond..now
  /\ excused \in BOOLEAN /\ shown \in FirstSecond..now

\* The page has not been without answers for long.
PageIsFresh == ~excused => now - shown <= Patience

PageInv ==
  /\ PageTypeOK /\ PageIsFresh
  /\ ~excused /\ ~late => AnswersAreTruthful /\ DOMAIN edges \subseteq Edges
  /\ DrawnTrafficIsRecent

-----------------------------------------------------------------------------
\* Arithmetic.

\* Two seconds less than a turn of the ring apart have different buckets.
LEMMA SlotsDiffer ==
  ASSUME NEW a \in Nat, NEW b \in Nat, a < b, b - a < MaxHistory
  PROVE  a % MaxHistory # b % MaxHistory
<1> DEFINE M == MaxHistory
           p == a \div M
           q == b \div M
<1>1. M \in Nat /\ M > 0
  BY HistoryAssumption
<1>2. /\ p \in Int /\ q \in Int
      /\ a = M * p + (a % M) /\ b = M * q + (b % M)
      /\ (a % M) \in 0 .. M - 1 /\ (b % M) \in 0 .. M - 1
  BY <1>1, SMT
<1>3. SUFFICES ASSUME a % M = b % M
               PROVE  FALSE
  OBVIOUS
<1> HIDE DEF M, p, q
<1>4. b - a = M * q - M * p
  BY <1>1, <1>2, <1>3, SMT
<1>5. M * q - M * p = M * (q - p)
  BY <1>1, <1>2, SMT
<1>6. M * (q - p) > 0 /\ M * (q - p) < M
  BY <1>4, <1>5 DEF M
<1>7. CASE q - p >= 1
  <2>1. M * (q - p - 1) >= 0
    BY <1>1, <1>2, <1>7, SMT
  <2>2. M * (q - p - 1) = M * (q - p) - M
    BY <1>1, <1>2, SMT
  <2> QED BY <2>1, <2>2, <1>1, <1>2, <1>6, SMT
<1>8. CASE q - p <= 0
  <2>1. M * (p - q) >= 0
    BY <1>1, <1>2, <1>8, SMT
  <2>2. M * (p - q) = 0 - M * (q - p)
    BY <1>1, <1>2, SMT
  <2> QED BY <2>1, <2>2, <1>1, <1>2, <1>6, SMT
<1> QED BY <1>2, <1>7, <1>8, SMT

\* Two seconds a turn apart share their bucket.
LEMMA SlotsMeet ==
  ASSUME NEW a \in Nat, a >= MaxHistory
  PROVE  (a - MaxHistory) % MaxHistory = a % MaxHistory
<1> DEFINE M == MaxHistory
           c == a - M
           p == c \div M
           q == a \div M
           r == c % M
           s == a % M
<1>1. M \in Nat /\ M > 0 /\ c \in Nat
  BY HistoryAssumption
<1>2. /\ p \in Int /\ q \in Int /\ r \in 0 .. M - 1 /\ s \in 0 .. M - 1
      /\ c = M * p + r /\ a = M * q + s /\ c + M = a
  BY <1>1, SMT
<1> HIDE DEF M, c, p, q, r, s
<1>3. M * (q - p - 1) = r - s
  <2>1. M * (q - p - 1) = M * q - M * p - M
    BY <1>1, <1>2, SMT
  <2> QED BY <2>1, <1>1, <1>2, SMT
<1>4. q - p - 1 = 0
  <2>1. CASE q - p - 1 >= 1
    <3>1. M * (q - p - 2) >= 0 /\ M * (q - p - 2) = M * (q - p - 1) - M
      BY <1>1, <1>2, <2>1, SMT
    <3> QED BY <3>1, <1>1, <1>2, <1>3, SMT
  <2>2. CASE q - p - 1 <= -1
    <3>1. M * (p - q) >= 0 /\ M * (p - q) = 0 - M * (q - p - 1) - M
      BY <1>1, <1>2, <2>2, SMT
    <3> QED BY <3>1, <1>1, <1>2, <1>3, SMT
  <2> QED BY <2>1, <2>2, <1>2, SMT
<1>5. r = s
  BY <1>1, <1>2, <1>3, <1>4, SMT
<1> QED BY <1>5 DEF r, s, c, M

\* Every non-empty set of naturals has a least element.
LEMMA LeastElement ==
  ASSUME NEW T, T \subseteq Nat, T # {}
  PROVE  \E x \in T : \A y \in T : x <= y
<1> DEFINE R == OpToRel(<, Nat)
<1>1. IsWellFoundedOn(R, Nat)
  BY NatLessThanWellFounded, Zenon
<1>2. \A x, y \in Nat : y < x => << y, x >> \in R
  BY Zenon DEF OpToRel
<1> HIDE DEF R
<1>3. PICK x \in T : \A y \in T : ~ (<< y, x >> \in R)
  BY <1>1, WFMin, Zenon
<1>4. \A y \in T : ~ (y < x)
  BY <1>2, <1>3, Zenon
<1> QED BY <1>4

\* Max of a non-empty set of integers between two bounds is its greatest.
LEMMA MaxOfRange ==
  ASSUME NEW a \in Int, NEW b \in Int, NEW T, T \subseteq a .. b, T # {}
  PROVE  Max(T) \in T /\ \A y \in T : y <= Max(T)
<1> DEFINE U == { x \in Nat : b - x \in T }
<1>1. U \subseteq Nat
  OBVIOUS
<1>2. U # {}
  <2> PICK t \in T : TRUE
    OBVIOUS
  <2>1. b - t \in Nat /\ b - (b - t) = t
    OBVIOUS
  <2>2. b - t \in U
    BY <2>1
  <2> QED BY <2>2
<1>3. PICK x \in U : \A y \in U : x <= y
  <2> HIDE DEF U
  <2> QED BY <1>1, <1>2, LeastElement
<1>4. \A y \in T : b - y \in Nat /\ b - (b - y) = y /\ y \in Int
  OBVIOUS
<1>5. \A y \in T : b - y \in U
  BY <1>4
<1>6. x \in Nat /\ b - x \in T
  BY <1>3
<1>7. \A y \in T : x <= b - y
  BY <1>3, <1>5
<1>8. \A y \in T : y <= b - x
  BY <1>4, <1>6, <1>7
<1> QED BY <1>6, <1>8 DEF Max

\* Every second has a bucket.
LEMMA SlotOf == \A t \in Nat : t % MaxHistory \in Slots
BY HistoryAssumption DEF Slots
-----------------------------------------------------------------------------
\* The ring.

\* An empty bucket is a bucket.
LEMMA EmptyBucketIsBucket == EmptyBucket \in [Edges -> 0..MaxBytes] /\ EmptyBucket # None
BY BytesAssumption, NoneIsNoBucket DEF EmptyBucket

\* getBucket(now) keeps the type of the ring and has a bucket for now, but in the
\* second of the start.
LEMMA RingNowType ==
  ASSUME TypeOK
  PROVE  /\ RingNow \in [Slots -> [Edges -> 0..MaxBytes] \union {None}]
         /\ now # lastUpdate => RingNow[now % MaxHistory] = EmptyBucket
<1>1. now \in Nat
  BY HistoryAssumption DEF TypeOK, FirstSecond
<1>2. now % MaxHistory \in Slots
  BY <1>1, SlotOf
<1> QED BY <1>2, EmptyBucketIsBucket DEF TypeOK, RingNow

\* After getBucket(now) the bucket of now is exact.
LEMMA RingNowPresent ==
  ASSUME TypeOK, NothingYet, PresentMatches
  PROVE  Matches(RingNow, now)
<1>1. CASE now = lastUpdate
  BY <1>1 DEF PresentMatches, RingNow
<1>2. CASE now # lastUpdate
  <2>1. RingNow[now % MaxHistory] = EmptyBucket
    BY <1>2, RingNowType
  <2>2. received[now] = EmptyBucket
    BY <1>2, HistoryAssumption DEF TypeOK, NothingYet, FirstSecond
  <2> QED BY <2>1, <2>2, EmptyBucketIsBucket DEF Matches
<1> QED BY <1>1, <1>2

\* getBucket(now), called within a turn of the last look, leaves every bucket of
\* the ring's new span exact: what it keeps, what it forgets and the new one.
LEMMA RingNowMatches ==
  ASSUME TypeOK, NothingYet, PresentMatches, SpanMatches,
         ~late, now - lastUpdate <= MaxHistory
  PROVE  \A t \in Span(now) : Matches(RingNow, t)
<1> SUFFICES ASSUME NEW t \in Span(now)
             PROVE  Matches(RingNow, t)
  OBVIOUS
<1>1. /\ MaxHistory \in Nat /\ MaxHistory > 0 /\ now \in Nat /\ lastUpdate \in Nat
      /\ lastUpdate <= now /\ now >= MaxHistory /\ now <= LastSecond /\ LastSecond \in Nat
  BY HistoryAssumption DEF TypeOK, FirstSecond
<1>2. t \in Nat /\ t <= now /\ now - t < MaxHistory
  BY <1>1 DEF Span
<1>3. t % MaxHistory \in Slots
  BY <1>2, SlotOf
<1>4. CASE now = lastUpdate
  BY <1>4 DEF SpanMatches, RingNow
<1>5. CASE t = now
  BY <1>5, RingNowPresent
<1>6. CASE now # lastUpdate /\ t # now
  <2>1. t % MaxHistory # now % MaxHistory
    BY <1>1, <1>2, <1>6, SlotsDiffer
  <2>2. RingNow[t % MaxHistory]
          = IF t % MaxHistory \in Forgotten THEN None ELSE timeseries[t % MaxHistory]
    BY <2>1, <1>3, <1>6 DEF RingNow
  <2>3. CASE t > lastUpdate
    <3>1. t - lastUpdate \in 1 .. Least(now - lastUpdate, MaxHistory) - 1
      BY <1>1, <1>2, <1>6, <2>3 DEF Least
    <3>2. t % MaxHistory \in Forgotten
      <4>1. lastUpdate + (t - lastUpdate) = t
        BY <1>1, <1>2
      <4> QED BY <3>1, <4>1, Zenon DEF Forgotten
    <3>3. received[t] = EmptyBucket
      BY <1>1, <1>2, <2>3 DEF NothingYet
    <3> QED BY <2>2, <3>2, <3>3 DEF Matches
  <2>4. CASE t <= lastUpdate
    <3>1. t % MaxHistory \notin Forgotten
      <4>1. SUFFICES ASSUME NEW i \in 1 .. Least(now - lastUpdate, MaxHistory) - 1,
                            t % MaxHistory = (lastUpdate + i) % MaxHistory
                     PROVE  FALSE
        BY DEF Forgotten
      <4> DEFINE u == lastUpdate + i
      <4>2. u \in Nat /\ t < u /\ u - t < MaxHistory
        BY <1>1, <1>2, <2>4 DEF Least
      <4>3. t % MaxHistory = u % MaxHistory
        BY <4>1
      <4> HIDE DEF u
      <4> QED BY <4>2, <4>3, <1>2, SlotsDiffer
    <3>2. t \in Span(lastUpdate)
      BY <1>1, <1>2, <2>4 DEF Span
    <3>3. Matches(timeseries, t)
      BY <3>2 DEF SpanMatches
    <3> QED BY <2>2, <3>1, <3>3 DEF Matches
  <2> QED BY <2>3, <2>4, <1>1, <1>2
<1> QED BY <1>4, <1>5, <1>6
-----------------------------------------------------------------------------
\* The invariant.

\* The invariant holds when the server starts.
LEMMA Initially == Init => Inv
<1> SUFFICES ASSUME Init PROVE Inv
  OBVIOUS
<1>1. /\ MaxHistory \in Nat /\ MaxHistory > 0 /\ LastSecond \in Nat /\ MaxHistory <= LastSecond
      /\ now = MaxHistory /\ born = now /\ lastUpdate = now /\ panicked = FALSE /\ late = FALSE
  BY HistoryAssumption DEF Init, FirstSecond
<1>2. TypeOK
  <2>1. timeseries \in [Slots -> [Edges -> 0..MaxBytes] \union {None}]
    BY DEF Init
  <2>2. received \in [0..LastSecond -> [Edges -> 0..MaxBytes]]
    BY EmptyBucketIsBucket DEF Init
  <2>3. restarts \in 0..MaxRestarts
    BY BytesAssumption DEF Init
  <2>4. now \in FirstSecond..LastSecond /\ born \in FirstSecond..now /\ lastUpdate \in born..now
    BY <1>1 DEF FirstSecond
  <2>5. panicked \in BOOLEAN /\ late \in BOOLEAN
    BY <1>1
  <2> QED BY <2>1, <2>2, <2>3, <2>4, <2>5 DEF TypeOK
<1>3. \A t \in 0..LastSecond : received[t] = EmptyBucket
  BY DEF Init
<1>4. \A t \in Span(now) : Matches(timeseries, t)
  <2> SUFFICES ASSUME NEW t \in Span(now) PROVE Matches(timeseries, t)
    OBVIOUS
  <2>1. t \in Nat /\ t \in 0..LastSecond
    BY <1>1 DEF Span
  <2>2. timeseries[t % MaxHistory] = None
    BY <2>1, SlotOf DEF Init
  <2> QED BY <2>1, <2>2, <1>3 DEF Matches
<1>5. NothingYet
  BY <1>1, <1>3 DEF NothingYet
<1>6. PresentMatches /\ SpanMatches
  <2>1. now \in Span(now)
    BY <1>1 DEF Span
  <2> QED BY <1>1, <1>4, <2>1 DEF PresentMatches, SpanMatches
<1> QED BY <1>1, <1>2, <1>5, <1>6 DEF Inv, BucketUnlessStart, PanicsOnlyAtStart

\* A look at the ring, as renderReceivedBytes and AnswerPoll take it.
LEMMA LookKeepsInv ==
  ASSUME Inv, Look, timeseries' = RingNow, ~panicked,
         UNCHANGED <<now, panicked, received, born, restarts>>
  PROVE  Inv'
<1>1. /\ MaxHistory \in Nat /\ MaxHistory > 0 /\ now \in Nat /\ lastUpdate \in Nat
      /\ lastUpdate <= now /\ LastSecond \in Nat /\ born \in Nat /\ born <= lastUpdate
  BY HistoryAssumption DEF Inv, TypeOK, FirstSecond
<1>2. lastUpdate' = now /\ (~late' => ~late /\ now - lastUpdate <= MaxHistory)
  <2> DEFINE long == now - lastUpdate > MaxHistory
  <2>1. lastUpdate' = now /\ late' = (late \/ long)
    BY DEF Look
  <2>2. ~long => now - lastUpdate <= MaxHistory
    BY <1>1
  <2> HIDE DEF long
  <2> QED BY <2>1, <2>2, Zenon
<1>3. TypeOK'
  BY <1>1, <1>2, RingNowType DEF Inv, TypeOK, Look
<1>4. NothingYet'
  BY <1>1, <1>2 DEF Inv, NothingYet
<1>5. PresentMatches'
  <2>1. Matches(RingNow, now)
    BY RingNowPresent DEF Inv
  <2> QED BY <1>2, <2>1 DEF PresentMatches, Matches
<1>6. SpanMatches'
  <2> SUFFICES ASSUME ~late', NEW t \in Span(now)
               PROVE  Matches(timeseries, t)'
    BY <1>2 DEF SpanMatches, Span
  <2>1. Matches(RingNow, t)
    BY <1>2, RingNowMatches DEF Inv
  <2> QED BY <2>1 DEF Matches
<1>7. BucketUnlessStart'
  <2>1. CASE now = lastUpdate
    BY <1>2, <2>1 DEF Inv, BucketUnlessStart, RingNow
  <2>2. CASE now # lastUpdate
    BY <1>2, <2>2, RingNowType, EmptyBucketIsBucket DEF Inv, BucketUnlessStart
  <2> QED BY <2>1, <2>2
<1>8. PanicsOnlyAtStart'
  BY DEF PanicsOnlyAtStart
<1> QED BY <1>3, <1>4, <1>5, <1>6, <1>7, <1>8 DEF Inv

\* Steps that leave the server alone.
LEMMA OthersKeepInv ==
  ASSUME Inv, UNCHANGED serverVars, now' = now \/ (now < LastSecond /\ now' = now + 1)
  PROVE  Inv'
<1>1. TypeOK'
  BY HistoryAssumption DEF Inv, TypeOK, serverVars, FirstSecond
<1> QED BY <1>1 DEF Inv, serverVars, NothingYet, PresentMatches, SpanMatches, Span, Matches,
              BucketUnlessStart, PanicsOnlyAtStart

\* A restart begins anew, at the present second.
LEMMA RestartKeepsInv == Inv /\ Restart => Inv'
<1> SUFFICES ASSUME Inv, Restart PROVE Inv'
  OBVIOUS
<1>1. /\ MaxHistory \in Nat /\ MaxHistory > 0 /\ LastSecond \in Nat
      /\ now \in Nat /\ now <= LastSecond /\ MaxHistory <= now
      /\ now' = now /\ born' = now /\ lastUpdate' = now /\ panicked' = FALSE /\ late' = FALSE
  BY HistoryAssumption DEF Inv, TypeOK, Restart, FirstSecond
<1>2. TypeOK'
  <2>1. (timeseries \in [Slots -> [Edges -> 0..MaxBytes] \union {None}])'
    BY DEF Restart, Slots
  <2>2. (received \in [0..LastSecond -> [Edges -> 0..MaxBytes]])'
    BY EmptyBucketIsBucket DEF Restart
  <2>3. (restarts \in 0..MaxRestarts)'
    BY BytesAssumption DEF Inv, TypeOK, Restart
  <2>4. (now \in FirstSecond..LastSecond /\ born \in FirstSecond..now /\ lastUpdate \in born..now)'
    BY <1>1 DEF FirstSecond
  <2>5. (panicked \in BOOLEAN /\ late \in BOOLEAN)'
    BY <1>1
  <2> QED BY <2>1, <2>2, <2>3, <2>4, <2>5 DEF TypeOK
<1>3. \A t \in 0..LastSecond : received'[t] = EmptyBucket
  BY DEF Restart
<1>4. \A t \in Span(now) : Matches(timeseries, t)'
  <2> SUFFICES ASSUME NEW t \in Span(now) PROVE Matches(timeseries, t)'
    OBVIOUS
  <2>1. t \in Nat /\ t \in 0..LastSecond
    BY <1>1 DEF Span
  <2>2. timeseries'[t % MaxHistory] = None
    BY <2>1, SlotOf DEF Restart
  <2> QED BY <2>1, <2>2, <1>3 DEF Matches
<1>5. NothingYet'
  BY <1>1, <1>3 DEF NothingYet
<1>6. PresentMatches' /\ SpanMatches'
  <2>1. now \in Span(now)
    BY <1>1 DEF Span
  <2> QED BY <1>1, <1>4, <2>1 DEF PresentMatches, SpanMatches, Span, Matches
<1> QED BY <1>1, <1>2, <1>5, <1>6 DEF Inv, BucketUnlessStart, PanicsOnlyAtStart

\* Traffic: the present bucket and the count of the present second grow together,
\* and no other bucket of the span is the present one's.
LEMMA TrafficKeepsInv ==
  ASSUME Inv, NEW e \in Edges, IncreaseReceivedBytes(e)
  PROVE  Inv'
<1> DEFINE k == now % MaxHistory
           more == [received[now] EXCEPT ![e] = @ + 1]
<1>1. /\ MaxHistory \in Nat /\ MaxHistory > 0 /\ now \in Nat /\ lastUpdate \in Nat
      /\ lastUpdate <= now /\ now <= LastSecond /\ LastSecond \in Nat /\ now \in 0..LastSecond
      /\ MaxHistory <= now /\ born \in Nat /\ born <= lastUpdate
  BY HistoryAssumption DEF Inv, TypeOK, FirstSecond
<1>2. lastUpdate' = now /\ (~late' => ~late /\ now - lastUpdate <= MaxHistory)
  <2> DEFINE long == now - lastUpdate > MaxHistory
  <2>1. lastUpdate' = now /\ late' = (late \/ long)
    BY DEF Look, IncreaseReceivedBytes
  <2>2. ~long => now - lastUpdate <= MaxHistory
    BY <1>1
  <2> HIDE DEF long
  <2> QED BY <2>1, <2>2, Zenon
<1>3. k \in Slots
  BY <1>1, SlotOf
<1>4. late' \in BOOLEAN
  BY DEF IncreaseReceivedBytes, Look
<1>5. CASE RingNow[k] = None
  <2>1. now = lastUpdate /\ lastUpdate = born
    BY <1>5, RingNowType, EmptyBucketIsBucket DEF Inv, BucketUnlessStart, RingNow
  <2>2. /\ timeseries' = timeseries /\ lastUpdate' = lastUpdate /\ received' = received
        /\ now' = now /\ born' = born /\ panicked' = TRUE /\ restarts' = restarts
    BY <1>2, <1>5, <2>1 DEF IncreaseReceivedBytes, RingNow
  <2>3. TypeOK'
    BY <1>4, <2>2 DEF Inv, TypeOK
  <2>4. SpanMatches'
    BY <1>2, <2>2 DEF Inv, SpanMatches, Span, Matches
  <2> QED BY <2>1, <2>2, <2>3, <2>4 DEF Inv, NothingYet, PresentMatches, Matches,
                                        BucketUnlessStart, PanicsOnlyAtStart
<1>6. CASE RingNow[k] # None
  <2>1. /\ timeseries' = [RingNow EXCEPT ![k][e] = @ + 1]
        /\ received' = [received EXCEPT ![now] = more]
        /\ now' = now /\ born' = born /\ panicked' = panicked /\ restarts' = restarts
        /\ received[now][e] < MaxBytes /\ ~panicked
    BY <1>6 DEF IncreaseReceivedBytes
  <2>2. RingNow[k] = received[now]
    BY <1>6, RingNowPresent DEF Inv, Matches
  <2>3. received[now] \in [Edges -> 0..MaxBytes]
    BY <1>1 DEF Inv, TypeOK
  <2>4. more \in [Edges -> 0..MaxBytes] /\ more # None
    <3>1. received[now][e] + 1 \in 0..MaxBytes
      BY <2>1, <2>3, BytesAssumption
    <3> QED BY <2>3, <3>1, NoneIsNoBucket
  <2> HIDE DEF more
  <2>5. timeseries' = [RingNow EXCEPT ![k] = more]
    BY <1>3, <2>1, <2>2, RingNowType DEF Inv, more
  <2>6. TypeOK'
    <3>1. (timeseries \in [Slots -> [Edges -> 0..MaxBytes] \union {None}])'
      BY <2>4, <2>5, RingNowType DEF Inv, Slots
    <3>2. (received \in [0..LastSecond -> [Edges -> 0..MaxBytes]])'
      BY <1>1, <2>1, <2>4 DEF Inv, TypeOK
    <3>3. (now \in FirstSecond..LastSecond /\ born \in FirstSecond..now /\ lastUpdate \in born..now)'
      BY <1>1, <1>2, <2>1 DEF Inv, TypeOK, FirstSecond
    <3>4. (panicked \in BOOLEAN /\ restarts \in 0..MaxRestarts)'
      BY <2>1 DEF Inv, TypeOK
    <3> QED BY <1>4, <3>1, <3>2, <3>3, <3>4 DEF TypeOK
  <2>7. timeseries'[k] = more /\ received'[now] = more
    BY <1>1, <1>3, <2>1, <2>5, RingNowType DEF Inv, TypeOK
  <2>8. NothingYet'
    <3>1. \A t \in now + 1 .. LastSecond : received'[t] = EmptyBucket
      BY <1>1, <2>1 DEF Inv, TypeOK, NothingYet
    <3> QED BY <1>2, <3>1 DEF NothingYet
  <2>9. PresentMatches'
    BY <1>2, <2>4, <2>7 DEF PresentMatches, Matches
  <2>10. SpanMatches'
    <3> SUFFICES ASSUME ~late', NEW t \in Span(now)
                 PROVE  Matches(timeseries, t)'
      BY <1>2 DEF SpanMatches, Span
    <3>1. CASE t = now
      BY <2>4, <2>7, <3>1 DEF Matches
    <3>2. CASE t # now
      <4>1. t \in Nat /\ t < now /\ now - t < MaxHistory
        BY <1>1, <3>2 DEF Span
      <4>2. t % MaxHistory \in Slots /\ t % MaxHistory # k
        BY <1>1, <4>1, SlotOf, SlotsDiffer
      <4>3. timeseries'[t % MaxHistory] = RingNow[t % MaxHistory]
        BY <2>5, <4>2, RingNowType DEF Inv
      <4>4. received'[t] = received[t]
        BY <2>1, <3>2, <4>1, <1>1 DEF Inv, TypeOK
      <4>5. Matches(RingNow, t)
        BY <1>2, RingNowMatches DEF Inv
      <4> QED BY <4>3, <4>4, <4>5 DEF Matches
    <3> QED BY <3>1, <3>2
  <2>11. BucketUnlessStart'
    BY <1>2, <2>4, <2>7 DEF BucketUnlessStart
  <2>12. PanicsOnlyAtStart'
    BY <2>1 DEF PanicsOnlyAtStart
  <2> QED BY <2>6, <2>8, <2>9, <2>10, <2>11, <2>12 DEF Inv
<1> QED BY <1>5, <1>6

\* Every step keeps the invariant of the ring.
LEMMA StepsKeepInv == Inv /\ [Next]_vars => Inv'
<1> SUFFICES ASSUME Inv, [Next]_vars PROVE Inv'
  OBVIOUS
<1>1. CASE Tick
  BY <1>1, OthersKeepInv DEF Tick
<1>2. CASE Restart
  BY <1>2, RestartKeepsInv
<1>3. ASSUME NEW e \in Edges, IncreaseReceivedBytes(e) PROVE Inv'
  BY <1>3, TrafficKeepsInv
<1>4. CASE renderReceivedBytes
  BY <1>4, LookKeepsInv DEF renderReceivedBytes
<1>5. ASSUME NEW i \in 1..MaxPolls, reloadData(i) PROVE Inv'
  BY <1>5, OthersKeepInv DEF reloadData
<1>6. ASSUME NEW i \in 1..MaxPolls, AnswerPoll(i) PROVE Inv'
  BY <1>6, LookKeepsInv DEF AnswerPoll
<1>7. ASSUME NEW i \in 1..MaxPolls, PollFails(i) PROVE Inv'
  BY <1>7, OthersKeepInv DEF PollFails
<1>8. ASSUME NEW i \in 1..MaxPolls, updateGraph(i) PROVE Inv'
  BY <1>8, OthersKeepInv DEF updateGraph
<1>9. CASE UNCHANGED vars
  BY <1>9, OthersKeepInv DEF vars, serverVars
<1> QED BY <1>1, <1>2, <1>3, <1>4, <1>5, <1>6, <1>7, <1>8, <1>9 DEF Next

-----------------------------------------------------------------------------
\* The rates, and the page that draws them.

\* With the invariant, the ring has the bytes of every window's seconds.
LEMMA RatesFollow == Inv => RatesAreTrue
<1> SUFFICES ASSUME Inv, ~late, now - lastUpdate <= MaxHistory,
                    NEW window \in 1..MaxHistory
             PROVE  historical(window) = RatesOf([e \in Edges |-> InTruth(window, e)])
  BY DEF RatesAreTrue
<1>1. /\ MaxHistory \in Nat /\ MaxHistory > 0 /\ now \in Nat /\ MaxHistory <= now
      /\ now \in 0..LastSecond /\ LastSecond \in Nat
  BY HistoryAssumption DEF Inv, TypeOK, FirstSecond
<1>2. ASSUME NEW e \in Edges, NEW b \in now - window .. now - 1
      PROVE  (IF RingNow[b % MaxHistory] = None THEN 0 ELSE RingNow[b % MaxHistory][e])
               = received[IF b = now - MaxHistory THEN now ELSE b][e]
  <2> DEFINE t == IF b = now - MaxHistory THEN now ELSE b
  <2>1. t \in Span(now) /\ b \in Nat
    BY <1>1 DEF Span
  <2>2. b % MaxHistory = t % MaxHistory
    BY <1>1, SlotsMeet
  <2> HIDE DEF t
  <2>3. Matches(RingNow, t)
    BY <2>1, RingNowMatches DEF Inv
  <2>4. EmptyBucket[e] = 0
    BY DEF EmptyBucket
  <2>5. (IF RingNow[t % MaxHistory] = None THEN 0 ELSE RingNow[t % MaxHistory][e]) = received[t][e]
    BY <2>3, <2>4 DEF Matches
  <2> QED BY <2>2, <2>5 DEF t
<1>3. \A e \in Edges : InRing(RingNow, window, e) = InTruth(window, e)
  BY <1>2 DEF InRing, InTruth
<1>4. [e \in Edges |-> InRing(RingNow, window, e)] = [e \in Edges |-> InTruth(window, e)]
  BY <1>3
<1> QED BY <1>4 DEF historical

\* An answer tells the truth of the second it is of.
LEMMA AnswerIsTruthful ==
  ASSUME Inv, ~late, now - lastUpdate <= MaxHistory
  PROVE  Truthful(received, historical(MaxHistory), now)
<1> DEFINE window == now - MaxHistory .. now - 1
           bytesOf == [e \in Edges |-> InTruth(MaxHistory, e)]
           rates == historical(MaxHistory)
<1>1. /\ MaxHistory \in Nat /\ MaxHistory > 0 /\ now \in Nat /\ MaxHistory <= now
      /\ Quiet \in Nat /\ Quiet <= MaxHistory /\ now <= LastSecond /\ LastSecond \in Nat
  BY HistoryAssumption DEF Inv, TypeOK, FirstSecond
<1>2. rates = RatesOf(bytesOf)
  <2>1. RatesAreTrue /\ MaxHistory \in 1..MaxHistory
    BY <1>1, RatesFollow
  <2> QED BY <2>1 DEF RatesAreTrue
<1>3. ASSUME NEW e \in Edges
      PROVE  /\ bytesOf[e] = InTruth(MaxHistory, e)
             /\ DOMAIN bytesOf[e] = window
             /\ \A t \in window : t # now - MaxHistory => bytesOf[e][t] = received[t][e]
  BY <1>1 DEF InTruth
<1> HIDE DEF bytesOf, rates
<1>4. /\ DOMAIN rates = {e \in Edges : Seen(bytesOf[e]) # {}}
      /\ \A e \in DOMAIN rates : rates[e] = RateOf(bytesOf[e])
  BY <1>2 DEF RatesOf
<1>5. ASSUME NEW e \in Flowing(rates)
      PROVE  \E t \in now - Quiet + 1 .. now : received[t][e] > 0
  <2> DEFINE last == Max(Seen(bytesOf[e]))
  <2>1. e \in Edges /\ Seen(bytesOf[e]) # {} /\ rates[e] = RateOf(bytesOf[e]) /\ rates[e][1] > 0
    BY <1>4, <1>5 DEF Flowing
  <2>2. Seen(bytesOf[e]) \subseteq window
    BY <1>3, <2>1 DEF Seen
  <2>3. last \in Seen(bytesOf[e])
    <3>1. now - MaxHistory \in Int /\ now - 1 \in Int
      BY <1>1
    <3> DEFINE seen == Seen(bytesOf[e])
    <3>2. seen \subseteq now - MaxHistory .. now - 1 /\ seen # {}
      BY <2>1, <2>2
    <3> HIDE DEF seen
    <3>3. Max(seen) \in seen
      BY <3>1, <3>2, MaxOfRange
    <3> QED BY <3>3 DEF seen
  <2>4. last \in window /\ bytesOf[e][last] > 0
    BY <2>2, <2>3 DEF Seen
  <2>5. ~(now - last >= Quiet)
    BY <2>1 DEF RateOf
  <2> HIDE DEF last
  <2>6. last # now - MaxHistory /\ last \in now - Quiet + 1 .. now
    BY <1>1, <2>4, <2>5
  <2>7. received[last][e] > 0
    BY <1>3, <2>1, <2>4, <2>6
  <2> QED BY <2>6, <2>7
<1>6. ASSUME NEW e \in Edges \ DOMAIN rates, NEW t \in now - MaxHistory + 1 .. now - 1
      PROVE  received[t][e] = 0
  <2>1. Seen(bytesOf[e]) = {}
    BY <1>4, <1>6
  <2>2. t \in window /\ t # now - MaxHistory /\ t \in 0..LastSecond
    BY <1>1
  <2>3. ~(bytesOf[e][t] > 0) /\ bytesOf[e][t] = received[t][e]
    BY <1>3, <2>1, <2>2 DEF Seen
  <2>4. received[t][e] \in 0..MaxBytes
    BY <2>2 DEF Inv, TypeOK
  <2> QED BY <2>3, <2>4, BytesAssumption
<1>7. DOMAIN rates \subseteq Edges
  BY <1>4
<1>8. Truthful(received, rates, now)
  BY <1>5, <1>6, <1>7 DEF Truthful
<1> QED BY <1>8 DEF rates

\* The truth of a second stays true while later ones receive more.
LEMMA TruthLasts ==
  ASSUME NEW bytes, NEW more, NEW rates, NEW n \in Nat, NEW at \in FirstSecond..n,
         \A t \in Nat : t < n => more[t] = bytes[t],
         \A t \in 0..n : \A e \in Edges : bytes[t][e] > 0 => more[t][e] > 0,
         Truthful(bytes, rates, at)
  PROVE  Truthful(more, rates, at)
<1>1. /\ MaxHistory \in Nat /\ MaxHistory > 0 /\ at \in Nat /\ MaxHistory <= at /\ at <= n
      /\ Quiet \in Nat /\ Quiet <= MaxHistory
  BY HistoryAssumption DEF FirstSecond
<1>2. ASSUME NEW e \in Flowing(rates)
      PROVE  \E t \in at - Quiet + 1 .. at : more[t][e] > 0
  <2>1. e \in Edges
    BY DEF Truthful, Flowing
  <2>2. PICK t \in at - Quiet + 1 .. at : bytes[t][e] > 0
    BY DEF Truthful
  <2>3. t \in 0..n
    BY <1>1
  <2> QED BY <2>1, <2>2, <2>3
<1>3. ASSUME NEW e \in Edges \ DOMAIN rates, NEW t \in at - MaxHistory + 1 .. at - 1
      PROVE  more[t][e] = 0
  <2>1. bytes[t][e] = 0
    BY DEF Truthful
  <2>2. t \in Nat /\ t < n
    BY <1>1
  <2> QED BY <2>1, <2>2
<1> QED BY <1>2, <1>3 DEF Truthful

\* The page starts empty and fresh.
LEMMA PageInitially == Init => PageInv
<1> SUFFICES ASSUME Init PROVE PageInv
  OBVIOUS
<1>1. /\ now = FirstSecond /\ shown = now /\ excused = FALSE /\ FirstSecond \in Nat
      /\ edges = NoRates /\ polls = [i \in 1..MaxPolls |-> Idle]
  BY HistoryAssumption DEF Init, FirstSecond, createGraph, init
<1>2. DOMAIN edges = {}
  BY <1>1 DEF NoRates
<1>3. \A i \in 1..MaxPolls : polls[i] = Idle /\ polls[i].state # "answered"
  BY <1>1 DEF Idle
<1>4. PageTypeOK
  <2>1. polls = [i \in 1..MaxPolls |-> polls[i]]
    BY <1>1
  <2>2. excused \in BOOLEAN
    BY <1>1
  <2>3. shown \in FirstSecond..now
    BY <1>1, HistoryAssumption DEF FirstSecond
  <2> QED BY <1>3, <2>1, <2>2, <2>3 DEF PageTypeOK
<1>5. PageIsFresh
  BY <1>1, HistoryAssumption DEF PageIsFresh, Patience
<1> QED BY <1>2, <1>3, <1>4, <1>5 DEF PageInv, AnswersAreTruthful, DrawnTrafficIsRecent, Flowing

\* What a step of the clock, or of the server without the page, has to leave alone.
Elsewhere ==
  /\ UNCHANGED <<polls, edges, shown>>
  /\ (~late' => ~late) /\ (~excused' => ~excused) /\ excused' \in BOOLEAN
  /\ now' \in now .. now + 1 /\ PageIsFresh'
  /\ \A t \in Nat : t < now => received'[t] = received[t]
  /\ \A t \in 0..now : \A e \in Edges : received[t][e] > 0 => received'[t][e] > 0

\* Such a step keeps what the page and its answers tell.
LEMMA ElsewhereKeepsPageInv ==
  ASSUME Inv, PageInv, Elsewhere
  PROVE  PageInv'
<1>1. now \in Nat /\ MaxHistory \in Nat /\ MaxHistory <= now /\ now' \in Nat /\ now <= now'
      /\ Quiet \in Nat /\ Quiet <= MaxHistory /\ FirstSecond = MaxHistory
  BY HistoryAssumption DEF Inv, TypeOK, FirstSecond, Elsewhere
<1>2. PageTypeOK'
  BY <1>1 DEF PageInv, PageTypeOK, Elsewhere
<1>3. ASSUME ~excused', ~late'
      PROVE  AnswersAreTruthful' /\ (DOMAIN edges \subseteq Edges)'
  <2>1. ~excused /\ ~late /\ AnswersAreTruthful /\ DOMAIN edges \subseteq Edges
    BY <1>3 DEF PageInv, Elsewhere
  <2>2. ASSUME NEW i \in 1..MaxPolls, polls[i].state = "answered"
        PROVE  Truthful(received', polls[i].rates, polls[i].at)
    <3>1. polls[i].at \in FirstSecond..now /\ Truthful(received, polls[i].rates, polls[i].at)
      BY <2>1, <2>2 DEF AnswersAreTruthful, PageInv, PageTypeOK
    <3> QED BY <1>1, <3>1, TruthLasts DEF Elsewhere
  <2> QED BY <2>1, <2>2 DEF AnswersAreTruthful, Elsewhere
<1>4. DrawnTrafficIsRecent'
  <2> SUFFICES ASSUME ~excused', ~late', NEW e \in Flowing(edges)
               PROVE  \E t \in shown - Quiet + 1 .. shown : received'[t][e] > 0
    BY DEF DrawnTrafficIsRecent, Elsewhere
  <2>1. ~excused /\ ~late /\ DOMAIN edges \subseteq Edges /\ DrawnTrafficIsRecent
    BY DEF PageInv, Elsewhere
  <2>2. e \in Edges
    BY <2>1 DEF Flowing
  <2>3. PICK t \in shown - Quiet + 1 .. shown : received[t][e] > 0
    BY <2>1 DEF DrawnTrafficIsRecent
  <2>4. t \in 0..now
    BY <1>1 DEF PageInv, PageTypeOK
  <2> QED BY <2>2, <2>3, <2>4 DEF Elsewhere
<1> QED BY <1>2, <1>3, <1>4 DEF PageInv, Elsewhere

\* One fetch changes and the others do not.
LEMMA OnePollChanges ==
  ASSUME NEW S, NEW old, NEW new, NEW i \in S, NEW poll,
         old = [j \in S |-> old[j]], new = [old EXCEPT ![i] = poll]
  PROVE  /\ new = [j \in S |-> new[j]]
         /\ new[i] = poll
         /\ \A j \in S : j # i => new[j] = old[j]
OBVIOUS

\* A fetch that starts or fails.
LEMMA FetchKeepsPageInv ==
  ASSUME Inv, PageInv, NEW i \in 1..MaxPolls, NEW poll, poll.state # "answered",
         polls' = [polls EXCEPT ![i] = poll],
         UNCHANGED <<now, edges, shown, excused, late, received>>
  PROVE  PageInv'
<1>1. /\ polls' = [j \in 1..MaxPolls |-> polls'[j]]
      /\ polls'[i] = poll
      /\ \A j \in 1..MaxPolls : j # i => polls'[j] = polls[j]
  <2>1. polls = [j \in 1..MaxPolls |-> polls[j]]
    BY DEF PageInv, PageTypeOK
  <2> QED BY <2>1, OnePollChanges, Zenon
<1>2. PageTypeOK'
  BY <1>1 DEF PageInv, PageTypeOK
<1>3. AnswersAreTruthful => AnswersAreTruthful'
  BY <1>1 DEF AnswersAreTruthful
<1>4. PageIsFresh' /\ DrawnTrafficIsRecent'
  BY DEF PageInv, PageIsFresh, DrawnTrafficIsRecent
<1> QED BY <1>2, <1>3, <1>4 DEF PageInv

\* The server answers a fetch with the truth of the present second.
LEMMA AnswerKeepsPageInv ==
  ASSUME Inv, PageInv, NEW i \in 1..MaxPolls, AnswerPoll(i)
  PROVE  PageInv'
<1> DEFINE answer == [state |-> "answered", at |-> now, rates |-> historical(WindowOf(0))]
<1>1. /\ polls' = [polls EXCEPT ![i] = answer]
      /\ UNCHANGED <<now, edges, shown, excused, received>>
  BY DEF AnswerPoll
<1>2. answer.state = "answered" /\ answer.at = now /\ answer.rates = historical(MaxHistory)
  BY DEF WindowOf
<1> HIDE DEF answer
<1>3. /\ polls' = [j \in 1..MaxPolls |-> polls'[j]]
      /\ polls'[i] = answer
      /\ \A j \in 1..MaxPolls : j # i => polls'[j] = polls[j]
  <2>1. polls = [j \in 1..MaxPolls |-> polls[j]]
    BY DEF PageInv, PageTypeOK
  <2> QED BY <1>1, <2>1, OnePollChanges, Zenon
<1>4. ~late' => ~late /\ now - lastUpdate <= MaxHistory
  <2> DEFINE long == now - lastUpdate > MaxHistory
  <2>1. late' = (late \/ long)
    BY DEF Look, AnswerPoll
  <2>2. ~long => now - lastUpdate <= MaxHistory
    BY HistoryAssumption DEF Inv, TypeOK, FirstSecond
  <2> HIDE DEF long
  <2> QED BY <2>1, <2>2, Zenon
<1>5. PageTypeOK'
  <2>1. now \in FirstSecond..now
    BY HistoryAssumption DEF Inv, TypeOK, FirstSecond
  <2>2. ASSUME NEW j \in 1..MaxPolls, polls'[j].state = "answered"
        PROVE  polls'[j].at \in FirstSecond..now
    <3>1. CASE j = i
      BY <1>2, <1>3, <2>1, <3>1
    <3>2. CASE j # i
      BY <1>3, <2>2, <3>2 DEF PageInv, PageTypeOK
    <3> QED BY <3>1, <3>2
  <2> QED BY <1>1, <1>3, <2>2 DEF PageInv, PageTypeOK
<1>6. ~excused' /\ ~late' => AnswersAreTruthful' /\ (DOMAIN edges \subseteq Edges)'
  <2> SUFFICES ASSUME ~excused', ~late'
               PROVE  AnswersAreTruthful' /\ (DOMAIN edges \subseteq Edges)'
    OBVIOUS
  <2>1. AnswersAreTruthful /\ DOMAIN edges \subseteq Edges
    BY <1>1, <1>4 DEF PageInv
  <2>2. Truthful(received, answer.rates, answer.at)
    BY <1>2, <1>4, AnswerIsTruthful
  <2>3. ASSUME NEW j \in 1..MaxPolls, polls'[j].state = "answered"
        PROVE  Truthful(received, polls'[j].rates, polls'[j].at)
    <3>1. CASE j = i
      BY <1>3, <2>2, <3>1
    <3>2. CASE j # i
      BY <1>3, <2>1, <2>3, <3>2 DEF AnswersAreTruthful
    <3> QED BY <3>1, <3>2
  <2> QED BY <1>1, <2>1, <2>3 DEF AnswersAreTruthful
<1>7. PageIsFresh' /\ DrawnTrafficIsRecent'
  BY <1>1, <1>4 DEF PageInv, PageIsFresh, DrawnTrafficIsRecent
<1> QED BY <1>5, <1>6, <1>7 DEF PageInv

\* An answer is drawn.  What it does not mention stays drawn, and does not flow: had
\* it flowed when it was drawn, its traffic would still be in the ring of the answer,
\* which is at most Patience seconds newer.
LEMMA DrawingKeepsPageInv ==
  ASSUME Inv, PageInv, NEW i \in 1..MaxPolls, updateGraph(i)
  PROVE  PageInv'
<1> DEFINE rates == polls[i].rates
           at == polls[i].at
<1>1. /\ polls[i].state = "answered"
      /\ polls' = [polls EXCEPT ![i] = Idle]
      /\ edges' = [e \in DOMAIN edges \union DOMAIN rates |->
                     IF e \in DOMAIN rates THEN rates[e] ELSE edges[e]]
      /\ shown' = IF at > shown THEN at ELSE shown
      /\ excused' = (excused \/ at < shown)
      /\ UNCHANGED <<now, received, late>>
  BY DEF updateGraph, serverVars
<1>2. Idle.state # "answered"
  BY DEF Idle
<1>3. /\ polls' = [j \in 1..MaxPolls |-> polls'[j]]
      /\ polls'[i] = Idle
      /\ \A j \in 1..MaxPolls : j # i => polls'[j] = polls[j]
  <2>1. polls = [j \in 1..MaxPolls |-> polls[j]]
    BY DEF PageInv, PageTypeOK
  <2> QED BY <1>1, <2>1, OnePollChanges, Zenon
<1>4. excused' \in BOOLEAN /\ (~excused' => ~excused /\ ~(at < shown))
  <2> DEFINE overtaken == at < shown
  <2>1. excused' = (excused \/ overtaken) /\ excused \in BOOLEAN
    BY <1>1 DEF PageInv, PageTypeOK
  <2> HIDE DEF overtaken
  <2>2. excused' \in BOOLEAN /\ (~excused' => ~excused /\ ~overtaken)
    BY <2>1, Zenon
  <2> QED BY <2>2 DEF overtaken
<1>5. /\ now \in Nat /\ MaxHistory \in Nat /\ Quiet \in Nat /\ Quiet <= MaxHistory
      /\ FirstSecond = MaxHistory /\ MaxHistory <= now
      /\ shown \in Nat /\ MaxHistory <= shown /\ shown <= now
  BY HistoryAssumption DEF Inv, TypeOK, PageInv, PageTypeOK, FirstSecond
<1>6. at \in FirstSecond..now
  BY <1>1 DEF PageInv, PageTypeOK
<1> HIDE DEF rates, at
<1>7. shown' \in FirstSecond..now /\ shown <= shown'
  BY <1>1, <1>5, <1>6
<1>8. PageTypeOK'
  BY <1>1, <1>2, <1>3, <1>4, <1>7 DEF PageInv, PageTypeOK
<1>9. PageIsFresh'
  BY <1>1, <1>4, <1>5, <1>6, <1>7 DEF PageInv, PageIsFresh, Patience
<1>10. SUFFICES ASSUME ~excused', ~late'
                PROVE  /\ AnswersAreTruthful' /\ (DOMAIN edges \subseteq Edges)'
                       /\ \A e \in Flowing(edges') :
                            \E t \in at - Quiet + 1 .. at : received[t][e] > 0
  <2>1. ~excused' => shown' = at
    BY <1>1, <1>4, <1>5, <1>6
  <2>2. CASE excused' \/ late'
    BY <1>8, <1>9, <2>2 DEF PageInv, DrawnTrafficIsRecent
  <2>3. CASE ~excused' /\ ~late'
    BY <1>1, <1>8, <1>9, <1>10, <2>1, <2>3 DEF PageInv, DrawnTrafficIsRecent
  <2> QED BY <2>2, <2>3
<1>11. /\ ~excused /\ ~late /\ ~(at < shown) /\ AnswersAreTruthful
       /\ DOMAIN edges \subseteq Edges /\ DrawnTrafficIsRecent /\ now - shown <= Patience
  BY <1>1, <1>4, <1>10 DEF PageInv, PageIsFresh
<1>12. Truthful(received, rates, at)
  BY <1>1, <1>11 DEF AnswersAreTruthful, rates, at
<1>13. DOMAIN rates \subseteq Edges
  BY <1>12 DEF Truthful
<1>14. AnswersAreTruthful' /\ (DOMAIN edges \subseteq Edges)'
  BY <1>1, <1>2, <1>3, <1>11, <1>13 DEF AnswersAreTruthful
<1>15. ASSUME NEW e \in Flowing(edges')
       PROVE  \E t \in at - Quiet + 1 .. at : received[t][e] > 0
  <2>1. e \in DOMAIN edges' /\ edges'[e][1] > 0
    BY DEF Flowing
  <2>2. CASE e \in DOMAIN rates
    <3>1. e \in Flowing(rates)
      BY <1>1, <2>1, <2>2 DEF Flowing
    <3> QED BY <1>12, <3>1 DEF Truthful
  <2>3. CASE e \notin DOMAIN rates
    <3>1. e \in Flowing(edges) /\ e \in Edges
      BY <1>1, <1>11, <2>1, <2>3 DEF Flowing
    <3>2. PICK t \in shown - Quiet + 1 .. shown : received[t][e] > 0
      BY <1>11, <3>1 DEF DrawnTrafficIsRecent
    <3>3. CASE at = shown
      BY <3>2, <3>3
    <3>4. CASE at # shown
      <4>1. t \in at - MaxHistory + 1 .. at - 1
        BY <1>5, <1>6, <1>11, <3>4 DEF Patience
      <4>2. received[t][e] = 0
        BY <1>12, <2>3, <3>1, <4>1 DEF Truthful
      <4> QED BY <3>2, <4>2
    <3> QED BY <3>3, <3>4
  <2> QED BY <2>2, <2>3
<1> QED BY <1>14, <1>15

\* What is received stays: only the count of the present second grows.
LEMMA TrafficAddsUp ==
  ASSUME Inv, NEW e \in Edges, IncreaseReceivedBytes(e)
  PROVE  /\ \A t \in Nat : t < now => received'[t] = received[t]
         /\ \A t \in 0..now : \A d \in Edges : received[t][d] > 0 => received'[t][d] > 0
<1>1. now \in Nat /\ now \in 0..LastSecond
  BY HistoryAssumption DEF Inv, TypeOK, FirstSecond
<1>2. received \in [0..LastSecond -> [Edges -> 0..MaxBytes]]
  BY DEF Inv, TypeOK
<1>3. CASE received' = received
  BY <1>3
<1>4. CASE received' = [received EXCEPT ![now][e] = @ + 1]
  <2>1. \A t \in 0..LastSecond : t # now => received'[t] = received[t]
    BY <1>2, <1>4
  <2>2. \A t \in Nat : t < now => received'[t] = received[t]
    BY <1>1, <1>2, <1>4
  <2>3. ASSUME NEW d \in Edges
        PROVE  received[now][d] > 0 => received'[now][d] > 0
    <3>1. received[now] \in [Edges -> 0..MaxBytes]
      BY <1>1, <1>2
    <3>2. received'[now] = [received[now] EXCEPT ![e] = @ + 1]
      BY <1>1, <1>2, <1>4
    <3>3. received[now][d] \in 0..MaxBytes
      BY <3>1
    <3> QED BY <3>1, <3>2, <3>3, BytesAssumption
  <2> QED BY <1>1, <2>2, <2>3
<1> QED BY <1>3, <1>4 DEF IncreaseReceivedBytes

\* late only grows, but for a restart.
LEMMA LateStays ==
  ASSUME Look
  PROVE  ~late' => ~late
BY DEF Look

\* Every step keeps the invariant of the page.
LEMMA StepsKeepPageInv == Inv /\ PageInv /\ [Next]_vars => PageInv'
<1> SUFFICES ASSUME Inv, PageInv, [Next]_vars PROVE PageInv'
  OBVIOUS
<1>1. /\ now \in Nat /\ now <= LastSecond /\ LastSecond \in Nat /\ now \in now .. now + 1
      /\ excused \in BOOLEAN /\ PageIsFresh
  BY HistoryAssumption DEF Inv, TypeOK, FirstSecond, PageInv, PageTypeOK
<1>2. CASE Tick
  <2> DEFINE long == now' - shown > Patience
  <2>1. /\ now' = now + 1 /\ excused' = (excused \/ long)
        /\ UNCHANGED <<polls, edges, shown, late, received>>
    BY <1>2 DEF Tick, serverVars
  <2>2. ~long => now' - shown <= Patience
    BY <1>1, <2>1, HistoryAssumption DEF PageInv, PageTypeOK, Patience, FirstSecond
  <2> HIDE DEF long
  <2>3. excused' \in BOOLEAN /\ (~excused' => ~excused /\ ~long)
    BY <1>1, <2>1, Zenon
  <2>4. PageIsFresh'
    BY <2>1, <2>2, <2>3 DEF PageIsFresh, Patience
  <2>5. Elsewhere
    BY <1>1, <2>1, <2>3, <2>4 DEF Elsewhere
  <2> QED BY <2>5, ElsewhereKeepsPageInv
<1>3. CASE Restart
  <2>1. excused' = TRUE /\ UNCHANGED <<now, polls, edges, shown>>
    BY <1>3 DEF Restart
  <2> QED BY <2>1 DEF PageInv, PageTypeOK, PageIsFresh, DrawnTrafficIsRecent
<1>4. ASSUME NEW e \in Edges, IncreaseReceivedBytes(e) PROVE PageInv'
  <2>1. Look /\ UNCHANGED <<now, polls, edges, shown, excused>>
    BY <1>4 DEF IncreaseReceivedBytes
  <2>2. PageIsFresh'
    BY <1>1, <2>1 DEF PageIsFresh
  <2>3. Elsewhere
    BY <1>1, <1>4, <2>1, <2>2, LateStays, TrafficAddsUp DEF Elsewhere
  <2> QED BY <2>3, ElsewhereKeepsPageInv
<1>5. CASE renderReceivedBytes
  <2>1. Look /\ UNCHANGED <<now, polls, edges, shown, excused, received>>
    BY <1>5 DEF renderReceivedBytes
  <2>2. PageIsFresh'
    BY <1>1, <2>1 DEF PageIsFresh
  <2>3. Elsewhere
    BY <1>1, <2>1, <2>2, LateStays DEF Elsewhere
  <2> QED BY <2>3, ElsewhereKeepsPageInv
<1>6. ASSUME NEW i \in 1..MaxPolls, reloadData(i) PROVE PageInv'
  <2> DEFINE asked == [Idle EXCEPT !.state = "asked"]
  <2>1. /\ polls' = [polls EXCEPT ![i] = asked]
        /\ UNCHANGED <<now, edges, shown, excused, late, received>>
    BY <1>6 DEF reloadData, serverVars
  <2>2. asked.state # "answered"
    BY DEF Idle
  <2> HIDE DEF asked
  <2> QED BY <2>1, <2>2, FetchKeepsPageInv
<1>7. ASSUME NEW i \in 1..MaxPolls, AnswerPoll(i) PROVE PageInv'
  BY <1>7, AnswerKeepsPageInv
<1>8. ASSUME NEW i \in 1..MaxPolls, PollFails(i) PROVE PageInv'
  <2>1. /\ polls' = [polls EXCEPT ![i] = Idle]
        /\ UNCHANGED <<now, edges, shown, excused, late, received>>
    BY <1>8 DEF PollFails, serverVars
  <2>2. Idle.state # "answered"
    BY DEF Idle
  <2> QED BY <2>1, <2>2, FetchKeepsPageInv
<1>9. ASSUME NEW i \in 1..MaxPolls, updateGraph(i) PROVE PageInv'
  BY <1>9, DrawingKeepsPageInv
<1>10. CASE UNCHANGED vars
  BY <1>1, <1>10, ElsewhereKeepsPageInv DEF vars, Elsewhere, PageIsFresh
<1> QED BY <1>2, <1>3, <1>4, <1>5, <1>6, <1>7, <1>8, <1>9, <1>10 DEF Next

-----------------------------------------------------------------------------
(***************************************************************************)
(* The theorems.                                                           *)
(***************************************************************************)

\* The invariant holds for a ring of any length and any traffic (web.go).
THEOREM RingInvHolds == Spec => []Inv
BY Initially, StepsKeepInv, PTL DEF Spec

\* The clock and the server's variables keep their types.
THEOREM TypesHold == Spec => []TypeOK
<1>1. Inv => TypeOK
  BY DEF Inv
<1> QED BY <1>1, RingInvHolds, PTL

\* No traffic ends the server but in the second of its start: once a second has
\* passed, the bucket that IncreaseReceivedBytes writes to is never a nil map.
THEOREM LaterTrafficIsSafe == Spec => []PanicsOnlyAtStart
<1>1. Inv => PanicsOnlyAtStart
  BY DEF Inv
<1> QED BY <1>1, RingInvHolds, PTL

\* The rates of every window are those of the traffic there was, for a ring of any
\* length and looks at any time, unless there was none for a whole turn.
THEOREM RatesStayTrue == Spec => []RatesAreTrue
BY RatesFollow, RingInvHolds, PTL

\* What the page draws as traffic had some within the last Quiet seconds, for a ring
\* of any length and any number of fetches, unless answers overtook each other or
\* stayed away, the server was restarted, or nobody looked at the ring for a turn.
THEOREM DrawnTrafficStaysRecent == Spec => []DrawnTrafficIsRecent
<1>1. Init => PageInv
  BY PageInitially
<1>2. Inv /\ PageInv /\ [Next]_vars => PageInv'
  BY StepsKeepPageInv
<1>3. PageInv => DrawnTrafficIsRecent
  BY DEF PageInv
<1> QED BY <1>1, <1>2, <1>3, RingInvHolds, PTL DEF Spec
=============================================================================
