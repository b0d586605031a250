----------------------------- MODULE Visualizer -----------------------------
(***************************************************************************)
(* The traffic visualizer of the discovery server: the ring with the bytes  *)
(* received in each of the last MaxHistory seconds                          *)
(* (src/discovery/visualize/web.go) and the page that asks for the rates    *)
(* every second and draws them (src/discovery/visualize/main.js).           *)
(*                                                                         *)
(* A second is a number, and the clock does not go back.  Answers to the    *)
(* page may be late, overtake each other or get lost.  A rate is a pair:    *)
(* bytes, and the seconds they are spread over.                             *)
(***************************************************************************)
EXTENDS Naturals, FiniteSets, FiniteSetsExt

CONSTANTS
  Edges,          \* records with a sender, a receiver and a mode
  MaxHistory,     \* 30 in the code
  Quiet,          \* seconds without traffic after which a rate is 0: 3 in the code
  None,           \* a bucket that is nil
  LastSecond,     \* the model's clock stops here
  MaxBytes,       \* bytes of an edge in a second
  MaxPolls,       \* fetches of the page at a time
  MaxRestarts     \* restarts of the server

ASSUME HistoryAssumption ==
  MaxHistory \in Nat \ {0} /\ Quiet \in 0..MaxHistory /\ LastSecond \in Nat /\ MaxHistory <= LastSecond
ASSUME BytesAssumption == MaxBytes \in Nat /\ MaxPolls \in Nat /\ MaxRestarts \in Nat
ASSUME NoneIsNoBucket == None \notin [Edges -> 0..MaxBytes]

VARIABLES
  now,            \* time.Now().Unix()
  timeseries,     \* the ring: nil, or the bytes of every edge (0: no entry)
  lastUpdate,     \* the second of the last look at the ring
  panicked,       \* an assignment to a nil map ended the server
  polls,          \* the page's fetches: when the server answered, and what
  due,            \* the page's timer has not fired in this second
  nodes, edges,   \* what the page draws: names, and the rates of some edges
  shown,          \* the second the newest of what is drawn is of
  received,       \* history: the bytes of every second since the server's start
  born,           \* history: the second of the server's start
  restarts,       \* history: the restarts so far
  late,           \* history: nobody looked at the ring for too long
  excused         \* history: the page has been without answers, or they overtook

serverVars == <<timeseries, lastUpdate, panicked, received, born, restarts, late>>
pageVars == <<polls, due, nodes, edges, shown, excused>>
vars == <<now, timeseries, lastUpdate, panicked, received, born, restarts, late,
          polls, due, nodes, edges, shown, excused>>

Slots == 0 .. MaxHistory - 1

EmptyBucket == [e \in Edges |-> 0]

\* The rates of no edge.
NoRates == [e \in {} |-> <<0, 0>>]

\* A fetch that is not under way.
Idle == [state |-> "idle", at |-> 0, rates |-> NoRates]

\* The clock starts late enough for the window to be in the past.
FirstSecond == MaxHistory

\* The page starts without nodes and edges, and asks at once.
createGraph == nodes = {} /\ edges = NoRates

init == polls = [i \in 1..MaxPolls |-> Idle] /\ due = TRUE

Init ==
  /\ now = FirstSecond /\ born = FirstSecond /\ lastUpdate = FirstSecond
  /\ timeseries = [k \in Slots |-> None]
  /\ panicked = FALSE /\ late = FALSE /\ excused = FALSE /\ restarts = 0
  /\ received = [t \in 0..LastSecond |-> EmptyBucket]
  /\ createGraph /\ init /\ shown = FirstSecond

-----------------------------------------------------------------------------
\* The ring.

Least(a, b) == IF a < b THEN a ELSE b

\* Slip: the first second of a gap is not forgotten.
ForgottenButOne == {(lastUpdate + i) % MaxHistory : i \in 2 .. Least(now - lastUpdate, MaxHistory) - 1}

\* The buckets of the seconds since the last look, but for the present one.
Forgotten == {(lastUpdate + i) % MaxHistory : i \in 1 .. Least(now - lastUpdate, MaxHistory) - 1}

\* Slip: no new bucket for the present second.
RingNowAllForgotten ==
  IF now = lastUpdate THEN timeseries
  ELSE [k \in Slots |-> IF k \in Forgotten \union {now % MaxHistory} THEN None ELSE timeseries[k]]

\* The ring after getBucket(now).
RingNow ==
  IF now = lastUpdate THEN timeseries
  ELSE [k \in Slots |-> IF k = now % MaxHistory THEN EmptyBucket
                        ELSE IF k \in Forgotten THEN None ELSE timeseries[k]]

\* getBucket, as it is called first by everybody who looks at the ring.
Look ==
  /\ lastUpdate' = now
  /\ late' = (late \/ now - lastUpdate > MaxHistory)

IncreaseReceivedBytes(e) ==
  /\ ~panicked /\ received[now][e] < MaxBytes
  /\ Look
  /\ IF RingNow[now % MaxHistory] = None
     THEN panicked' = TRUE /\ timeseries' = RingNow /\ UNCHANGED received
     ELSE /\ timeseries' = [RingNow EXCEPT ![now % MaxHistory][e] = @ + 1]
          /\ received' = [received EXCEPT ![now][e] = @ + 1]
          /\ UNCHANGED panicked
  /\ UNCHANGED <<now, born, restarts, polls, due, nodes, edges, shown, excused>>

\* The bytes of e in the seconds of the window, as the ring has them.
InRing(ring, window, e) ==
  [b \in now - window .. now - 1 |->
     IF ring[b % MaxHistory] = None THEN 0 ELSE ring[b % MaxHistory][e]]

\* The seconds of the window that have any.
Seen(bytes) == {b \in DOMAIN bytes : bytes[b] > 0}

\* Slip: no rule for what is over.
RateSinceFirst(bytes) ==
  <<MapThenSumSet(LAMBDA b : bytes[b], Seen(bytes)), now - Min(Seen(bytes))>>

\* The bytes of an edge, spread over the seconds since the first that has any; 0 if
\* the last that has any is some time ago.
RateOf(bytes) ==
  <<IF now - Max(Seen(bytes)) >= Quiet THEN 0
    ELSE MapThenSumSet(LAMBDA b : bytes[b], Seen(bytes)),
    now - Min(Seen(bytes))>>

\* The rates of the edges that the window has bytes of; the others are not in the map.
RatesOf(bytesOf) == [e \in {e \in Edges : Seen(bytesOf[e]) # {}} |-> RateOf(bytesOf[e])]

historical(window) == RatesOf([e \in Edges |-> InRing(RingNow, window, e)])

\* renderReceivedBytes: no window means the longest one.
WindowOf(asked) == IF asked = 0 THEN MaxHistory ELSE asked

\* Anybody may ask for the rates; the page's fetches are below.
renderReceivedBytes ==
  /\ ~panicked
  /\ Look /\ timeseries' = RingNow
  /\ UNCHANGED <<now, panicked, received, born, restarts, polls, due, nodes, edges, shown, excused>>

\* The server ends, by its panic or otherwise, and is started again; the answers it
\* gave are still on their way.
Restart ==
  /\ restarts < MaxRestarts
  /\ restarts' = restarts + 1
  /\ panicked' = FALSE /\ late' = FALSE
  /\ born' = now /\ lastUpdate' = now
  /\ timeseries' = [k \in Slots |-> None]
  /\ received' = [t \in 0..LastSecond |-> EmptyBucket]
  /\ excused' = TRUE
  /\ UNCHANGED <<now, polls, due, nodes, edges, shown>>

-----------------------------------------------------------------------------
\* The page.

\* The edges whose rate is not 0.
Flowing(rates) == {e \in DOMAIN rates : rates[e][1] > 0}

\* The page may miss answers this long: an edge that is quiet has the rate 0 in all
\* the answers of so many seconds before it is left out.
Patience == MaxHistory - Quiet

\* setInterval: reloadData every second, whether or not the last fetch is done.
reloadData(i) ==
  /\ due /\ due' = FALSE
  /\ polls[i] = Idle
  /\ polls' = [polls EXCEPT ![i] = [Idle EXCEPT !.state = "asked"]]
  /\ UNCHANGED <<now, nodes, edges, shown, excused>> /\ UNCHANGED serverVars

\* The server's part of a fetch, with the page's window.
AnswerPoll(i) ==
  /\ ~panicked /\ polls[i].state = "asked"
  /\ Look /\ timeseries' = RingNow
  /\ polls' = [polls EXCEPT ![i] =
       [state |-> "answered", at |-> now, rates |-> historical(WindowOf(0))]]
  /\ UNCHANGED <<now, panicked, received, born, restarts, due, nodes, edges, shown, excused>>

\* The catch of reloadData: the error goes to the console, the page stays as it is.
PollFails(i) ==
  /\ polls[i] # Idle
  /\ polls' = [polls EXCEPT ![i] = Idle]
  /\ UNCHANGED <<now, due, nodes, edges, shown, excused>> /\ UNCHANGED serverVars

\* DataSet.update adds and changes, and leaves alone what is not in the answer.
updateGraph(i) ==
  LET rates == polls[i].rates IN
  /\ polls[i].state = "answered"
  /\ polls' = [polls EXCEPT ![i] = Idle]
  /\ nodes' = nodes \union UNION {{e.sender, e.receiver} : e \in DOMAIN rates}
  /\ edges' = [e \in DOMAIN edges \union DOMAIN rates |->
                 IF e \in DOMAIN rates THEN rates[e] ELSE edges[e]]
  /\ shown' = IF polls[i].at > shown THEN polls[i].at ELSE shown
  /\ excused' = (excused \/ polls[i].at < shown)
  /\ UNCHANGED <<now, due>> /\ UNCHANGED serverVars

-----------------------------------------------------------------------------
Tick ==
  /\ now < LastSecond
  /\ now' = now + 1
  /\ excused' = (excused \/ now' - shown > Patience)
  /\ due' = TRUE
  /\ UNCHANGED <<polls, nodes, edges, shown>> /\ UNCHANGED serverVars

Next ==
  \/ Tick \/ Restart
  \/ \E e \in Edges : IncreaseReceivedBytes(e)
  \/ renderReceivedBytes
  \/ \E i \in 1..MaxPolls : reloadData(i) \/ AnswerPoll(i) \/ PollFails(i) \/ updateGraph(i)

Spec == Init /\ [][Next]_vars

-----------------------------------------------------------------------------
(***************************************************************************)
(* Properties.                                                             *)
(***************************************************************************)

\* The types of the clock and of the server's variables.
TypeOK ==
  /\ now \in FirstSecond..LastSecond /\ born \in FirstSecond..now /\ lastUpdate \in born..now
  /\ timeseries \in [Slots -> [Edges -> 0..MaxBytes] \union {None}]
  /\ panicked \in BOOLEAN /\ late \in BOOLEAN /\ restarts \in 0..MaxRestarts
  /\ received \in [0..LastSecond -> [Edges -> 0..MaxBytes]]

\* What the seconds of the window really had.  In the longest window the oldest
\* second has the bucket of the present one, so that is what it counts.
InTruth(window, e) ==
  [b \in now - window .. now - 1 |->
     received[IF b = now - MaxHistory THEN now ELSE b][e]]

\* The rates of every window are those of the traffic there was, whenever and by
\* whoever the ring was looked at before, as long as there was a look within every
\* MaxHistory seconds.  After a longer pause a bucket can survive that getBucket
\* does not clear.
RatesAreTrue ==
  ~late /\ now - lastUpdate <= MaxHistory =>
    \A window \in 1..MaxHistory :
      historical(window) = RatesOf([e \in Edges |-> InTruth(window, e)])

\* The bucket to count in is a nil map only in the second the server started in:
\* later no traffic, however long it stayed away, ends the server (getBucket).
PanicsOnlyAtStart == panicked => lastUpdate = born

\* A rate is drawn for traffic that is over only if the answers overtook each other,
\* the page had none for most of the window, or the server was restarted: an edge
\* that ends is drawn with 0 before the server leaves it out (historical,
\* updateGraph, which never removes anything).
DrawnTrafficIsRecent ==
  ~excused /\ ~late => \A e \in Flowing(edges) :
    \E t \in shown - Quiet + 1 .. shown : received[t][e] > 0
=============================================================================
