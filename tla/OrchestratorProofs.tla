------------------------- MODULE OrchestratorProofs -------------------------
(***************************************************************************)
(* The safety of the transfer scheduler for any set of peers and a file of *)
(* any length, that it implements the ledger of single blocks              *)
(* (TransferLedger), and the safety of the ledger by itself.               *)
(***************************************************************************)
EXTENDS Orchestrator, TLAPS, WellFoundedInduction, FiniteSetTheorems,
        SequenceTheorems

-----------------------------------------------------------------------------
(* Induction, on sets of numbers.                                          *)

(* Every non-empty set of naturals has a least element.                    *)
LEMMA LeastElement ==
  ASSUME NEW T, T \subseteq Nat, T # {}
  PROVE  \E x \in T : \A y \in T : x <= y
<1> DEFINE R == OpToRel(<, Nat)
<1>1. IsWellFoundedOn(R, Nat)
  BY NatLessThanWellFounded, Zenon
<1>2. \A x, y \in Nat : y < x => << y, x >> \in R
  BY Zenon DEF OpToRel
<1> HIDE DEF R
<1>3. PICK x \in T : \A y \in T : ~ (<< y, x >> \in R)
  BY <1>1, WFMin, Zenon
<1>4. \A y \in T : ~ (y < x)
  BY <1>2, <1>3, Zenon
<1> QED BY <1>4

(* Induction over 0..N, on the set T of the numbers it holds for.          *)
LEMMA UpTo ==
  ASSUME NEW N \in Nat, NEW T, 0 \in T,
         \A k \in 0 .. (N - 1) : k \in T => k + 1 \in T
  PROVE  \A k \in 0 .. N : k \in T
<1> DEFINE Bad == { k \in 0 .. N : k \notin T }
<1> SUFFICES ASSUME Bad # {} PROVE FALSE
  OBVIOUS
<1>1. Bad \subseteq Nat
  OBVIOUS
<1>2. PICK x \in Bad : \A y \in Bad : x <= y
  <2> HIDE DEF Bad
  <2> QED BY <1>1, LeastElement
<1>3. x # 0 /\ x - 1 \in 0 .. (N - 1)
  OBVIOUS
<1>4. x - 1 \notin Bad
  BY <1>2
<1> QED BY <1>3, <1>4

(* Min of a non-empty set of integers between two bounds is its least.     *)
LEMMA MinOfRange ==
  ASSUME NEW a \in Int, NEW b \in Int, NEW T, T \subseteq a .. b, T # {}
  PROVE  Min(T) \in T /\ \A y \in T : Min(T) <= y
<1> DEFINE U == { x \in Nat : x + a \in T }
<1>1. U \subseteq Nat
  OBVIOUS
<1>2. U # {}
  <2> PICK t \in T : TRUE
    OBVIOUS
  <2>1. t - a \in Nat /\ (t - a) + a = t
    OBVIOUS
  <2>2. t - a \in U
    BY <2>1
  <2> QED BY <2>2
<1>3. PICK x \in U : \A y \in U : x <= y
  <2> HIDE DEF U
  <2> QED BY <1>1, <1>2, LeastElement
<1>4. \A y \in T : y - a \in U
  OBVIOUS
<1>5. x + a \in T /\ \A y \in T : x + a <= y
  BY <1>3, <1>4
<1> QED BY <1>5 DEF Min

(* Max of a non-empty set of integers between two bounds is its greatest.  *)
LEMMA MaxOfRange ==
  ASSUME NEW a \in Int, NEW b \in Int, NEW T, T \subseteq a .. b, T # {}
  PROVE  Max(T) \in T /\ \A y \in T : y <= Max(T)
<1> DEFINE U == { x \in Nat : b - x \in T }
<1>1. U \subseteq Nat
  OBVIOUS
<1>2. U # {}
  <2> PICK t \in T : TRUE
    OBVIOUS
  <2>1. b - t \in Nat /\ b - (b - t) = t
    OBVIOUS
  <2>2. b - t \in U
    BY <2>1
  <2> QED BY <2>2
<1>3. PICK x \in U : \A y \in U : x <= y
  <2> HIDE DEF U
  <2> QED BY <1>1, <1>2, LeastElement
<1>4. \A y \in T : b - y \in Nat /\ b - (b - y) = y /\ y \in Int
  OBVIOUS
<1>5. \A y \in T : b - y \in U
  BY <1>4
<1>6. x \in Nat /\ b - x \in T
  BY <1>3
<1>7. \A y \in T : x <= b - y
  BY <1>3, <1>5
<1>8. \A y \in T : y <= b - x
  BY <1>4, <1>6, <1>7
<1> QED BY <1>6, <1>8 DEF Max

(* A loop over 1..n that starts from base, as a recursive function.        *)
RunsThrough(f, n, base, step) ==
  f[0] = base /\ \A k \in 1 .. n : f[k] = step[k][f[k-1]]

(* A loop over a total step has a run.                                     *)
LEMMA LoopExists ==
  ASSUME NEW N \in Nat, NEW S, NEW base \in S, NEW step \in [1 .. N -> [S -> S]]
  PROVE  \E f \in [0 .. N -> S] : RunsThrough(f, N, base, step)
<1> DEFINE IsRun(n, f) == f[0] = base /\ \A k \in 1 .. n : f[k] = step[k][f[k-1]]
<1> DEFINE T == { n \in 0 .. N : \E f \in [0 .. n -> S] : IsRun(n, f) }
<1>1. 0 \in T
  <2> DEFINE f == [k \in {0} |-> base]
  <2>1. f \in [0 .. 0 -> S] /\ IsRun(0, f)
    OBVIOUS
  <2>2. \E g \in [0 .. 0 -> S] : IsRun(0, g)
    BY <2>1
  <2> QED BY <2>2
<1>2. ASSUME NEW n \in 0 .. (N - 1), n \in T PROVE n + 1 \in T
  <2>1. PICK f \in [0 .. n -> S] : IsRun(n, f)
    BY <1>2
  <2> DEFINE g == [k \in 0 .. (n + 1) |-> IF k <= n THEN f[k] ELSE step[n+1][f[n]]]
  <2>2. step[n+1] \in [S -> S] /\ f[n] \in S
    OBVIOUS
  <2>3. g \in [0 .. (n + 1) -> S]
    BY <2>2
  <2>4. \A k \in 0 .. n : g[k] = f[k]
    OBVIOUS
  <2>5. g[n+1] = step[n+1][g[n]]
    OBVIOUS
  <2> HIDE DEF g
  <2>6. ASSUME NEW k \in 1 .. (n + 1) PROVE g[k] = step[k][g[k-1]]
    <3>1. CASE k = n + 1
      BY <2>5, <3>1
    <3>2. CASE k \in 1 .. n
      <4>1. k - 1 \in 0 .. n /\ k \in 0 .. n
        BY <3>2
      <4> QED BY <2>1, <2>4, <3>2, <4>1
    <3> QED BY <3>1, <3>2
  <2>7. IsRun(n + 1, g)
    BY <2>6, <2>1, <2>4
  <2>8. \E h \in [0 .. (n + 1) -> S] : IsRun(n + 1, h)
    BY <2>3, <2>7
  <2> HIDE DEF IsRun
  <2> QED BY <2>8
<1>3. \A n \in 0 .. N : n \in T
  <2>1. \A n \in 0 .. (N - 1) : n \in T => n + 1 \in T
    BY <1>2
  <2> HIDE DEF T
  <2> QED BY <1>1, <2>1, UpTo
<1> QED BY <1>3 DEF RunsThrough

-----------------------------------------------------------------------------
(* Ranges of blocks.                                                       *)

(* The ends of a range are its Min and Max.                                *)
LEMMA EndsOfRange ==
  ASSUME NEW a \in Int, NEW b \in Int, a <= b
  PROVE  Min(a .. b) = a /\ Max(a .. b) = b
<1>1. a .. b # {} /\ a .. b \subseteq a .. b
  OBVIOUS
<1>2. Min(a .. b) \in a .. b /\ \A y \in a .. b : Min(a .. b) <= y
  BY <1>1, MinOfRange
<1>3. Max(a .. b) \in a .. b /\ \A y \in a .. b : y <= Max(a .. b)
  BY <1>1, MaxOfRange
<1> QED BY <1>2, <1>3

Ranges == { S \in SUBSET Blocks : Contiguous(S) }

(* A range of blocks is what lies between two blocks.                      *)
LEMMA RangeHasEnds ==
  ASSUME NEW S
  PROVE  S \in Ranges <=> \E a, b \in Blocks : a <= b /\ S = a .. b
<1>1. ASSUME S \in Ranges
      PROVE  \E a, b \in Blocks : a <= b /\ S = a .. b
  <2>1. S \subseteq 0 .. (NBlocks - 1) /\ S # {} /\ S = Min(S) .. Max(S)
    BY <1>1 DEF Ranges, Contiguous, Blocks
  <2>2. NBlocks - 1 \in Int /\ 0 \in Int
    BY NBlocksAssumption
  <2>3. Min(S) \in S /\ \A y \in S : Min(S) <= y
    BY <2>1, <2>2, MinOfRange
  <2>4. Max(S) \in S /\ \A y \in S : y <= Max(S)
    BY <2>1, <2>2, MaxOfRange
  <2> QED BY <2>1, <2>3, <2>4 DEF Blocks
<1>2. ASSUME NEW a \in Blocks, NEW b \in Blocks, a <= b, S = a .. b
      PROVE  S \in Ranges
  <2>1. Min(S) = a /\ Max(S) = b
    BY <1>2, EndsOfRange, NBlocksAssumption DEF Blocks
  <2>2. S # {} /\ S \subseteq Blocks
    BY <1>2, NBlocksAssumption DEF Blocks
  <2>3. Contiguous(S)
    BY <1>2, <2>1, <2>2 DEF Contiguous
  <2> QED BY <2>2, <2>3 DEF Ranges
<1> QED BY <1>1, <1>2

(* A set of blocks is the union of its maximal runs, which are ranges and  *)
(* do not overlap: Export cuts without loss.                               *)
LEMMA RunIsRange ==
  ASSUME NEW S \in SUBSET Blocks, NEW R \in Runs(S)
  PROVE  R \in Ranges /\ R \subseteq S
<1>1. PICK a \in S, b \in S : R = a .. b /\ R # {}
  BY DEF Runs
<1>2. a <= b
  BY <1>1, NBlocksAssumption DEF Blocks
<1>3. R \in Ranges
  BY <1>1, <1>2, RangeHasEnds
<1> QED BY <1>3 DEF Runs

(* Two runs of a set that share a block are one.                           *)
LEMMA RunsDoNotOverlap ==
  ASSUME NEW S \in SUBSET Blocks, NEW R \in Runs(S), NEW Q \in Runs(S),
         NEW x \in R, x \in Q
  PROVE  R = Q
<1>1. PICK a \in S, b \in S : R = a .. b /\ a - 1 \notin S /\ b + 1 \notin S
  BY DEF Runs
<1>2. PICK c \in S, d \in S : Q = c .. d /\ c - 1 \notin S /\ d + 1 \notin S
  BY DEF Runs
<1>3. a \in Int /\ b \in Int /\ c \in Int /\ d \in Int /\ x \in Int
  BY NBlocksAssumption, <1>1 DEF Blocks
<1>4. R \subseteq S /\ Q \subseteq S
  BY DEF Runs
<1>5. a = c
  BY <1>1, <1>2, <1>3, <1>4
<1>6. b = d
  BY <1>1, <1>2, <1>3, <1>4
<1> QED BY <1>1, <1>2, <1>5, <1>6

(* Every block of a set is in one of its runs.                             *)
LEMMA RunsCover ==
  ASSUME NEW S \in SUBSET Blocks, NEW x \in S
  PROVE  \E R \in Runs(S) : x \in R
<1> USE NBlocksAssumption DEF Blocks
<1> DEFINE Starts == { a \in 0 .. x : a .. x \subseteq S }
           Ends == { b \in x .. (NBlocks - 1) : x .. b \subseteq S }
<1>1. x \in Starts /\ x \in Ends
  OBVIOUS
<1>2. PICK a \in Starts : \A y \in Starts : a <= y
  <2>1. Starts \subseteq 0 .. x /\ Starts # {} /\ 0 \in Int /\ x \in Int
    BY <1>1
  <2> HIDE DEF Starts
  <2> QED BY <2>1, MinOfRange
<1>3. PICK b \in Ends : \A y \in Ends : y <= b
  <2>1. Ends \subseteq x .. (NBlocks - 1) /\ Ends # {} /\ NBlocks - 1 \in Int /\ x \in Int
    BY <1>1
  <2> HIDE DEF Ends
  <2> QED BY <2>1, MaxOfRange
<1>4. a \in S /\ a - 1 \notin S
  <2>1. a \in a .. x
    OBVIOUS
  <2>2. ASSUME a - 1 \in S PROVE a - 1 \in Starts
    BY <2>2
  <2> QED BY <2>1, <2>2, <1>2
<1>5. b \in S /\ b + 1 \notin S
  <2>1. b \in x .. b
    OBVIOUS
  <2>2. ASSUME b + 1 \in S PROVE b + 1 \in Ends
    BY <2>2
  <2> QED BY <2>1, <2>2, <1>3
<1>6. a .. b \subseteq S /\ x \in a .. b
  OBVIOUS
<1>7. a .. b \in Runs(S)
  <2> HIDE DEF Starts, Ends
  <2> QED BY <1>4, <1>5, <1>6 DEF Runs
<1> QED BY <1>6, <1>7

-----------------------------------------------------------------------------
(* The slices of a round.                                                  *)

(* What is kept of a peer, and every command, is uniform over a slice.     *)
LEMMA InUseSets ==
  /\ \A p \in Peers : /\ ranges[p].have \in InUse
                       /\ ranges[p].readnow \in InUse
                       /\ ranges[p].readahead \in InUse
  /\ \A s \in Peers : \A c \in transfers[s] : c.range \in InUse
<1>1. ASSUME NEW s \in Peers, NEW c \in transfers[s]
      PROVE  c.range \in InUse
  <2>1. c \in UNION { transfers[u] : u \in Peers }
    OBVIOUS
  <2> QED BY <2>1 DEF InUse
<1> QED BY <1>1 DEF InUse

(* A set in use has all of a slice or none of it.                          *)
LEMMA SliceIsUniform ==
  ASSUME NEW b \in Blocks, NEW S \in InUse, NEW x \in SliceFrom(b)
  PROVE  x \in S <=> b \in S
<1> USE NBlocksAssumption DEF Blocks
<1> DEFINE Bad == { y \in SliceFrom(b) : ~ (y \in S <=> b \in S) }
<1> SUFFICES ASSUME Bad # {} PROVE FALSE
  OBVIOUS
<1>1. Bad \subseteq b .. (NBlocks - 1) /\ b \in Int /\ NBlocks - 1 \in Int
  BY DEF SliceFrom
<1>2. PICK y \in Bad : \A z \in Bad : y <= z
  <2> HIDE DEF Bad
  <2> QED BY <1>1, MinOfRange
<1>3. y \in b .. (NBlocks - 1) /\ y # b /\ \A d \in (b + 1) .. y : ~ SplitBefore(d)
  BY DEF SliceFrom
<1>4. y - 1 \in SliceFrom(b)
  BY <1>3 DEF SliceFrom
<1>5. y - 1 \notin Bad
  BY <1>1, <1>2, <1>3
<1>6. (y \in S) # ((y - 1) \in S)
  BY <1>4, <1>5
<1>7. SplitBefore(y)
  BY <1>6 DEF SplitBefore
<1> QED BY <1>3, <1>7

(* A slice is a range that begins with its first block.                    *)
LEMMA SliceIsRange ==
  ASSUME NEW b \in Blocks
  PROVE  SliceFrom(b) \in Ranges /\ b \in SliceFrom(b)
<1> USE NBlocksAssumption DEF Blocks
<1>1. b \in SliceFrom(b)
  BY DEF SliceFrom
<1>2. SliceFrom(b) \subseteq b .. (NBlocks - 1) /\ b \in Int /\ NBlocks - 1 \in Int
  BY DEF SliceFrom
<1>3. PICK e \in SliceFrom(b) : \A y \in SliceFrom(b) : y <= e
  BY <1>1, <1>2, MaxOfRange
<1>4. SliceFrom(b) = b .. e
  <2>1. e \in b .. (NBlocks - 1) /\ \A d \in (b + 1) .. e : ~ SplitBefore(d)
    BY DEF SliceFrom
  <2>2. ASSUME NEW y \in b .. e PROVE y \in SliceFrom(b)
    <3>1. y \in b .. (NBlocks - 1) /\ \A d \in (b + 1) .. y : d \in (b + 1) .. e
      BY <2>1
    <3> QED BY <2>1, <3>1 DEF SliceFrom
  <2>3. ASSUME NEW y \in SliceFrom(b) PROVE y \in b .. e
    BY <1>2, <1>3, <2>1
  <2> QED BY <2>2, <2>3
<1>5. e \in Blocks /\ b <= e
  BY <1>2
<1> QED BY <1>1, <1>4, <1>5, RangeHasEnds

(* A slice ends before the next one starts.                                *)
LEMMA SlicesDoNotOverlap ==
  ASSUME NEW b \in Blocks, NEW c \in Blocks, b < c, SplitBefore(c)
  PROVE  SliceFrom(b) \cap SliceFrom(c) = {}
<1> SUFFICES ASSUME NEW x \in SliceFrom(b), x \in SliceFrom(c) PROVE FALSE
  OBVIOUS
<1>1. x \in c .. (NBlocks - 1) /\ \A d \in (b + 1) .. x : ~ SplitBefore(d)
  BY DEF SliceFrom
<1>2. c \in (b + 1) .. x
  BY <1>1, NBlocksAssumption DEF Blocks
<1> QED BY <1>1, <1>2

(* Every block of a set in use is in a slice that starts at a cut.         *)
LEMMA SlicesCover ==
  ASSUME NEW S \in InUse, S \subseteq Blocks, NEW x \in S
  PROVE  \E b \in Blocks : SplitBefore(b) /\ x \in SliceFrom(b)
<1> USE NBlocksAssumption DEF Blocks
<1> DEFINE Splits == { b \in 0 .. x : SplitBefore(b) }
           Starts == { a \in 0 .. x : a .. x \subseteq S }
<1> x \in 0 .. (NBlocks - 1)
  OBVIOUS
<1>1. PICK a \in Starts : \A y \in Starts : a <= y
  <2>1. x \in Starts
    OBVIOUS
  <2>2. Starts \subseteq 0 .. x
    OBVIOUS
  <2> HIDE DEF Starts
  <2>3. Starts # {} /\ 0 \in Int /\ x \in Int
    BY <2>1
  <2> QED BY <2>2, <2>3, MinOfRange
<1>2. a \in Splits
  <2>1. a \in a .. x /\ a \in S
    OBVIOUS
  <2>2. ASSUME a - 1 \in S PROVE a - 1 \in Starts
    BY <2>2
  <2>3. a - 1 \notin S
    BY <2>2, <1>1
  <2> QED BY <2>1, <2>3 DEF SplitBefore
<1>3. PICK b \in Splits : \A y \in Splits : y <= b
  <2>1. Splits \subseteq 0 .. x /\ Splits # {} /\ 0 \in Int /\ x \in Int
    BY <1>2
  <2> HIDE DEF Splits
  <2> QED BY <2>1, MaxOfRange
<1>4. b \in Blocks /\ SplitBefore(b)
  OBVIOUS
<1>5. \A d \in (b + 1) .. x : ~ SplitBefore(d)
  <2>1. \A d \in (b + 1) .. x : d \in 0 .. x /\ ~ (d <= b)
    OBVIOUS
  <2> QED BY <2>1, <1>3
<1>6. x \in SliceFrom(b)
  BY <1>5 DEF SliceFrom
<1> QED BY <1>4, <1>6

-----------------------------------------------------------------------------
(* addTransfer: the new transfer ends up behind the others, or makes one   *)
(* of them that ends where it starts longer.                               *)

WantRecord == [isReadAhead : BOOLEAN, receiver : Peers, bytes : Ranges,
               senders : SUBSET Peers]

Grown(t, bytes) == [t EXCEPT !.bytes = @ \cup bytes]

(* addTransfer appends the transfer or grows one it is adjacent to.        *)
LEMMA AddTransferEffect ==
  ASSUME NEW ts \in Seq(WantRecord), NEW t \in WantRecord
  PROVE  \/ AddTransfer(ts, t) = Append(ts, t)
         \/ \E i \in DOMAIN ts :
              /\ IsAdjacentTransfer(ts[i], t)
              /\ AddTransfer(ts, t) = [ts EXCEPT ![i] = Grown(ts[i], t.bytes)]
<1> DEFINE inReach == { i \in DOMAIN ts :
                         \A j \in i .. Len(ts) : Max(ts[j].bytes) + 1 >= Min(t.bytes) }
           fitting == { i \in inReach : IsAdjacentTransfer(ts[i], t) }
<1>1. CASE fitting = {}
  <2>1. AddTransfer(ts, t) = Append(ts, t)
    BY <1>1 DEF AddTransfer
  <2> QED BY <2>1
<1>2. CASE fitting # {}
  <2>1. fitting \subseteq 1 .. Len(ts) /\ 1 \in Int /\ Len(ts) \in Int
    OBVIOUS
  <2>2. Max(fitting) \in fitting
    <3> HIDE DEF fitting
    <3> QED BY <2>1, <1>2, MaxOfRange
  <2>3. AddTransfer(ts, t) = [ts EXCEPT ![Max(fitting)] = Grown(ts[Max(fitting)], t.bytes)]
    BY <1>2 DEF AddTransfer, Grown
  <2> QED BY <2>2, <2>3
<1> QED BY <1>1, <1>2

-----------------------------------------------------------------------------
(* What a list of wanted transfers asks for.                               *)

\* Some command of the table brings block b to r.
Sent(table, r, b) ==
  \E s \in Peers : \E c \in table[s] : c.peer = r /\ b \in c.range

AskedBlocks(isReadAhead, r) ==
  IF isReadAhead THEN ranges[r].readahead ELSE ranges[r].readnow

\* A transfer the two assignment loops can do something sensible with: its
\* senders are those of the receiver's connections that have any of it, they
\* have all of it, and none of it is on its way.
GoodWant(t) ==
  /\ t.senders \subseteq connections[t.receiver]
  /\ \A s \in t.senders : t.bytes \subseteq ranges[s].have
  /\ \A s \in connections[t.receiver] :
       ranges[s].have \cap t.bytes # {} => s \in t.senders
  /\ t.bytes \subseteq AskedBlocks(t.isReadAhead, t.receiver)
  /\ \A b \in t.bytes : ~ Sent(transfers, t.receiver, b)

ListOK(ts) ==
  /\ ts \in Seq(WantRecord)
  /\ \A i \in DOMAIN ts : GoodWant(ts[i])
  /\ \A i, j \in DOMAIN ts :
       i # j /\ ts[i].receiver = ts[j].receiver => ts[i].bytes \cap ts[j].bytes = {}

Covers(ts, isReadAhead, r, b) ==
  \E i \in DOMAIN ts : /\ ts[i].isReadAhead = isReadAhead
                       /\ ts[i].receiver = r
                       /\ b \in ts[i].bytes

DisjointRanges == \A p \in Peers : Disjoint(ranges[p])

(* Two ranges that touch make one range.                                   *)
LEMMA TouchingRanges ==
  ASSUME NEW R \in Ranges, NEW Q \in Ranges, Max(R) + 1 = Min(Q)
  PROVE  R \cup Q \in Ranges
<1> USE NBlocksAssumption DEF Blocks
<1>1. PICK a \in Blocks, b \in Blocks : a <= b /\ R = a .. b
  BY RangeHasEnds
<1>2. PICK c \in Blocks, d \in Blocks : c <= d /\ Q = c .. d
  BY RangeHasEnds
<1>3. Max(R) = b /\ Min(Q) = c
  BY <1>1, <1>2, EndsOfRange
<1>4. R \cup Q = a .. d /\ a <= d
  BY <1>1, <1>2, <1>3
<1> QED BY <1>4, RangeHasEnds

(* Growing a transfer only changes its bytes.                              *)
LEMMA GrownWant ==
  ASSUME NEW l \in WantRecord, NEW t \in WantRecord, IsAdjacentTransfer(l, t)
  PROVE  /\ Grown(l, t.bytes) \in WantRecord
         /\ Grown(l, t.bytes).isReadAhead = l.isReadAhead
         /\ Grown(l, t.bytes).receiver = l.receiver
         /\ Grown(l, t.bytes).senders = l.senders
         /\ Grown(l, t.bytes).bytes = l.bytes \cup t.bytes
<1>1. l.bytes \cup t.bytes \in Ranges
  BY TouchingRanges DEF IsAdjacentTransfer, WantRecord
<1> QED BY <1>1 DEF Grown, WantRecord

(* Adjacent good transfers grow into a good one: their senders agree.      *)
LEMMA GrownIsGood ==
  ASSUME NEW l \in WantRecord, NEW t \in WantRecord, IsAdjacentTransfer(l, t),
         GoodWant(l), GoodWant(t)
  PROVE  GoodWant(Grown(l, t.bytes))
<1> DEFINE g == Grown(l, t.bytes)
<1>1. /\ g.isReadAhead = l.isReadAhead /\ g.isReadAhead = t.isReadAhead
      /\ g.receiver = l.receiver /\ g.receiver = t.receiver
      /\ g.senders = l.senders /\ g.senders = t.senders
      /\ g.bytes = l.bytes \cup t.bytes
  BY GrownWant DEF IsAdjacentTransfer
<1> HIDE DEF g
<1>2. g.senders \subseteq connections[g.receiver]
  BY <1>1 DEF GoodWant
<1>3. \A s \in g.senders : g.bytes \subseteq ranges[s].have
  BY <1>1 DEF GoodWant
<1>4. \A s \in connections[g.receiver] :
        ranges[s].have \cap g.bytes # {} => s \in g.senders
  BY <1>1 DEF GoodWant
<1>5. g.bytes \subseteq AskedBlocks(g.isReadAhead, g.receiver)
  BY <1>1 DEF GoodWant
<1>6. \A b \in g.bytes : ~ Sent(transfers, g.receiver, b)
  BY <1>1 DEF GoodWant
<1>7. GoodWant(g)
  BY <1>2, <1>3, <1>4, <1>5, <1>6 DEF GoodWant
<1> QED BY <1>7 DEF g

(* The list stays a list of transfers.                                     *)
LEMMA AddTransferType ==
  ASSUME NEW ts \in Seq(WantRecord), NEW t \in WantRecord
  PROVE  AddTransfer(ts, t) \in Seq(WantRecord)
<1>1. CASE AddTransfer(ts, t) = Append(ts, t)
  BY <1>1
<1>2. CASE \E i \in DOMAIN ts :
             /\ IsAdjacentTransfer(ts[i], t)
             /\ AddTransfer(ts, t) = [ts EXCEPT ![i] = Grown(ts[i], t.bytes)]
  <2>1. PICK i \in DOMAIN ts :
             /\ IsAdjacentTransfer(ts[i], t)
             /\ AddTransfer(ts, t) = [ts EXCEPT ![i] = Grown(ts[i], t.bytes)]
    BY <1>2
  <2>2. Grown(ts[i], t.bytes) \in WantRecord
    BY <2>1, GrownWant
  <2> QED BY <2>1, <2>2, ExceptSeq
<1> QED BY <1>1, <1>2, AddTransferEffect

(* addTransfer neither loses nor invents a block.                          *)
LEMMA AddTransferCovers ==
  ASSUME NEW ts \in Seq(WantRecord), NEW t \in WantRecord,
         NEW k, NEW r, NEW b
  PROVE  Covers(AddTransfer(ts, t), k, r, b)
           <=> \/ Covers(ts, k, r, b)
               \/ t.isReadAhead = k /\ t.receiver = r /\ b \in t.bytes
<1>1. CASE AddTransfer(ts, t) = Append(ts, t)
  <2> DEFINE us == Append(ts, t)
  <2>1. /\ DOMAIN us = 1 .. (Len(ts) + 1) /\ DOMAIN ts = 1 .. Len(ts)
        /\ us[Len(ts) + 1] = t /\ \A i \in 1 .. Len(ts) : us[i] = ts[i]
        /\ Len(ts) \in Nat
    OBVIOUS
  <2> HIDE DEF us
  <2>2. Covers(us, k, r, b) <=> \/ Covers(ts, k, r, b)
                                \/ t.isReadAhead = k /\ t.receiver = r /\ b \in t.bytes
    BY <2>1 DEF Covers
  <2> QED BY <2>2, <1>1 DEF us
<1>2. CASE \E i \in DOMAIN ts :
             /\ IsAdjacentTransfer(ts[i], t)
             /\ AddTransfer(ts, t) = [ts EXCEPT ![i] = Grown(ts[i], t.bytes)]
  <2>1. PICK i \in DOMAIN ts :
             /\ IsAdjacentTransfer(ts[i], t)
             /\ AddTransfer(ts, t) = [ts EXCEPT ![i] = Grown(ts[i], t.bytes)]
    BY <1>2
  <2> DEFINE us == [ts EXCEPT ![i] = Grown(ts[i], t.bytes)]
             g == Grown(ts[i], t.bytes)
  <2>2. /\ g.isReadAhead = ts[i].isReadAhead /\ g.isReadAhead = t.isReadAhead
        /\ g.receiver = ts[i].receiver /\ g.receiver = t.receiver
        /\ g.bytes = ts[i].bytes \cup t.bytes
    BY <2>1, GrownWant DEF IsAdjacentTransfer
  <2>3. DOMAIN us = DOMAIN ts /\ us[i] = g /\ \A j \in DOMAIN ts : j # i => us[j] = ts[j]
    BY <2>1
  <2> HIDE DEF us, g
  <2>4. Covers(us, k, r, b) <=> \/ Covers(ts, k, r, b)
                                \/ t.isReadAhead = k /\ t.receiver = r /\ b \in t.bytes
    BY <2>2, <2>3 DEF Covers
  <2> QED BY <2>1, <2>4 DEF us
<1> QED BY <1>1, <1>2, AddTransferEffect

(* addTransfer keeps the list in order when the new transfer is new.       *)
LEMMA AddTransferKeepsList ==
  ASSUME DisjointRanges,
         NEW ts, ListOK(ts), NEW t \in WantRecord, GoodWant(t),
         \A b \in t.bytes : ~ Covers(ts, t.isReadAhead, t.receiver, b)
  PROVE  ListOK(AddTransfer(ts, t))
<1>1. ts \in Seq(WantRecord) /\ AddTransfer(ts, t) \in Seq(WantRecord)
  BY AddTransferType DEF ListOK
<1>2. ASSUME NEW i \in DOMAIN ts, ts[i].receiver = t.receiver
      PROVE  ts[i].bytes \cap t.bytes = {}
  <2>1. CASE ts[i].isReadAhead = t.isReadAhead
    BY <1>2, <2>1 DEF Covers
  <2>2. CASE ts[i].isReadAhead # t.isReadAhead
    <3>1. GoodWant(ts[i]) /\ ts[i] \in WantRecord
      BY <1>1 DEF ListOK
    <3>2. AskedBlocks(TRUE, t.receiver) \cap AskedBlocks(FALSE, t.receiver) = {}
      BY DEF DisjointRanges, Disjoint, AskedBlocks, WantRecord
    <3>3. /\ ts[i].bytes \subseteq AskedBlocks(ts[i].isReadAhead, t.receiver)
          /\ t.bytes \subseteq AskedBlocks(t.isReadAhead, t.receiver)
      BY <3>1, <1>2 DEF GoodWant
    <3>4. ts[i].isReadAhead \in BOOLEAN /\ t.isReadAhead \in BOOLEAN
      BY <3>1 DEF WantRecord
    <3>5. CASE ts[i].isReadAhead = TRUE
      <4>1. t.isReadAhead = FALSE
        BY <2>2, <3>4, <3>5
      <4> QED BY <3>2, <3>3, <3>5, <4>1
    <3>6. CASE ts[i].isReadAhead = FALSE
      <4>1. t.isReadAhead = TRUE
        BY <2>2, <3>4, <3>6
      <4> QED BY <3>2, <3>3, <3>6, <4>1
    <3> QED BY <3>4, <3>5, <3>6
  <2> QED BY <2>1, <2>2
<1>3. CASE AddTransfer(ts, t) = Append(ts, t)
  <2> DEFINE us == Append(ts, t)
  <2>1. /\ DOMAIN us = 1 .. (Len(ts) + 1) /\ DOMAIN ts = 1 .. Len(ts)
        /\ us[Len(ts) + 1] = t /\ \A i \in 1 .. Len(ts) : us[i] = ts[i]
        /\ Len(ts) \in Nat
    BY <1>1
  <2> HIDE DEF us
  <2>2. \A i \in DOMAIN us : GoodWant(us[i])
    BY <2>1 DEF ListOK
  <2>3. ASSUME NEW i \in DOMAIN us, NEW j \in DOMAIN us, i # j,
               us[i].receiver = us[j].receiver
        PROVE  us[i].bytes \cap us[j].bytes = {}
    <3>1. CASE i \in DOMAIN ts /\ j \in DOMAIN ts
      BY <2>1, <2>3, <3>1 DEF ListOK
    <3>2. CASE i = Len(ts) + 1
      BY <2>1, <2>3, <3>2, <1>2
    <3>3. CASE j = Len(ts) + 1
      BY <2>1, <2>3, <3>3, <1>2
    <3> QED BY <3>1, <3>2, <3>3, <2>1
  <2>4. us \in Seq(WantRecord)
    BY <1>1, <1>3 DEF us
  <2>5. ListOK(us)
    BY <2>2, <2>3, <2>4 DEF ListOK
  <2> QED BY <2>5, <1>3 DEF us
<1>4. CASE \E i \in DOMAIN ts :
             /\ IsAdjacentTransfer(ts[i], t)
             /\ AddTransfer(ts, t) = [ts EXCEPT ![i] = Grown(ts[i], t.bytes)]
  <2>1. PICK i \in DOMAIN ts :
             /\ IsAdjacentTransfer(ts[i], t)
             /\ AddTransfer(ts, t) = [ts EXCEPT ![i] = Grown(ts[i], t.bytes)]
    BY <1>4
  <2> DEFINE us == [ts EXCEPT ![i] = Grown(ts[i], t.bytes)]
             g == Grown(ts[i], t.bytes)
  <2>2. ts[i] \in WantRecord /\ GoodWant(ts[i])
    BY <1>1, <2>1 DEF ListOK
  <2>3. /\ g.receiver = ts[i].receiver /\ g.receiver = t.receiver
        /\ g.bytes = ts[i].bytes \cup t.bytes
    BY <2>1, <2>2, GrownWant DEF IsAdjacentTransfer
  <2>4. GoodWant(g)
    BY <2>1, <2>2, GrownIsGood
  <2>5. DOMAIN us = DOMAIN ts /\ us[i] = g /\ \A j \in DOMAIN ts : j # i => us[j] = ts[j]
    BY <2>1
  <2>6. us \in Seq(WantRecord)
    BY <2>1, <1>1
  <2> HIDE DEF us, g
  <2>7. \A j \in DOMAIN us : GoodWant(us[j])
    BY <2>4, <2>5 DEF ListOK
  <2>8. ASSUME NEW j \in DOMAIN ts, j # i, ts[j].receiver = g.receiver
        PROVE  ts[j].bytes \cap g.bytes = {}
    <3>1. ts[j].bytes \cap ts[i].bytes = {}
      BY <2>1, <2>3, <2>8 DEF ListOK
    <3>2. ts[j].bytes \cap t.bytes = {}
      BY <1>2, <2>3, <2>8
    <3> QED BY <3>1, <3>2, <2>3
  <2>9. \A j, l \in DOMAIN us :
          j # l /\ us[j].receiver = us[l].receiver => us[j].bytes \cap us[l].bytes = {}
    <3> SUFFICES ASSUME NEW j \in DOMAIN us, NEW l \in DOMAIN us, j # l,
                        us[j].receiver = us[l].receiver
                 PROVE  us[j].bytes \cap us[l].bytes = {}
      OBVIOUS
    <3>1. CASE j # i /\ l # i
      BY <3>1, <2>5 DEF ListOK
    <3>2. CASE j = i
      BY <3>2, <2>5, <2>8
    <3>3. CASE l = i
      BY <3>3, <2>5, <2>8
    <3> QED BY <3>1, <3>2, <3>3
  <2>10. ListOK(us)
    BY <2>6, <2>7, <2>9 DEF ListOK
  <2> QED BY <2>1, <2>10 DEF us
<1> QED BY <1>1, <1>3, <1>4, AddTransferEffect

-----------------------------------------------------------------------------
(* The loops over the receivers and over the slices.                       *)

Orders == SetToSeqs(Peers)

(* Go's map order visits every peer once.                                  *)
LEMMA OrderVisitsEverybody ==
  ASSUME NEW order \in Orders
  PROVE  /\ order \in Seq(Peers)
         /\ \A p \in Peers : \E k \in 1 .. Len(order) : order[k] = p
         /\ \A i, j \in 1 .. Len(order) : i # j => order[i] # order[j]
<1> DEFINE n == Cardinality(Peers)
<1>1. n \in Nat
  BY PeersAssumption, FS_CardinalityType
<1>2. order \in [1 .. n -> Peers] /\ \A i, j \in 1 .. n : i # j => order[i] # order[j]
  BY DEF Orders, SetToSeqs
<1>3. order \in Injection(1 .. n, Peers)
  BY <1>2 DEF Injection, IsInjective
<1>4. Cardinality(1 .. n) = n
  BY <1>1, FS_Interval
<1>5. order \in Surjection(1 .. n, Peers)
  BY <1>3, <1>4, PeersAssumption, FS_Injection
<1>6. \A p \in Peers : \E k \in 1 .. n : order[k] = p
  BY <1>5 DEF Surjection
<1> HIDE DEF n
<1>7. order \in Seq(Peers) /\ Len(order) = n
  BY <1>1, <1>2
<1> QED BY <1>2, <1>6, <1>7

(* The loop over the receivers of a slice, step by step.                   *)
LEMMA AddWantsRuns ==
  ASSUME NEW order \in Seq(Peers), NEW ts \in Seq(WantRecord),
         NEW b \in Blocks, NEW kind \in BOOLEAN
  PROVE  \E list \in [0 .. Len(order) -> Seq(WantRecord)] :
           /\ list[0] = ts
           /\ \A k \in 1 .. Len(order) :
                list[k] = IF Asks(kind, order[k], SliceFrom(b))
                          THEN AddTransfer(list[k-1], Want(kind, order[k], SliceFrom(b)))
                          ELSE list[k-1]
           /\ AddWants(ts, kind, SliceFrom(b), order) = list[Len(order)]
<1> DEFINE S == SliceFrom(b)
           n == Len(order)
           Step(x, k) == IF Asks(kind, order[k], S)
                         THEN AddTransfer(x, Want(kind, order[k], S)) ELSE x
           P(f) == f = [k \in 0 .. n |-> IF k = 0 THEN ts ELSE Step(f[k-1], k)]
           step == [k \in 1 .. n |-> [x \in Seq(WantRecord) |-> Step(x, k)]]
<1>1. n \in Nat
  OBVIOUS
<1>2. ASSUME NEW k \in 1 .. n, NEW x \in Seq(WantRecord)
      PROVE  Step(x, k) \in Seq(WantRecord)
  <2>1. Want(kind, order[k], S) \in WantRecord
    BY SliceIsRange DEF Want, WantRecord, PeersHave
  <2> QED BY <2>1, AddTransferType
<1>3. step \in [1 .. n -> [Seq(WantRecord) -> Seq(WantRecord)]]
  <2> HIDE DEF Step, n
  <2> QED BY <1>2
<1>4. \A k \in 1 .. n, x \in Seq(WantRecord) : step[k][x] = Step(x, k)
  <2> HIDE DEF Step, n
  <2> QED OBVIOUS
<1>5. AddWants(ts, kind, S, order) = (CHOOSE f : P(f))[n]
  BY DEF AddWants
<1> HIDE DEF S, n, Step, step
<1>6. PICK g \in [0 .. n -> Seq(WantRecord)] : RunsThrough(g, n, ts, step)
  BY <1>1, <1>3, LoopExists
<1>7. P(g)
  <2>1. \A k \in 0 .. n : g[k] = IF k = 0 THEN ts ELSE step[k][g[k-1]]
    BY <1>1, <1>6 DEF RunsThrough
  <2>2. \A k \in 0 .. n : k # 0 => k \in 1 .. n /\ k - 1 \in 0 .. n
    BY <1>1
  <2>3. \A k \in 0 .. n : g[k] = IF k = 0 THEN ts ELSE Step(g[k-1], k)
    BY <2>1, <2>2, <1>4
  <2> QED BY <2>3
<1>8. PICK f : P(f) /\ AddWants(ts, kind, S, order) = f[n]
  <2> HIDE DEF P
  <2> QED BY <1>5, <1>7
<1>9. f[0] = ts /\ \A k \in 1 .. n : f[k] = Step(f[k-1], k)
  BY <1>1, <1>8
<1>10. \A k \in 0 .. n : k \in { j \in 0 .. n : f[j] \in Seq(WantRecord) }
  <2> DEFINE T == { j \in 0 .. n : f[j] \in Seq(WantRecord) }
  <2>1. 0 \in T
    BY <1>1, <1>9
  <2>2. ASSUME NEW k \in 0 .. (n - 1), k \in T PROVE k + 1 \in T
    <3>1. k + 1 \in 1 .. n /\ (k + 1) - 1 = k /\ f[k] \in Seq(WantRecord)
      BY <1>1, <2>2
    <3>2. f[k+1] = Step(f[k], k + 1)
      BY <3>1, <1>9
    <3> QED BY <3>1, <3>2, <1>1, <1>2
  <2>3. \A k \in 0 .. (n - 1) : k \in T => k + 1 \in T
    BY <2>2
  <2> HIDE DEF T
  <2>4. \A k \in 0 .. n : k \in T
    BY <1>1, <2>1, <2>3, UpTo
  <2> QED BY <2>4 DEF T
<1>11. f \in [0 .. n -> Seq(WantRecord)]
  <2>1. f = [k \in 0 .. n |-> f[k]]
    BY <1>8
  <2> QED BY <2>1, <1>10
<1> QED BY <1>8, <1>9, <1>11 DEF S, n, Step

(* The list stays a list of transfers in that loop.                        *)
LEMMA AddWantsType ==
  ASSUME NEW order \in Seq(Peers), NEW ts \in Seq(WantRecord),
         NEW b \in Blocks, NEW kind \in BOOLEAN
  PROVE  AddWants(ts, kind, SliceFrom(b), order) \in Seq(WantRecord)
<1>1. PICK list \in [0 .. Len(order) -> Seq(WantRecord)] :
        AddWants(ts, kind, SliceFrom(b), order) = list[Len(order)]
  BY AddWantsRuns
<1>2. Len(order) \in 0 .. Len(order)
  OBVIOUS
<1> QED BY <1>1, <1>2

(* A slice a receiver asks for makes a good transfer.                      *)
LEMMA WantIsGood ==
  ASSUME TypeOK, NEW b \in Blocks, NEW p \in Peers, NEW kind \in BOOLEAN,
         Asks(kind, p, SliceFrom(b))
  PROVE  LET t == Want(kind, p, SliceFrom(b)) IN
         /\ t \in WantRecord
         /\ t.isReadAhead = kind /\ t.receiver = p /\ t.bytes = SliceFrom(b)
         /\ GoodWant(t)
<1> DEFINE S == SliceFrom(b)
           t == Want(kind, p, S)
<1>1. S \in Ranges /\ b \in S
  BY SliceIsRange
<1>2. /\ t.isReadAhead = kind /\ t.receiver = p /\ t.bytes = S
      /\ t.senders = PeersHave(S) \cap connections[p]
  BY DEF Want
<1>3. t \in WantRecord
  BY <1>1 DEF Want, WantRecord, PeersHave
<1>4. ASSUME NEW q \in Peers, NEW x \in S, x \in ranges[q].have
      PROVE  q \in PeersHave(S)
  <2>1. \A y \in S : y \in ranges[q].have
    BY <1>4, InUseSets, SliceIsUniform
  <2> QED BY <2>1 DEF PeersHave
<1>5. ASSUME NEW x \in S, Sent(transfers, p, x) PROVE PeerIsReceiving(p, S)
  <2>1. PICK s \in Peers : \E c \in transfers[s] : c.peer = p /\ x \in c.range
    BY <1>5 DEF Sent
  <2>2. PICK c \in transfers[s] : c.peer = p /\ x \in c.range
    BY <2>1
  <2>3. \A y \in S : y \in c.range
    BY <2>2, InUseSets, SliceIsUniform
  <2> QED BY <2>2, <2>3 DEF PeerIsReceiving
<1>6. ~ PeerIsReceiving(p, S) /\ S \subseteq AskedBlocks(kind, p)
  BY DEF Asks, WaitsFor, ReadsAhead, AskedBlocks
<1>7. connections[p] \subseteq Peers
  BY DEF TypeOK
<1> HIDE DEF S, t
<1>8. t.senders \subseteq connections[t.receiver]
  BY <1>2
<1>9. \A s \in t.senders : t.bytes \subseteq ranges[s].have
  BY <1>2 DEF PeersHave
<1>10. \A s \in connections[t.receiver] :
         ranges[s].have \cap t.bytes # {} => s \in t.senders
  BY <1>2, <1>4, <1>7
<1>11. t.bytes \subseteq AskedBlocks(t.isReadAhead, t.receiver)
  BY <1>2, <1>6
<1>12. \A x \in t.bytes : ~ Sent(transfers, t.receiver, x)
  BY <1>2, <1>5, <1>6
<1>13. GoodWant(t)
  BY <1>8, <1>9, <1>10, <1>11, <1>12 DEF GoodWant
<1> QED BY <1>2, <1>3, <1>13 DEF t, S

(* One loop over the receivers adds what they ask for of the slice.        *)
LEMMA AddWantsEffect ==
  ASSUME TypeOK, DisjointRanges, NEW order \in Orders, NEW ts, ListOK(ts),
         NEW b \in Blocks, NEW kind \in BOOLEAN,
         \A r \in Peers : \A x \in SliceFrom(b) : ~ Covers(ts, kind, r, x)
  PROVE  LET us == AddWants(ts, kind, SliceFrom(b), order) IN
         /\ ListOK(us)
         /\ \A k, r, x : Covers(us, k, r, x)
              <=> \/ Covers(ts, k, r, x)
                  \/ /\ k = kind /\ r \in Peers /\ x \in SliceFrom(b)
                     /\ Asks(kind, r, SliceFrom(b))
<1> DEFINE S == SliceFrom(b)
           n == Len(order)
<1>1. order \in Seq(Peers) /\ n \in Nat /\ ts \in Seq(WantRecord)
  BY OrderVisitsEverybody DEF ListOK
<1>2. PICK list \in [0 .. n -> Seq(WantRecord)] :
           /\ list[0] = ts
           /\ \A k \in 1 .. n :
                list[k] = IF Asks(kind, order[k], S)
                          THEN AddTransfer(list[k-1], Want(kind, order[k], S))
                          ELSE list[k-1]
           /\ AddWants(ts, kind, S, order) = list[n]
  BY <1>1, AddWantsRuns
<1> DEFINE Visited(m, r) == \E j \in 1 .. m : order[j] = r
           Asked(m, k, r, x) == \/ Covers(ts, k, r, x)
                                \/ k = kind /\ Visited(m, r) /\ x \in S /\ Asks(kind, r, S)
           Good(m) == /\ ListOK(list[m])
                      /\ \A k, r, x : Covers(list[m], k, r, x) <=> Asked(m, k, r, x)
           T == { m \in 0 .. n : Good(m) }
<1>3. 0 \in T
  <2>1. \A r : ~ Visited(0, r)
    OBVIOUS
  <2> HIDE DEF Visited
  <2> QED BY <1>1, <1>2, <2>1
<1>4. ASSUME NEW m \in 0 .. (n - 1), Good(m) PROVE Good(m + 1)
  <2> DEFINE p == order[m+1]
             t == Want(kind, p, S)
  <2>1. m + 1 \in 1 .. n /\ (m + 1) - 1 = m /\ m \in 0 .. n
    BY <1>1
  <2>2. p \in Peers
    BY <1>1, <2>1, ElementOfSeq
  <2>3. m + 1 \in 1 .. n /\ (m + 1) - 1 = m /\ p \in Peers /\ list[m] \in Seq(WantRecord)
    BY <2>1, <2>2
  <2>4. list[m+1] = IF Asks(kind, p, S) THEN AddTransfer(list[m], t) ELSE list[m]
    BY <1>2, <2>3
  <2>5. \A r : Visited(m + 1, r) <=> Visited(m, r) \/ r = p
    BY <2>3
  <2>6. ~ Visited(m, p)
    <3> SUFFICES ASSUME NEW j \in 1 .. m, order[j] = p PROVE FALSE
      OBVIOUS
    <3>1. j \in 1 .. n /\ j # m + 1
      BY <1>1
    <3> QED BY <2>1, <3>1, OrderVisitsEverybody
  <2>7. CASE Asks(kind, p, S)
    <3>1. /\ t \in WantRecord /\ GoodWant(t)
          /\ t.isReadAhead = kind /\ t.receiver = p /\ t.bytes = S
      BY <2>3, <2>7, WantIsGood
    <3> HIDE DEF S, t, p, Visited
    <3>2. \A x \in t.bytes : ~ Covers(list[m], t.isReadAhead, t.receiver, x)
      BY <3>1, <2>3, <2>6, <1>4 DEF S
    <3>3. ListOK(AddTransfer(list[m], t))
      BY <3>1, <3>2, <1>4, AddTransferKeepsList
    <3>4. \A k, r, x : Covers(AddTransfer(list[m], t), k, r, x)
            <=> \/ Covers(list[m], k, r, x)
                \/ t.isReadAhead = k /\ t.receiver = r /\ x \in t.bytes
      BY <3>1, <2>3, AddTransferCovers
    <3>5. \A k, r, x : Covers(list[m+1], k, r, x) <=> Asked(m + 1, k, r, x)
      BY <3>4, <3>1, <2>4, <2>5, <2>7, <1>4
    <3> QED BY <3>3, <3>5, <2>4, <2>7
  <2>8. CASE ~ Asks(kind, p, S)
    <3> HIDE DEF S, t, p, Visited
    <3>1. list[m+1] = list[m]
      BY <2>4, <2>8
    <3>2. \A k, r, x : Covers(list[m+1], k, r, x) <=> Asked(m + 1, k, r, x)
      BY <3>1, <2>5, <2>8, <1>4
    <3> QED BY <3>1, <3>2, <1>4
  <2> QED BY <2>7, <2>8
<1>5. Good(n)
  <2>1. \A m \in 0 .. (n - 1) : m \in T => m + 1 \in T
    <3> SUFFICES ASSUME NEW m \in 0 .. (n - 1), m \in T PROVE m + 1 \in T
      OBVIOUS
    <3>1. Good(m)
      OBVIOUS
    <3>2. Good(m + 1)
      BY <3>1, <1>4
    <3>3. m + 1 \in 0 .. n
      BY <1>1
    <3> HIDE DEF Good
    <3> QED BY <3>2, <3>3
  <2> HIDE DEF T, n
  <2>2. \A m \in 0 .. n : m \in T
    BY <1>1, <1>3, <2>1, UpTo
  <2>3. n \in T
    BY <1>1, <2>2
  <2> HIDE DEF Good
  <2> QED BY <2>3 DEF T
<1>6. \A r : Visited(n, r) <=> r \in Peers
  BY <1>1, OrderVisitsEverybody
<1> HIDE DEF S, n, Visited
<1>7. \A k, r, x : Covers(list[n], k, r, x)
        <=> Covers(ts, k, r, x) \/ (k = kind /\ r \in Peers /\ x \in S /\ Asks(kind, r, S))
  BY <1>5, <1>6
<1> QED BY <1>2, <1>5, <1>7 DEF S

(* The loop over the slices, step by step.                                 *)
LEMMA WantedTransfersRuns ==
  ASSUME NEW order \in Seq(Peers)
  PROVE  \E list \in [0 .. NBlocks -> Seq(WantRecord)] :
           /\ list[0] = << >>
           /\ \A b \in 1 .. NBlocks :
                list[b] = IF SplitBefore(b - 1)
                          THEN AddWants(AddWants(list[b-1], FALSE, SliceFrom(b-1), order),
                                        TRUE, SliceFrom(b-1), order)
                          ELSE list[b-1]
           /\ WantedTransfers(order) = list[NBlocks]
<1> USE NBlocksAssumption
<1> DEFINE n == NBlocks
           Step(x, b) == IF SplitBefore(b - 1)
                         THEN AddWants(AddWants(x, FALSE, SliceFrom(b-1), order),
                                       TRUE, SliceFrom(b-1), order)
                         ELSE x
           P(f) == f = [b \in 0 .. n |-> IF b = 0 THEN << >> ELSE Step(f[b-1], b)]
           step == [b \in 1 .. n |-> [x \in Seq(WantRecord) |-> Step(x, b)]]
<1>1. n \in Nat /\ << >> \in Seq(WantRecord)
  OBVIOUS
<1>2. ASSUME NEW b \in 1 .. n, NEW x \in Seq(WantRecord)
      PROVE  Step(x, b) \in Seq(WantRecord)
  <2>1. b - 1 \in Blocks
    BY DEF Blocks
  <2>2. AddWants(x, FALSE, SliceFrom(b-1), order) \in Seq(WantRecord)
    BY <2>1, AddWantsType
  <2>3. AddWants(AddWants(x, FALSE, SliceFrom(b-1), order), TRUE, SliceFrom(b-1), order)
          \in Seq(WantRecord)
    BY <2>1, <2>2, AddWantsType
  <2> QED BY <2>3
<1>3. step \in [1 .. n -> [Seq(WantRecord) -> Seq(WantRecord)]]
  <2> HIDE DEF Step, n
  <2> QED BY <1>2
<1>4. \A b \in 1 .. n, x \in Seq(WantRecord) : step[b][x] = Step(x, b)
  <2> HIDE DEF Step, n
  <2> QED OBVIOUS
<1>5. WantedTransfers(order) = (CHOOSE f : P(f))[n]
  BY DEF WantedTransfers
<1> HIDE DEF n, Step, step
<1>6. PICK g \in [0 .. n -> Seq(WantRecord)] : RunsThrough(g, n, << >>, step)
  BY <1>1, <1>3, LoopExists
<1>7. P(g)
  <2>1. \A b \in 0 .. n : g[b] = IF b = 0 THEN << >> ELSE step[b][g[b-1]]
    BY <1>1, <1>6 DEF RunsThrough
  <2>2. \A b \in 0 .. n : b # 0 => b \in 1 .. n /\ b - 1 \in 0 .. n
    BY <1>1
  <2>3. \A b \in 0 .. n : g[b] = IF b = 0 THEN << >> ELSE Step(g[b-1], b)
    BY <2>1, <2>2, <1>4
  <2> QED BY <2>3
<1>8. PICK f : P(f) /\ WantedTransfers(order) = f[n]
  <2> HIDE DEF P
  <2> QED BY <1>5, <1>7
<1>9. f[0] = << >> /\ \A b \in 1 .. n : f[b] = Step(f[b-1], b)
  BY <1>1, <1>8
<1>10. \A b \in 0 .. n : b \in { j \in 0 .. n : f[j] \in Seq(WantRecord) }
  <2> DEFINE T == { j \in 0 .. n : f[j] \in Seq(WantRecord) }
  <2>1. 0 \in T
    <3>1. f[0] \in Seq(WantRecord)
      BY <1>9, EmptySeq
    <3>2. 0 \in 0 .. n
      BY <1>1
    <3> QED BY <3>1, <3>2
  <2>2. ASSUME NEW b \in 0 .. (n - 1), b \in T PROVE b + 1 \in T
    <3>1. b + 1 \in 1 .. n /\ (b + 1) - 1 = b /\ f[b] \in Seq(WantRecord)
      BY <1>1, <2>2
    <3>2. f[b+1] = Step(f[b], b + 1)
      BY <3>1, <1>9
    <3> QED BY <3>1, <3>2, <1>1, <1>2
  <2>3. \A b \in 0 .. (n - 1) : b \in T => b + 1 \in T
    BY <2>2
  <2> HIDE DEF T
  <2>4. \A b \in 0 .. n : b \in T
    BY <1>1, <2>1, <2>3, UpTo
  <2> QED BY <2>4 DEF T
<1>11. f \in [0 .. n -> Seq(WantRecord)]
  <2>1. f = [b \in 0 .. n |-> f[b]]
    BY <1>8
  <2> QED BY <2>1, <1>10
<1> QED BY <1>8, <1>9, <1>11 DEF n, Step

(* A round wants every block that is waited for or read ahead and is not   *)
(* on its way, and nothing else, in transfers that do not overlap.         *)
LEMMA WantedTransfersEffect ==
  ASSUME TypeOK, DisjointRanges, NEW order \in Orders
  PROVE  /\ ListOK(WantedTransfers(order))
         /\ \A k \in BOOLEAN, r \in Peers : \A x \in AskedBlocks(k, r) :
              ~ Sent(transfers, r, x) => Covers(WantedTransfers(order), k, r, x)
<1> USE NBlocksAssumption
<1>1. order \in Seq(Peers)
  BY OrderVisitsEverybody
<1>2. PICK list \in [0 .. NBlocks -> Seq(WantRecord)] :
           /\ list[0] = << >>
           /\ \A b \in 1 .. NBlocks :
                list[b] = IF SplitBefore(b - 1)
                          THEN AddWants(AddWants(list[b-1], FALSE, SliceFrom(b-1), order),
                                        TRUE, SliceFrom(b-1), order)
                          ELSE list[b-1]
           /\ WantedTransfers(order) = list[NBlocks]
  BY <1>1, WantedTransfersRuns
<1> DEFINE Asked(c, k, r, x) == /\ SplitBefore(c) /\ k \in BOOLEAN /\ r \in Peers
                                /\ x \in SliceFrom(c) /\ Asks(k, r, SliceFrom(c))
           Before(m, k, r, x) == \E c \in 0 .. (m - 1) : Asked(c, k, r, x)
           Good(m) == /\ ListOK(list[m])
                      /\ \A k, r, x : Covers(list[m], k, r, x) <=> Before(m, k, r, x)
           T == { m \in 0 .. NBlocks : Good(m) }
<1>3. 0 \in T
  <2>1. ListOK(<< >>)
    BY DEF ListOK
  <2>2. \A k, r, x : ~ Covers(<< >>, k, r, x)
    BY DEF Covers
  <2>3. \A k, r, x : ~ Before(0, k, r, x)
    OBVIOUS
  <2> HIDE DEF Before
  <2>4. Good(0)
    BY <1>2, <2>1, <2>2, <2>3
  <2>5. 0 \in 0 .. NBlocks
    OBVIOUS
  <2> HIDE DEF Good
  <2> QED BY <2>4, <2>5
<1>4. ASSUME NEW m \in 0 .. (NBlocks - 1), Good(m) PROVE Good(m + 1)
  <2>1. m + 1 \in 1 .. NBlocks /\ (m + 1) - 1 = m /\ m \in Blocks /\ list[m] \in Seq(WantRecord)
    BY DEF Blocks
  <2>2. \A k, r, x : Before(m + 1, k, r, x) <=> Before(m, k, r, x) \/ Asked(m, k, r, x)
    BY <2>1
  <2>3. CASE ~ SplitBefore(m)
    <3>1. list[m+1] = list[m]
      BY <1>2, <2>1, <2>3
    <3>2. \A k, r, x : ~ Asked(m, k, r, x)
      BY <2>3
    <3> HIDE DEF Before, Asked
    <3> QED BY <3>1, <3>2, <2>2, <1>4
  <2>4. CASE SplitBefore(m)
    <3> DEFINE S == SliceFrom(m)
               us == AddWants(list[m], FALSE, S, order)
               vs == AddWants(us, TRUE, S, order)
    <3>1. list[m+1] = vs
      BY <1>2, <2>1, <2>4
    <3>2. \A k, r : \A x \in S : ~ Before(m, k, r, x)
      <4> SUFFICES ASSUME NEW x \in S, NEW c \in 0 .. (m - 1), x \in SliceFrom(c)
                   PROVE  FALSE
        OBVIOUS
      <4>1. c \in Blocks /\ c < m
        BY DEF Blocks
      <4> QED BY <4>1, <2>1, <2>4, SlicesDoNotOverlap
    <3> HIDE DEF Before
    <3>3. ListOK(list[m]) /\ \A r \in Peers : \A x \in S : ~ Covers(list[m], FALSE, r, x)
      BY <1>4, <3>2
    <3>4. /\ ListOK(us)
          /\ \A k, r, x : Covers(us, k, r, x)
               <=> \/ Covers(list[m], k, r, x)
                   \/ k = FALSE /\ r \in Peers /\ x \in S /\ Asks(FALSE, r, S)
      BY <3>3, <2>1, AddWantsEffect
    <3> HIDE DEF us
    <3>5. \A r \in Peers : \A x \in S : ~ Covers(us, TRUE, r, x)
      BY <3>2, <3>4, <1>4
    <3>6. /\ ListOK(vs)
          /\ \A k, r, x : Covers(vs, k, r, x)
               <=> \/ Covers(us, k, r, x)
                   \/ k = TRUE /\ r \in Peers /\ x \in S /\ Asks(TRUE, r, S)
      BY <3>4, <3>5, <2>1, AddWantsEffect
    <3> HIDE DEF vs
    <3>7. \A k, r, x : Asked(m, k, r, x)
            <=> \/ k = FALSE /\ r \in Peers /\ x \in S /\ Asks(FALSE, r, S)
                \/ k = TRUE /\ r \in Peers /\ x \in S /\ Asks(TRUE, r, S)
      BY <2>4
    <3> HIDE DEF Asked, S
    <3>8. \A k, r, x : Covers(vs, k, r, x) <=> Before(m + 1, k, r, x)
      <4> TAKE k, r, x
      <4>1. Covers(vs, k, r, x) <=> Covers(list[m], k, r, x) \/ Asked(m, k, r, x)
        BY <3>4, <3>6, <3>7
      <4>2. Covers(list[m], k, r, x) <=> Before(m, k, r, x)
        BY <1>4
      <4> QED BY <4>1, <4>2, <2>2
    <3> QED BY <3>1, <3>6, <3>8
  <2> HIDE DEF Good
  <2> QED BY <2>3, <2>4
<1>5. Good(NBlocks)
  <2>1. \A m \in 0 .. (NBlocks - 1) : m \in T => m + 1 \in T
    <3> SUFFICES ASSUME NEW m \in 0 .. (NBlocks - 1), m \in T PROVE m + 1 \in T
      OBVIOUS
    <3>1. Good(m)
      OBVIOUS
    <3>2. Good(m + 1)
      BY <3>1, <1>4
    <3>3. m + 1 \in 0 .. NBlocks
      OBVIOUS
    <3> HIDE DEF Good
    <3> QED BY <3>2, <3>3
  <2> HIDE DEF T
  <2>2. \A m \in 0 .. NBlocks : m \in T
    BY <1>3, <2>1, UpTo
  <2>3. NBlocks \in T
    BY <2>2
  <2> HIDE DEF Good
  <2> QED BY <2>3 DEF T
<1>6. ASSUME NEW k \in BOOLEAN, NEW r \in Peers, NEW x \in AskedBlocks(k, r),
             ~ Sent(transfers, r, x)
      PROVE  Before(NBlocks, k, r, x)
  <2>1. AskedBlocks(k, r) \in InUse
    BY InUseSets DEF AskedBlocks
  <2>2. AskedBlocks(k, r) \subseteq Blocks
    BY DEF AskedBlocks, TypeOK, ByteRanges
  <2>3. PICK c \in Blocks : SplitBefore(c) /\ x \in SliceFrom(c)
    BY <2>1, <2>2, SlicesCover
  <2>4. SliceFrom(c) \subseteq AskedBlocks(k, r)
    BY <2>1, <2>3, SliceIsUniform
  <2>5. ~ PeerIsReceiving(r, SliceFrom(c))
    BY <1>6, <2>3 DEF PeerIsReceiving, Sent
  <2>6. Asks(k, r, SliceFrom(c))
    BY <2>4, <2>5 DEF Asks, WaitsFor, ReadsAhead, AskedBlocks
  <2>7. c \in 0 .. (NBlocks - 1)
    BY DEF Blocks
  <2> QED BY <2>3, <2>6, <2>7
<1> HIDE DEF Before
<1> QED BY <1>2, <1>5, <1>6

-----------------------------------------------------------------------------
(* Handing the wanted transfers to senders.                                *)

Table == [Peers -> SUBSET Commands]

CommandOf(t) == Command(t.receiver, t.bytes)

(* The command for a wanted transfer carries its receiver and its bytes.   *)
LEMMA CommandOfWant ==
  ASSUME NEW t \in WantRecord
  PROVE  /\ CommandOf(t) \in Commands
         /\ CommandOf(t).peer = t.receiver
         /\ CommandOf(t).range = t.bytes
         /\ t.bytes # {}
<1>1. t.bytes # {}
  BY DEF WantRecord, Ranges, Contiguous
<1> QED BY <1>1 DEF CommandOf, Command, Commands, WantRecord, Ranges

(* There are finitely many commands, so Busyness is a number.              *)
LEMMA CommandsAreFinite ==
  ASSUME NEW C \in SUBSET Commands
  PROVE  IsFiniteSet(C) /\ Cardinality(C) \in Nat
<1>1. IsFiniteSet(Blocks)
  BY NBlocksAssumption, FS_Interval DEF Blocks
<1>2. IsFiniteSet(SUBSET Blocks)
  BY <1>1, FS_SUBSET
<1>3. IsFiniteSet(Ranges)
  BY <1>2, FS_Subset DEF Ranges
<1>4. IsFiniteSet(Peers \X Ranges)
  BY <1>3, PeersAssumption, FS_Product
<1> DEFINE f == [x \in Peers \X Ranges |-> Command(x[1], x[2])]
<1>5. f \in Surjection(Peers \X Ranges, Commands)
  <2>1. f \in [Peers \X Ranges -> Commands]
    BY DEF Command, Commands, Ranges
  <2>2. ASSUME NEW c \in Commands PROVE \E x \in Peers \X Ranges : f[x] = c
    <3>1. << c.peer, c.range >> \in Peers \X Ranges
      BY DEF Commands, Ranges
    <3>2. f[<< c.peer, c.range >>] = c
      BY <3>1 DEF Command, Commands
    <3> QED BY <3>1, <3>2
  <2> HIDE DEF f
  <2> QED BY <2>1, <2>2 DEF Surjection
<1>6. IsFiniteSet(Commands)
  BY <1>4, <1>5, FS_Surjection
<1>7. IsFiniteSet(C)
  BY <1>6, FS_Subset
<1> QED BY <1>7, FS_CardinalityType

(* leastBusySender returns one of the senders, if there is one.            *)
LEMMA LeastBusySenderIsSender ==
  ASSUME NEW table \in Table, NEW senders \in SUBSET Peers, senders # {},
         NEW order \in Orders
  PROVE  LeastBusySender(table, senders, order) \in senders
<1> DEFINE n == Len(order)
           least == { s \in senders : \A u \in senders :
                        Busyness(table, s) <= Busyness(table, u) }
           First(s) == \A k \in DOMAIN order :
                         order[k] = s => \A j \in 1 .. (k - 1) : order[j] \notin least
           counts == { Busyness(table, s) : s \in senders }
           places == { k \in 1 .. n : order[k] \in least }
<1>1. \A s \in senders : Busyness(table, s) \in Nat
  BY CommandsAreFinite DEF Busyness, Table
<1>2. PICK m \in counts : \A x \in counts : m <= x
  <2>1. counts \subseteq Nat /\ counts # {}
    BY <1>1
  <2> HIDE DEF counts
  <2> QED BY <2>1, LeastElement
<1>3. PICK s0 \in senders : s0 \in least
  BY <1>2
<1>4. order \in Seq(Peers) /\ n \in Nat /\ DOMAIN order = 1 .. n
  BY OrderVisitsEverybody
<1> HIDE DEF n, least
<1>5. PICK k \in places : \A j \in places : k <= j
  <2>1. places \subseteq 1 .. n /\ 1 \in Int /\ n \in Int
    BY <1>4
  <2>2. s0 \in Peers
    BY <1>3
  <2>3. PICK k0 \in 1 .. n : order[k0] = s0
    BY <2>2, OrderVisitsEverybody DEF n
  <2>4. k0 \in places
    BY <1>3, <2>3
  <2>5. places # {}
    BY <2>4
  <2> HIDE DEF places
  <2> QED BY <2>1, <2>5, MinOfRange
<1>6. order[k] \in least /\ k \in 1 .. n
  OBVIOUS
<1>7. First(order[k])
  <2>1. \A i \in 1 .. n : order[i] = order[k] => i = k
    BY <1>6, OrderVisitsEverybody DEF n
  <2>2. \A j \in 1 .. (k - 1) : order[j] \notin least
    <3>1. \A j \in 1 .. (k - 1) : j \in 1 .. n /\ ~ (k <= j)
      BY <1>4, <1>6
    <3> QED BY <3>1, <1>5
  <2> QED BY <2>1, <2>2, <1>4
<1>8. LeastBusySender(table, senders, order) = CHOOSE s \in least : First(s)
  BY DEF LeastBusySender, least
<1> HIDE DEF First
<1>9. (CHOOSE s \in least : First(s)) \in least
  BY <1>6, <1>7
<1> QED BY <1>8, <1>9 DEF least

(* Assign leaves the table alone or gives the transfer to one sender.      *)
LEMMA AssignEffect ==
  ASSUME NEW table \in Table, NEW t \in WantRecord, NEW order \in Orders
  PROVE  /\ Assign(order, table, t) \in Table
         /\ \/ /\ Assign(order, table, t) = table
               /\ t.isReadAhead \/ t.senders = {}
            \/ \E s \in t.senders :
                 /\ Assign(order, table, t)
                      = [table EXCEPT ![s] = @ \cup {CommandOf(t)}]
                 /\ t.isReadAhead => Busyness(table, s) < MaxTransfersForReadahead
<1> DEFINE s == LeastBusySender(table, t.senders, order)
<1>1. t.senders \in SUBSET Peers
  BY DEF WantRecord
<1>2. CASE MayAssign(table, t, order)
  <2>1. s \in t.senders
    BY <1>1, <1>2, LeastBusySenderIsSender DEF MayAssign
  <2>2. Assign(order, table, t) = [table EXCEPT ![s] = @ \cup {CommandOf(t)}]
    BY <1>2 DEF Assign, CommandOf
  <2>3. t.isReadAhead => Busyness(table, s) < MaxTransfersForReadahead
    BY <1>2 DEF MayAssign
  <2> HIDE DEF s
  <2>4. [table EXCEPT ![s] = @ \cup {CommandOf(t)}] \in Table
    BY <2>1, <1>1, CommandOfWant DEF Table
  <2> QED BY <2>1, <2>2, <2>3, <2>4
<1>3. CASE ~ MayAssign(table, t, order)
  <2>1. Assign(order, table, t) = table
    BY <1>3 DEF Assign
  <2>2. t.isReadAhead \/ t.senders = {}
    BY <1>3 DEF MayAssign
  <2> QED BY <2>1, <2>2
<1> QED BY <1>2, <1>3

-----------------------------------------------------------------------------
(* The two loops over the list of wanted transfers.                        *)

(* No two commands of a table send the same block to the same peer.        *)
OneCommand(table) ==
  \A s, u \in Peers : \A c \in table[s], d \in table[u] :
    c.peer = d.peer /\ c.range \cap d.range # {} => s = u /\ c = d

\* What holds of the table when the transfers V of the list w were considered.
NewOnesAreWanted(w, table, V) ==
  \A s \in Peers : \A c \in table[s] \ transfers[s] :
    \E j \in V : c = CommandOf(w[j]) /\ s \in w[j].senders

WaitedForIsAssigned(w, table, V) ==
  \A j \in V : ~ w[j].isReadAhead /\ w[j].senders # {} =>
    \E s \in w[j].senders : CommandOf(w[j]) \in table[s]

ReadAheadWithinLimit(w, table, V) ==
  \A j \in V : w[j].isReadAhead =>
    \A s \in Peers : CommandOf(w[j]) \in table[s] \ transfers[s] =>
      Busyness(table, s) <= MaxTransfersForReadahead

TableInv(w, table, V) ==
  /\ table \in Table
  /\ \A s \in Peers : transfers[s] \subseteq table[s]
  /\ OneCommand(table)
  /\ NewOnesAreWanted(w, table, V)
  /\ WaitedForIsAssigned(w, table, V)
  /\ ReadAheadWithinLimit(w, table, V)

(* A command added to a table of which it overlaps none keeps OneCommand.  *)
LEMMA OneMoreCommand ==
  ASSUME NEW table \in Table, OneCommand(table), NEW s \in Peers,
         NEW c \in Commands, c.range # {},
         \A u \in Peers : \A d \in table[u] :
           d.peer = c.peer => d.range \cap c.range = {}
  PROVE  OneCommand([table EXCEPT ![s] = @ \cup {c}])
<1> DEFINE new == [table EXCEPT ![s] = @ \cup {c}]
<1>1. \A u \in Peers : \A d \in new[u] : d \in table[u] \/ (u = s /\ d = c)
  BY DEF Table
<1> SUFFICES ASSUME NEW u \in Peers, NEW v \in Peers, NEW d \in new[u], NEW e \in new[v],
                    d.peer = e.peer, d.range \cap e.range # {}
             PROVE  u = v /\ d = e
  BY DEF OneCommand
<1> HIDE DEF new
<1>2. d \in table[u] \/ (u = s /\ d = c)
  BY <1>1
<1>3. e \in table[v] \/ (v = s /\ e = c)
  BY <1>1
<1>4. CASE d \in table[u] /\ e \in table[v]
  BY <1>4 DEF OneCommand
<1>5. CASE d \in table[u] /\ v = s /\ e = c
  BY <1>5
<1>6. CASE u = s /\ d = c /\ e \in table[v]
  BY <1>6
<1> QED BY <1>2, <1>3, <1>4, <1>5, <1>6

(* One more command makes its sender busier by at most one.                *)
LEMMA BusyWithOneMore ==
  ASSUME NEW table \in Table, NEW s \in Peers, NEW c \in Commands
  PROVE  /\ Busyness(table, s) \in Nat
         /\ Busyness([table EXCEPT ![s] = @ \cup {c}], s) \in Nat
         /\ Busyness([table EXCEPT ![s] = @ \cup {c}], s) <= Busyness(table, s) + 1
<1> DEFINE new == [table EXCEPT ![s] = @ \cup {c}]
<1>1. table[s] \in SUBSET Commands
  BY DEF Table
<1>2. IsFiniteSet(table[s]) /\ Cardinality(table[s]) \in Nat
  BY <1>1, CommandsAreFinite
<1>3. new[s] = table[s] \cup {c}
  BY DEF Table
<1> HIDE DEF new
<1>4. Cardinality(new[s])
        = IF c \in table[s] THEN Cardinality(table[s]) ELSE Cardinality(table[s]) + 1
  BY <1>2, <1>3, FS_AddElement
<1>5. /\ Busyness(table, s) \in Nat
      /\ Busyness(new, s) \in Nat
      /\ Busyness(new, s) <= Busyness(table, s) + 1
  BY <1>2, <1>4 DEF Busyness
<1> QED BY <1>5 DEF new

(* Considering one more transfer of the list.                              *)
LEMMA AssignKeepsTable ==
  ASSUME TypeOK, NEW order \in Orders, NEW w, ListOK(w),
         NEW V \in SUBSET DOMAIN w, NEW table, TableInv(w, table, V),
         NEW j \in DOMAIN w, j \notin V,
         w[j].isReadAhead \/ \A i \in V : ~ w[i].isReadAhead
  PROVE  TableInv(w, Assign(order, table, w[j]), V \cup {j})
<1> DEFINE t == w[j]
           c == CommandOf(t)
           new == Assign(order, table, t)
<1>1. t \in WantRecord /\ GoodWant(t) /\ \A i \in DOMAIN w : w[i] \in WantRecord
  BY ElementOfSeq DEF ListOK
<1>2. c \in Commands /\ c.peer = t.receiver /\ c.range = t.bytes /\ t.bytes # {}
  BY <1>1, CommandOfWant
<1>3. \A i \in DOMAIN w : /\ CommandOf(w[i]).peer = w[i].receiver
                          /\ CommandOf(w[i]).range = w[i].bytes
                          /\ w[i].bytes # {}
  BY <1>1, CommandOfWant
<1>4. \A i \in V : i # j /\ i \in DOMAIN w
  OBVIOUS
<1>5. \A u \in Peers : \A d \in table[u] : d.peer = c.peer => d.range \cap c.range = {}
  <2> SUFFICES ASSUME NEW u \in Peers, NEW d \in table[u], d.peer = t.receiver
               PROVE  d.range \cap t.bytes = {}
    BY <1>2
  <2>1. CASE d \in transfers[u]
    BY <1>1, <2>1 DEF GoodWant, Sent
  <2>2. CASE d \notin transfers[u]
    <3>1. PICK i \in V : d = CommandOf(w[i])
      BY <2>2 DEF TableInv, NewOnesAreWanted
    <3>2. w[i].receiver = w[j].receiver /\ d.range = w[i].bytes
      BY <3>1, <1>3, <1>4
    <3>3. w[i].bytes \cap w[j].bytes = {}
      BY <3>2, <1>4 DEF ListOK
    <3> QED BY <3>2, <3>3
  <2> QED BY <2>1, <2>2
<1>6. \A i \in V : CommandOf(w[i]) # c
  <2> SUFFICES ASSUME NEW i \in V, CommandOf(w[i]) = c PROVE FALSE
    OBVIOUS
  <2>1. w[i].receiver = w[j].receiver /\ w[i].bytes = w[j].bytes
    BY <1>2, <1>3, <1>4
  <2>2. w[i].bytes \cap w[j].bytes = {}
    BY <2>1, <1>4 DEF ListOK
  <2> QED BY <2>1, <2>2, <1>2
<1>7. \A u \in Peers : c \notin table[u]
  BY <1>2, <1>5
<1>8. new \in Table
      /\ \/ new = table /\ (t.isReadAhead \/ t.senders = {})
         \/ \E s \in t.senders : /\ new = [table EXCEPT ![s] = @ \cup {c}]
                                 /\ t.isReadAhead => Busyness(table, s) < MaxTransfersForReadahead
  BY <1>1, AssignEffect DEF TableInv
<1> HIDE DEF new
<1>9. CASE new = table /\ (t.isReadAhead \/ t.senders = {})
  <2>1. NewOnesAreWanted(w, new, V \cup {j})
    BY <1>9 DEF TableInv, NewOnesAreWanted
  <2>2. WaitedForIsAssigned(w, new, V \cup {j})
    BY <1>9 DEF TableInv, WaitedForIsAssigned
  <2>3. ReadAheadWithinLimit(w, new, V \cup {j})
    BY <1>7, <1>9 DEF TableInv, ReadAheadWithinLimit
  <2> QED BY <1>9, <2>1, <2>2, <2>3 DEF TableInv, new
<1>10. ASSUME NEW s \in t.senders, new = [table EXCEPT ![s] = @ \cup {c}],
              t.isReadAhead => Busyness(table, s) < MaxTransfersForReadahead
       PROVE  TableInv(w, new, V \cup {j})
  <2>1. s \in Peers /\ table \in Table
    BY <1>1 DEF WantRecord, TableInv
  <2>2. new[s] = table[s] \cup {c} /\ \A u \in Peers : u # s => new[u] = table[u]
    BY <2>1, <1>10 DEF Table
  <2>3. \A u \in Peers : transfers[u] \subseteq new[u] /\ table[u] \subseteq new[u]
    BY <2>2 DEF TableInv
  <2>4. OneCommand(new)
    BY <2>1, <1>2, <1>5, <1>10, OneMoreCommand DEF TableInv
  <2> HIDE DEF t, c
  <2>5. NewOnesAreWanted(w, new, V \cup {j})
    <3> SUFFICES ASSUME NEW u \in Peers, NEW d \in new[u] \ transfers[u]
                 PROVE  \E i \in V \cup {j} : d = CommandOf(w[i]) /\ u \in w[i].senders
      BY DEF NewOnesAreWanted
    <3>1. CASE d \in table[u]
      <4>1. \E i \in V : d = CommandOf(w[i]) /\ u \in w[i].senders
        BY <3>1 DEF TableInv, NewOnesAreWanted
      <4> QED BY <4>1
    <3>2. CASE d \notin table[u]
      <4>1. u = s /\ d = CommandOf(w[j]) /\ s \in w[j].senders
        BY <2>2, <3>2 DEF t, c
      <4> QED BY <4>1
    <3> QED BY <3>1, <3>2
  <2>6. WaitedForIsAssigned(w, new, V \cup {j})
    <3> SUFFICES ASSUME NEW i \in V \cup {j}, ~ w[i].isReadAhead, w[i].senders # {}
                 PROVE  \E u \in w[i].senders : CommandOf(w[i]) \in new[u]
      BY DEF WaitedForIsAssigned
    <3>1. CASE i = j
      BY <3>1, <2>2 DEF t, c
    <3>2. CASE i \in V
      <4>1. PICK u \in w[i].senders : CommandOf(w[i]) \in table[u]
        BY <3>2 DEF TableInv, WaitedForIsAssigned
      <4>2. u \in Peers
        BY <3>2, <1>1 DEF WantRecord
      <4> QED BY <4>1, <4>2, <2>3
    <3> QED BY <3>1, <3>2
  <2>7. ReadAheadWithinLimit(w, new, V \cup {j})
    <3> SUFFICES ASSUME NEW i \in V \cup {j}, w[i].isReadAhead, NEW u \in Peers,
                        CommandOf(w[i]) \in new[u] \ transfers[u]
                 PROVE  Busyness(new, u) <= MaxTransfersForReadahead
      BY DEF ReadAheadWithinLimit
    <3>1. t.isReadAhead
      BY DEF t
    <3>2. CASE u = s
      <4>1. Busyness(new, s) <= Busyness(table, s) + 1 /\ Busyness(table, s) \in Nat
            /\ Busyness(new, s) \in Nat
        BY <2>1, <1>2, <1>10, BusyWithOneMore
      <4>2. Busyness(table, s) < MaxTransfersForReadahead
        BY <3>1, <1>10
      <4> QED BY <4>1, <4>2, <3>2, LimitAssumption
    <3>3. CASE u # s
      <4>1. CommandOf(w[i]) \in table[u] \ transfers[u] /\ new[u] = table[u]
        BY <3>3, <2>2
      <4>2. i \in V
        BY <4>1, <1>7 DEF t, c
      <4>3. Busyness(table, u) <= MaxTransfersForReadahead
        BY <4>1, <4>2 DEF TableInv, ReadAheadWithinLimit
      <4> QED BY <4>1, <4>3 DEF Busyness
    <3> QED BY <3>2, <3>3
  <2> QED BY <1>8, <2>3, <2>4, <2>5, <2>6, <2>7 DEF TableInv
<1> QED BY <1>8, <1>9, <1>10 DEF new

(* The loop over the wanted transfers, step by step.                       *)
LEMMA AssignLoopRuns ==
  ASSUME NEW order \in Orders, NEW table \in Table, NEW w \in Seq(WantRecord), NEW kinds
  PROVE  \E after \in [0 .. Len(w) -> Table] :
           /\ after[0] = table
           /\ \A k \in 1 .. Len(w) :
                after[k] = IF w[k].isReadAhead \in kinds
                           THEN Assign(order, after[k-1], w[k]) ELSE after[k-1]
           /\ AssignLoop(order, table, w, kinds) = after[Len(w)]
<1> DEFINE n == Len(w)
           Step(x, k) == IF w[k].isReadAhead \in kinds THEN Assign(order, x, w[k]) ELSE x
           P(f) == f = [k \in 0 .. n |-> IF k = 0 THEN table ELSE Step(f[k-1], k)]
           step == [k \in 1 .. n |-> [x \in Table |-> Step(x, k)]]
<1>1. n \in Nat
  OBVIOUS
<1>2. ASSUME NEW k \in 1 .. n, NEW x \in Table
      PROVE  Step(x, k) \in Table
  <2>1. w[k] \in WantRecord
    BY ElementOfSeq
  <2> QED BY <2>1, AssignEffect
<1>3. step \in [1 .. n -> [Table -> Table]]
  <2> HIDE DEF Step, n
  <2> QED BY <1>2
<1>4. \A k \in 1 .. n, x \in Table : step[k][x] = Step(x, k)
  <2> HIDE DEF Step, n
  <2> QED OBVIOUS
<1>5. AssignLoop(order, table, w, kinds) = (CHOOSE f : P(f))[n]
  BY DEF AssignLoop
<1> HIDE DEF n, Step, step
<1>6. PICK g \in [0 .. n -> Table] : RunsThrough(g, n, table, step)
  BY <1>1, <1>3, LoopExists
<1>7. P(g)
  <2>1. \A k \in 0 .. n : g[k] = IF k = 0 THEN table ELSE step[k][g[k-1]]
    BY <1>1, <1>6 DEF RunsThrough
  <2>2. \A k \in 0 .. n : k # 0 => k \in 1 .. n /\ k - 1 \in 0 .. n
    BY <1>1
  <2>3. \A k \in 0 .. n : g[k] = IF k = 0 THEN table ELSE Step(g[k-1], k)
    BY <2>1, <2>2, <1>4
  <2> QED BY <2>3
<1>8. PICK f : P(f) /\ AssignLoop(order, table, w, kinds) = f[n]
  <2> HIDE DEF P
  <2> QED BY <1>5, <1>7
<1>9. f[0] = table /\ \A k \in 1 .. n : f[k] = Step(f[k-1], k)
  BY <1>1, <1>8
<1>10. \A k \in 0 .. n : k \in { j \in 0 .. n : f[j] \in Table }
  <2> DEFINE T == { j \in 0 .. n : f[j] \in Table }
  <2>1. 0 \in T
    BY <1>1, <1>9
  <2>2. ASSUME NEW k \in 0 .. (n - 1), k \in T PROVE k + 1 \in T
    <3>1. k + 1 \in 1 .. n /\ (k + 1) - 1 = k /\ f[k] \in Table
      BY <1>1, <2>2
    <3>2. f[k+1] = Step(f[k], k + 1)
      BY <3>1, <1>9
    <3> QED BY <3>1, <3>2, <1>1, <1>2
  <2>3. \A k \in 0 .. (n - 1) : k \in T => k + 1 \in T
    BY <2>2
  <2> HIDE DEF T
  <2>4. \A k \in 0 .. n : k \in T
    BY <1>1, <2>1, <2>3, UpTo
  <2> QED BY <2>4 DEF T
<1>11. f \in [0 .. n -> Table]
  <2>1. f = [k \in 0 .. n |-> f[k]]
    BY <1>8
  <2> QED BY <2>1, <1>10
<1> QED BY <1>8, <1>9, <1>11 DEF n, Step

(* One of the two loops considers the transfers of its kind.               *)
LEMMA AssignLoopEffect ==
  ASSUME TypeOK, NEW order \in Orders, NEW w, ListOK(w), NEW kind \in BOOLEAN,
         NEW V \in SUBSET DOMAIN w, NEW table, TableInv(w, table, V),
         \A i \in V : w[i].isReadAhead # kind,
         kind \/ V = {}
  PROVE  TableInv(w, AssignLoop(order, table, w, {kind}),
                  V \cup { j \in DOMAIN w : w[j].isReadAhead = kind })
<1> DEFINE n == Len(w)
<1>1. w \in Seq(WantRecord) /\ n \in Nat /\ DOMAIN w = 1 .. n /\ table \in Table
  BY DEF ListOK, TableInv
<1>2. PICK after \in [0 .. n -> Table] :
           /\ after[0] = table
           /\ \A k \in 1 .. n :
                after[k] = IF w[k].isReadAhead \in {kind}
                           THEN Assign(order, after[k-1], w[k]) ELSE after[k-1]
           /\ AssignLoop(order, table, w, {kind}) = after[n]
  BY <1>1, AssignLoopRuns
<1> DEFINE Seen(k) == V \cup { j \in 1 .. k : w[j].isReadAhead = kind }
           Good(k) == TableInv(w, after[k], Seen(k))
           T == { k \in 0 .. n : Good(k) }
<1>3. 0 \in T
  <2>1. Seen(0) = V
    OBVIOUS
  <2>2. Good(0)
    BY <1>2, <2>1
  <2>3. 0 \in 0 .. n
    BY <1>1
  <2> HIDE DEF Good
  <2> QED BY <2>2, <2>3
<1>4. ASSUME NEW k \in 0 .. (n - 1), Good(k) PROVE Good(k + 1)
  <2>1. k + 1 \in 1 .. n /\ (k + 1) - 1 = k /\ k \in 0 .. n
    BY <1>1
  <2>2. after[k+1] = IF w[k+1].isReadAhead = kind
                     THEN Assign(order, after[k], w[k+1]) ELSE after[k]
    BY <1>2, <2>1
  <2>3. \A j : j \in 1 .. (k + 1) <=> j \in 1 .. k \/ j = k + 1
    BY <2>1
  <2>4. k + 1 \notin 1 .. k
    BY <2>1
  <2>5. CASE w[k+1].isReadAhead = kind
    <3>1. Seen(k + 1) = Seen(k) \cup {k + 1}
      BY <2>3, <2>5
    <3>2. k + 1 \notin Seen(k)
      BY <2>4, <2>5
    <3>3. Seen(k) \subseteq DOMAIN w
      BY <1>1, <2>1
    <3>4. w[k+1].isReadAhead \/ \A i \in Seen(k) : ~ w[i].isReadAhead
      <4>1. CASE kind
        BY <4>1, <2>5
      <4>2. CASE ~ kind
        BY <4>2
      <4> QED BY <4>1, <4>2
    <3>5. k + 1 \in DOMAIN w
      BY <1>1, <2>1
    <3> HIDE DEF Seen
    <3>6. TableInv(w, Assign(order, after[k], w[k+1]), Seen(k) \cup {k + 1})
      BY <1>4, <3>2, <3>3, <3>4, <3>5, AssignKeepsTable
    <3> QED BY <3>1, <3>6, <2>2, <2>5
  <2>6. CASE w[k+1].isReadAhead # kind
    <3>1. Seen(k + 1) = Seen(k)
      BY <2>3, <2>6
    <3> HIDE DEF Seen
    <3> QED BY <3>1, <1>4, <2>2, <2>6
  <2> QED BY <2>5, <2>6
<1>5. Good(n)
  <2>1. \A k \in 0 .. (n - 1) : k \in T => k + 1 \in T
    <3> SUFFICES ASSUME NEW k \in 0 .. (n - 1), k \in T PROVE k + 1 \in T
      OBVIOUS
    <3>1. Good(k)
      OBVIOUS
    <3>2. Good(k + 1)
      BY <3>1, <1>4
    <3>3. k + 1 \in 0 .. n
      BY <1>1
    <3> HIDE DEF Good
    <3> QED BY <3>2, <3>3
  <2> HIDE DEF T, n
  <2>2. \A k \in 0 .. n : k \in T
    BY <1>1, <1>3, <2>1, UpTo
  <2>3. n \in T
    BY <1>1, <2>2
  <2> HIDE DEF Good
  <2> QED BY <2>3 DEF T
<1> QED BY <1>1, <1>2, <1>5

(* After both loops every wanted transfer was considered.                  *)
LEMMA AssignedEffect ==
  ASSUME TypeOK, DisjointRanges, OneCommandPerBlock, NEW order \in Orders
  PROVE  LET w == WantedTransfers(order) IN
         TableInv(w, Assigned(order), DOMAIN w)
<1> DEFINE w == WantedTransfers(order)
           waited == { j \in DOMAIN w : w[j].isReadAhead = FALSE }
           ahead == { j \in DOMAIN w : w[j].isReadAhead = TRUE }
           first == AssignLoop(order, transfers, w, {FALSE})
<1>1. ListOK(w)
  BY WantedTransfersEffect
<1>2. Assigned(order) = AssignLoop(order, first, w, {TRUE})
  BY DEF Assigned
<1> HIDE DEF w
<1>3. TableInv(w, transfers, {})
  BY DEF TableInv, OneCommand, OneCommandPerBlock, NewOnesAreWanted, WaitedForIsAssigned,
         ReadAheadWithinLimit, Table, TypeOK
<1>4. TableInv(w, first, waited)
  <2>1. TableInv(w, first, {} \cup waited)
    BY <1>1, <1>3, AssignLoopEffect
  <2> QED BY <2>1
<1>5. TableInv(w, AssignLoop(order, first, w, {TRUE}), waited \cup ahead)
  <2> HIDE DEF first
  <2>1. \A i \in waited : w[i].isReadAhead # TRUE
    OBVIOUS
  <2>2. waited \in SUBSET DOMAIN w
    OBVIOUS
  <2> HIDE DEF waited
  <2> QED BY <1>1, <1>4, <2>1, <2>2, AssignLoopEffect
<1>6. waited \cup ahead = DOMAIN w
  <2> SUFFICES ASSUME NEW j \in DOMAIN w
               PROVE  w[j].isReadAhead = FALSE \/ w[j].isReadAhead = TRUE
    BY Zenon
  <2>1. w[j] \in WantRecord
    BY <1>1 DEF ListOK
  <2>2. w[j].isReadAhead \in BOOLEAN
    BY <2>1 DEF WantRecord
  <2> QED BY <2>2
<1> HIDE DEF waited, ahead, first
<1> QED BY <1>2, <1>5, <1>6 DEF w

-----------------------------------------------------------------------------
(* The invariant.                                                          *)

(* The promises of a round and the effect of an announcement are only true *)
(* of a table in which every block is sent once, between peers whose three *)
(* sets do not overlap: a block that is both waited for and read ahead     *)
(* would be asked for twice in one round.                                  *)
HeldIsNotSent ==
  \A s \in Peers : \A c \in transfers[s] : c.range \cap ranges[c.peer].have = {}

SchedulerInvariant ==
  /\ TypeOK
  /\ DisjointRanges
  /\ OneCommandPerBlock
  /\ HeldIsNotSent

(* What is left of a command is a smaller command to the same peer.        *)
LEMMA RunOfCommand ==
  ASSUME NEW c \in Commands, NEW h, NEW e \in Uncovered(c, h)
  PROVE  /\ e \in Commands
         /\ e.peer = c.peer
         /\ e.range \in Runs(c.range \ h)
         /\ e.range \subseteq c.range \ h
<1>1. c.range \ h \in SUBSET Blocks
  BY DEF Commands
<1>2. PICK R \in Runs(c.range \ h) : e = Command(c.peer, R)
  BY DEF Uncovered
<1>3. R \in Ranges /\ R \subseteq c.range \ h
  BY <1>1, <1>2, RunIsRange
<1> QED BY <1>2, <1>3 DEF Command, Commands, Ranges

(* The blocks that are left of a command are those not announced.          *)
LEMMA UncoveredBlocks ==
  ASSUME NEW c \in Commands, NEW h, NEW q, NEW b
  PROVE  (\E e \in Uncovered(c, h) : e.peer = q /\ b \in e.range)
           <=> c.peer = q /\ b \in c.range /\ b \notin h
<1>1. ASSUME NEW e \in Uncovered(c, h), e.peer = q, b \in e.range
      PROVE  c.peer = q /\ b \in c.range /\ b \notin h
  <2>1. e.peer = c.peer /\ e.range \subseteq c.range \ h
    BY RunOfCommand
  <2> QED BY <1>1, <2>1
<1>2. ASSUME c.peer = q, b \in c.range, b \notin h
      PROVE  \E e \in Uncovered(c, h) : e.peer = q /\ b \in e.range
  <2>1. c.range \ h \in SUBSET Blocks /\ b \in c.range \ h
    BY <1>2 DEF Commands
  <2>2. PICK R \in Runs(c.range \ h) : b \in R
    BY <2>1, RunsCover
  <2>3. Command(c.peer, R) \in Uncovered(c, h)
    BY <2>2 DEF Uncovered
  <2>4. Command(c.peer, R).peer = q /\ b \in Command(c.peer, R).range
    BY <1>2, <2>2 DEF Command
  <2> QED BY <2>3, <2>4
<1> QED BY <1>1, <1>2

(* An idle scheduler satisfies the invariant.                              *)
LEMMA InitInvariant == Init => SchedulerInvariant
BY DEF Init, SchedulerInvariant, TypeOK, DisjointRanges, Disjoint, OneCommandPerBlock,
       HeldIsNotSent, NoRanges, ByteRanges

(* What an announcement leaves of the commands still does not overlap.     *)
LEMMA UpdateByteRangesInvariant ==
  ASSUME SchedulerInvariant, NEW p \in Peers, NEW r \in Announced(p),
         UpdateByteRanges(p, r)
  PROVE  SchedulerInvariant'
<1>1. r \in ByteRanges /\ Disjoint(r)
  BY AnnouncedAssumption
<1>2. \A s \in Peers : \A e \in transfers'[s] :
        \E c \in transfers[s] : c \in Commands /\ e \in Uncovered(c, r.have)
  BY DEF UpdateByteRanges, SchedulerInvariant, TypeOK
<1>3. \A s \in Peers : transfers'[s] \in SUBSET Commands
  <2> SUFFICES ASSUME NEW s \in Peers, NEW e \in transfers'[s] PROVE e \in Commands
    OBVIOUS
  <2>1. PICK c \in transfers[s] : c \in Commands /\ e \in Uncovered(c, r.have)
    BY <1>2
  <2> QED BY <2>1, RunOfCommand
<1>4. TypeOK'
  <2>1. ranges' \in [Peers -> ByteRanges]
    BY <1>1 DEF UpdateByteRanges, SchedulerInvariant, TypeOK
  <2>2. transfers' \in [Peers -> SUBSET Commands]
    BY <1>3 DEF UpdateByteRanges
  <2> QED BY <2>1, <2>2 DEF UpdateByteRanges, SchedulerInvariant, TypeOK
<1>5. \A q \in Peers : ranges'[q] = IF q = p THEN r ELSE ranges[q]
  BY DEF UpdateByteRanges, SchedulerInvariant, TypeOK
<1>6. DisjointRanges'
  BY <1>1, <1>5 DEF SchedulerInvariant, DisjointRanges
<1>7. OneCommandPerBlock'
  <2> SUFFICES ASSUME NEW s \in Peers, NEW u \in Peers,
                      NEW d \in transfers'[s], NEW e \in transfers'[u],
                      d.peer = e.peer, NEW x \in d.range, x \in e.range
               PROVE  s = u /\ d = e
    BY DEF OneCommandPerBlock
  <2>1. PICK c \in transfers[s] : c \in Commands /\ d \in Uncovered(c, r.have)
    BY <1>2
  <2>2. PICK g \in transfers[u] : g \in Commands /\ e \in Uncovered(g, r.have)
    BY <1>2
  <2>3. /\ d.peer = c.peer /\ d.range \in Runs(c.range \ r.have)
        /\ d.range \subseteq c.range \ r.have
    BY <2>1, RunOfCommand
  <2>4. /\ e.peer = g.peer /\ e.range \in Runs(g.range \ r.have)
        /\ e.range \subseteq g.range \ r.have
    BY <2>2, RunOfCommand
  <2>5. s = u /\ c = g
    BY <2>3, <2>4 DEF SchedulerInvariant, OneCommandPerBlock
  <2>6. d.range = e.range
    <3>1. c.range \ r.have \in SUBSET Blocks
      BY <2>1 DEF Commands
    <3> QED BY <3>1, <2>3, <2>4, <2>5, RunsDoNotOverlap
  <2>7. d = Command(c.peer, d.range) /\ e = Command(c.peer, e.range)
    BY <2>1, <2>2, <2>5 DEF Uncovered, Command
  <2> QED BY <2>5, <2>6, <2>7
<1>8. HeldIsNotSent'
  <2> SUFFICES ASSUME NEW s \in Peers, NEW e \in transfers'[s]
               PROVE  e.range \cap ranges'[e.peer].have = {}
    BY DEF HeldIsNotSent
  <2>1. PICK c \in transfers[s] : c \in Commands /\ e \in Uncovered(c, r.have)
    BY <1>2
  <2>2. e.peer = c.peer /\ e.range \subseteq c.range \ r.have
    BY <2>1, RunOfCommand
  <2>3. e.peer = c.peer /\ e.range \subseteq c.range \ r.have /\ c.peer \in Peers
    BY <2>1, <2>2 DEF Commands
  <2>4. c.range \cap ranges[c.peer].have = {}
    BY DEF SchedulerInvariant, HeldIsNotSent
  <2>5. ranges'[c.peer].have = r.have \/ ranges'[c.peer] = ranges[c.peer]
    BY <1>5, <2>3
  <2> QED BY <2>3, <2>4, <2>5
<1> QED BY <1>4, <1>6, <1>7, <1>8 DEF SchedulerInvariant

(* The other calls only take commands away, and what a departed peer had.  *)
LEMMA FewerCommandsInvariant ==
  ASSUME SchedulerInvariant, TypeOK', NEW gone \in SUBSET Peers,
         \A s \in Peers : transfers'[s] \subseteq transfers[s],
         \A s \in Peers : \A c \in transfers'[s] : s \notin gone /\ c.peer \notin gone,
         \A q \in Peers : ranges'[q] = IF q \in gone THEN NoRanges ELSE ranges[q]
  PROVE  SchedulerInvariant'
<1>1. DisjointRanges'
  <2> SUFFICES ASSUME NEW q \in Peers PROVE Disjoint(ranges'[q])
    BY DEF DisjointRanges
  <2>1. CASE q \in gone
    BY <2>1 DEF Disjoint, NoRanges
  <2>2. CASE q \notin gone
    BY <2>2 DEF SchedulerInvariant, DisjointRanges
  <2> QED BY <2>1, <2>2
<1>2. OneCommandPerBlock'
  BY DEF SchedulerInvariant, OneCommandPerBlock
<1>3. HeldIsNotSent'
  <2> SUFFICES ASSUME NEW s \in Peers, NEW c \in transfers'[s]
               PROVE  c.range \cap ranges'[c.peer].have = {}
    BY DEF HeldIsNotSent
  <2>1. c \in transfers[s] /\ c.peer \in Peers /\ c.peer \notin gone
    BY DEF SchedulerInvariant, TypeOK, Commands
  <2> QED BY <2>1 DEF SchedulerInvariant, HeldIsNotSent
<1> QED BY <1>1, <1>2, <1>3 DEF SchedulerInvariant

(* The connections are not part of the invariant.                          *)
LEMMA SetConnectedPeersInvariant ==
  ASSUME SchedulerInvariant, NEW p \in Peers, NEW C \in Reachable(p),
         SetConnectedPeers(p, C)
  PROVE  SchedulerInvariant'
<1>1. TypeOK'
  BY ReachableAssumption DEF SetConnectedPeers, SchedulerInvariant, TypeOK
<1> DEFINE gone == {}
<1>2. \A q \in Peers : ranges'[q] = IF q \in gone THEN NoRanges ELSE ranges[q]
  BY DEF SetConnectedPeers
<1>3. \A s \in Peers : transfers'[s] \subseteq transfers[s]
  BY DEF SetConnectedPeers
<1>4. \A s \in Peers : \A c \in transfers'[s] : s \notin gone /\ c.peer \notin gone
  OBVIOUS
<1>5. gone \in SUBSET Peers
  OBVIOUS
<1> HIDE DEF gone
<1> QED BY <1>1, <1>2, <1>3, <1>4, <1>5, FewerCommandsInvariant

(* A failed upload only takes commands away.                               *)
LEMMA UploadFailedInvariant ==
  ASSUME SchedulerInvariant, NEW s \in Peers, NEW targets, UploadFailed(s, targets)
  PROVE  SchedulerInvariant'
<1>1. TypeOK'
  BY DEF UploadFailed, SchedulerInvariant, TypeOK
<1>2. \A u \in Peers : transfers'[u] \subseteq transfers[u]
  BY DEF UploadFailed, SchedulerInvariant, TypeOK
<1> DEFINE gone == {}
<1>3. \A q \in Peers : ranges'[q] = IF q \in gone THEN NoRanges ELSE ranges[q]
  BY DEF UploadFailed
<1>4. \A u \in Peers : \A c \in transfers'[u] : u \notin gone /\ c.peer \notin gone
  OBVIOUS
<1>5. gone \in SUBSET Peers
  OBVIOUS
<1> HIDE DEF gone
<1> QED BY <1>1, <1>2, <1>3, <1>4, <1>5, FewerCommandsInvariant

(* The departed peer is left neither as a sender nor as a receiver.        *)
LEMMA DisappeeredInvariant ==
  ASSUME SchedulerInvariant, NEW p \in Peers, Disappeered(p)
  PROVE  SchedulerInvariant'
<1>1. TypeOK'
  <2>1. NoRanges \in ByteRanges
    BY DEF NoRanges, ByteRanges
  <2>2. ranges' \in [Peers -> ByteRanges] /\ connections' \in [Peers -> SUBSET Peers]
    BY <2>1 DEF Disappeered, SchedulerInvariant, TypeOK
  <2>3. transfers' \in [Peers -> SUBSET Commands]
    BY DEF Disappeered, SchedulerInvariant, TypeOK
  <2> QED BY <2>2, <2>3 DEF TypeOK
<1>2. \A s \in Peers : transfers'[s] = IF s = p THEN {}
                                        ELSE { c \in transfers[s] : c.peer # p }
  BY DEF Disappeered
<1>3. \A q \in Peers : ranges'[q] = IF q \in {p} THEN NoRanges ELSE ranges[q]
  BY DEF Disappeered, SchedulerInvariant, TypeOK
<1>4. \A s \in Peers : transfers'[s] \subseteq transfers[s]
  BY <1>2
<1>5. \A s \in Peers : \A c \in transfers'[s] : s \notin {p} /\ c.peer \notin {p}
  BY <1>2
<1> QED BY <1>1, <1>3, <1>4, <1>5, FewerCommandsInvariant

(* A round adds commands for blocks nobody is sending.                     *)
LEMMA ComputeNewTransfersInvariant ==
  ASSUME SchedulerInvariant, ComputeNewTransfers
  PROVE  SchedulerInvariant'
<1>1. PICK order \in Orders : transfers' = Assigned(order)
  BY DEF ComputeNewTransfers, Orders
<1> DEFINE w == WantedTransfers(order)
<1>2. ListOK(w)
  BY WantedTransfersEffect DEF SchedulerInvariant
<1>3. TableInv(w, transfers', DOMAIN w)
  BY <1>1, AssignedEffect DEF SchedulerInvariant
<1> HIDE DEF w
<1>4. UNCHANGED << ranges, connections >>
  BY DEF ComputeNewTransfers
<1>5. TypeOK'
  BY <1>3, <1>4 DEF TableInv, Table, SchedulerInvariant, TypeOK
<1>6. DisjointRanges'
  BY <1>4 DEF DisjointRanges, SchedulerInvariant
<1>7. OneCommandPerBlock'
  BY <1>3 DEF TableInv, OneCommand, OneCommandPerBlock
<1>8. HeldIsNotSent'
  <2> SUFFICES ASSUME NEW s \in Peers, NEW c \in transfers'[s]
               PROVE  c.range \cap ranges[c.peer].have = {}
    BY <1>4 DEF HeldIsNotSent
  <2>1. CASE c \in transfers[s]
    BY <2>1 DEF SchedulerInvariant, HeldIsNotSent
  <2>2. CASE c \notin transfers[s]
    <3>1. PICK j \in DOMAIN w : c = CommandOf(w[j]) /\ s \in w[j].senders
      BY <2>2, <1>3 DEF TableInv, NewOnesAreWanted
    <3>2. w[j] \in WantRecord /\ GoodWant(w[j])
      BY <1>2, ElementOfSeq DEF ListOK
    <3>3. c.peer = w[j].receiver /\ c.range = w[j].bytes
      BY <3>1, <3>2, CommandOfWant
    <3>4. w[j].receiver \in Peers
      BY <3>2 DEF WantRecord
    <3>5. w[j].bytes \subseteq AskedBlocks(w[j].isReadAhead, w[j].receiver)
      BY <3>2 DEF GoodWant
    <3>6. AskedBlocks(w[j].isReadAhead, w[j].receiver) \cap ranges[w[j].receiver].have = {}
      BY <3>4 DEF AskedBlocks, SchedulerInvariant, DisjointRanges, Disjoint
    <3> QED BY <3>3, <3>5, <3>6
  <2> QED BY <2>1, <2>2
<1> QED BY <1>5, <1>6, <1>7, <1>8 DEF SchedulerInvariant

(* Every call preserves the invariant.                                     *)
LEMMA NextInvariant ==
  ASSUME SchedulerInvariant, [Next]_vars
  PROVE  SchedulerInvariant'
<1>1. ASSUME NEW p \in Peers, NEW r \in Announced(p), UpdateByteRanges(p, r)
      PROVE  SchedulerInvariant'
  BY <1>1, UpdateByteRangesInvariant
<1>2. ASSUME NEW p \in Peers, NEW C \in Reachable(p), SetConnectedPeers(p, C)
      PROVE  SchedulerInvariant'
  BY <1>2, SetConnectedPeersInvariant
<1>3. ASSUME NEW s \in Peers, NEW t \in Peers, UploadFailed(s, {t})
      PROVE  SchedulerInvariant'
  BY <1>3, UploadFailedInvariant
<1>4. ASSUME NEW p \in Peers, Disappeered(p)
      PROVE  SchedulerInvariant'
  BY <1>4, DisappeeredInvariant
<1>5. CASE ComputeNewTransfers
  BY <1>5, ComputeNewTransfersInvariant
<1>6. CASE UNCHANGED vars
  BY <1>6 DEF vars, SchedulerInvariant, TypeOK, DisjointRanges, OneCommandPerBlock,
              HeldIsNotSent
<1> QED BY <1>1, <1>2, <1>3, <1>4, <1>5, <1>6 DEF Next

(* The invariant holds for any set of peers, any length of file, any       *)
(* sequence of announcements whose three sets do not overlap, also of      *)
(* fewer blocks than before, and any order Go walks its maps in.           *)
THEOREM SchedulerInvariantHolds == Spec => []SchedulerInvariant
<1>1. Init => SchedulerInvariant
  BY InitInvariant
<1>2. SchedulerInvariant /\ [Next]_vars => SchedulerInvariant'
  BY NextInvariant
<1> QED BY <1>1, <1>2, PTL DEF Spec

(* Every table entry is a proper command: cutting a command up, growing a  *)
(* transfer and slicing the file only ever produce non-empty ranges.       *)
THEOREM SchedulerTypeOK == Spec => []TypeOK
<1>1. SchedulerInvariant => TypeOK
  BY DEF SchedulerInvariant
<1> QED BY <1>1, SchedulerInvariantHolds, PTL

(* A block is on its way to a receiver in at most one command of one       *)
(* sender (what orchestrate.go skips receivers that are PeerIsReceiving    *)
(* for), through all the slicing, growing and cutting up of ranges.        *)
THEOREM BlocksAreSentOnce == Spec => []OneCommandPerBlock
<1>1. SchedulerInvariant => OneCommandPerBlock
  BY DEF SchedulerInvariant
<1> QED BY <1>1, SchedulerInvariantHolds, PTL

(* A round leaves no block unassigned that somebody waits for and somebody *)
(* it can reach has: the invariant makes the list of wanted transfers      *)
(* cover every such block, with all its senders.                           *)
LEMMA RoundServes == SchedulerInvariant => WaitedForIsServed
<1> SUFFICES ASSUME SchedulerInvariant, NEW order \in Orders, NEW r \in Peers,
                    NEW b \in ranges[r].readnow,
                    NEW s0 \in connections[r], b \in ranges[s0].have
             PROVE  \E s \in Peers : << s, r, b >> \in InFlight(Assigned(order))
  BY DEF WaitedForIsServed, Orders
<1> DEFINE w == WantedTransfers(order)
           after == Assigned(order)
<1>1. TypeOK /\ DisjointRanges /\ OneCommandPerBlock
  BY DEF SchedulerInvariant
<1>2. ListOK(w) /\ TableInv(w, after, DOMAIN w)
  BY <1>1, WantedTransfersEffect, AssignedEffect
<1>3. b \in Blocks
  BY <1>1 DEF TypeOK, ByteRanges
<1>4. ASSUME NEW s \in Peers, NEW c \in after[s], c.peer = r, b \in c.range
      PROVE  << s, r, b >> \in InFlight(after)
  BY <1>3, <1>4 DEF InFlight
<1>5. CASE Sent(transfers, r, b)
  <2>1. PICK s \in Peers : \E c \in transfers[s] : c.peer = r /\ b \in c.range
    BY <1>5 DEF Sent
  <2>2. PICK c \in transfers[s] : c.peer = r /\ b \in c.range
    BY <2>1
  <2>3. c \in after[s]
    BY <1>2 DEF TableInv
  <2> QED BY <1>4, <2>2, <2>3
<1>6. CASE ~ Sent(transfers, r, b)
  <2>1. b \in AskedBlocks(FALSE, r)
    BY DEF AskedBlocks
  <2>2. Covers(w, FALSE, r, b)
    BY <1>1, <1>6, <2>1, WantedTransfersEffect
  <2> HIDE DEF w, after
  <2>3. PICK j \in DOMAIN w : w[j].isReadAhead = FALSE /\ w[j].receiver = r /\ b \in w[j].bytes
    BY <2>2 DEF Covers
  <2>4. w[j] \in WantRecord /\ GoodWant(w[j])
    BY <1>2, ElementOfSeq DEF ListOK
  <2>5. s0 \in w[j].senders
    BY <2>3, <2>4 DEF GoodWant
  <2>6. PICK s \in w[j].senders : CommandOf(w[j]) \in after[s]
    BY <1>2, <2>3, <2>5 DEF TableInv, WaitedForIsAssigned
  <2>7. s \in Peers
    BY <2>4 DEF WantRecord
  <2>8. CommandOf(w[j]).peer = r /\ b \in CommandOf(w[j]).range
    BY <2>3, <2>4, CommandOfWant
  <2> QED BY <1>4, <2>6, <2>7, <2>8 DEF after
<1> QED BY <1>5, <1>6

(* Whatever led to this round, in every order Go can walk its maps.        *)
THEOREM WaitedForIsAlwaysServed == Spec => []WaitedForIsServed
BY RoundServes, SchedulerInvariantHolds, PTL

(* A command of this round for blocks its receiver only reads ahead comes  *)
(* from the second loop, which skips senders that are at the limit.        *)
LEMMA RoundKeepsToTheLimit == SchedulerInvariant => ReadAheadKeepsToTheLimit
<1> SUFFICES ASSUME SchedulerInvariant, NEW order \in Orders, NEW s \in Peers,
                    NEW c \in Assigned(order)[s] \ transfers[s],
                    c.range \subseteq ranges[c.peer].readahead
             PROVE  Busyness(Assigned(order), s) <= MaxTransfersForReadahead
  BY DEF ReadAheadKeepsToTheLimit, Orders
<1> DEFINE w == WantedTransfers(order)
           after == Assigned(order)
<1>1. TypeOK /\ DisjointRanges /\ OneCommandPerBlock
  BY DEF SchedulerInvariant
<1>2. ListOK(w) /\ TableInv(w, after, DOMAIN w)
  BY <1>1, WantedTransfersEffect, AssignedEffect
<1>3. c \in after[s] \ transfers[s]
  OBVIOUS
<1> HIDE DEF w, after
<1>4. PICK j \in DOMAIN w : c = CommandOf(w[j]) /\ s \in w[j].senders
  BY <1>2, <1>3 DEF TableInv, NewOnesAreWanted
<1>5. w[j] \in WantRecord /\ GoodWant(w[j])
  BY <1>2, ElementOfSeq DEF ListOK
<1>6. c.peer = w[j].receiver /\ c.range = w[j].bytes /\ w[j].bytes # {}
  BY <1>4, <1>5, CommandOfWant
<1>7. w[j].isReadAhead
  <2> SUFFICES ASSUME ~ w[j].isReadAhead PROVE FALSE
    OBVIOUS
  <2>1. w[j].bytes \subseteq ranges[w[j].receiver].readnow
    BY <1>5 DEF GoodWant, AskedBlocks
  <2>2. w[j].receiver \in Peers
    BY <1>5 DEF WantRecord
  <2>3. ranges[w[j].receiver].readnow \cap ranges[w[j].receiver].readahead = {}
    BY <1>1, <2>2 DEF DisjointRanges, Disjoint
  <2> QED BY <1>6, <2>1, <2>3
<1>8. Busyness(after, s) <= MaxTransfersForReadahead
  BY <1>2, <1>3, <1>4, <1>7 DEF TableInv, ReadAheadWithinLimit
<1> QED BY <1>8 DEF after

(* In every round the reads somebody waits for keep the senders to         *)
(* themselves once they are busy.                                          *)
THEOREM ReadAheadAlwaysKeepsToTheLimit == Spec => []ReadAheadKeepsToTheLimit
BY RoundKeepsToTheLimit, SchedulerInvariantHolds, PTL

-----------------------------------------------------------------------------
(* The scheduler implements the ledger of single blocks.                   *)

(* What is on the ledger of a table.                                       *)
LEMMA InFlightMembers ==
  ASSUME NEW table, NEW s \in Peers, NEW r \in Peers, NEW b \in Blocks
  PROVE  << s, r, b >> \in InFlight(table)
           <=> \E c \in table[s] : c.peer = r /\ b \in c.range
BY DEF InFlight

(* Two ledgers are equal when they agree on every sender, receiver, block. *)
LEMMA EqualLedgers ==
  ASSUME NEW L \in SUBSET (Peers \X Peers \X Blocks),
         NEW M \in SUBSET (Peers \X Peers \X Blocks),
         \A s, r \in Peers : \A b \in Blocks : << s, r, b >> \in L <=> << s, r, b >> \in M
  PROVE  L = M
<1>1. \A t \in Peers \X Peers \X Blocks :
        \E s, r \in Peers : \E b \in Blocks : t = << s, r, b >>
  OBVIOUS
<1> QED BY <1>1

(* The ledger of a table holds senders, receivers and blocks.              *)
LEMMA InFlightType ==
  ASSUME NEW table
  PROVE  InFlight(table) \in SUBSET (Peers \X Peers \X Blocks)
BY DEF InFlight

(* An idle scheduler is an empty ledger.                                   *)
LEMMA InitIsLedgerInit == Init => Ledger!Init
<1> SUFFICES ASSUME Init PROVE Ledger!Init
  OBVIOUS
<1>1. InFlight(transfers) = {}
  BY InFlightType, EqualLedgers, InFlightMembers DEF Init
<1> QED BY <1>1 DEF Init, Ledger!Init, NoRanges

(* An announcement takes its blocks off the ledger, whoever they go to.    *)
LEMMA UpdateIsLedgerUpdate ==
  ASSUME SchedulerInvariant, NEW p \in Peers, NEW r \in Announced(p),
         UpdateByteRanges(p, r)
  PROVE  Ledger!UpdateByteRanges(p, r.have)
<1>1. \A q \in Peers : ranges'[q] = IF q = p THEN r ELSE ranges[q]
  BY DEF UpdateByteRanges, SchedulerInvariant, TypeOK
<1>2. InFlight(transfers') = { t \in InFlight(transfers) : t[3] \notin r.have }
  <2> DEFINE left == { t \in InFlight(transfers) : t[3] \notin r.have }
  <2>1. left \in SUBSET (Peers \X Peers \X Blocks)
    BY InFlightType
  <2>2. ASSUME NEW s \in Peers, NEW q \in Peers, NEW b \in Blocks
        PROVE  << s, q, b >> \in InFlight(transfers') <=> << s, q, b >> \in left
    <3>1. << s, q, b >> \in left
            <=> b \notin r.have /\ \E c \in transfers[s] : c.peer = q /\ b \in c.range
      BY InFlightMembers
    <3> HIDE DEF left
    <3>2. << s, q, b >> \in InFlight(transfers')
            <=> \E e \in transfers'[s] : e.peer = q /\ b \in e.range
      BY InFlightMembers
    <3>3. \A e : e \in transfers'[s] <=> \E c \in transfers[s] : e \in Uncovered(c, r.have)
      BY DEF UpdateByteRanges
    <3>4. \A c \in transfers[s] : c \in Commands
      BY DEF SchedulerInvariant, TypeOK
    <3>5. \A c \in transfers[s] :
            (\E e \in Uncovered(c, r.have) : e.peer = q /\ b \in e.range)
              <=> c.peer = q /\ b \in c.range /\ b \notin r.have
      <4> TAKE c \in transfers[s]
      <4>1. c \in Commands
        BY <3>4
      <4> DEFINE h == r.have
      <4> HIDE DEF h
      <4>2. (\E e \in Uncovered(c, h) : e.peer = q /\ b \in e.range)
              <=> c.peer = q /\ b \in c.range /\ b \notin h
        BY <4>1, UncoveredBlocks
      <4> QED BY <4>2 DEF h
    <3> QED BY <3>1, <3>2, <3>3, <3>5
  <2> HIDE DEF left
  <2>3. InFlight(transfers') = left
    BY <2>1, <2>2, InFlightType, EqualLedgers
  <2> QED BY <2>3 DEF left
<1>3. InFlight(transfers)' = InFlight(transfers')
  BY DEF InFlight
<1>4. /\ [q \in Peers |-> ranges'[q].have]
           = [[q \in Peers |-> ranges[q].have] EXCEPT ![p] = r.have]
      /\ [q \in Peers |-> ranges'[q].readnow]
           = [[q \in Peers |-> ranges[q].readnow] EXCEPT ![p] = r.readnow]
      /\ [q \in Peers |-> ranges'[q].readahead]
           = [[q \in Peers |-> ranges[q].readahead] EXCEPT ![p] = r.readahead]
  BY <1>1
<1>5. UNCHANGED connections
  BY DEF UpdateByteRanges
<1>6. /\ r.readnow \in SUBSET (Blocks \ r.have)
      /\ r.readahead \in SUBSET (Blocks \ (r.have \cup r.readnow))
  BY AnnouncedAssumption DEF ByteRanges, Disjoint
<1> QED BY <1>2, <1>3, <1>4, <1>5, <1>6
        DEF Ledger!UpdateByteRanges, Ledger!Block

(* The connections are the same on both levels.                            *)
LEMMA SetConnectedIsLedgerSetConnected ==
  ASSUME NEW p, NEW C, SetConnectedPeers(p, C)
  PROVE  Ledger!SetConnectedPeers(p, C)
BY DEF SetConnectedPeers, Ledger!SetConnectedPeers, InFlight

(* A failed upload takes its sender's blocks to its target off the ledger. *)
LEMMA FailureIsLedgerFailure ==
  ASSUME SchedulerInvariant, NEW s \in Peers, NEW targets, UploadFailed(s, targets)
  PROVE  Ledger!UploadFailed(s, targets)
<1> DEFINE left == { t \in InFlight(transfers) : t[1] = s => t[2] \notin targets }
<1>1. left \in SUBSET (Peers \X Peers \X Blocks)
  BY InFlightType
<1>2. ASSUME NEW u \in Peers, NEW q \in Peers, NEW b \in Blocks
      PROVE  << u, q, b >> \in InFlight(transfers') <=> << u, q, b >> \in left
  <2>1. << u, q, b >> \in left
          <=> (u = s => q \notin targets) /\ \E c \in transfers[u] : c.peer = q /\ b \in c.range
    BY InFlightMembers
  <2>2. << u, q, b >> \in InFlight(transfers')
          <=> \E c \in transfers'[u] : c.peer = q /\ b \in c.range
    BY InFlightMembers
  <2>3. transfers'[u] = IF u = s THEN { c \in transfers[s] : c.peer \notin targets }
                                 ELSE transfers[u]
    BY DEF UploadFailed, SchedulerInvariant, TypeOK
  <2> QED BY <2>1, <2>2, <2>3
<1> HIDE DEF left
<1>3. InFlight(transfers') = left
  BY <1>1, <1>2, InFlightType, EqualLedgers
<1>4. InFlight(transfers)' = InFlight(transfers')
  BY DEF InFlight
<1> QED BY <1>3, <1>4 DEF UploadFailed, Ledger!UploadFailed, Ledger!From, Ledger!To, left

(* A departure takes all of the peer's blocks off the ledger.              *)
LEMMA DepartureIsLedgerDeparture ==
  ASSUME SchedulerInvariant, NEW p \in Peers, Disappeered(p)
  PROVE  Ledger!Disappeered(p)
<1> DEFINE left == { t \in InFlight(transfers) : t[1] # p /\ t[2] # p }
<1>1. left \in SUBSET (Peers \X Peers \X Blocks)
  BY InFlightType
<1>2. ASSUME NEW u \in Peers, NEW q \in Peers, NEW b \in Blocks
      PROVE  << u, q, b >> \in InFlight(transfers') <=> << u, q, b >> \in left
  <2>1. << u, q, b >> \in left
          <=> u # p /\ q # p /\ \E c \in transfers[u] : c.peer = q /\ b \in c.range
    BY InFlightMembers
  <2>2. << u, q, b >> \in InFlight(transfers')
          <=> \E c \in transfers'[u] : c.peer = q /\ b \in c.range
    BY InFlightMembers
  <2>3. transfers'[u] = IF u = p THEN {} ELSE { c \in transfers[u] : c.peer # p }
    BY DEF Disappeered
  <2> QED BY <2>1, <2>2, <2>3
<1> HIDE DEF left
<1>3. InFlight(transfers') = left
  BY <1>1, <1>2, InFlightType, EqualLedgers
<1>4. InFlight(transfers)' = InFlight(transfers')
  BY DEF InFlight
<1>5. \A q \in Peers : ranges'[q] = IF q = p THEN NoRanges ELSE ranges[q]
  BY DEF Disappeered, SchedulerInvariant, TypeOK
<1>6. \A q \in Peers : q # p => ranges'[q] = ranges[q]
  BY <1>5
<1>7. /\ ranges'[p].have = {} /\ ranges'[p].readnow = {} /\ ranges'[p].readahead = {}
  BY <1>5 DEF NoRanges
<1>8. /\ [q \in Peers |-> ranges'[q].have]
           = [[q \in Peers |-> ranges[q].have] EXCEPT ![p] = {}]
      /\ [q \in Peers |-> ranges'[q].readnow]
           = [[q \in Peers |-> ranges[q].readnow] EXCEPT ![p] = {}]
      /\ [q \in Peers |-> ranges'[q].readahead]
           = [[q \in Peers |-> ranges[q].readahead] EXCEPT ![p] = {}]
  BY <1>6, <1>7
<1> QED BY <1>3, <1>4, <1>8 DEF Disappeered, Ledger!Disappeered, Ledger!From, Ledger!To, left

(* What a round adds to the ledger are shipments it allows, and enough.    *)
LEMMA RoundIsLedgerRound ==
  ASSUME SchedulerInvariant, ComputeNewTransfers
  PROVE  Ledger!ComputeNewTransfers
<1>1. PICK order \in Orders : transfers' = Assigned(order)
  BY DEF ComputeNewTransfers, Orders
<1> DEFINE w == WantedTransfers(order)
           before == InFlight(transfers)
           after == InFlight(transfers')
           new == after \ before
<1>2. TypeOK /\ DisjointRanges /\ OneCommandPerBlock
  BY DEF SchedulerInvariant
<1>3. ListOK(w) /\ TableInv(w, transfers', DOMAIN w)
  BY <1>1, <1>2, WantedTransfersEffect, AssignedEffect
<1>4. UNCHANGED << ranges, connections >>
  BY DEF ComputeNewTransfers
<1>5. \A s \in Peers : transfers[s] \subseteq transfers'[s]
  BY <1>3 DEF TableInv
<1>6. before \subseteq after
  BY <1>5 DEF InFlight
<1> HIDE DEF w
<1>7. ASSUME NEW s \in Peers, NEW r \in Peers, NEW b \in Blocks, << s, r, b >> \in new
      PROVE  /\ b \in ranges[s].have
             /\ s \in connections[r]
             /\ ~ Sent(transfers, r, b)
             /\ b \in ranges[r].readnow \cup ranges[r].readahead
  <2>1. PICK c \in transfers'[s] : c.peer = r /\ b \in c.range
    BY <1>7, InFlightMembers
  <2>2. c \notin transfers[s]
    BY <1>7, <2>1, InFlightMembers
  <2>3. PICK j \in DOMAIN w : c = CommandOf(w[j]) /\ s \in w[j].senders
    BY <2>2, <1>3 DEF TableInv, NewOnesAreWanted
  <2>4. w[j] \in WantRecord /\ GoodWant(w[j])
    BY <1>3, ElementOfSeq DEF ListOK
  <2>5. w[j].receiver = r /\ b \in w[j].bytes
    BY <2>1, <2>3, <2>4, CommandOfWant
  <2>6. b \in ranges[s].have
    BY <2>3, <2>4, <2>5 DEF GoodWant
  <2>7. s \in connections[r]
    BY <2>3, <2>4, <2>5 DEF GoodWant
  <2>8. ~ Sent(transfers, r, b)
    BY <2>4, <2>5 DEF GoodWant
  <2>9. b \in ranges[r].readnow \cup ranges[r].readahead
    BY <2>4, <2>5 DEF GoodWant, AskedBlocks
  <2> QED BY <2>6, <2>7, <2>8, <2>9
<1>8. \A r \in Peers : \A b \in Blocks :
        Sent(transfers, r, b) <=> \E s \in Peers : << s, r, b >> \in before
  <2> SUFFICES ASSUME NEW r \in Peers, NEW b \in Blocks
               PROVE  Sent(transfers, r, b) <=> \E s \in Peers : << s, r, b >> \in before
    OBVIOUS
  <2>1. \A s \in Peers : << s, r, b >> \in before
                           <=> \E c \in transfers[s] : c.peer = r /\ b \in c.range
    BY InFlightMembers
  <2> HIDE DEF before
  <2> QED BY <2>1 DEF Sent
<1>9. \A s, u, r \in Peers : \A b \in Blocks :
        << s, r, b >> \in after /\ << u, r, b >> \in after => s = u
  <2> SUFFICES ASSUME NEW s \in Peers, NEW u \in Peers, NEW r \in Peers, NEW b \in Blocks,
                      << s, r, b >> \in after, << u, r, b >> \in after
               PROVE  s = u
    OBVIOUS
  <2>1. PICK c \in transfers'[s] : c.peer = r /\ b \in c.range
    BY InFlightMembers
  <2>2. PICK d \in transfers'[u] : d.peer = r /\ b \in d.range
    BY InFlightMembers
  <2> QED BY <2>1, <2>2, <1>3 DEF TableInv, OneCommand
<1>10. \A r \in Peers : \A b \in ranges[r].readnow :
         \/ \E s \in Peers : << s, r, b >> \in after
         \/ \A s \in connections[r] : b \notin ranges[s].have
  BY <1>1, RoundServes DEF WaitedForIsServed, Orders
<1>11. before \in SUBSET (Peers \X Peers \X Blocks) /\ after \in SUBSET (Peers \X Peers \X Blocks)
  BY InFlightType
<1>12. \A t \in Peers \X Peers \X Blocks :
         t[1] \in Peers /\ t[2] \in Peers /\ t[3] \in Blocks /\ t = << t[1], t[2], t[3] >>
  OBVIOUS
<1>13. InFlight(transfers)' = after
  BY DEF InFlight
<1> HIDE DEF before, after
<1>14. new \in SUBSET Ledger!NewShipments
  <2> SUFFICES ASSUME NEW t \in new PROVE t \in Ledger!NewShipments
    OBVIOUS
  <2>1. t \in Peers \X Peers \X Blocks
    BY <1>11
  <2>2. t[1] \in Peers /\ t[2] \in Peers /\ t[3] \in Blocks /\ << t[1], t[2], t[3] >> \in new
    BY <2>1, <1>12
  <2> HIDE DEF new
  <2>3. /\ t[3] \in ranges[t[1]].have
        /\ t[1] \in connections[t[2]]
        /\ ~ Sent(transfers, t[2], t[3])
        /\ t[3] \in ranges[t[2]].readnow \cup ranges[t[2]].readahead
    BY <1>7, <2>2
  <2>4. \A x \in before : ~ (x[2] = t[2] /\ x[3] = t[3])
    BY <1>8, <1>11, <1>12, <2>2, <2>3
  <2> QED BY <2>1, <2>2, <2>3, <2>4
          DEF Ledger!NewShipments, Ledger!MaySend, Ledger!Shipment, Ledger!From, Ledger!To,
              Ledger!Block, before
<1>15. \A t, u \in new : t[2] = u[2] /\ t[3] = u[3] => t = u
  BY <1>9, <1>11, <1>12
<1>16. \A t \in Ledger!NewShipments :
         t[3] \in ranges[t[2]].readnow => \E u \in new : u[2] = t[2] /\ u[3] = t[3]
  <2> SUFFICES ASSUME NEW t \in Ledger!NewShipments, t[3] \in ranges[t[2]].readnow
               PROVE  \E u \in new : u[2] = t[2] /\ u[3] = t[3]
    OBVIOUS
  <2>1. /\ t \in Peers \X Peers \X Blocks
        /\ t[3] \in ranges[t[1]].have
        /\ t[1] \in connections[t[2]]
        /\ \A x \in before : ~ (x[2] = t[2] /\ x[3] = t[3])
    BY DEF Ledger!NewShipments, Ledger!MaySend, Ledger!Shipment, Ledger!From, Ledger!To,
           Ledger!Block, before
  <2>2. t[1] \in Peers /\ t[2] \in Peers /\ t[3] \in Blocks
    BY <2>1
  <2>3. PICK s \in Peers : << s, t[2], t[3] >> \in after
    BY <1>10, <2>1, <2>2
  <2>4. << s, t[2], t[3] >> \notin before
    BY <2>1
  <2> QED BY <2>3, <2>4
<1>17. after = before \cup new
  BY <1>6
<1> HIDE DEF new
<1>18. /\ InFlight(transfers)' = before \cup new
       /\ \A t, u \in new : Ledger!To(t) = Ledger!To(u) /\ Ledger!Block(t) = Ledger!Block(u) => t = u
       /\ \A t \in Ledger!NewShipments :
            Ledger!Block(t) \in [p \in Peers |-> ranges[p].readnow][Ledger!To(t)]
              => \E u \in new : Ledger!To(u) = Ledger!To(t) /\ Ledger!Block(u) = Ledger!Block(t)
  <2>1. \A t \in Ledger!NewShipments : t[2] \in Peers
    BY DEF Ledger!NewShipments, Ledger!Shipment
  <2> QED BY <1>13, <1>15, <1>16, <1>17, <2>1 DEF Ledger!To, Ledger!Block
<1> QED BY <1>4, <1>14, <1>18 DEF Ledger!ComputeNewTransfers, before

(* Every step is a step of the ledger or leaves it alone.                  *)
LEMMA StepIsLedgerStep ==
  ASSUME SchedulerInvariant, [Next]_vars
  PROVE  [Ledger!Next]_(Ledger!vars)
<1>1. ASSUME NEW p \in Peers, NEW r \in Announced(p), UpdateByteRanges(p, r)
      PROVE  Ledger!Next
  <2>1. Ledger!UpdateByteRanges(p, r.have)
    BY <1>1, UpdateIsLedgerUpdate
  <2>2. r.have \in SUBSET Blocks
    BY <1>1, AnnouncedAssumption DEF ByteRanges
  <2> QED BY <2>1, <2>2 DEF Ledger!Next
<1>2. ASSUME NEW p \in Peers, NEW C \in Reachable(p), SetConnectedPeers(p, C)
      PROVE  Ledger!Next
  <2>1. C \in SUBSET Peers
    BY ReachableAssumption
  <2>2. Ledger!SetConnectedPeers(p, C)
    BY <1>2, SetConnectedIsLedgerSetConnected
  <2> QED BY <2>1, <2>2 DEF Ledger!Next
<1>3. ASSUME NEW s \in Peers, NEW t \in Peers, UploadFailed(s, {t})
      PROVE  Ledger!Next
  <2>1. Ledger!UploadFailed(s, {t})
    BY <1>3, FailureIsLedgerFailure
  <2> QED BY <2>1 DEF Ledger!Next
<1>4. ASSUME NEW p \in Peers, Disappeered(p)
      PROVE  Ledger!Next
  BY <1>4, DepartureIsLedgerDeparture DEF Ledger!Next
<1>5. CASE ComputeNewTransfers
  BY <1>5, RoundIsLedgerRound DEF Ledger!Next
<1>6. CASE UNCHANGED vars
  BY <1>6 DEF vars, Ledger!vars, InFlight
<1> QED BY <1>1, <1>2, <1>3, <1>4, <1>5, <1>6 DEF Next

(* Every call of the scheduler is the call of the same name on the ledger  *)
(* of single blocks, for any peers and any file: slices, merged ranges,    *)
(* map order, busyness and the limit are an implementation of "pick one    *)
(* sender that has it".                                                    *)
THEOREM SchedulerImplementsLedger == Spec => ImplementsLedger
<1>1. Init => Ledger!Init
  BY InitIsLedgerInit
<1>2. SchedulerInvariant /\ [Next]_vars => [Ledger!Next]_(Ledger!vars)
  BY StepIsLedgerStep
<1> QED BY <1>1, <1>2, SchedulerInvariantHolds, PTL DEF Spec, ImplementsLedger, Ledger!Spec

-----------------------------------------------------------------------------
(* Which commands may become senseless.                                    *)

\* The step at hand leaves t of the ledger alone, or its sender withdraws it.
StepMakesSense(t) ==
  /\ t[3] \notin ranges'[t[2]].have
  /\ t[3] \notin ranges'[t[1]].have =>
       /\ t \in InFlight(transfers)
       /\ t[3] \in ranges[t[1]].have => Withdraws(t[1], t[3])

(* What is on the ledger after a step is not held by its receiver.         *)
LEMMA HeldIsNotInFlight ==
  ASSUME SchedulerInvariant', NEW t \in InFlight(transfers)'
  PROVE  /\ t[1] \in Peers /\ t[2] \in Peers /\ t[3] \in Blocks
         /\ t[3] \notin ranges'[t[2]].have
<1>1. t[1] \in Peers /\ t[2] \in Peers /\ t[3] \in Blocks
  BY DEF InFlight
<1>2. PICK c \in transfers'[t[1]] : c.peer = t[2] /\ t[3] \in c.range
  BY DEF InFlight
<1>3. c.range \cap ranges'[c.peer].have = {}
  BY <1>1, <1>2 DEF SchedulerInvariant, HeldIsNotSent
<1> QED BY <1>1, <1>2, <1>3

(* An announcement takes blocks away from its own peer only.               *)
LEMMA UpdateMakesSense ==
  ASSUME SchedulerInvariant, SchedulerInvariant', NEW p \in Peers, NEW r \in Announced(p),
         UpdateByteRanges(p, r), NEW t \in InFlight(transfers)'
  PROVE  StepMakesSense(t)
<1>1. t[1] \in Peers /\ t[3] \notin ranges'[t[2]].have
  BY HeldIsNotInFlight
<1>2. t \in InFlight(transfers)
  <2>1. Ledger!UpdateByteRanges(p, r.have)
    BY UpdateIsLedgerUpdate
  <2> QED BY <2>1 DEF Ledger!UpdateByteRanges
<1>3. \A q \in Peers : ranges'[q] = IF q = p THEN r ELSE ranges[q]
  BY DEF UpdateByteRanges, SchedulerInvariant, TypeOK
<1>4. ASSUME t[3] \notin ranges'[t[1]].have, t[3] \in ranges[t[1]].have
      PROVE  Withdraws(t[1], t[3])
  <2>1. t[1] = p /\ ranges'[p] = r
    BY <1>1, <1>3, <1>4
  <2> QED BY <1>4, <2>1 DEF Withdraws
<1> QED BY <1>1, <1>2, <1>4 DEF StepMakesSense

(* A report of connections or of a failed upload leaves what peers have.   *)
LEMMA FewerMakeSense ==
  ASSUME SchedulerInvariant', InFlight(transfers)' \subseteq InFlight(transfers),
         UNCHANGED ranges, NEW t \in InFlight(transfers)'
  PROVE  StepMakesSense(t)
<1>1. t[3] \notin ranges'[t[2]].have
  BY HeldIsNotInFlight
<1> QED BY <1>1 DEF StepMakesSense

(* A departure takes what the peer was to send along with what it had.     *)
LEMMA DepartureMakesSense ==
  ASSUME SchedulerInvariant, SchedulerInvariant', NEW p \in Peers, Disappeered(p),
         NEW t \in InFlight(transfers)'
  PROVE  StepMakesSense(t)
<1>1. t[1] \in Peers /\ t[3] \notin ranges'[t[2]].have
  BY HeldIsNotInFlight
<1>2. t \in InFlight(transfers) /\ t[1] # p
  <2>1. Ledger!Disappeered(p)
    BY DepartureIsLedgerDeparture
  <2> QED BY <2>1 DEF Ledger!Disappeered, Ledger!From
<1>3. ranges'[t[1]] = ranges[t[1]]
  BY <1>1, <1>2 DEF Disappeered, SchedulerInvariant, TypeOK
<1> QED BY <1>1, <1>2, <1>3 DEF StepMakesSense

(* A round asks only peers that have the block.                            *)
LEMMA RoundMakesSense ==
  ASSUME SchedulerInvariant, SchedulerInvariant', ComputeNewTransfers,
         NEW t \in InFlight(transfers)'
  PROVE  StepMakesSense(t)
<1>1. t[1] \in Peers /\ t[3] \notin ranges'[t[2]].have
  BY HeldIsNotInFlight
<1>2. t \in InFlight(transfers) \/ t \in Ledger!NewShipments
  <2>1. Ledger!ComputeNewTransfers
    BY RoundIsLedgerRound
  <2> QED BY <2>1 DEF Ledger!ComputeNewTransfers
<1>3. UNCHANGED ranges
  BY DEF ComputeNewTransfers
<1>4. t \in Ledger!NewShipments => t[3] \in ranges[t[1]].have
  BY <1>1 DEF Ledger!NewShipments, Ledger!MaySend, Ledger!From, Ledger!Block
<1> QED BY <1>1, <1>2, <1>3, <1>4 DEF StepMakesSense

(* Nobody is told to send a peer what it announced it has, and a command   *)
(* for a block its sender does not have is left only by an announcement of *)
(* that sender, for any peers, any file and any announcements, of fewer    *)
(* blocks than before too.                                                 *)
THEOREM CommandsAlwaysMakeSense == Spec => CommandsMakeSense
<1>1. SchedulerInvariant /\ SchedulerInvariant' /\ [Next]_vars
        => \A t \in InFlight(transfers)' : StepMakesSense(t)
  <2> SUFFICES ASSUME SchedulerInvariant, SchedulerInvariant', [Next]_vars,
                      NEW t \in InFlight(transfers)'
               PROVE  StepMakesSense(t)
    OBVIOUS
  <2>1. ASSUME NEW p \in Peers, NEW r \in Announced(p), UpdateByteRanges(p, r)
        PROVE  StepMakesSense(t)
    BY <2>1, UpdateMakesSense
  <2>2. ASSUME NEW p \in Peers, NEW C \in Reachable(p), SetConnectedPeers(p, C)
        PROVE  StepMakesSense(t)
    <3>1. InFlight(transfers)' \subseteq InFlight(transfers) /\ UNCHANGED ranges
      BY <2>2 DEF SetConnectedPeers, InFlight
    <3> QED BY <3>1, FewerMakeSense
  <2>3. ASSUME NEW s \in Peers, NEW q \in Peers, UploadFailed(s, {q})
        PROVE  StepMakesSense(t)
    <3>1. Ledger!UploadFailed(s, {q})
      BY <2>3, FailureIsLedgerFailure
    <3>2. InFlight(transfers)' \subseteq InFlight(transfers) /\ UNCHANGED ranges
      BY <2>3, <3>1 DEF UploadFailed, Ledger!UploadFailed
    <3> QED BY <3>2, FewerMakeSense
  <2>4. ASSUME NEW p \in Peers, Disappeered(p) PROVE StepMakesSense(t)
    BY <2>4, DepartureMakesSense
  <2>5. CASE ComputeNewTransfers
    BY <2>5, RoundMakesSense
  <2>6. CASE UNCHANGED vars
    <3>1. InFlight(transfers)' \subseteq InFlight(transfers) /\ UNCHANGED ranges
      BY <2>6 DEF vars, InFlight
    <3> QED BY <3>1, FewerMakeSense
  <2> QED BY <2>1, <2>2, <2>3, <2>4, <2>5, <2>6 DEF Next
<1>2. SchedulerInvariant /\ SchedulerInvariant' /\ [Next]_vars
        => [ \A t \in InFlight(transfers)' :
               /\ t[3] \notin ranges'[t[2]].have
               /\ t[3] \notin ranges'[t[1]].have =>
                    /\ t \in InFlight(transfers)
                    /\ t[3] \in ranges[t[1]].have => Withdraws(t[1], t[3])
           ]_vars
  BY <1>1 DEF StepMakesSense
<1> QED BY <1>2, SchedulerInvariantHolds, PTL DEF Spec, CommandsMakeSense

-----------------------------------------------------------------------------
(***************************************************************************)
(* The ledger on its own: the safety of TransferLedger for any peers, any  *)
(* set of blocks and any behaviour of it, the scheduler's or another's.    *)
(* Its variables and blocks are declared here, unrelated to those of the   *)
(* scheduler above; L is the ledger with nothing substituted.              *)
(***************************************************************************)
CONSTANT FileBlocks
VARIABLES have, readnow, readahead, connected, inflight

L == INSTANCE TransferLedger WITH Blocks <- FileBlocks

\* The announced sets of every peer are disjoint.  NothingHeldIsSent alone is
\* not inductive: a block both held and waited for could be scheduled.
AnnouncedApart ==
  \A p \in Peers : /\ have[p] \cap readnow[p] = {}
                   /\ have[p] \cap readahead[p] = {}

LedgerInv ==
  /\ L!TypeOK
  /\ AnnouncedApart
  /\ L!OneSenderPerBlock
  /\ L!NothingHeldIsSent

(* The initial ledger is empty, so everything holds of it.                 *)
LEMMA LedgerInitInv == L!Init => LedgerInv
  BY DEF L!Init, LedgerInv, L!TypeOK, AnnouncedApart, L!Shipment,
         L!OneSenderPerBlock, L!NothingHeldIsSent

(* UpdateByteRanges keeps the invariant: exactly the shipments of the      *)
(* announced blocks leave.                                                 *)
LEMMA LedgerUpdateKeepsInv ==
  ASSUME LedgerInv, NEW p \in Peers, NEW h \in SUBSET FileBlocks,
         L!UpdateByteRanges(p, h)
  PROVE  LedgerInv'
<1> USE DEF LedgerInv
<1>1. PICK n \in SUBSET (FileBlocks \ h) : \E a \in SUBSET (FileBlocks \ (h \cup n)) :
        /\ readnow' = [readnow EXCEPT ![p] = n]
        /\ readahead' = [readahead EXCEPT ![p] = a]
  BY DEF L!UpdateByteRanges
<1>2. PICK a \in SUBSET (FileBlocks \ (h \cup n)) :
        /\ readnow' = [readnow EXCEPT ![p] = n]
        /\ readahead' = [readahead EXCEPT ![p] = a]
  BY <1>1
<1>3. /\ have' = [have EXCEPT ![p] = h]
      /\ inflight' = { t \in inflight : L!Block(t) \notin h }
      /\ UNCHANGED connected
  BY DEF L!UpdateByteRanges
<1>4. L!TypeOK'
  BY <1>2, <1>3 DEF L!TypeOK
<1>5. AnnouncedApart'
  BY <1>2, <1>3 DEF L!TypeOK, AnnouncedApart
<1>6. L!OneSenderPerBlock'
  BY <1>3 DEF L!OneSenderPerBlock
<1>7. L!NothingHeldIsSent'
  <2> SUFFICES ASSUME NEW t \in inflight, L!Block(t) \notin h
               PROVE  L!Block(t) \notin have'[L!To(t)]
    BY <1>3 DEF L!NothingHeldIsSent
  <2>1. L!To(t) \in Peers /\ L!Block(t) \notin have[L!To(t)]
    BY DEF L!TypeOK, L!Shipment, L!To, L!NothingHeldIsSent
  <2> QED BY <1>3, <2>1 DEF L!TypeOK
<1> QED BY <1>4, <1>5, <1>6, <1>7

(* SetConnectedPeers touches nothing the promises speak of.                *)
LEMMA LedgerConnectKeepsInv ==
  ASSUME LedgerInv, NEW p \in Peers, NEW C \in SUBSET Peers,
         L!SetConnectedPeers(p, C)
  PROVE  LedgerInv'
  BY DEF LedgerInv, L!SetConnectedPeers, L!TypeOK, AnnouncedApart, L!OneSenderPerBlock,
         L!NothingHeldIsSent

(* UploadFailed only takes shipments out.                                  *)
LEMMA LedgerFailureKeepsInv ==
  ASSUME LedgerInv, NEW s \in Peers, NEW targets \in SUBSET Peers,
         L!UploadFailed(s, targets)
  PROVE  LedgerInv'
  BY DEF LedgerInv, L!UploadFailed, L!TypeOK, AnnouncedApart, L!OneSenderPerBlock,
         L!NothingHeldIsSent

(* Disappeered takes a peer's blocks away and, with them, every shipment   *)
(* from it or to it.                                                       *)
LEMMA LedgerDepartureKeepsInv ==
  ASSUME LedgerInv, NEW p \in Peers, L!Disappeered(p)
  PROVE  LedgerInv'
<1> USE DEF LedgerInv, L!Disappeered
<1>1. L!TypeOK'
  BY DEF L!TypeOK
<1>2. AnnouncedApart'
  BY DEF L!TypeOK, AnnouncedApart
<1>3. L!OneSenderPerBlock'
  BY DEF L!OneSenderPerBlock
<1>4. L!NothingHeldIsSent'
  <2> SUFFICES ASSUME NEW t \in inflight, L!From(t) # p, L!To(t) # p
               PROVE  L!Block(t) \notin have'[L!To(t)]
    BY DEF L!NothingHeldIsSent
  <2>1. L!To(t) \in Peers
    BY DEF L!TypeOK, L!Shipment, L!To
  <2>2. have'[L!To(t)] = have[L!To(t)]
    BY <2>1 DEF L!TypeOK
  <2> QED BY <2>2 DEF L!NothingHeldIsSent
<1> QED BY <1>1, <1>2, <1>3, <1>4

(* A scheduling round adds only blocks that nobody sends to the receiver   *)
(* yet, each from one peer that has it, none that the receiver has.        *)
LEMMA LedgerRoundKeepsInv ==
  ASSUME LedgerInv, L!ComputeNewTransfers
  PROVE  LedgerInv'
<1> USE DEF LedgerInv
<1>1. PICK new \in SUBSET L!NewShipments :
        /\ \A t, u \in new : L!To(t) = L!To(u) /\ L!Block(t) = L!Block(u) => t = u
        /\ inflight' = inflight \cup new
  BY DEF L!ComputeNewTransfers
<1>2. UNCHANGED << have, readnow, readahead, connected >>
  BY DEF L!ComputeNewTransfers
<1>3. \A t \in new : /\ t \in L!Shipment
                     /\ L!MaySend(L!From(t), L!To(t), L!Block(t))
                     /\ L!Block(t) \in readnow[L!To(t)] \cup readahead[L!To(t)]
  BY <1>1 DEF L!NewShipments
<1>4. L!TypeOK' /\ AnnouncedApart'
  BY <1>1, <1>2, <1>3 DEF L!TypeOK, AnnouncedApart
<1>5. L!OneSenderPerBlock'
  BY <1>1, <1>3 DEF L!OneSenderPerBlock, L!MaySend
<1>6. L!NothingHeldIsSent'
  <2> SUFFICES ASSUME NEW t \in new
               PROVE  L!Block(t) \notin have[L!To(t)]
    BY <1>1, <1>2 DEF L!NothingHeldIsSent
  <2>1. L!To(t) \in Peers
    BY <1>3 DEF L!Shipment, L!To
  <2> QED BY <2>1, <1>3 DEF AnnouncedApart
<1> QED BY <1>4, <1>5, <1>6

(* Every step of the ledger keeps the invariant.                           *)
LEMMA LedgerNextKeepsInv == LedgerInv /\ [L!Next]_(L!vars) => LedgerInv'
<1> SUFFICES ASSUME LedgerInv, [L!Next]_(L!vars) PROVE LedgerInv'
  OBVIOUS
<1>1. ASSUME NEW p \in Peers, NEW h \in SUBSET FileBlocks, L!UpdateByteRanges(p, h)
      PROVE  LedgerInv'
  BY <1>1, LedgerUpdateKeepsInv
<1>2. ASSUME NEW p \in Peers, NEW C \in SUBSET Peers, L!SetConnectedPeers(p, C)
      PROVE  LedgerInv'
  BY <1>2, LedgerConnectKeepsInv
<1>3. ASSUME NEW s \in Peers, NEW targets \in SUBSET Peers, L!UploadFailed(s, targets)
      PROVE  LedgerInv'
  BY <1>3, LedgerFailureKeepsInv
<1>4. ASSUME NEW p \in Peers, L!Disappeered(p) PROVE LedgerInv'
  BY <1>4, LedgerDepartureKeepsInv
<1>5. CASE L!ComputeNewTransfers
  BY <1>5, LedgerRoundKeepsInv
<1>6. CASE UNCHANGED L!vars
  BY <1>6 DEF L!vars, LedgerInv, L!TypeOK, AnnouncedApart, L!OneSenderPerBlock,
              L!NothingHeldIsSent
<1> QED BY <1>1, <1>2, <1>3, <1>4, <1>5, <1>6 DEF L!Next

(* The ledger's inductive invariant holds in every behaviour of it.        *)
THEOREM LedgerInvHolds == L!Spec => []LedgerInv
<1>1. L!Init => LedgerInv
  BY LedgerInitInv
<1>2. LedgerInv /\ [L!Next]_(L!vars) => LedgerInv'
  BY LedgerNextKeepsInv
<1> QED BY <1>1, <1>2, PTL DEF L!Spec

(* No block is ever on its way to one receiver from two senders, for any   *)
(* number of peers and blocks: PeerIsReceiving is a sufficient guard.      *)
THEOREM OneSender == L!Spec => []L!OneSenderPerBlock
  BY LedgerInvHolds, PTL DEF LedgerInv

(* Nothing is on its way to a peer that has it.                            *)
THEOREM NothingHeld == L!Spec => []L!NothingHeldIsSent
  BY LedgerInvHolds, PTL DEF LedgerInv

(* Of one step: a shipment its sender does not have after it was there     *)
(* before it, without its block or because the sender withdraws the block. *)
LEMMA LedgerStrandsOnlyByWithdrawal ==
  ASSUME L!TypeOK, [L!Next]_(L!vars), NEW t \in inflight',
         L!Block(t) \notin have'[L!From(t)]
  PROVE  /\ t \in inflight
         /\ L!Block(t) \in have[L!From(t)] => L!Withdraws(L!From(t), L!Block(t))
<1>1. ASSUME NEW p \in Peers, NEW h \in SUBSET FileBlocks, L!UpdateByteRanges(p, h)
      PROVE  /\ t \in inflight
             /\ L!Block(t) \in have[L!From(t)] => L!Withdraws(L!From(t), L!Block(t))
  <2>1. t \in inflight /\ have' = [have EXCEPT ![p] = h]
    BY <1>1 DEF L!UpdateByteRanges
  <2>2. L!From(t) \in Peers
    BY <2>1 DEF L!TypeOK, L!Shipment, L!From
  <2>3. have'[p] = h /\ (L!From(t) # p => have'[L!From(t)] = have[L!From(t)])
    BY <2>1, <2>2 DEF L!TypeOK
  <2>4. L!Block(t) \in have[L!From(t)] => L!From(t) = p
    BY <2>3
  <2> QED BY <1>1, <2>1, <2>3, <2>4 DEF L!Withdraws
<1>2. ASSUME NEW p \in Peers, NEW C \in SUBSET Peers, L!SetConnectedPeers(p, C)
      PROVE  t \in inflight /\ L!Block(t) \notin have[L!From(t)]
  BY <1>2 DEF L!SetConnectedPeers
<1>3. ASSUME NEW s \in Peers, NEW targets \in SUBSET Peers, L!UploadFailed(s, targets)
      PROVE  t \in inflight /\ L!Block(t) \notin have[L!From(t)]
  BY <1>3 DEF L!UploadFailed
<1>4. ASSUME NEW p \in Peers, L!Disappeered(p)
      PROVE  t \in inflight /\ L!Block(t) \notin have[L!From(t)]
  <2>1. t \in inflight /\ L!From(t) # p
    BY <1>4 DEF L!Disappeered
  <2>2. L!From(t) \in Peers
    BY <2>1 DEF L!TypeOK, L!Shipment, L!From
  <2> QED BY <1>4, <2>1, <2>2 DEF L!Disappeered, L!TypeOK
<1>5. CASE L!ComputeNewTransfers
  <2>1. UNCHANGED have
    BY <1>5 DEF L!ComputeNewTransfers
  <2>2. t \in inflight \/ t \in L!NewShipments
    BY <1>5 DEF L!ComputeNewTransfers
  <2>3. t \in L!NewShipments => L!Block(t) \in have[L!From(t)]
    BY DEF L!NewShipments, L!MaySend
  <2> QED BY <2>1, <2>2, <2>3
<1>6. CASE UNCHANGED L!vars
  BY <1>6 DEF L!vars
<1> QED BY <1>1, <1>2, <1>3, <1>4, <1>5, <1>6 DEF L!Next

(* Whoever is told to send a block has it, across departures, failures and *)
(* rounds: only its own announcement of less leaves it with a shipment     *)
(* that it cannot serve.                                                   *)
THEOREM SendersHold == L!Spec => L!OnlyWithdrawalStrandsShipments
<1>1. LedgerInv /\ [L!Next]_(L!vars)
        => [ \A t \in inflight' :
               L!Block(t) \notin have'[L!From(t)] =>
                 /\ t \in inflight
                 /\ L!Block(t) \in have[L!From(t)] => L!Withdraws(L!From(t), L!Block(t))
           ]_(L!vars)
  BY LedgerStrandsOnlyByWithdrawal DEF LedgerInv
<1> QED BY <1>1, LedgerInvHolds, PTL DEF L!Spec, L!OnlyWithdrawalStrandsShipments
=============================================================================
