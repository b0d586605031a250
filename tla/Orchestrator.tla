---------------------------- MODULE Orchestrator ----------------------------
(***************************************************************************)
(* discovery/orchestrate: the scheduler of one orchestrated download.  It  *)
(* keeps what every peer has, waits for and reads ahead, who each peer can *)
(* reach, and the upload commands that are under way, and hands out new    *)
(* commands.  All calls are made under the orchestration's mutex, so each  *)
(* is one step.                                                            *)
(*                                                                         *)
(* A byte range is the set of blocks it covers.  Lists of ranges are sets  *)
(* of blocks: the client exports them sorted and joined (Intervals.tla).   *)
(***************************************************************************)
EXTENDS Integers, Sequences, FiniteSets, SequencesExt, FiniteSetsExt

CONSTANTS Peers,         \* the peers of the download
          NBlocks,       \* the file is blocks 0..NBlocks-1
          MaxTransfersForReadahead,  \* MAX_TRANSFERS_FOR_READAHEAD
          Announced(_),  \* the ByteRanges that peer p may announce
          Reachable(_)   \* the peer sets that peer p may report as connected

ASSUME NBlocksAssumption == NBlocks \in Nat \ {0}
ASSUME PeersAssumption == IsFiniteSet(Peers)
ASSUME LimitAssumption == MaxTransfersForReadahead \in Nat

VARIABLES ranges,        \* peer -> [have, readnow, readahead]
          connections,   \* peer -> the peers it is connected to
          transfers      \* peer -> the commands it is working on

vars == << ranges, connections, transfers >>

Blocks == 0 .. (NBlocks - 1)

\* pb.OrchestrateRequest_UpdateByteRanges; a peer that is in none of the maps
\* reads as NoRanges, no connections and no transfers.
ByteRanges == [have : SUBSET Blocks, readnow : SUBSET Blocks,
               readahead : SUBSET Blocks]
NoRanges == [have |-> {}, readnow |-> {}, readahead |-> {}]

Disjoint(r) ==
  /\ r.have \cap r.readnow = {}
  /\ r.have \cap r.readahead = {}
  /\ r.readnow \cap r.readahead = {}

\* The three sets of one announcement are disjoint (Transfer.tla:
\* AnnouncementsAreLegal).  Nothing relates two announcements.
ASSUME AnnouncedAssumption ==
  \A p \in Peers : Announced(p) \subseteq { r \in ByteRanges : Disjoint(r) }
ASSUME ReachableAssumption == \A p \in Peers : Reachable(p) \subseteq SUBSET Peers

\* The maximal runs of a set of blocks (intervals.Intervals.Export).
Runs(S) ==
  { R \in { s .. e : s \in { b \in S : b - 1 \notin S },
                   e \in { b \in S : b + 1 \notin S } } :
      R # {} /\ R \subseteq S }

\* pb.OrchestrateResponse_UploadCommand.  The list of a sender's commands is
\* a set: the code only takes its length and searches it, and
\* OneCommandPerBlock says that no two entries are equal.
Command(peer, range) == [peer |-> peer, range |-> range]
Contiguous(S) == S # {} /\ S = Min(S) .. Max(S)
Commands == [peer : Peers, range : { S \in SUBSET Blocks : Contiguous(S) }]

-----------------------------------------------------------------------------
(* computeRangeInformation: the file is cut wherever a range or a transfer *)
(* starts or ends; all blocks of a slice have the same PeersHave,          *)
(* PeersReadNow, PeersReadAhead and PeersReceiving.                        *)

InUse ==
  { ranges[p].have : p \in Peers } \cup { ranges[p].readnow : p \in Peers }
    \cup { ranges[p].readahead : p \in Peers }
    \cup { c.range : c \in UNION { transfers[s] : s \in Peers } }

SplitBefore(b) == \E S \in InUse : (b \in S) # ((b - 1) \in S)

\* The slice that starts at block b ends where the next one starts.  (Behind
\* the last range that is in use it is one that nobody asks for.)
SliceFrom(b) ==
  { c \in b .. (NBlocks - 1) : \A d \in (b + 1) .. c : ~ SplitBefore(d) }

PeersHave(S) == { p \in Peers : S \subseteq ranges[p].have }

PeerIsReceiving(p, S) ==
  \E s \in Peers : \E c \in transfers[s] : c.peer = p /\ S \subseteq c.range

\* Slip: a receiver that is being sent the slice gets it again.
WaitsForAnyway(p, S) == S \subseteq ranges[p].readnow

WaitsFor(p, S) == S \subseteq ranges[p].readnow /\ ~ PeerIsReceiving(p, S)

ReadsAhead(p, S) == S \subseteq ranges[p].readahead /\ ~ PeerIsReceiving(p, S)

Asks(isReadAhead, p, S) == IF isReadAhead THEN ReadsAhead(p, S) ELSE WaitsFor(p, S)

-----------------------------------------------------------------------------
(* ComputeNewTransfers.  `order` is the order in which Go happens to walk  *)
(* the map of ranges: it decides the order of receivers within a slice and *)
(* which of several equally busy senders comes first.                      *)

\* The senders list is PeersHave in map order, restricted to the receiver's
\* connections: within one call it is determined by its set.
Want(isReadAhead, receiver, S) ==
  [isReadAhead |-> isReadAhead, receiver |-> receiver, bytes |-> S,
   senders |-> PeersHave(S) \cap connections[receiver]]

\* Slip: the senders of the two parts are not compared.
IsAdjacentTransferOfAnyone(l, r) ==
  /\ Max(l.bytes) + 1 = Min(r.bytes)
  /\ l.isReadAhead = r.isReadAhead
  /\ l.receiver = r.receiver

IsAdjacentTransfer(l, r) ==
  /\ Max(l.bytes) + 1 = Min(r.bytes)
  /\ l.isReadAhead = r.isReadAhead
  /\ l.receiver = r.receiver
  /\ l.senders = r.senders

\* addTransfer looks back for a transfer to grow and gives up at the first one
\* that ends before the new one starts.
AddTransfer(ts, t) ==
  LET inReach == { i \in DOMAIN ts :
                     \A j \in i .. Len(ts) : Max(ts[j].bytes) + 1 >= Min(t.bytes) }
      fitting == { i \in inReach : IsAdjacentTransfer(ts[i], t) }
  IN IF fitting = {} THEN Append(ts, t)
     ELSE [ts EXCEPT ![Max(fitting)].bytes = @ \cup t.bytes]

\* One of the two loops over the receivers of a slice, in map order.
AddWants(ts, isReadAhead, S, order) ==
  LET list[k \in 0 .. Len(order)] ==
        IF k = 0 THEN ts
        ELSE IF Asks(isReadAhead, order[k], S)
             THEN AddTransfer(list[k-1], Want(isReadAhead, order[k], S))
             ELSE list[k-1]
  IN list[Len(order)]

\* The loop over the slices: list[b] is what those that start before block b
\* ask for, first what is waited for and then read-ahead.
WantedTransfers(order) ==
  LET list[b \in 0 .. NBlocks] ==
        IF b = 0 THEN << >>
        ELSE IF SplitBefore(b - 1)
             THEN AddWants(AddWants(list[b-1], FALSE, SliceFrom(b-1), order),
                           TRUE, SliceFrom(b-1), order)
             ELSE list[b-1]
  IN list[NBlocks]

Busyness(table, s) == Cardinality(table[s])

\* The first sender, in map order, with the fewest transfers.
LeastBusySender(table, senders, order) ==
  LET least == { s \in senders : \A u \in senders :
                   Busyness(table, s) <= Busyness(table, u) }
  IN CHOOSE s \in least : \A k \in DOMAIN order :
       order[k] = s => \A j \in 1 .. (k - 1) : order[j] \notin least

\* What the two assignment loops do with one transfer.
MayAssign(table, t, order) ==
  /\ t.senders # {}
  /\ t.isReadAhead =>
       Busyness(table, LeastBusySender(table, t.senders, order))
         < MaxTransfersForReadahead

Assign(order, table, t) ==
  IF MayAssign(table, t, order)
  THEN [table EXCEPT ![LeastBusySender(table, t.senders, order)] =
          @ \cup {Command(t.receiver, t.bytes)}]
  ELSE table

\* The loop over the wanted transfers that takes those of the given kinds.
AssignLoop(order, table, wanted, kinds) ==
  LET after[k \in 0 .. Len(wanted)] ==
        IF k = 0 THEN table
        ELSE IF wanted[k].isReadAhead \in kinds
             THEN Assign(order, after[k-1], wanted[k])
             ELSE after[k-1]
  IN after[Len(wanted)]

\* Slip: one loop for both kinds.
AssignedInOneLoop(order) ==
  AssignLoop(order, transfers, WantedTransfers(order), BOOLEAN)

\* All transfers that are waited for get their sender before any read-ahead.
Assigned(order) ==
  LET wanted == WantedTransfers(order)
  IN AssignLoop(order, AssignLoop(order, transfers, wanted, {FALSE}),
                wanted, {TRUE})

ComputeNewTransfers ==
  /\ \E order \in SetToSeqs(Peers) : transfers' = Assigned(order)
  /\ UNCHANGED << ranges, connections >>

-----------------------------------------------------------------------------
(* The other calls.                                                        *)

Init ==
  /\ ranges = [p \in Peers |-> NoRanges]
  /\ connections = [p \in Peers |-> {}]
  /\ transfers = [p \in Peers |-> {}]

\* Slip: what is left of a command is kept as one range.
UncoveredWhole(c, have) == {Command(c.peer, c.range \ have)}

\* What is left of a command when the blocks in `have` no longer need sending.
Uncovered(c, have) == { Command(c.peer, R) : R \in Runs(c.range \ have) }

\* A peer announces its ranges.  They may be fewer than it announced before: a
\* client that was restarted announces on its new stream before the handler of
\* the replaced one calls Disappeered.  The loop over o.transfers does not look
\* at which peer a transfer is for, and keeps what `peer` can no longer send.
UpdateByteRanges(peer, r) ==
  /\ ranges' = [ranges EXCEPT ![peer] = r]
  /\ transfers' = [s \in Peers |->
                     UNION { Uncovered(c, r.have) : c \in transfers[s] }]
  /\ UNCHANGED connections

SetConnectedPeers(peer, C) ==
  /\ connections' = [connections EXCEPT ![peer] = C]
  /\ UNCHANGED << ranges, transfers >>

\* Slip: every sender's transfers to the targets are dropped.
UploadFailedForAll(sender, targets) ==
  /\ transfers' = [s \in Peers |->
                     { c \in transfers[s] : c.peer \notin targets }]
  /\ UNCHANGED << ranges, connections >>

UploadFailed(sender, targets) ==
  /\ transfers' = [transfers EXCEPT ![sender] =
                     { c \in @ : c.peer \notin targets }]
  /\ UNCHANGED << ranges, connections >>

\* Slip: the departed peer keeps its commands.
DisappeeredStillSending(peer) ==
  /\ ranges' = [ranges EXCEPT ![peer] = NoRanges]
  /\ connections' = [connections EXCEPT ![peer] = {}]
  /\ transfers' = [s \in Peers |-> { c \in transfers[s] : c.peer # peer }]

Disappeered(peer) ==
  /\ ranges' = [ranges EXCEPT ![peer] = NoRanges]
  /\ connections' = [connections EXCEPT ![peer] = {}]
  /\ transfers' = [s \in Peers |->
                     IF s = peer THEN {}
                     ELSE { c \in transfers[s] : c.peer # peer }]

Next ==
  \/ \E p \in Peers : \E r \in Announced(p) : UpdateByteRanges(p, r)
  \/ \E p \in Peers : \E C \in Reachable(p) : SetConnectedPeers(p, C)
  \/ \E s \in Peers : \E t \in Peers : UploadFailed(s, {t})
  \/ \E p \in Peers : Disappeered(p)
  \/ ComputeNewTransfers

Spec == Init /\ [][Next]_vars

-----------------------------------------------------------------------------
(* Properties.                                                             *)

TypeOK ==
  /\ ranges \in [Peers -> ByteRanges]
  /\ connections \in [Peers -> SUBSET Peers]
  /\ transfers \in [Peers -> SUBSET Commands]

(* A block is on its way to a receiver in at most one command of at most   *)
(* one sender, whatever mix of announcements, failed uploads, departures   *)
(* and scheduling rounds led there: cutting a command up, growing a        *)
(* transfer over several slices and skipping receivers that are            *)
(* PeerIsReceiving must agree on every boundary.                           *)
OneCommandPerBlock ==
  \A s, u \in Peers : \A c \in transfers[s], d \in transfers[u] :
    c.peer = d.peer /\ c.range \cap d.range # {} => s = u /\ c = d

InFlight(table) ==
  { t \in Peers \X Peers \X Blocks :
      \E c \in table[t[1]] : c.peer = t[2] /\ t[3] \in c.range }

\* Peer s announces that it does not have block b, which it had announced.
Withdraws(s, b) ==
  /\ b \in ranges[s].have \ ranges'[s].have
  /\ UpdateByteRanges(s, ranges'[s])

(* Nobody is told to send a block to a peer that announced it has it, in   *)
(* whatever order announcements, failures, departures and rounds come.  A  *)
(* command for a block its sender does not have comes about in one way:    *)
(* the sender itself announced less than before while it was being asked.  *)
(* A round never gives one, and no departure or failure leaves one behind. *)
CommandsMakeSense ==
  [][ \A t \in InFlight(transfers)' :
        /\ t[3] \notin ranges'[t[2]].have
        /\ t[3] \notin ranges'[t[1]].have =>
             /\ t \in InFlight(transfers)
             /\ t[3] \in ranges[t[1]].have => Withdraws(t[1], t[3])
    ]_vars

(* A round of ComputeNewTransfers leaves no block that a peer waits for    *)
(* unassigned when somebody it can reach has it, in whatever order Go      *)
(* walks its maps: growing a transfer over a slice only some of its        *)
(* senders have would lose one.                                            *)
WaitedForIsServed ==
  \A order \in SetToSeqs(Peers) :
    LET after == InFlight(Assigned(order)) IN
    \A r \in Peers : \A b \in ranges[r].readnow :
      \/ \E s \in Peers : << s, r, b >> \in after
      \/ \A s \in connections[r] : b \notin ranges[s].have

(* A sender that is given a read-ahead in a round ends that round within   *)
(* MAX_TRANSFERS_FOR_READAHEAD: read-ahead never queues up behind or in    *)
(* front of the blocks somebody is waiting for.                            *)
ReadAheadKeepsToTheLimit ==
  \A order \in SetToSeqs(Peers) :
    LET after == Assigned(order) IN
    \A s \in Peers :
      (\E c \in after[s] \ transfers[s] : c.range \subseteq ranges[c.peer].readahead)
        => Busyness(after, s) <= MaxTransfersForReadahead

\* The scheduler keeps the ledger of TransferLedger.
Ledger ==
  INSTANCE TransferLedger WITH
    have      <- [p \in Peers |-> ranges[p].have],
    readnow   <- [p \in Peers |-> ranges[p].readnow],
    readahead <- [p \in Peers |-> ranges[p].readahead],
    connected <- connections,
    inflight  <- InFlight(transfers)

(* Every call of the scheduler is the call of the same name on the ledger  *)
(* of single blocks: slices, merged ranges, map order and busyness are an  *)
(* implementation of "pick one sender that has it".                        *)
ImplementsLedger == Ledger!Spec
==============================================================================
