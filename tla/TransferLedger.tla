--------------------------- MODULE TransferLedger ---------------------------
(***************************************************************************)
(* What the transfer scheduler of the discovery server promises, one block *)
(* at a time: a ledger of which peer was told to send which block to whom. *)
(* It abstracts discovery/orchestrate/orchestrate.go: commands, their byte *)
(* ranges, how they are merged and which of the possible senders is picked *)
(* are left open here; Orchestrator.tla fixes them and is shown to         *)
(* implement this specification.                                           *)
(***************************************************************************)
EXTENDS Integers, FiniteSets

CONSTANTS Peers,         \* the peers of one download
          Blocks         \* the blocks of its file

VARIABLES have,          \* have[p]: the blocks p announced it has
          readnow,       \* readnow[p]: the blocks p waits for
          readahead,     \* readahead[p]: the blocks p will read next
          connected,     \* connected[p]: the peers p said it can reach
          inflight       \* <<s, r, b>>: s was told to send block b to r

vars == << have, readnow, readahead, connected, inflight >>

\* One block on its way from a sender to a receiver.
Shipment == Peers \X Peers \X Blocks

From(t) == t[1]
To(t)   == t[2]
Block(t) == t[3]

-----------------------------------------------------------------------------
Init ==
  /\ have = [p \in Peers |-> {}]
  /\ readnow = [p \in Peers |-> {}]
  /\ readahead = [p \in Peers |-> {}]
  /\ connected = [p \in Peers |-> {}]
  /\ inflight = {}

\* UpdateByteRanges: p announces that it has h, and asks for some of the rest,
\* each block in one way (Transfer.tla).  The blocks in h leave the ledger,
\* whoever they were on their way to.  What p was to send stays in it, also
\* when p no longer has it.
UpdateByteRanges(p, h) ==
  /\ UNCHANGED connected
  /\ have' = [have EXCEPT ![p] = h]
  /\ \E n \in SUBSET (Blocks \ h) : \E a \in SUBSET (Blocks \ (h \cup n)) :
       /\ readnow' = [readnow EXCEPT ![p] = n]
       /\ readahead' = [readahead EXCEPT ![p] = a]
  /\ inflight' = { t \in inflight : Block(t) \notin h }

SetConnectedPeers(p, C) ==
  /\ connected' = [connected EXCEPT ![p] = C]
  /\ UNCHANGED << have, readnow, readahead, inflight >>

UploadFailed(s, targets) ==
  /\ UNCHANGED << have, readnow, readahead, connected >>
  /\ inflight' = { t \in inflight : From(t) = s => To(t) \notin targets }

Disappeered(p) ==
  /\ have' = [have EXCEPT ![p] = {}]
  /\ readnow' = [readnow EXCEPT ![p] = {}]
  /\ readahead' = [readahead EXCEPT ![p] = {}]
  /\ connected' = [connected EXCEPT ![p] = {}]
  /\ inflight' = { t \in inflight : From(t) # p /\ To(t) # p }

\* A block nobody is sending to r yet, from a peer that has it and that r can
\* reach.
MaySend(s, r, b) ==
  /\ b \in have[s]
  /\ s \in connected[r]
  /\ \A t \in inflight : ~ (To(t) = r /\ Block(t) = b)

NewShipments ==
  { t \in Shipment : /\ MaySend(From(t), To(t), Block(t))
                     /\ Block(t) \in readnow[To(t)] \cup readahead[To(t)] }

\* ComputeNewTransfers: at most one sender for a block and its receiver, and
\* one for every block that is waited for and that somebody can send.
ComputeNewTransfers ==
  /\ UNCHANGED << have, readnow, readahead, connected >>
  /\ \E new \in SUBSET NewShipments :
       /\ inflight' = inflight \cup new
       /\ \A t, u \in new : To(t) = To(u) /\ Block(t) = Block(u) => t = u
       /\ \A t \in NewShipments :
            Block(t) \in readnow[To(t)] =>
              \E u \in new : To(u) = To(t) /\ Block(u) = Block(t)

Next ==
  \/ \E p \in Peers, h \in SUBSET Blocks : UpdateByteRanges(p, h)
  \/ \E p \in Peers, C \in SUBSET Peers : SetConnectedPeers(p, C)
  \/ \E s \in Peers, targets \in SUBSET Peers : UploadFailed(s, targets)
  \/ \E p \in Peers : Disappeered(p)
  \/ ComputeNewTransfers

Spec == Init /\ [][Next]_vars

-----------------------------------------------------------------------------
TypeOK ==
  /\ have \in [Peers -> SUBSET Blocks]
  /\ readnow \in [Peers -> SUBSET Blocks]
  /\ readahead \in [Peers -> SUBSET Blocks]
  /\ connected \in [Peers -> SUBSET Peers]
  /\ inflight \in SUBSET Shipment

(* No block is on its way to the same receiver from two senders: the       *)
(* bandwidth of a second copy is wasted (orchestrate.go skips a receiver   *)
(* that PeerIsReceiving, and gives each transfer one sender).              *)
OneSenderPerBlock ==
  \A t, u \in inflight : To(t) = To(u) /\ Block(t) = Block(u) => t = u

(* Nothing is on its way to a peer that announced it has it, whatever      *)
(* order announcements, failures and scheduling come in.                   *)
NothingHeldIsSent ==
  \A t \in inflight : Block(t) \notin have[To(t)]

\* Peer p announces that it does not have block b, which it had announced.
Withdraws(p, b) ==
  /\ b \in have[p] \ have'[p]
  /\ UpdateByteRanges(p, have'[p])

(* Whoever is told to send a block has it, and only its own announcement   *)
(* of less changes that: a departure takes its shipments along, and a      *)
(* block that was withdrawn is not given out again.                        *)
OnlyWithdrawalStrandsShipments ==
  [][ \A t \in inflight' :
        Block(t) \notin have'[From(t)] =>
          /\ t \in inflight
          /\ Block(t) \in have[From(t)] => Withdraws(From(t), Block(t))
    ]_vars
==============================================================================
