------------------------ MODULE OrchestrationProofs ------------------------
(***************************************************************************)
(* The sessions of one orchestration for any peers, any number of calls of *)
(* each and any transfers: proved from the inductive invariant             *)
(* OrchestrationInv.                                                       *)
(***************************************************************************)
EXTENDS Orchestration, TLAPS

\* A stream among the connections has a handler that will remove it.
ConnectedAreServed == \A s \in Connected : call[s] = "serving"

OrchestrationInv ==
  /\ TypeOK
  /\ ConnectedAreServed
  /\ WritersDoNotOversleep
  /\ PeerListsIncludeEverybody
  /\ BookedTransfersAreCommanded
  /\ KnownPeersAreServed

-----------------------------------------------------------------------------
(* The parts that no single action is about.                               *)

(* Streams belong to peers, and the empty tuple is none of them.           *)
LEMMA StreamsHaveOwners ==
  /\ \A s \in Streams : Owner(s) \in Peers
  /\ NoStream \notin Streams
<1>1. ASSUME NEW s \in Streams
      PROVE  Owner(s) \in Peers /\ s # NoStream
  <2>1. PICK p \in Peers : s \in {p} \X (1 .. Calls[p])
    BY DEF Streams
  <2> QED BY <2>1 DEF Owner, NoStream
<1> QED BY <1>1

(* A peer has one current stream.                                          *)
LEMMA OneStreamPerPeer ==
  ASSUME NEW s \in Connected, NEW t \in Connected, Owner(s) = Owner(t)
  PROVE  s = t
  BY DEF Connected

(* A broadcast only wakes writers.                                         *)
LEMMA WokenWritersType ==
  ASSUME TypeOK, NEW S
  PROVE  /\ WokenWriters(S) \in [Streams -> {"off", "busy", "waiting", "woken", "done"}]
         /\ \A s \in Streams :
              /\ WokenWriters(S)[s] = "off" <=> writer[s] = "off"
              /\ WokenWriters(S)[s] = "waiting" => s \notin S /\ writer[s] = "waiting"
  BY DEF TypeOK, WokenWriters

-----------------------------------------------------------------------------
(* The actions.                                                            *)

(* Nobody is connected at first.                                           *)
LEMMA InitHasInv == Init => OrchestrationInv
<1> SUFFICES ASSUME Init PROVE OrchestrationInv
  OBVIOUS
<1>1. Connected = {}
  BY StreamsHaveOwners DEF Init, Connected
<1>2. TypeOK
  BY StreamsHaveOwners DEF Init, TypeOK
<1> QED BY <1>1, <1>2 DEF Init, OrchestrationInv, ConnectedAreServed,
       WritersDoNotOversleep, PeerListsIncludeEverybody,
       BookedTransfersAreCommanded, KnownPeersAreServed

(* Steps of a call that is not connected yet, and of a reader that ends,   *)
(* leave everything alone that the invariant is about.                     *)
LEMMA QuietStepsKeepInv ==
  ASSUME OrchestrationInv, NEW s \in Streams,
         \/ Call(s) \/ WelcomeFails(s)
         \/ RecvFails(s) \/ RecvReplaced(s) \/ SetHash(s)
  PROVE  OrchestrationInv'
<1>1. /\ UNCHANGED << connections, writer, flags, commands, books, sched,
                      closing, history >>
      /\ call' \in [Streams -> {"none", "found", "serving", "returned"}]
      /\ \A t \in Streams : call[t] = "serving" => call'[t] = "serving"
      /\ reader' \in [Streams -> {"off", "receiving", "done"}]
      /\ \A t \in Streams : reader'[t] = "off" <=> reader[t] = "off"
  BY DEF OrchestrationInv, TypeOK, Call, WelcomeFails, RecvFails, RecvReplaced,
         Received, SetHash
<1>2. Connected' = Connected
  BY <1>1 DEF Connected
<1>3. TypeOK'
  BY <1>1 DEF OrchestrationInv, TypeOK, flags, books, history
<1>4. ConnectedAreServed' /\ PeerListsIncludeEverybody' /\ WritersDoNotOversleep'
  BY <1>1, <1>2 DEF OrchestrationInv, ConnectedAreServed, WritersDoNotOversleep,
         PeerListsIncludeEverybody, flags, history, Connected
<1>5. BookedTransfersAreCommanded' /\ KnownPeersAreServed'
  <2>1. BookedTransfersAreCommanded'
    BY <1>1 DEF OrchestrationInv, BookedTransfersAreCommanded, books, history
  <2>2. KnownPeersAreServed'
    BY <1>1 DEF OrchestrationInv, KnownPeersAreServed, TypeOK, books, history
  <2> QED BY <2>1, <2>2
<1> QED BY <1>3, <1>4, <1>5 DEF OrchestrationInv

(* A stream that joins gives everybody a new list to wait for, and wakes   *)
(* the writers that are to send it.                                        *)
LEMMA JoinKeepsInv ==
  ASSUME OrchestrationInv, NEW s \in Streams, Join(s)
  PROVE  OrchestrationInv'
<1> USE StreamsHaveOwners
<1>1. Connected' \subseteq Streams /\ s \in Connected'
      /\ \A t \in Connected' : t = s \/ t \in Connected
  BY DEF OrchestrationInv, TypeOK, Join, Connected
<1>2. /\ call' = [call EXCEPT ![s] = "serving"]
      /\ updatePeerList' = updatePeerList \cup Connected'
      /\ writer' = [WokenWriters(Connected') EXCEPT ![s] = "busy"]
  BY DEF Join, NewLists
<1>3. \A t \in Streams : call[t] = "serving" => call'[t] = "serving"
  BY <1>2 DEF OrchestrationInv, TypeOK
<1>4. TypeOK'
  <2>1. /\ writer' \in [Streams -> {"off", "busy", "waiting", "woken", "done"}]
        /\ \A t \in Streams \ {s} : writer'[t] = "off" <=> writer[t] = "off"
        /\ writer'[s] = "busy"
    BY <1>2, WokenWritersType DEF OrchestrationInv
  <2> QED BY <2>1, <1>1, <1>2 DEF OrchestrationInv, TypeOK, Join, books, history
<1>5. ConnectedAreServed'
  BY <1>1, <1>2 DEF OrchestrationInv, ConnectedAreServed, TypeOK
<1>6. WritersDoNotOversleep'
  <2>1. ASSUME NEW t \in Streams, writer'[t] = "waiting"
        PROVE  t \notin Connected' /\ writer[t] = "waiting"
    BY <2>1, <1>2, WokenWritersType DEF OrchestrationInv
  <2> QED BY <2>1, <1>2 DEF OrchestrationInv, WritersDoNotOversleep, Join
<1>7. PeerListsIncludeEverybody'
  BY <1>2 DEF PeerListsIncludeEverybody
<1>8. BookedTransfersAreCommanded' /\ KnownPeersAreServed'
  <2>1. BookedTransfersAreCommanded'
    BY <1>3 DEF OrchestrationInv, BookedTransfersAreCommanded, Join, books, history
  <2>2. KnownPeersAreServed'
    BY <1>3 DEF OrchestrationInv, KnownPeersAreServed, TypeOK, Join, books, history
  <2> QED BY <2>1, <2>2
<1> QED BY <1>4, <1>5, <1>6, <1>7, <1>8 DEF OrchestrationInv

(* The departure of a stream takes exactly its own peer out of the books,  *)
(* also when another stream of the peer is connected: that is why its      *)
(* commands may be forgotten.                                              *)
LEMMA FinishKeepsInv ==
  ASSUME OrchestrationInv, NEW s \in Streams, Finish(s)
  PROVE  OrchestrationInv'
<1> USE StreamsHaveOwners
<1>1. Connected' = Connected \ {s}
  BY DEF OrchestrationInv, TypeOK, Finish, Leave, Connected
<1>2. \A t \in Streams \ {s} :
        /\ call'[t] = call[t] /\ writer'[t] = writer[t]
        /\ commands'[t] = commands[t] /\ commanded'[t] = commanded[t]
        /\ told'[t] = told[t]
  BY DEF OrchestrationInv, TypeOK, Finish
<1>3. TypeOK'
  BY DEF OrchestrationInv, TypeOK, Finish, Leave, Disappeered
<1>4. ConnectedAreServed'
  BY <1>1, <1>2 DEF OrchestrationInv, ConnectedAreServed, Connected
<1>5. WritersDoNotOversleep'
  BY <1>2 DEF OrchestrationInv, TypeOK, WritersDoNotOversleep, Finish
<1>6. PeerListsIncludeEverybody'
  BY <1>1, <1>2 DEF OrchestrationInv, PeerListsIncludeEverybody, Finish, Connected
<1>7. BookedTransfersAreCommanded'
  <2> SUFFICES ASSUME NEW t \in inflight'
               PROVE  \E u \in Streams : /\ Owner(u) = t[1] /\ call'[u] = "serving"
                                         /\ t[2] \in commands'[u] \cup commanded'[u]
    BY DEF BookedTransfersAreCommanded
  <2>1. t \in inflight /\ t[1] # Owner(s)
    BY DEF Finish, Leave, Disappeered
  <2>2. PICK u \in Streams : /\ Owner(u) = t[1] /\ call[u] = "serving"
                             /\ t[2] \in commands[u] \cup commanded[u]
    BY <2>1 DEF OrchestrationInv, BookedTransfersAreCommanded
  <2> QED BY <2>1, <2>2, <1>2
<1>8. KnownPeersAreServed'
  <2> SUFFICES ASSUME NEW p \in known'
               PROVE  \E t \in announced' : Owner(t) = p /\ call'[t] = "serving"
    BY DEF KnownPeersAreServed
  <2>1. p \in known /\ p # Owner(s)
    BY DEF Finish, Leave, Disappeered
  <2>2. PICK t \in announced : Owner(t) = p /\ call[t] = "serving"
    BY <2>1 DEF OrchestrationInv, KnownPeersAreServed
  <2>3. t \in Streams \ {s}
    BY <2>1, <2>2 DEF OrchestrationInv, TypeOK
  <2> QED BY <2>2, <2>3, <1>2 DEF Finish
<1> QED BY <1>3, <1>4, <1>5, <1>6, <1>7, <1>8 DEF OrchestrationInv

(* A message that counts comes from a stream that is connected, hence      *)
(* alive: that makes its peer a known one again.                           *)
LEMMA MessageKeepsInv ==
  ASSUME OrchestrationInv, NEW s \in Streams,
         \/ UpdateByteRanges(s) \/ SetConnectedPeers(s)
         \/ \E Q : UploadFailed(s, Q)
  PROVE  OrchestrationInv'
<1> USE StreamsHaveOwners
<1>1. /\ UNCHANGED << connections, call, reader, writer, flags, commands, closing,
                      told, commanded >>
      /\ inflight' \subseteq inflight
      /\ sched' \in {"waiting", "woken", "done"}
      /\ s \in Connected
      /\ \/ known' = known /\ announced' = announced
         \/ known' = known \cup {Owner(s)} /\ announced' = announced \cup {s}
  BY DEF OrchestrationInv, TypeOK, UpdateByteRanges, SetConnectedPeers, UploadFailed,
         Received, WakeScheduler, streams, books, history
<1>2. Connected' = Connected
  BY <1>1 DEF Connected
<1>3. TypeOK'
  BY <1>1 DEF OrchestrationInv, TypeOK, flags
<1>4. ConnectedAreServed' /\ WritersDoNotOversleep' /\ PeerListsIncludeEverybody'
  BY <1>1, <1>2 DEF OrchestrationInv, ConnectedAreServed, WritersDoNotOversleep,
         PeerListsIncludeEverybody, flags
<1>5. BookedTransfersAreCommanded'
  BY <1>1 DEF OrchestrationInv, BookedTransfersAreCommanded
<1>6. KnownPeersAreServed'
  BY <1>1 DEF OrchestrationInv, KnownPeersAreServed, ConnectedAreServed
<1> QED BY <1>3, <1>4, <1>5, <1>6 DEF OrchestrationInv

(* The writer's loop waits only with nothing to do, sends complete lists,  *)
(* and turns queued commands into sent ones.                               *)
LEMMA WriterKeepsInv ==
  ASSUME OrchestrationInv, NEW s \in Streams,
         Loop(s) \/ WakeUp(s) \/ SendFails(s)
  PROVE  OrchestrationInv'
<1> USE StreamsHaveOwners
<1>1. /\ UNCHANGED << connections, call, reader, disconnecting, books, sched,
                      closing, announced >>
      /\ \E w \in {"busy", "waiting", "done"} :
           /\ writer' = [writer EXCEPT ![s] = w]
           /\ w = "waiting" => /\ s \notin updatePeerList \cup disconnecting
                               /\ commands[s] = {}
                               /\ UNCHANGED << updatePeerList, commands >>
      /\ writer[s] # "off"
  BY DEF Loop, WakeUp, SendFails, WriterLoop, flags, history
<1>2. /\ commands' \in [Streams -> SUBSET Peers] /\ commanded' \in [Streams -> SUBSET Peers]
      /\ \A t \in Streams : /\ commands'[t] \subseteq commands[t]
                            /\ commands[t] \cup commanded[t]
                                 \subseteq commands'[t] \cup commanded'[t]
  BY DEF OrchestrationInv, TypeOK, Loop, WakeUp, SendFails, WriterLoop, history
<1>3. \/ UNCHANGED << updatePeerList, told >>
      \/ /\ updatePeerList' = updatePeerList \ {s}
         /\ told' = [told EXCEPT ![s] = { Owner(t) : t \in Connected } \ {Owner(s)}]
  BY DEF Loop, WakeUp, SendFails, WriterLoop, flags, history
<1>4. Connected' = Connected /\ Connected \subseteq Streams
  BY <1>1 DEF Connected
<1>5. { Owner(t) : t \in Connected } \subseteq Peers
  BY DEF Connected
<1>6. TypeOK'
  <2>1. /\ writer' \in [Streams -> {"off", "busy", "waiting", "woken", "done"}]
        /\ \A t \in Streams : writer'[t] = "off" <=> writer[t] = "off"
    BY <1>1 DEF OrchestrationInv, TypeOK
  <2>2. updatePeerList' \in SUBSET Streams /\ told' \in [Streams -> SUBSET Peers]
    BY <1>3, <1>5 DEF OrchestrationInv, TypeOK
  <2> QED BY <1>1, <1>2, <2>1, <2>2 DEF OrchestrationInv, TypeOK, books
<1>7. ConnectedAreServed'
  BY <1>1, <1>4 DEF OrchestrationInv, ConnectedAreServed
<1>8. WritersDoNotOversleep'
  <2> SUFFICES ASSUME NEW t \in Streams, writer'[t] = "waiting"
               PROVE  t \notin updatePeerList' \cup disconnecting' /\ commands'[t] = {}
    BY DEF WritersDoNotOversleep
  <2>1. CASE t = s
    BY <2>1, <1>1 DEF OrchestrationInv, TypeOK
  <2>2. CASE t # s
    <3>1. writer[t] = "waiting"
      BY <2>2, <1>1 DEF OrchestrationInv, TypeOK
    <3>2. t \notin updatePeerList \cup disconnecting /\ commands[t] = {}
      BY <3>1 DEF OrchestrationInv, WritersDoNotOversleep
    <3> QED BY <3>2, <1>1, <1>2, <1>3
  <2> QED BY <2>1, <2>2
<1>9. PeerListsIncludeEverybody'
  <2>1. CASE UNCHANGED << updatePeerList, told >>
    BY <2>1, <1>4 DEF OrchestrationInv, PeerListsIncludeEverybody
  <2>2. CASE /\ updatePeerList' = updatePeerList \ {s}
             /\ told' = [told EXCEPT ![s] = { Owner(t) : t \in Connected } \ {Owner(s)}]
    <3> SUFFICES ASSUME NEW u \in Connected \ updatePeerList', NEW t \in Connected \ {u}
                 PROVE  Owner(t) \in told'[u]
      BY <1>4 DEF PeerListsIncludeEverybody
    <3>1. CASE u = s
      <4>1. Owner(t) # Owner(s)
        BY <3>1, OneStreamPerPeer
      <4> QED BY <4>1, <3>1, <2>2 DEF OrchestrationInv, TypeOK
    <3>2. CASE u # s
      BY <3>2, <2>2, <1>4 DEF OrchestrationInv, TypeOK, PeerListsIncludeEverybody
    <3> QED BY <3>1, <3>2
  <2> QED BY <2>1, <2>2, <1>3
<1>10. BookedTransfersAreCommanded'
  <2> SUFFICES ASSUME NEW t \in inflight
               PROVE  \E u \in Streams : /\ Owner(u) = t[1] /\ call'[u] = "serving"
                                         /\ t[2] \in commands'[u] \cup commanded'[u]
    BY <1>1 DEF BookedTransfersAreCommanded, books
  <2>1. PICK u \in Streams : /\ Owner(u) = t[1] /\ call[u] = "serving"
                             /\ t[2] \in commands[u] \cup commanded[u]
    BY DEF OrchestrationInv, BookedTransfersAreCommanded
  <2> QED BY <2>1, <1>1, <1>2
<1>11. KnownPeersAreServed'
  BY <1>1 DEF OrchestrationInv, KnownPeersAreServed, books
<1> QED BY <1>6, <1>7, <1>8, <1>9, <1>10, <1>11 DEF OrchestrationInv

(* What the scheduler adds to its books is queued on the sender's current  *)
(* stream, and that stream's writer is woken.                              *)
LEMMA ScheduleKeepsInv ==
  ASSUME OrchestrationInv, Schedule
  PROVE  OrchestrationInv'
<1> USE StreamsHaveOwners
<1>1. /\ UNCHANGED << connections, call, reader, flags, known, closing, history >>
      /\ sched' \in {"waiting", "done"}
  BY DEF Schedule
<1>2. Connected' = Connected
  BY <1>1 DEF Connected
<1>3. CASE UNCHANGED << inflight, commands, writer >>
  BY <1>1, <1>2, <1>3 DEF OrchestrationInv, TypeOK, ConnectedAreServed, flags, history,
       WritersDoNotOversleep, PeerListsIncludeEverybody, BookedTransfersAreCommanded,
       KnownPeersAreServed
<1>4. CASE ~ UNCHANGED << inflight, commands, writer >>
  <2>1. PICK new \in SUBSET ((Links \cap (known \X known)) \ inflight) :
          LET lost == { t \in new : connections[t[1]] = NoStream }
              To(s) == { t[2] : t \in { u \in new \ lost : connections[u[1]] = s } }
          IN /\ inflight' = inflight \cup (new \ lost)
             /\ commands' = [s \in Streams |-> commands[s] \cup To(s)]
             /\ writer' = WokenWriters({ s \in Streams : To(s) # {} })
    BY <1>4 DEF Schedule
  <2> DEFINE lost == { t \in new : connections[t[1]] = NoStream }
             To(s) == { t[2] : t \in { u \in new \ lost : connections[u[1]] = s } }
             Commanded == { s \in Streams : To(s) # {} }
  <2>2. /\ inflight' = inflight \cup (new \ lost)
        /\ commands' = [s \in Streams |-> commands[s] \cup To(s)]
        /\ writer' = WokenWriters(Commanded)
    BY <2>1
  <2>3. /\ inflight' \in SUBSET Links
        /\ \A s \in Streams : To(s) \in SUBSET Peers
    <3>1. \A t \in new : t \in Links /\ t[2] \in Peers
      BY OrchestrationAssumptions
    <3> QED BY <2>2, <3>1 DEF OrchestrationInv, TypeOK
  <2>4. \A t \in new \ lost :
          \E s \in Streams : /\ Owner(s) = t[1] /\ call[s] = "serving"
                             /\ t[2] \in To(s)
    <3> SUFFICES ASSUME NEW t \in new \ lost
                 PROVE  LET s == connections[t[1]]
                        IN /\ s \in Streams
                           /\ Owner(s) = t[1] /\ call[s] = "serving"
                           /\ t[2] \in To(s)
      OBVIOUS
    <3>1. t[1] \in Peers
      BY OrchestrationAssumptions
    <3>2. connections[t[1]] \in Streams /\ Owner(connections[t[1]]) = t[1]
      BY <3>1 DEF OrchestrationInv, TypeOK
    <3>3. call[connections[t[1]]] = "serving"
      BY <3>2 DEF OrchestrationInv, ConnectedAreServed, Connected
    <3> QED BY <3>2, <3>3
  <2> HIDE DEF To, lost
  <2>5. TypeOK'
    <3>1. /\ writer' \in [Streams -> {"off", "busy", "waiting", "woken", "done"}]
          /\ \A s \in Streams : writer'[s] = "off" <=> writer[s] = "off"
      BY <2>2, WokenWritersType DEF OrchestrationInv
    <3>2. commands' \in [Streams -> SUBSET Peers]
      BY <2>2, <2>3 DEF OrchestrationInv, TypeOK
    <3> QED BY <1>1, <2>3, <3>1, <3>2 DEF OrchestrationInv, TypeOK, flags, history
  <2>6. ConnectedAreServed' /\ PeerListsIncludeEverybody'
    BY <1>1, <1>2 DEF OrchestrationInv, ConnectedAreServed, PeerListsIncludeEverybody,
           flags, history
  <2>7. WritersDoNotOversleep'
    <3> SUFFICES ASSUME NEW s \in Streams, writer'[s] = "waiting"
                 PROVE  s \notin updatePeerList \cup disconnecting /\ commands'[s] = {}
      BY <1>1 DEF WritersDoNotOversleep, flags
    <3>1. s \notin Commanded /\ writer[s] = "waiting"
      BY <2>2, WokenWritersType DEF OrchestrationInv
    <3> QED BY <3>1, <2>2 DEF OrchestrationInv, WritersDoNotOversleep
  <2>8. BookedTransfersAreCommanded'
    <3> SUFFICES ASSUME NEW t \in inflight'
                 PROVE  \E s \in Streams : /\ Owner(s) = t[1] /\ call[s] = "serving"
                                           /\ t[2] \in commands'[s] \cup commanded[s]
      BY <1>1 DEF BookedTransfersAreCommanded, history
    <3>1. CASE t \in inflight
      BY <3>1, <2>2 DEF OrchestrationInv, BookedTransfersAreCommanded
    <3>2. CASE t \in new \ lost
      BY <3>2, <2>2, <2>4
    <3> QED BY <2>2, <3>1, <3>2
  <2>9. KnownPeersAreServed'
    BY <1>1 DEF OrchestrationInv, KnownPeersAreServed, history
  <2> QED BY <2>5, <2>6, <2>7, <2>8, <2>9 DEF OrchestrationInv
<1> QED BY <1>3, <1>4

(* Closing wakes all writers that are told to stop.                        *)
LEMMA CloseKeepsInv ==
  ASSUME OrchestrationInv, Close
  PROVE  OrchestrationInv'
<1> USE StreamsHaveOwners
<1>1. /\ UNCHANGED << connections, call, reader, updatePeerList, commands, books, history >>
      /\ disconnecting' = disconnecting \cup Connected
      /\ writer' = WokenWriters(Connected)
  BY DEF Close
<1>2. Connected' = Connected /\ Connected \subseteq Streams
  BY <1>1 DEF Connected
<1>3. TypeOK'
  <2>1. /\ writer' \in [Streams -> {"off", "busy", "waiting", "woken", "done"}]
        /\ \A s \in Streams : writer'[s] = "off" <=> writer[s] = "off"
    BY <1>1, WokenWritersType DEF OrchestrationInv
  <2> QED BY <1>1, <1>2, <2>1 DEF OrchestrationInv, TypeOK, Close, WakeScheduler,
                                    books, history
<1>4. ConnectedAreServed' /\ PeerListsIncludeEverybody'
  BY <1>1, <1>2 DEF OrchestrationInv, ConnectedAreServed, PeerListsIncludeEverybody,
         history
<1>5. WritersDoNotOversleep'
  <2>1. ASSUME NEW s \in Streams, writer'[s] = "waiting"
        PROVE  s \notin Connected /\ writer[s] = "waiting"
    BY <2>1, <1>1, WokenWritersType DEF OrchestrationInv
  <2> QED BY <2>1, <1>1 DEF OrchestrationInv, WritersDoNotOversleep
<1>6. BookedTransfersAreCommanded' /\ KnownPeersAreServed'
  BY <1>1 DEF OrchestrationInv, BookedTransfersAreCommanded, KnownPeersAreServed,
         books, history
<1> QED BY <1>3, <1>4, <1>5, <1>6 DEF OrchestrationInv

(* Every step keeps the invariant.                                         *)
LEMMA NextKeepsInv == OrchestrationInv /\ [Next]_vars => OrchestrationInv'
<1> SUFFICES ASSUME OrchestrationInv, [Next]_vars PROVE OrchestrationInv'
  OBVIOUS
<1>1. ASSUME NEW s \in Streams,
             \/ Call(s) \/ WelcomeFails(s)
             \/ RecvFails(s) \/ RecvReplaced(s) \/ SetHash(s)
      PROVE  OrchestrationInv'
  BY <1>1, QuietStepsKeepInv
<1>2. ASSUME NEW s \in Streams, Join(s) PROVE OrchestrationInv'
  BY <1>2, JoinKeepsInv
<1>3. ASSUME NEW s \in Streams, Finish(s) PROVE OrchestrationInv'
  BY <1>3, FinishKeepsInv
<1>4. ASSUME NEW s \in Streams,
             \/ UpdateByteRanges(s) \/ SetConnectedPeers(s)
             \/ \E Q : UploadFailed(s, Q)
      PROVE  OrchestrationInv'
  BY <1>4, MessageKeepsInv
<1>5. ASSUME NEW s \in Streams, Loop(s) \/ WakeUp(s) \/ SendFails(s)
      PROVE  OrchestrationInv'
  BY <1>5, WriterKeepsInv
<1>6. ASSUME Schedule PROVE OrchestrationInv'
  BY <1>6, ScheduleKeepsInv
<1>7. ASSUME Close PROVE OrchestrationInv'
  BY <1>7, CloseKeepsInv
<1>8. ASSUME UNCHANGED vars PROVE OrchestrationInv'
  BY <1>8 DEF OrchestrationInv, TypeOK, ConnectedAreServed, WritersDoNotOversleep,
         PeerListsIncludeEverybody, BookedTransfersAreCommanded, KnownPeersAreServed,
         Connected, vars, streams, flags, books, history
<1>9. ASSUME NEW s \in Streams, ReaderStep(s) PROVE OrchestrationInv'
  BY <1>9, <1>1, <1>4 DEF ReaderStep
<1> QED BY <1>1, <1>2, <1>3, <1>5, <1>6, <1>7, <1>8, <1>9 DEF Next

-----------------------------------------------------------------------------
(* The theorems.                                                           *)

(* The invariant holds in every reachable state: every connected stream    *)
(* has a handler that will remove it (orchestrate.go:141).                 *)
THEOREM OrchestrationInvHolds == Spec => []OrchestrationInv
  BY InitHasInv, NextKeepsInv, PTL DEF Spec

(* The fields of an orchestration and its streams keep their types.        *)
THEOREM TypesHold == Spec => []TypeOK
<1>1. OrchestrationInv => TypeOK
  BY DEF OrchestrationInv
<1> QED BY <1>1, OrchestrationInvHolds, PTL

(* No writer sleeps with something to send, or when told to stop           *)
(* (orchestrate.go:241).                                                   *)
THEOREM WritersWake == Spec => []WritersDoNotOversleep
<1>1. OrchestrationInv => WritersDoNotOversleep
  BY DEF OrchestrationInv
<1> QED BY <1>1, OrchestrationInvHolds, PTL

(* A stream without the flag was sent a list with everybody                *)
(* (orchestrate.go:123-126, 216-228).                                      *)
THEOREM ListsAreComplete == Spec => []PeerListsIncludeEverybody
<1>1. OrchestrationInv => PeerListsIncludeEverybody
  BY DEF OrchestrationInv
<1> QED BY <1>1, OrchestrationInvHolds, PTL

(* Every transfer in the scheduler's books has been, or will be, commanded *)
(* on a live stream of its sender (orchestrate.go:139, 261-276).           *)
THEOREM BookedAreCommanded == Spec => []BookedTransfersAreCommanded
<1>1. OrchestrationInv => BookedTransfersAreCommanded
  BY DEF OrchestrationInv
<1> QED BY <1>1, OrchestrationInvHolds, PTL

(* The scheduler knows only peers that announced something on a stream     *)
(* that is alive (orchestrate.go:139, 157).                                *)
THEOREM KnownAreServed == Spec => []KnownPeersAreServed
<1>1. OrchestrationInv => KnownPeersAreServed
  BY DEF OrchestrationInv
<1> QED BY <1>1, OrchestrationInvHolds, PTL
=============================================================================
