--------------------------- MODULE Orchestration ---------------------------
(***************************************************************************)
(* discovery/orchestrate.go: one orchestration on the discovery server,    *)
(* from its creation to the end of its last stream.  Every peer keeps one  *)
(* Orchestrate call open; a second call of the same peer replaces the      *)
(* first, whose goroutines linger.  A call has a handler, a reader and a   *)
(* writer; the orchestration has a scheduler thread.                       *)
(*                                                                         *)
(* Every section of code under o.mtx is one step.  The scheduler's         *)
(* decisions (Orchestrator.tla) are any that its announcements allow: a    *)
(* transfer is a pair of sender and receiver here.  When cleanupThread     *)
(* closes the orchestration is the subject of OrchestrationCleanup.tla;    *)
(* here it may do so at any time.                                          *)
(***************************************************************************)
EXTENDS Naturals, FiniteSets

CONSTANTS Peers,       \* the members of the circle
          Creator,     \* the peer that started the orchestration
          Calls,       \* peer -> how often it may call Orchestrate (a bound)
          Links        \* the transfers the scheduler may think of (a bound)

ASSUME OrchestrationAssumptions ==
  /\ Creator \in Peers
  /\ Calls \in [Peers -> Nat] /\ Calls[Creator] > 0
  /\ Links \subseteq { l \in Peers \X Peers : l[1] # l[2] }

\* The Orchestrate calls: the peer's first, second, ...
Streams  == UNION { {p} \X (1 .. Calls[p]) : p \in Peers }
Owner(s) == s[1]
NoStream == << >>

VARIABLES
  connections,     \* peer -> its current stream
  call,            \* stream -> where its handler is
  reader, writer,  \* stream -> where its goroutines are
  updatePeerList,  \* the streams with that flag set
  disconnecting,   \* the streams with that flag set
  commands,        \* stream -> the receivers in uploadCommands
  known,           \* the peers that the scheduler has an announcement of
  inflight,        \* the scheduler's transfers
  sched,           \* where schedulerThread is
  closing,
  \* The history of the streams whose handler has not returned:
  announced,       \* those on which ranges were announced
  told,            \* stream -> the last list of peers sent
  commanded        \* stream -> the receivers of the commands sent

streams   == << call, reader, writer >>
flags     == << updatePeerList, disconnecting >>
books     == << known, inflight >>
history   == << announced, told, commanded >>
vars == << connections, streams, flags, commands, books, sched, closing, history >>

-----------------------------------------------------------------------------
(* Parts of steps.                                                         *)

Connected == { s \in Streams : connections[Owner(s)] = s }

\* Slip: nobody is woken.
WokenWritersNone(S) == writer

\* c.cond.Broadcast() for the streams S.
WokenWriters(S) ==
  [s \in Streams |-> IF s \in S /\ writer[s] = "waiting" THEN "woken" ELSE writer[s]]

\* schedCond.Broadcast()
WakeScheduler == sched' = IF sched = "waiting" THEN "woken" ELSE sched

-----------------------------------------------------------------------------
(* The creator's call made the orchestration and started its threads.  The *)
(* scheduler thread reaches its first Wait before the first message has    *)
(* crossed the network.                                                    *)

Init ==
  /\ connections = [p \in Peers |-> NoStream]
  /\ call = [s \in Streams |-> IF s = << Creator, 1 >> THEN "found" ELSE "none"]
  /\ reader = [s \in Streams |-> "off"]
  /\ writer = [s \in Streams |-> "off"]
  /\ updatePeerList = {} /\ disconnecting = {}
  /\ commands = [s \in Streams |-> {}]
  /\ known = {} /\ inflight = {}
  /\ sched = "waiting"
  /\ closing = FALSE
  /\ announced = {}
  /\ told = [s \in Streams |-> {}]
  /\ commanded = [s \in Streams |-> {}]

-----------------------------------------------------------------------------
(* discovery.Orchestrate: the handler of a call.                           *)

\* The orchestration is looked up; closed ones are not found any more.
Call(s) ==
  /\ call[s] = "none"
  /\ s[2] > 1 => call[<< s[1], s[2] - 1 >>] # "none"
  /\ ~ closing
  /\ call' = [call EXCEPT ![s] = "found"]
  /\ UNCHANGED << connections, reader, writer, flags, commands, books, sched,
                  closing, history >>

\* The welcome cannot be sent.
WelcomeFails(s) ==
  /\ call[s] = "found"
  /\ call' = [call EXCEPT ![s] = "returned"]
  /\ UNCHANGED << connections, reader, writer, flags, commands, books, sched,
                  closing, history >>

\* Slip: only the newcomer gets a list.
NewListsForNewcomer(s) == {s}

\* Who gets a new list when s joins: everybody.
NewLists(s) == Connected'

\* Slip: the writer is not started.
JoinWithoutWriter(s) ==
  /\ call[s] = "found"
  /\ connections' = [connections EXCEPT ![Owner(s)] = s]
  /\ call' = [call EXCEPT ![s] = "serving"]
  /\ reader' = [reader EXCEPT ![s] = "receiving"]
  /\ updatePeerList' = updatePeerList \cup NewLists(s)
  /\ writer' = WokenWriters(NewLists(s))
  /\ UNCHANGED << disconnecting, commands, books, sched, closing, history >>

\* The welcome was sent: the stream takes its place among the connections, in
\* place of an older one of the same peer.
Join(s) ==
  /\ call[s] = "found"
  /\ connections' = [connections EXCEPT ![Owner(s)] = s]
  /\ call' = [call EXCEPT ![s] = "serving"]
  /\ reader' = [reader EXCEPT ![s] = "receiving"]
  /\ updatePeerList' = updatePeerList \cup NewLists(s)
  /\ writer' = [WokenWriters(NewLists(s)) EXCEPT ![s] = "busy"]
  /\ UNCHANGED << disconnecting, commands, books, sched, closing, history >>

\* scheduler.Disappeered
Disappeered(p) ==
  /\ known' = known \ {p}
  /\ inflight' = { t \in inflight : p \notin {t[1], t[2]} }

\* Slip: the handler of a replaced stream leaves the scheduler alone.
LeaveIfCurrent(s) ==
  IF connections[Owner(s)] = s
  THEN /\ Disappeered(Owner(s))
       /\ connections' = [connections EXCEPT ![Owner(s)] = NoStream]
  ELSE UNCHANGED << books, connections >>

\* The peer leaves the scheduler, and the connections unless another stream has
\* taken its place.
Leave(s) ==
  /\ Disappeered(Owner(s))
  /\ connections' =
       [connections EXCEPT ![Owner(s)] = IF @ = s THEN NoStream ELSE @]

\* The reader or the writer died.  A writer that is left ends without touching
\* anything, as disconnecting is set; a reader may still hold a message.
Finish(s) ==
  /\ call[s] = "serving"
  /\ "done" \in {reader[s], writer[s]}
  /\ call' = [call EXCEPT ![s] = "returned"]
  /\ Leave(s)
  /\ disconnecting' = disconnecting \cup {s}
  /\ writer' = [writer EXCEPT ![s] = "done"]
  /\ updatePeerList' = updatePeerList \ {s}
  /\ commands' = [commands EXCEPT ![s] = {}]
  /\ announced' = announced \ {s}
  /\ told' = [told EXCEPT ![s] = {}]
  /\ commanded' = [commanded EXCEPT ![s] = {}]
  /\ UNCHANGED << reader, sched, closing >>

-----------------------------------------------------------------------------
(* orchestrationClient.reader.                                             *)

\* Recv fails.
RecvFails(s) ==
  /\ reader[s] = "receiving"
  /\ reader' = [reader EXCEPT ![s] = "done"]
  /\ UNCHANGED << connections, call, writer, flags, commands, books, sched,
                  closing, history >>

\* A message on a stream that was replaced.
RecvReplaced(s) ==
  /\ reader[s] = "receiving"
  /\ s \notin Connected
  /\ reader' = [reader EXCEPT ![s] = "done"]
  /\ UNCHANGED << connections, call, writer, flags, commands, books, sched,
                  closing, history >>

\* Slip: messages of replaced streams count.
ReceivedAnyway(s) == reader[s] = "receiving"

\* A message that counts.
Received(s) == reader[s] = "receiving" /\ s \in Connected

\* UpdateByteRanges: any transfers may be over with it.
UpdateByteRanges(s) ==
  /\ Received(s)
  /\ known' = known \cup {Owner(s)}
  /\ inflight' \in SUBSET inflight
  /\ announced' = announced \cup {s}
  /\ WakeScheduler
  /\ UNCHANGED << connections, streams, flags, commands, closing, told,
                  commanded >>

\* ConnectedPeers
SetConnectedPeers(s) ==
  /\ Received(s)
  /\ WakeScheduler
  /\ UNCHANGED << connections, streams, flags, commands, books, closing,
                  history >>

\* UploadFailed, to the receivers Q.
UploadFailed(s, Q) ==
  /\ Received(s)
  /\ inflight' = { t \in inflight : ~ (t[1] = Owner(s) /\ t[2] \in Q) }
  /\ WakeScheduler
  /\ UNCHANGED << connections, streams, flags, commands, known, closing,
                  history >>

\* SetHash is for the first call of the creator, where it changes nothing here;
\* other streams are thrown out.
SetHash(s) ==
  /\ Received(s)
  /\ s # << Creator, 1 >>
  /\ reader' = [reader EXCEPT ![s] = "done"]
  /\ UNCHANGED << connections, call, writer, flags, commands, books, sched,
                  closing, history >>

-----------------------------------------------------------------------------
(* orchestrationClient.writer.                                             *)

\* The writer's loop, entered with o.mtx: a command is sent, or the list of
\* the others, or it waits.
WriterLoop(s) ==
  \/ /\ s \in disconnecting
     /\ writer' = [writer EXCEPT ![s] = "done"]
     /\ UNCHANGED << updatePeerList, commands, told, commanded >>
  \/ /\ s \notin disconnecting
     /\ \E q \in commands[s] :
          /\ commands' = [commands EXCEPT ![s] = @ \ {q}]
          /\ commanded' = [commanded EXCEPT ![s] = @ \cup {q}]
     /\ writer' = [writer EXCEPT ![s] = "busy"]
     /\ UNCHANGED << updatePeerList, told >>
  \/ /\ s \notin disconnecting /\ commands[s] = {} /\ s \in updatePeerList
     /\ updatePeerList' = updatePeerList \ {s}
     /\ told' = [told EXCEPT ![s] = { Owner(t) : t \in Connected } \ {Owner(s)}]
     /\ writer' = [writer EXCEPT ![s] = "busy"]
     /\ UNCHANGED << commands, commanded >>
  \/ /\ s \notin disconnecting /\ commands[s] = {} /\ s \notin updatePeerList
     /\ writer' = [writer EXCEPT ![s] = "waiting"]
     /\ UNCHANGED << updatePeerList, commands, told, commanded >>

\* Send returns, or the writer starts, and takes o.mtx.
Loop(s) ==
  /\ writer[s] = "busy"
  /\ WriterLoop(s)
  /\ UNCHANGED << connections, call, reader, disconnecting, books, sched,
                  closing,
                  announced >>

\* Send fails.
SendFails(s) ==
  /\ writer[s] = "busy"
  /\ writer' = [writer EXCEPT ![s] = "done"]
  /\ UNCHANGED << connections, call, reader, flags, commands, books, sched,
                  closing, history >>

\* cond.Wait() returns.
WakeUp(s) ==
  /\ writer[s] = "woken"
  /\ IF s \in disconnecting \/ s \notin Connected
     THEN /\ writer' = [writer EXCEPT ![s] = "done"]
          /\ UNCHANGED << updatePeerList, commands, told, commanded >>
     ELSE WriterLoop(s)
  /\ UNCHANGED << connections, call, reader, disconnecting, books, sched,
                  closing, announced >>

-----------------------------------------------------------------------------
(* schedulerThread.                                                        *)

\* Any transfers between announced peers may be new.  What the sender cannot
\* be told of is taken back.
Schedule ==
  /\ sched = "woken"
  /\ IF closing
     THEN sched' = "done" /\ UNCHANGED << inflight, commands, writer >>
     ELSE \E new \in SUBSET ((Links \cap (known \X known)) \ inflight) :
            LET lost == { t \in new : connections[t[1]] = NoStream }
                To(s) == { t[2] : t \in { u \in new \ lost : connections[u[1]] = s } }
            IN /\ inflight' = inflight \cup (new \ lost)
               /\ commands' = [s \in Streams |-> commands[s] \cup To(s)]
               /\ writer' = WokenWriters({ s \in Streams : To(s) # {} })
               /\ sched' = "waiting"
  /\ UNCHANGED << connections, call, reader, flags, known, closing, history >>

\* close(), called by cleanupThread.
Close ==
  /\ ~ closing
  /\ closing' = TRUE
  /\ WakeScheduler
  /\ disconnecting' = disconnecting \cup Connected
  /\ writer' = WokenWriters(Connected)
  /\ UNCHANGED << connections, call, reader, updatePeerList, commands, books,
                  history >>

-----------------------------------------------------------------------------
ReaderStep(s) ==
  \/ RecvFails(s) \/ RecvReplaced(s)
  \/ UpdateByteRanges(s) \/ SetConnectedPeers(s) \/ SetHash(s)
  \/ \E Q \in SUBSET { t[2] : t \in inflight } : UploadFailed(s, Q)

Next ==
  \/ \E s \in Streams : Call(s) \/ WelcomeFails(s) \/ Join(s) \/ Finish(s)
  \/ \E s \in Streams : ReaderStep(s)
  \/ \E s \in Streams : Loop(s) \/ WakeUp(s) \/ SendFails(s)
  \/ Schedule
  \/ Close

Spec == Init /\ [][Next]_vars

-----------------------------------------------------------------------------
(* Properties.                                                             *)

TypeOK ==
  /\ connections \in [Peers -> Streams \cup {NoStream}]
  /\ \A p \in Peers : connections[p] = NoStream \/ Owner(connections[p]) = p
  /\ \A s \in Streams : reader[s] = "off" <=> writer[s] = "off"
  /\ call \in [Streams -> {"none", "found", "serving", "returned"}]
  /\ reader \in [Streams -> {"off", "receiving", "done"}]
  /\ writer \in [Streams -> {"off", "busy", "waiting", "woken", "done"}]
  /\ updatePeerList \in SUBSET Streams /\ disconnecting \in SUBSET Streams
  /\ announced \in SUBSET Streams
  /\ commands \in [Streams -> SUBSET Peers]
  /\ told \in [Streams -> SUBSET Peers] /\ commanded \in [Streams -> SUBSET Peers]
  /\ known \in SUBSET Peers /\ inflight \in SUBSET Links
  /\ closing \in BOOLEAN
  /\ sched \in {"waiting", "woken", "done"}

(* A writer in cond.Wait() has nothing to send and has not been told to    *)
(* stop, though the flags are set by other calls and threads while it is   *)
(* busy sending without the mutex.                                         *)
WritersDoNotOversleep ==
  \A s \in Streams : writer[s] = "waiting" =>
    s \notin updatePeerList \cup disconnecting /\ commands[s] = {}

(* Once its flag is down, a stream has been sent a list with every peer    *)
(* that is connected: nobody joins unnoticed while the list is on its way. *)
PeerListsIncludeEverybody ==
  \A s \in Connected \ updatePeerList :
    \A t \in Connected \ {s} : Owner(t) \in told[s]

(* What the scheduler counts on has been asked for: each transfer in its   *)
(* books is a command queued for, or sent on, a stream of the sender whose *)
(* handler has not returned - across replaced and broken streams.  A       *)
(* transfer without one would never be sent and never be scheduled again.  *)
BookedTransfersAreCommanded ==
  \A t \in inflight : \E s \in Streams :
    /\ Owner(s) = t[1] /\ call[s] = "serving"
    /\ t[2] \in commands[s] \cup commanded[s]

(* The scheduler knows nobody who is gone: a late message of a stream that *)
(* has been replaced or removed does not bring its peer back.              *)
KnownPeersAreServed ==
  \A p \in known : \E s \in announced : Owner(s) = p /\ call[s] = "serving"
=============================================================================
