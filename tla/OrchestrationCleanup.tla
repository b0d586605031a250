------------------------ MODULE OrchestrationCleanup ------------------------
(***************************************************************************)
(* discovery/orchestrate.go: when an orchestration is closed.  Calls that  *)
(* join and leave, and clients that report whether they have open handles, *)
(* send a message to handlesChan - holding o.mtx - and cleanupThread looks *)
(* after each of them whether it must wait for a minute.                   *)
(*                                                                         *)
(* The streams are those of Orchestration.tla, without what they carry.    *)
(***************************************************************************)
EXTENDS Naturals, FiniteSets

CONSTANTS Peers,       \* the members of the circle
          Creator,     \* the peer that started the orchestration
          Calls,       \* peer -> how often it may call Orchestrate (a bound)
          MaxReports,  \* how many HaveOpenHandles are received (a bound)
          HandlesCap   \* the capacity of handlesChan (10)

ASSUME CleanupAssumptions ==
  /\ Creator \in Peers
  /\ Calls \in [Peers -> Nat] /\ Calls[Creator] > 0
  /\ MaxReports \in Nat /\ HandlesCap \in Nat \ {0}

\* The Orchestrate calls: the peer's first, second, ...
Streams  == UNION { {p} \X (1 .. Calls[p]) : p \in Peers }
Owner(s) == s[1]
NoStream == << >>

VARIABLES
  connections,    \* peer -> its current stream
  call,           \* stream -> where its handler is
  disconnecting,  \* the streams with that flag set
  openHandles,    \* the streams whose client reported open handles
  reports,        \* how many HaveOpenHandles were received
  handles,        \* how many messages are in handlesChan
  blocked,        \* somebody waits to send to handlesChan, holding o.mtx
  cleanup,        \* where cleanupThread is
  deadline,       \* the minute is running
  closing

channel == << handles, blocked >>
thread  == << cleanup, deadline, closing >>
vars == << connections, call, disconnecting, openHandles, reports, channel, thread >>

-----------------------------------------------------------------------------
(* Parts of steps.                                                         *)

\* o.mtx can be taken.
MutexFree == ~ blocked

Connected == { s \in Streams : connections[Owner(s)] = s }

HasOpenHandles == Connected \cap openHandles # {}

\* handlesChan <- struct{}{}, with o.mtx held: when the channel is full, the
\* mutex stays taken until cleanupThread has received a message.
Notify ==
  /\ blocked' = (handles = HandlesCap)
  /\ handles' = IF handles = HandlesCap THEN handles ELSE handles + 1

Init ==
  /\ connections = [p \in Peers |-> NoStream]
  /\ call = [s \in Streams |-> IF s = << Creator, 1 >> THEN "found" ELSE "none"]
  /\ disconnecting = {} /\ openHandles = {}
  /\ reports = 0
  /\ handles = 0 /\ blocked = FALSE
  /\ cleanup = "starting" /\ deadline = FALSE /\ closing = FALSE

-----------------------------------------------------------------------------
(* The calls.                                                              *)

\* The orchestration is looked up; closed ones are not found any more.
Call(s) ==
  /\ call[s] = "none"
  /\ s[2] > 1 => call[<< s[1], s[2] - 1 >>] # "none"
  /\ ~ closing
  /\ call' = [call EXCEPT ![s] = "found"]
  /\ UNCHANGED << connections, disconnecting, openHandles, reports, channel, thread >>

\* The welcome cannot be sent.
WelcomeFails(s) ==
  /\ call[s] = "found"
  /\ call' = [call EXCEPT ![s] = "returned"]
  /\ UNCHANGED << connections, disconnecting, openHandles, reports, channel, thread >>

\* The stream takes its place among the connections.
Join(s) ==
  /\ call[s] = "found"
  /\ MutexFree
  /\ connections' = [connections EXCEPT ![Owner(s)] = s]
  /\ call' = [call EXCEPT ![s] = "serving"]
  /\ Notify
  /\ UNCHANGED << disconnecting, openHandles, reports, thread >>

\* Slip: nobody is told that the stream is gone.
FinishSilently(s) ==
  /\ call[s] = "serving"
  /\ MutexFree
  /\ call' = [call EXCEPT ![s] = "returned"]
  /\ disconnecting' = disconnecting \cup {s}
  /\ connections' =
       [connections EXCEPT ![Owner(s)] = IF @ = s THEN NoStream ELSE @]
  /\ UNCHANGED << openHandles, reports, channel, thread >>

\* Slip: the stream stays among the connections.
FinishLeavingConnection(s) ==
  /\ call[s] = "serving"
  /\ MutexFree
  /\ call' = [call EXCEPT ![s] = "returned"]
  /\ disconnecting' = disconnecting \cup {s}
  /\ Notify
  /\ UNCHANGED << connections, openHandles, reports, thread >>

\* The client went away, or the stream is being disconnected.
Finish(s) ==
  /\ call[s] = "serving"
  /\ MutexFree
  /\ call' = [call EXCEPT ![s] = "returned"]
  /\ disconnecting' = disconnecting \cup {s}
  /\ IF s \in Connected
     THEN connections' = [connections EXCEPT ![Owner(s)] = NoStream] /\ Notify
     ELSE UNCHANGED << connections, channel >>
  /\ UNCHANGED << openHandles, reports, thread >>

\* HaveOpenHandles, which clients send when it changed.
HaveOpenHandles(s) ==
  /\ call[s] = "serving" /\ s \in Connected
  /\ MutexFree
  /\ reports < MaxReports
  /\ reports' = reports + 1
  /\ openHandles' = IF s \in openHandles THEN openHandles \ {s}
                    ELSE openHandles \cup {s}
  /\ Notify
  /\ UNCHANGED << connections, call, disconnecting, thread >>

-----------------------------------------------------------------------------
(* cleanupThread.                                                          *)

\* It sends itself a first message; if the channel is full by then, nobody will
\* ever receive one.
CleanupStarts ==
  /\ cleanup = "starting"
  /\ MutexFree
  /\ Notify
  /\ cleanup' = IF blocked' THEN "stuck" ELSE "selecting"
  /\ UNCHANGED << connections, call, disconnecting, openHandles, reports,
                  deadline, closing >>

\* A message is received, and whoever waited to send one may go on.
ReceiveHandles ==
  /\ cleanup = "selecting"
  /\ handles > 0
  /\ cleanup' = "received"
  /\ handles' = IF blocked THEN handles ELSE handles - 1
  /\ blocked' = FALSE
  /\ UNCHANGED << connections, call, disconnecting, openHandles, reports,
                  deadline, closing >>

\* Slip: handles that are closed do not start the minute.
DeadlineOnlyStops == deadline' = (deadline /\ ~ HasOpenHandles)

\* The minute starts anew, or does not run while there are handles.
SetDeadline == deadline' = ~ HasOpenHandles

Recheck ==
  /\ cleanup = "received"
  /\ MutexFree
  /\ SetDeadline
  /\ cleanup' = "selecting"
  /\ UNCHANGED << connections, call, disconnecting, openHandles, reports,
                  channel, closing >>

\* The minute is over.
Expire ==
  /\ cleanup = "selecting"
  /\ deadline
  /\ cleanup' = "expired"
  /\ UNCHANGED << connections, call, disconnecting, openHandles, reports,
                  channel, deadline, closing >>

\* Slip: the streams are not told.
CloseSilently ==
  /\ cleanup = "expired"
  /\ MutexFree
  /\ closing' = TRUE
  /\ cleanup' = "done"
  /\ UNCHANGED << connections, call, disconnecting, openHandles, reports,
                  channel, deadline >>

\* close()
Close ==
  /\ cleanup = "expired"
  /\ MutexFree
  /\ closing' = TRUE
  /\ cleanup' = "done"
  /\ disconnecting' = disconnecting \cup Connected
  /\ UNCHANGED << connections, call, openHandles, reports, channel, deadline >>

-----------------------------------------------------------------------------
CleanupStep == CleanupStarts \/ ReceiveHandles \/ Recheck \/ Close

Next ==
  \/ \E s \in Streams :
       Call(s) \/ WelcomeFails(s) \/ Join(s) \/ Finish(s) \/ HaveOpenHandles(s)
  \/ CleanupStarts \/ ReceiveHandles \/ Recheck \/ Expire \/ Close

Spec == Init /\ [][Next]_vars

\* Goroutines that can run do, and a minute passes.  Clients need not do
\* anything: a stream ends when it is disconnected.
Fairness ==
  /\ WF_vars(CleanupStep)
  /\ WF_vars(Expire)
  /\ \A s \in Streams : WF_vars(s \in disconnecting /\ Finish(s))

FairSpec == Spec /\ Fairness

-----------------------------------------------------------------------------
(* Properties.                                                             *)

TypeOK ==
  /\ connections \in [Peers -> Streams \cup {NoStream}]
  /\ \A s \in Connected : call[s] = "serving"
  /\ call \in [Streams -> {"none", "found", "serving", "returned"}]
  /\ disconnecting \in SUBSET Streams /\ openHandles \in SUBSET Streams
  /\ reports \in 0 .. MaxReports /\ handles \in 0 .. HandlesCap
  /\ cleanup \in {"starting", "stuck", "selecting", "received", "expired", "done"}
  /\ deadline \in BOOLEAN /\ blocked \in BOOLEAN /\ closing \in BOOLEAN

(* While cleanupThread waits, it knows: the minute runs exactly if nobody  *)
(* has open handles, or there is a message that makes it look again.  So   *)
(* no client that opens, closes, replaces its stream or disappears goes    *)
(* unnoticed.                                                              *)
DeadlineIsUpToDate ==
  cleanup = "selecting" => (deadline <=> ~ HasOpenHandles) \/ handles > 0

(* "Once there are no open handles, close the orchestration after a        *)
(* minute" (orchestrate.go:293): when no connected client has open handles *)
(* any more, the orchestration is closed.  Only a handler that sends to a  *)
(* full handlesChan, holding o.mtx, while cleanupThread waits for o.mtx or *)
(* sends to itself can prevent that, and then nothing ever moves again.    *)
UnusedOrchestrationsClose ==
  <>[](~ HasOpenHandles) => (<> closing \/ <>[] blocked)

(* The streams that are connected when the minute is over do not stay      *)
(* connected, so that their clients notice; unless a handler has filled    *)
(* handlesChan, from which nobody receives any more, and keeps o.mtx for   *)
(* ever.                                                                   *)
ClosingEndsStreams ==
  \A s \in Streams :
    (cleanup = "expired" /\ s \in Connected) ~> (s \notin Connected \/ [] blocked)
=============================================================================
