-------------------- MODULE OrchestrationCleanupProofs --------------------
(***************************************************************************)
(* cleanupThread knows whether its orchestration is in use: for any peers, *)
(* calls and reports, and any capacity of handlesChan.                     *)
(***************************************************************************)
EXTENDS OrchestrationCleanup, TLAPS

CleanupInv == TypeOK /\ DeadlineIsUpToDate

(* Streams belong to peers, and the empty tuple is none of them.           *)
LEMMA StreamsHaveOwners ==
  /\ \A s \in Streams : Owner(s) \in Peers
  /\ NoStream \notin Streams
<1>1. ASSUME NEW s \in Streams
      PROVE  Owner(s) \in Peers /\ s # NoStream
  <2>1. PICK p \in Peers : s \in {p} \X (1 .. Calls[p])
    BY DEF Streams
  <2> QED BY <2>1 DEF Owner, NoStream
<1> QED BY <1>1

(* After a send to handlesChan there is something to receive, also when    *)
(* the channel was full.                                                   *)
LEMMA NotifyLeavesAMessage ==
  ASSUME TypeOK, Notify
  PROVE  handles' \in 0 .. HandlesCap /\ handles' > 0 /\ blocked' \in BOOLEAN
  BY CleanupAssumptions DEF TypeOK, Notify

(* At first nobody is connected, and the thread has not started.           *)
LEMMA InitHasInv == Init => CleanupInv
<1> SUFFICES ASSUME Init PROVE CleanupInv
  OBVIOUS
<1>1. Connected = {}
  BY StreamsHaveOwners DEF Init, Connected
<1>2. TypeOK
  <2>1. reports \in 0 .. MaxReports /\ handles \in 0 .. HandlesCap
    BY CleanupAssumptions DEF Init
  <2> QED BY <1>1, <2>1 DEF Init, TypeOK
<1> QED BY <1>2 DEF Init, CleanupInv, DeadlineIsUpToDate

(* Streams that come, go and report leave a message behind whenever they   *)
(* change who is connected or who has open handles.                        *)
LEMMA StreamsKeepInv ==
  ASSUME CleanupInv, NEW s \in Streams,
         Call(s) \/ WelcomeFails(s) \/ Join(s) \/ Finish(s) \/ HaveOpenHandles(s)
  PROVE  CleanupInv'
<1> USE StreamsHaveOwners, CleanupAssumptions DEF CleanupInv
<1>1. CASE Call(s) \/ WelcomeFails(s)
  <2>1. /\ UNCHANGED << connections, disconnecting, openHandles, reports, channel, thread >>
        /\ call' \in [Streams -> {"none", "found", "serving", "returned"}]
        /\ \A t \in Streams : call[t] = "serving" => call'[t] = "serving"
    BY <1>1 DEF TypeOK, Call, WelcomeFails
  <2> QED BY <2>1 DEF TypeOK, DeadlineIsUpToDate, Connected, HasOpenHandles, channel, thread
<1>2. CASE Join(s)
  <2>1. TypeOK'
    <3>1. \A t \in Connected' : t = s \/ t \in Connected
      BY <1>2 DEF TypeOK, Join, Connected
    <3>2. \A t \in Connected' : call'[t] = "serving"
      BY <1>2, <3>1 DEF TypeOK, Join, Connected
    <3> QED BY <1>2, <3>2, NotifyLeavesAMessage DEF TypeOK, Join, thread
  <2>2. handles' > 0
    BY <1>2, NotifyLeavesAMessage DEF Join
  <2> QED BY <2>1, <2>2 DEF DeadlineIsUpToDate
<1>3. CASE Finish(s)
  <2>1. Connected' = Connected \ {s}
    BY <1>3 DEF TypeOK, Finish, Connected
  <2>2. \A t \in Connected' : call'[t] = "serving"
    BY <1>3, <2>1 DEF TypeOK, Finish, Connected
  <2>3. CASE s \in Connected
    <3>1. TypeOK'
      BY <1>3, <2>2, <2>3, NotifyLeavesAMessage DEF TypeOK, Finish, thread
    <3>2. handles' > 0
      BY <1>3, <2>3, NotifyLeavesAMessage DEF Finish
    <3> QED BY <3>1, <3>2 DEF DeadlineIsUpToDate
  <2>4. CASE s \notin Connected
    <3>1. TypeOK'
      BY <1>3, <2>2, <2>4 DEF TypeOK, Finish, channel, thread
    <3>2. HasOpenHandles' <=> HasOpenHandles
      BY <1>3, <2>1, <2>4 DEF Finish, HasOpenHandles
    <3> QED BY <1>3, <2>4, <3>1, <3>2 DEF DeadlineIsUpToDate, Finish, channel, thread
  <2> QED BY <2>3, <2>4
<1>4. CASE HaveOpenHandles(s)
  <2>1. /\ handles' \in 0 .. HandlesCap /\ handles' > 0 /\ blocked' \in BOOLEAN
        /\ UNCHANGED << connections, call, disconnecting, thread >>
        /\ reports' \in 0 .. MaxReports /\ openHandles' \in SUBSET Streams
    BY <1>4, NotifyLeavesAMessage DEF TypeOK, HaveOpenHandles
  <2>2. TypeOK'
    BY <2>1 DEF TypeOK, Connected, thread
  <2> QED BY <2>1, <2>2 DEF DeadlineIsUpToDate
<1> QED BY <1>1, <1>2, <1>3, <1>4

(* The thread waits only after it looked, or with a message left.          *)
LEMMA ThreadKeepsInv ==
  ASSUME CleanupInv,
         CleanupStarts \/ ReceiveHandles \/ Recheck \/ Expire \/ Close
  PROVE  CleanupInv'
<1> USE CleanupAssumptions DEF CleanupInv
<1>1. CASE CleanupStarts
  <2>1. handles' \in 0 .. HandlesCap /\ handles' > 0 /\ blocked' \in BOOLEAN
    BY <1>1, NotifyLeavesAMessage DEF CleanupStarts
  <2> QED BY <1>1, <2>1 DEF TypeOK, CleanupStarts, DeadlineIsUpToDate, Connected
<1>2. CASE ReceiveHandles
  <2>1. handles' \in 0 .. HandlesCap
    BY <1>2 DEF TypeOK, ReceiveHandles
  <2> QED BY <1>2, <2>1 DEF TypeOK, ReceiveHandles, DeadlineIsUpToDate, Connected
<1>3. CASE Recheck
  <2>1. HasOpenHandles \in BOOLEAN /\ (HasOpenHandles' <=> HasOpenHandles)
    BY <1>3 DEF Recheck, HasOpenHandles, Connected
  <2>2. deadline' \in BOOLEAN /\ (deadline' <=> ~ HasOpenHandles)
    BY <1>3, <2>1 DEF Recheck, SetDeadline
  <2>3. TypeOK'
    BY <1>3, <2>2 DEF TypeOK, Recheck, Connected, channel
  <2> QED BY <2>1, <2>2, <2>3 DEF DeadlineIsUpToDate
<1>4. CASE Expire
  BY <1>4 DEF TypeOK, Expire, DeadlineIsUpToDate, Connected, channel
<1>5. CASE Close
  <2>1. Connected \subseteq Streams
    BY DEF Connected
  <2> QED BY <1>5, <2>1 DEF TypeOK, Close, DeadlineIsUpToDate, Connected, channel
<1> QED BY <1>1, <1>2, <1>3, <1>4, <1>5

(* The invariant holds in every reachable state.                           *)
THEOREM CleanupInvHolds == Spec => []CleanupInv
<1>1. CleanupInv /\ [Next]_vars => CleanupInv'
  <2> SUFFICES ASSUME CleanupInv, [Next]_vars PROVE CleanupInv'
    OBVIOUS
  <2>1. ASSUME NEW s \in Streams,
               Call(s) \/ WelcomeFails(s) \/ Join(s) \/ Finish(s) \/ HaveOpenHandles(s)
        PROVE  CleanupInv'
    BY <2>1, StreamsKeepInv
  <2>2. CASE CleanupStarts \/ ReceiveHandles \/ Recheck \/ Expire \/ Close
    BY <2>2, ThreadKeepsInv
  <2>3. CASE UNCHANGED vars
    BY <2>3 DEF CleanupInv, TypeOK, DeadlineIsUpToDate, Connected, HasOpenHandles,
           vars, channel, thread
  <2> QED BY <2>1, <2>2, <2>3 DEF Next
<1> QED BY <1>1, InitHasInv, PTL DEF Spec

(* The minute runs exactly if the orchestration is unused, or the thread   *)
(* is about to look (orchestrate.go:299-308).                              *)
THEOREM TheThreadKnows == Spec => []DeadlineIsUpToDate
<1>1. CleanupInv => DeadlineIsUpToDate
  BY DEF CleanupInv
<1> QED BY <1>1, CleanupInvHolds, PTL

(* The fields keep their types, and handlesChan its capacity.              *)
THEOREM TypesHold == Spec => []TypeOK
<1>1. CleanupInv => TypeOK
  BY DEF CleanupInv
<1> QED BY <1>1, CleanupInvHolds, PTL
=============================================================================
