--------------------------- MODULE OrchestreamProofs ---------------------------
(***************************************************************************)
(* What Orchestream promises whatever is set, whenever the stream breaks   *)
(* and however often it is reconnected.                                    *)
(***************************************************************************)
EXTENDS Orchestream, TLAPS

(* The message on the way is the latest of its kind, or a newer one waits. *)
MessageIsCurrent ==
  writer = "sending" =>
    /\ message.stream \in 1 .. stream
    /\ message.stream = stream =>
         message.value = latest[message.kind] \/ message.kind \in flags

(* A reconnect offers the hash, or the writer will send it afterwards.     *)
HashIsKept ==
  /\ startHash = latest["setHash"]
  /\ reader = "calling" => offered = startHash \/ "setHash" \in flags

OrchestreamInv ==
  /\ TypeOK
  /\ UpdatesAreNotForgotten
  /\ WriterDoesNotOversleep
  /\ MessageIsCurrent
  /\ HashIsKept

-----------------------------------------------------------------------------
(* What the writer's loop does, from any flags.                            *)
LEMMA LoopTakesOneOrWaits ==
  ASSUME NEW broken \in BOOLEAN, WriterLoop(flags, broken)
  PROVE  /\ reconnecting' = broken
         /\ \/ /\ writer' = "waiting" /\ flags' = flags
               /\ message' = NoMessage
               /\ broken \/ flags = {}
            \/ \E k \in flags \cap Kinds :
                 /\ ~ broken /\ writer' = "sending"
                 /\ flags' = flags \ {k}
                 /\ message' = [kind |-> k, value |-> latest[k], stream |-> stream]
  BY DEF WriterLoop, IsFirst

LEMMA InitEstablishesInv == Init => OrchestreamInv
<1> SUFFICES ASSUME Init PROVE OrchestreamInv
  OBVIOUS
<1> USE OrchestreamAssumptions DEF Init, Kinds
<1>1. TypeOK
  <2>1. message \in [kind : Kinds \cup {"none"}, value : Nat, stream : Nat]
    BY DEF NoMessage
  <2>2. latest \in [Kinds -> Nat] /\ told \in [Kinds -> Nat] /\ flags \in SUBSET Kinds
    OBVIOUS
  <2>3. stream \in 1 .. MaxStreams
    OBVIOUS
  <2> QED
    BY <2>1, <2>2, <2>3 DEF TypeOK
<1>2. UpdatesAreNotForgotten /\ WriterDoesNotOversleep
  BY DEF UpdatesAreNotForgotten, WriterDoesNotOversleep
<1>3. MessageIsCurrent /\ HashIsKept
  BY DEF MessageIsCurrent, HashIsKept
<1> QED
  BY <1>1, <1>2, <1>3 DEF OrchestreamInv

-----------------------------------------------------------------------------
(* Each action keeps the invariant.                                        *)

LEMMA SetKeepsInv ==
  ASSUME OrchestreamInv, NEW k \in Kinds, Set(k)
  PROVE  OrchestreamInv'
<1> USE DEF OrchestreamInv, Set, link
<1>1. TypeOK'
  BY DEF TypeOK, StartHashAfter, Woken
<1>2. \A j \in Kinds : j # k => latest'[j] = latest[j]
  BY DEF TypeOK
<1>3. UpdatesAreNotForgotten'
  <2> SUFFICES ASSUME ended = "no", writer' # "returned", NEW j \in Kinds, j # k,
                      j \notin flags
               PROVE  UnderWay(j)' \/ told[j] = latest[j]
    BY <1>2 DEF UpdatesAreNotForgotten
  <2> QED
    BY <1>2 DEF UpdatesAreNotForgotten, UnderWay, Woken
<1>4. WriterDoesNotOversleep'
  BY DEF WriterDoesNotOversleep, Woken
<1>5. MessageIsCurrent'
  BY <1>2 DEF MessageIsCurrent, Woken, TypeOK
<1>6. HashIsKept'
  BY DEF HashIsKept, StartHashAfter, TypeOK, Kinds
<1> QED
  BY <1>1, <1>3, <1>4, <1>5, <1>6

LEMMA WakeUpKeepsInv ==
  ASSUME OrchestreamInv, WakeUp
  PROVE  OrchestreamInv'
<1> USE DEF OrchestreamInv
<1> DEFINE kept == << latest, startHash, cancelled, reader, offered, stream, ended, told >>
<1>0. UNCHANGED kept /\ writer = "woken"
  BY DEF WakeUp, fields, link
<1>1. CASE writer' = "returned" /\ UNCHANGED << message, flags, reconnecting >>
  BY <1>0, <1>1 DEF TypeOK, UpdatesAreNotForgotten, WriterDoesNotOversleep,
     MessageIsCurrent, HashIsKept
<1>2. CASE WriterLoop(flags, reconnecting)
  <2>0. reconnecting \in BOOLEAN
    BY DEF TypeOK
  <2>1. CASE writer' = "waiting" /\ flags' = flags /\ message' = NoMessage
             /\ reconnecting' = reconnecting /\ (reconnecting \/ flags = {})
    BY <1>0, <2>1 DEF TypeOK, UpdatesAreNotForgotten, WriterDoesNotOversleep,
       MessageIsCurrent, HashIsKept, UnderWay, NoMessage
  <2>2. ASSUME NEW k \in flags \cap Kinds, ~ reconnecting, writer' = "sending",
               reconnecting' = reconnecting, flags' = flags \ {k},
               message' = [kind |-> k, value |-> latest[k], stream |-> stream]
        PROVE  OrchestreamInv'
    <3>1. TypeOK'
      BY <1>0, <2>2, OrchestreamAssumptions DEF TypeOK
    <3>2. UpdatesAreNotForgotten' /\ WriterDoesNotOversleep'
      BY <1>0, <2>2 DEF UpdatesAreNotForgotten, WriterDoesNotOversleep, UnderWay
    <3>3. MessageIsCurrent'
      BY <1>0, <2>2, OrchestreamAssumptions DEF MessageIsCurrent, TypeOK
    <3>4. HashIsKept'
      BY <1>0, <2>2 DEF HashIsKept, TypeOK
    <3> QED
      BY <3>1, <3>2, <3>3, <3>4
  <2> QED
    BY <1>2, <2>0, <2>1, <2>2, LoopTakesOneOrWaits
<1> QED
  BY <1>1, <1>2 DEF WakeUp

(* After a successful Send, what was under way went out.                   *)
LEMMA SendSucceedsKeepsInv ==
  ASSUME OrchestreamInv, SendSucceeds
  PROVE  OrchestreamInv'
<1> USE DEF OrchestreamInv
<1>0. /\ writer = "sending"
      /\ UNCHANGED << latest, startHash, cancelled, reader, offered, stream, ended >>
      /\ WriterLoop(flags, reconnecting) /\ reconnecting \in BOOLEAN
  BY DEF SendSucceeds, fields, TypeOK
<1>1. told' \in [Kinds -> Nat]
  BY DEF SendSucceeds, TypeOK
<1>2. \A j \in Kinds : ended = "no" => j \in flags \/ told'[j] = latest[j]
  <2> SUFFICES ASSUME NEW j \in Kinds, ended = "no", j \notin flags
               PROVE  told'[j] = latest[j]
    OBVIOUS
  <2>1. UnderWay(j) \/ told[j] = latest[j]
    BY <1>0 DEF UpdatesAreNotForgotten
  <2>2. CASE message.stream = stream /\ message.kind = j
    BY <1>0, <2>2 DEF SendSucceeds, MessageIsCurrent, TypeOK
  <2>3. CASE ~ (message.stream = stream /\ message.kind = j)
    BY <1>0, <2>1, <2>3 DEF SendSucceeds, UnderWay, TypeOK
  <2> QED
    BY <2>2, <2>3
<1>3. CASE writer' = "waiting" /\ flags' = flags /\ message' = NoMessage
           /\ reconnecting' = reconnecting /\ (reconnecting \/ flags = {})
  BY <1>0, <1>1, <1>2, <1>3 DEF TypeOK, UpdatesAreNotForgotten,
     WriterDoesNotOversleep, MessageIsCurrent, HashIsKept, NoMessage
<1>4. ASSUME NEW k \in flags \cap Kinds, ~ reconnecting, writer' = "sending",
             reconnecting' = reconnecting, flags' = flags \ {k},
             message' = [kind |-> k, value |-> latest[k], stream |-> stream]
      PROVE  OrchestreamInv'
  <2>1. TypeOK'
    BY <1>0, <1>1, <1>4, OrchestreamAssumptions DEF TypeOK
  <2>2. UpdatesAreNotForgotten' /\ WriterDoesNotOversleep'
    BY <1>0, <1>2, <1>4 DEF UpdatesAreNotForgotten, WriterDoesNotOversleep, UnderWay
  <2>3. MessageIsCurrent'
    BY <1>0, <1>4, OrchestreamAssumptions DEF MessageIsCurrent, TypeOK
  <2>4. HashIsKept'
    BY <1>0, <1>4 DEF HashIsKept, TypeOK
  <2> QED
    BY <2>1, <2>2, <2>3, <2>4
<1> QED
  BY <1>0, <1>3, <1>4, LoopTakesOneOrWaits

LEMMA SendFailsKeepsInv ==
  ASSUME OrchestreamInv, SendFails
  PROVE  OrchestreamInv'
<1> USE DEF OrchestreamInv
<1>1. /\ writer = "sending"
      /\ UNCHANGED << latest, startHash, cancelled, reader, offered, stream, told >>
      /\ ended' \in {"no", "broken", "closed"}
      /\ ended' = "no" => ended = "no" /\ message.stream # stream
  BY DEF SendFails, fields, TypeOK
<1>2. /\ writer' = "waiting" /\ flags' = flags /\ message' = NoMessage
      /\ reconnecting' = TRUE
  BY LoopTakesOneOrWaits DEF SendFails
<1> QED
  BY <1>1, <1>2 DEF TypeOK, UpdatesAreNotForgotten, WriterDoesNotOversleep,
     MessageIsCurrent, HashIsKept, UnderWay, NoMessage

(* The new stream was told the hash and has no uploads to report; all else *)
(* is flagged.                                                             *)
LEMMA ReconnectKeepsInv ==
  ASSUME OrchestreamInv, Reconnect
  PROVE  OrchestreamInv'
<1> USE DEF OrchestreamInv, Reconnect, ResetFlags, fields
<1>1. TypeOK'
  <2>1. told' \in [Kinds -> Nat]
    BY DEF TypeOK
  <2>2. flags' \in SUBSET Kinds /\ stream' \in 1 .. MaxStreams
    BY OrchestreamAssumptions DEF TypeOK, Kinds
  <2> QED
    BY <2>1, <2>2 DEF TypeOK, Woken
<1>2. UpdatesAreNotForgotten'
  <2> SUFFICES ASSUME NEW k \in Kinds
               PROVE  k \in flags' \/ told'[k] = latest[k]
    BY DEF UpdatesAreNotForgotten
  <2>1. CASE k = "setHash"
    BY <2>1 DEF HashIsKept, Kinds
  <2>2. CASE k = "failedUploads"
    BY <2>2 DEF Kinds
  <2> QED
    BY <2>1, <2>2 DEF Kinds
<1>3. WriterDoesNotOversleep'
  BY DEF WriterDoesNotOversleep, Woken
<1>4. MessageIsCurrent'
  BY OrchestreamAssumptions DEF MessageIsCurrent, Woken, TypeOK
<1>5. HashIsKept'
  BY DEF HashIsKept
<1> QED
  BY <1>1, <1>2, <1>3, <1>4, <1>5

(* The other steps of the reader and of the world leave the values alone.  *)
LEMMA OthersKeepInv ==
  ASSUME OrchestreamInv,
         \/ Close \/ SendFindsEnd \/ Break \/ ServerCloses
         \/ RecvClosed \/ CloseAndReturn \/ RecvFails
         \/ StartReconnect \/ ReconnectFails \/ BackoffCancelled
         \/ UNCHANGED vars
  PROVE  OrchestreamInv'
<1> USE DEF OrchestreamInv, TypeOK, UpdatesAreNotForgotten,
            WriterDoesNotOversleep, MessageIsCurrent, HashIsKept, UnderWay,
            Woken, fields, sender, link
<1>1. CASE Close
  BY <1>1 DEF Close
<1>2. CASE SendFindsEnd
  BY <1>2 DEF SendFindsEnd, NoMessage
<1>3. CASE Break
  BY <1>3 DEF Break
<1>4. CASE ServerCloses
  BY <1>4 DEF ServerCloses
<1>5. CASE RecvClosed
  BY <1>5 DEF RecvClosed
<1>6. CASE CloseAndReturn
  BY <1>6 DEF CloseAndReturn
<1>7. CASE RecvFails
  BY <1>7 DEF RecvFails
<1>8. CASE StartReconnect
  BY <1>8 DEF StartReconnect
<1>9. CASE ReconnectFails
  BY <1>9 DEF ReconnectFails
<1>10. CASE BackoffCancelled
  BY <1>10 DEF BackoffCancelled
<1>11. CASE UNCHANGED vars
  BY <1>11 DEF vars
<1> QED
  BY <1>1, <1>2, <1>3, <1>4, <1>5, <1>6, <1>7, <1>8, <1>9, <1>10,
     <1>11

LEMMA NextKeepsInv == OrchestreamInv /\ [Next]_vars => OrchestreamInv'
<1> SUFFICES ASSUME OrchestreamInv, [Next]_vars PROVE OrchestreamInv'
  OBVIOUS
<1> QED
  BY SetKeepsInv, WakeUpKeepsInv, SendSucceedsKeepsInv, SendFailsKeepsInv,
     ReconnectKeepsInv, OthersKeepInv DEF Next, WriterStep, ReaderStep

(* The whole invariant holds in every state, for any bounds.               *)
THEOREM OrchestreamInvHolds == Spec => []OrchestreamInv
<1> QED
  BY InitEstablishesInv, NextKeepsInv, PTL DEF Spec

(* Every field keeps its type, and the writer is kept off during the call  *)
(* of a reconnect.                                                         *)
THEOREM TypesHold == Spec => []TypeOK
<1>1. OrchestreamInv => TypeOK
  BY DEF OrchestreamInv
<1> QED
  BY <1>1, OrchestreamInvHolds, PTL

(* While a stream is up, the latest value of every kind went out on it or  *)
(* will, however often the stream was broken and set in between.           *)
THEOREM NothingIsForgotten == Spec => []UpdatesAreNotForgotten
<1>1. OrchestreamInv => UpdatesAreNotForgotten
  BY DEF OrchestreamInv
<1> QED
  BY <1>1, OrchestreamInvHolds, PTL

(* The writer never sleeps with something to send on a stream that is up.  *)
THEOREM WriterWakes == Spec => []WriterDoesNotOversleep
<1>1. OrchestreamInv => WriterDoesNotOversleep
  BY DEF OrchestreamInv
<1> QED
  BY <1>1, OrchestreamInvHolds, PTL

(* No message is taken while the call of a reconnect is under way.         *)
THEOREM WriterIsKeptOff == Spec => WriterKeepsOff
<1> DEFINE KeptOff == message' # message /\ message'.kind # "none" => reader # "calling"
<1>1. OrchestreamInv /\ [Next]_vars => [KeptOff]_vars
  <2> SUFFICES ASSUME OrchestreamInv, Next, reader = "calling"
               PROVE  message' = message \/ message'.kind = "none"
    OBVIOUS
  <2>1. reconnecting
    BY DEF OrchestreamInv, TypeOK
  <2>2. ASSUME NEW b \in BOOLEAN, b, WriterLoop(flags, b)
        PROVE  message'.kind = "none"
    BY <2>2 DEF WriterLoop, NoMessage
  <2>3. CASE WakeUp
    BY <2>1, <2>2, <2>3 DEF WakeUp, OrchestreamInv, TypeOK
  <2>4. CASE SendSucceeds
    BY <2>1, <2>2, <2>4 DEF SendSucceeds, OrchestreamInv, TypeOK
  <2>5. CASE SendFails
    BY <2>2, <2>5 DEF SendFails
  <2>6. CASE SendFindsEnd
    BY <2>6 DEF SendFindsEnd, NoMessage
  <2>7. CASE \E k \in Kinds : Set(k)
    BY <2>7 DEF Set
  <2>8. CASE Close \/ Break \/ ServerCloses \/ ReaderStep
    BY <2>8 DEF Close, Break, ServerCloses, ReaderStep, RecvClosed, CloseAndReturn,
       RecvFails, StartReconnect, ReconnectFails, BackoffCancelled,
       Reconnect, sender
  <2> QED
    BY <2>3, <2>4, <2>5, <2>6, <2>7, <2>8 DEF Next, WriterStep
<1> QED
  BY <1>1, OrchestreamInvHolds, PTL DEF Spec, WriterKeepsOff
==============================================================================
