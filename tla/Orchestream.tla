------------------------------ MODULE Orchestream ------------------------------
(***************************************************************************)
(* client/transfer/orchestream: a client's stream to the orchestration of  *)
(* one download.  Setters leave the latest value and a flag, the writer    *)
(* turns flags into messages, and the reader reconnects when the stream    *)
(* breaks.  Writer and reader see the end of a stream independently.       *)
(*                                                                         *)
(* A value is the number of the call that set it.  What the messages say   *)
(* is in Transfer.tla and Orchestration.tla.                               *)
(***************************************************************************)
EXTENDS Naturals

\* The kinds of messages, by the field that holds what is to be sent.
Kinds == {"ranges", "connectedPeers", "setHash", "haveHandles", "failedUploads"}

CONSTANTS MaxSets,    \* kind -> how often it is set (a bound)
          MaxStreams  \* how many streams there are (a bound)

ASSUME OrchestreamAssumptions ==
  /\ MaxSets \in [Kinds -> Nat]
  /\ MaxStreams \in Nat \ {0}

VARIABLES
  latest,        \* kind -> the value its setter left
  flags,         \* the kinds that wait to be sent
  startHash,     \* reconnectStart.Hash
  reconnecting,
  cancelled,     \* Close was called
  writer,        \* where the writer is
  message,       \* what it is sending, and on which stream
  reader,        \* where the reader is
  offered,       \* the hash in the start message of the call under way
  stream,        \* the number of the current stream
  ended,         \* how the current stream ended, if it did
  told           \* kind -> the last value that went out on the current stream

fields == << latest, startHash >>
sender == << writer, message, flags, reconnecting >>
link   == << stream, ended, told >>
vars == << fields, sender, cancelled, reader, offered, link >>

NoMessage == [kind |-> "none", value |-> 0, stream |-> 0]

-----------------------------------------------------------------------------
(* Parts of steps.                                                         *)

\* The order of the writer's if and else if.
Rank == [ranges |-> 1, connectedPeers |-> 2, setHash |-> 3, haveHandles |-> 4,
         failedUploads |-> 5]

IsFirst(k, set) == k \in set /\ \A j \in set : Rank[k] <= Rank[j]

\* The writer has the mutex: it takes the next message, or waits.
WriterLoop(waiting, broken) ==
  \/ \E k \in Kinds :
       /\ ~ broken /\ IsFirst(k, waiting)
       /\ writer' = "sending"
       /\ message' = [kind |-> k, value |-> latest[k], stream |-> stream]
       /\ flags' = waiting \ {k}
       /\ reconnecting' = broken
  \/ /\ broken \/ waiting = {}
     /\ writer' = "waiting"
     /\ message' = NoMessage
     /\ flags' = waiting
     /\ reconnecting' = broken

\* Slip: nobody is woken.
NotWoken == writer

\* cond.Broadcast()
Woken == IF writer = "waiting" THEN "woken" ELSE writer

\* New: the start message was answered, and haveHandles is to be sent.
Init ==
  /\ latest = [k \in Kinds |-> 0]
  /\ flags = {"haveHandles"}
  /\ startHash = 0 /\ offered = 0
  /\ reconnecting = FALSE /\ cancelled = FALSE
  /\ writer = "woken" /\ message = NoMessage
  /\ reader = "receiving"
  /\ stream = 1 /\ ended = "no"
  /\ told = [k \in Kinds |-> 0]

-----------------------------------------------------------------------------
(* The setters: SetByteRanges, SetConnectedPeers, SetHash, SetHaveHandles  *)
(* (when the value differs) and UploadFailed.                              *)

StartHashAfter(k, value) == IF k = "setHash" THEN value ELSE startHash

Set(k) ==
  /\ ~ cancelled
  /\ latest[k] < MaxSets[k]
  /\ latest' = [latest EXCEPT ![k] = @ + 1]
  /\ startHash' = StartHashAfter(k, latest[k] + 1)
  /\ flags' = flags \cup {k}
  /\ writer' = Woken
  /\ UNCHANGED << message, reconnecting, cancelled, reader, offered, link >>

Close ==
  /\ ~ cancelled
  /\ cancelled' = TRUE
  /\ writer' = Woken
  /\ UNCHANGED << fields, message, flags, reconnecting, reader, offered, link >>

-----------------------------------------------------------------------------
(* The writer.                                                             *)

WakeUp ==
  /\ writer = "woken"
  /\ \/ /\ ~ cancelled
        /\ WriterLoop(flags, reconnecting)
     \/ /\ cancelled
        /\ writer' = "returned"
        /\ UNCHANGED << message, flags, reconnecting >>
  /\ UNCHANGED << fields, cancelled, reader, offered, link >>

\* Send succeeds as soon as the message is queued: on a stream that has ended
\* without the library knowing, it is lost.
SendSucceeds ==
  /\ writer = "sending"
  /\ told' = IF message.stream = stream /\ ended = "no"
             THEN [told EXCEPT ![message.kind] = message.value] ELSE told
  /\ WriterLoop(flags, reconnecting)
  /\ UNCHANGED << fields, cancelled, reader, offered, stream, ended >>

\* io.EOF: the stream is known to have ended.
SendFindsEnd ==
  /\ writer = "sending"
  /\ message.stream # stream \/ ended # "no" \/ cancelled
  /\ writer' = "returned"
  /\ message' = NoMessage
  /\ UNCHANGED << fields, flags, reconnecting, cancelled, reader, offered, link >>

\* Any other error ends the stream; the writer leaves the next one to reconnect.
SendFails ==
  /\ writer = "sending"
  /\ message.stream = stream /\ ended = "no" => stream < MaxStreams
  /\ ended' = IF message.stream = stream /\ ended = "no" THEN "broken" ELSE ended
  /\ WriterLoop(flags, TRUE)
  /\ UNCHANGED << fields, cancelled, reader, offered, stream, told >>

-----------------------------------------------------------------------------
(* The stream and the reader.                                              *)

\* The connection is lost, or the server gives the call up.
Break ==
  /\ ended = "no" /\ stream < MaxStreams
  /\ ended' = "broken"
  /\ UNCHANGED << fields, sender, cancelled, reader, offered, stream, told >>

\* The orchestration is closed: the server ends the call without an error.
ServerCloses ==
  /\ ended = "no"
  /\ ended' = "closed"
  /\ UNCHANGED << fields, sender, cancelled, reader, offered, stream, told >>

\* Recv returns io.EOF: OrchestrationClosed is called, which may have to wait
\* for the transfer's mutex, and the stream is closed.
RecvClosed ==
  /\ reader = "receiving" /\ ended = "closed"
  /\ reader' = "closing"
  /\ UNCHANGED << fields, sender, cancelled, offered, link >>

CloseAndReturn ==
  /\ reader = "closing"
  /\ cancelled' = TRUE
  /\ writer' = Woken
  /\ reader' = "returned"
  /\ UNCHANGED << fields, message, flags, reconnecting, offered, link >>

\* Slip: the reader does not ask whether it was it that was closed.
RecvFailsAnyway ==
  /\ reader = "receiving"
  /\ ended = "broken" \/ cancelled
  /\ reader' = "reconnecting"
  /\ UNCHANGED << fields, sender, cancelled, offered, link >>

\* Recv returns an error.
RecvFails ==
  /\ reader = "receiving"
  /\ ended = "broken" \/ cancelled
  /\ reader' = IF cancelled THEN "returned" ELSE "reconnecting"
  /\ UNCHANGED << fields, sender, cancelled, offered, link >>

\* Slip: the writer goes on.
StartReconnectBesideWriter ==
  /\ reader \in {"reconnecting", "backingOff"}
  /\ offered' = startHash
  /\ reader' = "calling"
  /\ UNCHANGED << fields, sender, cancelled, link >>

\* reconnect, up to where it leaves the mutex for the call.
StartReconnect ==
  /\ reader \in {"reconnecting", "backingOff"}
  /\ reconnecting' = TRUE
  /\ offered' = startHash
  /\ reader' = "calling"
  /\ UNCHANGED << fields, writer, message, flags, cancelled, link >>

\* It fails and is tried again after a while, or given up, as it is when the
\* context is cancelled: Recv then fails again.
ReconnectFails ==
  /\ reader = "calling"
  /\ reader' = "receiving" \/ (~ cancelled /\ reader' = "backingOff")
  /\ UNCHANGED << fields, sender, cancelled, offered, link >>

\* backoff.WithContext: cancelling the context ends the wait for the next try.
BackoffCancelled ==
  /\ reader = "backingOff"
  /\ cancelled
  /\ reader' = "receiving"
  /\ UNCHANGED << fields, sender, cancelled, offered, link >>

\* Slip: open handles are sent only when they change.
ResetFlagsButHandles ==
  flags' = (flags \ {"failedUploads"}) \cup {"ranges", "connectedPeers"}

\* Slip: the flags are for the old stream.
ClearFlags ==
  flags' = {"ranges", "connectedPeers", "haveHandles"}

ResetFlags ==
  flags' = (flags \ {"failedUploads"}) \cup {"ranges", "connectedPeers", "haveHandles"}

\* The start message was answered, perhaps just before the context was
\* cancelled.  The server knows the hash from it, and knows of no uploads yet
\* that could have failed.
Reconnect ==
  /\ reader = "calling"
  /\ stream < MaxStreams
  /\ stream' = stream + 1
  /\ ended' = IF cancelled THEN "broken" ELSE "no"
  /\ told' = [k \in Kinds |-> IF k = "setHash" THEN offered
                              ELSE IF k = "failedUploads" THEN latest[k] ELSE 0]
  /\ ResetFlags
  /\ reconnecting' = FALSE
  /\ writer' = Woken
  /\ reader' = "receiving"
  /\ UNCHANGED << fields, message, cancelled, offered >>

-----------------------------------------------------------------------------
WriterStep == WakeUp \/ SendSucceeds \/ SendFindsEnd \/ SendFails

ReaderStep ==
  \/ RecvClosed \/ CloseAndReturn \/ RecvFails
  \/ StartReconnect \/ ReconnectFails \/ BackoffCancelled \/ Reconnect

Next ==
  \/ \E k \in Kinds : Set(k)
  \/ Close \/ Break \/ ServerCloses
  \/ WriterStep \/ ReaderStep

Spec == Init /\ [][Next]_vars

\* Both goroutines run, and of the attempts to reconnect one succeeds, unless
\* they are cancelled: a call with a cancelled context need not be answered.
FairSpec ==
  /\ Spec
  /\ WF_vars(WriterStep)
  /\ WF_vars(ReaderStep)
  /\ SF_vars(~ cancelled /\ Reconnect)

-----------------------------------------------------------------------------
(* Properties.                                                             *)

TypeOK ==
  /\ latest \in [Kinds -> Nat] /\ told \in [Kinds -> Nat]
  /\ flags \in SUBSET Kinds
  /\ startHash \in Nat /\ offered \in Nat
  /\ reconnecting \in BOOLEAN /\ cancelled \in BOOLEAN
  /\ writer \in {"woken", "sending", "waiting", "returned"}
  /\ message \in [kind : Kinds \cup {"none"}, value : Nat, stream : Nat]
  /\ writer = "sending" => message.kind \in Kinds
  /\ reader \in {"receiving", "closing", "reconnecting", "calling", "backingOff",
                "returned"}
  /\ reader = "calling" => reconnecting
  /\ stream \in 1 .. MaxStreams
  /\ ended \in {"no", "broken", "closed"}

\* The writer is sending the latest value of k on the current stream.
UnderWay(k) ==
  /\ writer = "sending"
  /\ message = [kind |-> k, value |-> latest[k], stream |-> stream]

(* While a stream is up, the latest value of every kind went out on it, is *)
(* on its way or will be taken by the writer: no value that is set while   *)
(* the writer sends without the mutex, while the reader reconnects, or     *)
(* that was lost with the former stream, is forgotten.                     *)
UpdatesAreNotForgotten ==
  (ended = "no" /\ writer # "returned") =>
    \A k \in Kinds : k \in flags \/ UnderWay(k) \/ told[k] = latest[k]

(* The writer does not sleep with something to send, unless a reconnect    *)
(* has to come first.                                                      *)
WriterDoesNotOversleep ==
  writer = "waiting" => reconnecting \/ flags = {}

(* "Prevent the writer thread from touching the stream"                    *)
(* (orchestream.go:175): while a reconnect is under way no message is      *)
(* taken for the stream that it replaces.                                  *)
WriterKeepsOff ==
  [][message' # message /\ message'.kind # "none" => reader # "calling"]_vars

\* The flag that keeps the writer away is up and nobody takes it down.
LeftReconnecting == reconnecting /\ reader = "receiving" /\ ended = "no"

(* As long as the writer is not lost, what was set reaches the server, on  *)
(* whatever stream is up by then.                                          *)
UpdatesArriveUnlessTheWriterIsLost ==
  \A k \in Kinds :
    told[k] # latest[k] ~>
      \/ told[k] = latest[k]
      \/ cancelled \/ ended = "closed"
      \/ writer = "returned" \/ LeftReconnecting

(* When the stream is closed by either side its reader returns, also out   *)
(* of a reconnect.                                                         *)
ReaderReturns ==
  cancelled \/ ended = "closed" ~> reader = "returned"

(* On io.EOF the writer returns: "ignore, reader will find it soon"        *)
(* (orchestream.go:159).  So once the reader has found it and reconnected, *)
(* what is set still reaches the server.                                   *)
UpdatesArriveAfterReconnect ==
  \A k \in Kinds :
    told[k] # latest[k] ~>
      \/ told[k] = latest[k]
      \/ cancelled \/ ended = "closed" \/ LeftReconnecting
==============================================================================
