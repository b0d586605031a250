------------------------------ MODULE Transfer ------------------------------
(***************************************************************************)
(* client/transfer/transfer.go: the data plane of one Transfer, a remote   *)
(* file that is being read.  Readers (ReadAt) sleep until their blocks are *)
(* there; simple fetchers download wanted blocks from peers one call at a  *)
(* time; in orchestrated mode other peers push blocks instead; and a       *)
(* complete local copy may take the place of the cache at any moment.      *)
(*                                                                         *)
(* Every section of code under t.mtx is one step, and so is every blocking *)
(* call between two of them.  A block is what one message carries.  The    *)
(* handle count, close() and the registry are not here.                    *)
(***************************************************************************)
EXTENDS Integers, FiniteSets, FiniteSetsExt

CONSTANTS Readers,       \* goroutines that may be in ReadAt
          Fetchers,      \* slots for simpleFetcher goroutines (a bound)
          Team,          \* how many fetchers are started together (2)
          NBlocks,       \* the file is blocks 0..NBlocks-1
          MinReadahead,  \* MIN_READAHEAD_SIZE, in blocks
          MaxDownload,   \* MAX_DOWNLOAD_SIZE, in blocks
          MaxStrays,     \* bound: open streams to orchestrations we left
          Faults         \* what may go wrong around us, out of AllFaults

AllFaults == { "refuse",       \* a peer refuses a ReadFile call
               "break",        \* a ReadFile stream breaks
               "short",        \* a peer's file is shorter than expected
               "redirect",     \* a peer redirects us to an orchestration
               "nodiscovery",  \* joining an orchestration fails
               "disk",         \* writing to the cache fails
               "localfile" }   \* our own copy turns out to be the same file

ASSUME TransferAssumptions ==
  /\ NBlocks \in Nat \ {0}
  /\ MinReadahead \in Nat
  /\ MaxDownload \in Nat \ {0}
  /\ Team \in Nat \ {0}
  /\ MaxStrays \in Nat
  /\ Faults \subseteq AllFaults

VARIABLES
  have, want, readahead, downloading,  \* the four Intervals, as sets of blocks
  stored,        \* the blocks that storage.ReadAt returns the right bytes for
  remote,        \* len(t.peers) > 0: SetLocalFile has not been called
  quitFetchers,
  orchestrated,  \* t.orchestream # nil
  joined,        \* some orchestration knew us: its peers may still push blocks
  strays,        \* open streams that another join put out of t.orchestream
  announced,     \* the last SetByteRanges given to t.orchestream
  reader,        \* reader -> where it is in ReadAt
  request,       \* reader -> the blocks it reads
  fetcher,       \* fetcher -> where it is in simpleFetcher
  todo,          \* fetcher -> the blocks from offset up to iv.End
  cancelled,     \* the fetchers whose context is cancelled
  landed,        \* blocks a peer pushed: written, ReceivedBytes still to come
  panicked       \* the process died of a run-time panic

ranges   == << have, want, readahead, downloading >>
mode     == << remote, quitFetchers, orchestrated, joined, strays, cancelled >>
readers  == << reader, request >>
fetchers == << fetcher, todo >>
vars == << ranges, mode, readers, fetchers, stored, announced, landed, panicked >>

Blocks == 0 .. (NBlocks - 1)

ReaderState == { "idle",     \* not in ReadAt
                 "waiting",  \* in serveCond.Wait()
                 "woken",    \* signalled, not yet running
                 "ready",    \* t.mtx released, about to call storage.ReadAt
                 "failed",   \* returned an error
                 "dead" }    \* the process died

FetcherState == { "none",        \* not started, or returned
                  "new",         \* started, has not taken t.mtx yet
                  "sleeping",    \* in fetchCond.Wait()
                  "woken",       \* signalled, not yet running
                  "picked",      \* has an interval, about to pick a peer
                  "calling",     \* in ReadFile
                  "receiving",   \* in stream.Recv
                  "wrote",       \* wrote a block, about to account for it
                  "redirected",  \* got the redirect, which ends the stream
                  "dead" }       \* the process died

Announcement(h, w, a) == [have |-> h, readnow |-> w, readahead |-> a]

-----------------------------------------------------------------------------
(* Parts of steps.                                                         *)

\* Slip: no broadcast, the readers sleep on.
WakeNoReaders == reader' = reader

\* serveCond.Broadcast()
WakeReaders ==
  reader' = [r \in Readers |->
               IF reader[r] = "waiting" THEN "woken" ELSE reader[r]]

\* Slip: no broadcast, the fetchers sleep on.
WakeNoFetchers == fetcher' = fetcher

\* fetchCond.Broadcast()
WakeFetchers ==
  fetcher' = [f \in Fetchers |->
                IF fetcher[f] = "sleeping" THEN "woken" ELSE fetcher[f]]

\* Slip: the update is taken before the ranges change.
ByteRangesUpdatedTooEarly ==
  announced' = IF orchestrated
               THEN Announcement(have, want, readahead) ELSE announced

\* byteRangesUpdated()
ByteRangesUpdated ==
  announced' = IF orchestrated
               THEN Announcement(have', want', readahead') ELSE announced

\* A run-time panic ends every goroutine of the process.
Panic ==
  /\ panicked' = TRUE
  /\ reader' = [r \in Readers |-> "dead"]
  /\ fetcher' = [f \in Fetchers |-> "dead"]
  /\ landed' = {}
  /\ UNCHANGED << ranges, mode, request, todo, stored, announced >>

\* Slip: read-ahead that is being downloaded is picked again.
NeedsDownloadTwice(w, a, d) == IF w \ d # {} THEN w \ d ELSE a

\* What a fetcher looks at: wanted blocks nobody downloads, else read-ahead.
NeedsDownload(w, a, d) == IF w \ d # {} THEN w \ d ELSE a \ d

\* The first interval of S, cut off at MAX_DOWNLOAD_SIZE.
FirstJob(S) ==
  { b \in S : b < Min(S) + MaxDownload /\ (Min(S) .. b) \subseteq S }

\* The top of simpleFetcher's loop, reached with t.mtx held and want,
\* readahead and downloading set to w, a and d.
TopOfLoop(f, w, a, d) ==
  LET needs == NeedsDownload(w, a, d)
      job   == IF quitFetchers \/ needs = {} THEN {} ELSE FirstJob(needs)
  IN /\ want' = w
     /\ readahead' = a
     /\ downloading' = d \cup job
     /\ todo' = [todo EXCEPT ![f] = job]
     /\ fetcher' = [fetcher EXCEPT ![f] =
                      IF quitFetchers THEN "none"
                      ELSE IF needs = {} THEN "sleeping" ELSE "picked"]

\* Slip: a block that came in stays in the read-ahead.
ReceivedBytesKeepingReadahead(S) ==
  /\ have' = have \cup S
  /\ want' = want \ S
  /\ readahead' = readahead
  /\ downloading' = downloading \ S
  /\ ByteRangesUpdated
  /\ WakeReaders

\* receivedBytes, for the blocks S.
ReceivedBytes(S) ==
  /\ have' = have \cup S
  /\ want' = want \ S
  /\ readahead' = readahead \ S
  /\ downloading' = downloading \ S
  /\ ByteRangesUpdated
  /\ WakeReaders

-----------------------------------------------------------------------------
(* NewRemoteFile: the first bytes are read ahead, two fetchers start.      *)

Init ==
  /\ have = {} /\ want = {} /\ readahead = {0} /\ downloading = {}
  /\ stored = {}
  /\ remote = TRUE /\ quitFetchers = FALSE
  /\ orchestrated = FALSE /\ joined = FALSE /\ strays = 0
  /\ announced = Announcement({}, {}, {})
  /\ reader = [r \in Readers |-> "idle"]
  /\ request = [r \in Readers |-> {}]
  /\ \E team \in SUBSET Fetchers :
       /\ Cardinality(team) = Team
       /\ fetcher = [f \in Fetchers |-> IF f \in team THEN "new" ELSE "none"]
  /\ todo = [f \in Fetchers |-> {}]
  /\ cancelled = {}
  /\ landed = {}
  /\ panicked = FALSE

-----------------------------------------------------------------------------
(* TransferHandle.ReadAt.                                                  *)

\* Slip: the read-ahead is not cut off at the end of the file.
AheadOfUncapped(first, last) ==
  last .. (last + Max({last - first, MinReadahead}) - 1)

\* The blocks to read ahead after first..last-1: as many again, at least
\* MIN_READAHEAD_SIZE, at most what the file has.
AheadOf(first, last) ==
  (last .. (last + Max({last - first, MinReadahead}) - 1)) \cap Blocks

\* Slip: a block that is wanted now stays in the read-ahead as well.
WidenedReadaheadOverlapping(ahead, w) == readahead \cup ahead

\* t.readahead once the blocks `ahead` are added; w is what is wanted by then.
\* "Prevent overlap between want & readahead"
WidenedReadahead(ahead, w) == (readahead \cup ahead) \ w

\* The blocks first..last-1 are asked for.
StartRead(r, first, last) ==
  LET S            == first .. (last - 1)
      missing      == S \ have
      missingAhead == AheadOf(first, last) \ have
  IN /\ reader[r] = "idle"
     /\ request' = [request EXCEPT ![r] = S]
     /\ reader' = [reader EXCEPT ![r] =
                     IF missing = {} THEN "ready" ELSE "waiting"]
     /\ IF missing \cup missingAhead = {}
        THEN UNCHANGED << ranges, fetchers, announced >>
        ELSE /\ want' = want \cup missing
             /\ readahead' = WidenedReadahead(missingAhead, want')
             /\ UNCHANGED << have, downloading, todo >>
             /\ ByteRangesUpdated
             /\ WakeFetchers
     /\ UNCHANGED << mode, stored, landed, panicked >>

\* A reader that returns from serveCond.Wait() gives up when a block it misses
\* is no longer wanted.
WakeUp(r) ==
  LET missing == request[r] \ have
  IN /\ reader[r] = "woken"
     /\ reader' = [reader EXCEPT ![r] =
                     IF missing \ want # {} THEN "failed"
                     ELSE IF missing = {} THEN "ready" ELSE "waiting"]
     /\ UNCHANGED << ranges, mode, request, fetchers, stored, announced, landed,
                     panicked >>

\* storage.ReadAt, or the error, is handed to the caller.
Return(r) ==
  /\ reader[r] \in {"ready", "failed"}
  /\ reader' = [reader EXCEPT ![r] = "idle"]
  /\ request' = [request EXCEPT ![r] = {}]
  /\ UNCHANGED << ranges, mode, fetchers, stored, announced, landed, panicked >>

-----------------------------------------------------------------------------
(* simpleFetcher.                                                          *)

\* rand.Intn(len(t.peers)) panics once SetLocalFile has emptied the list.
Enter(f) ==
  /\ fetcher[f] = "new"
  /\ IF ~ remote THEN Panic
     ELSE /\ TopOfLoop(f, want, readahead, downloading)
          /\ UNCHANGED << have, mode, readers, stored, announced, landed, panicked >>

Resume(f) ==
  /\ fetcher[f] = "woken"
  /\ TopOfLoop(f, want, readahead, downloading)
  /\ UNCHANGED << have, mode, readers, stored, announced, landed, panicked >>

\* (pno + 1) % len(t.peers), read without t.mtx.
PickPeer(f) ==
  /\ fetcher[f] = "picked"
  /\ IF ~ remote THEN Panic
     ELSE /\ fetcher' = [fetcher EXCEPT ![f] = "calling"]
          /\ UNCHANGED << ranges, mode, readers, todo, stored, announced, landed,
                          panicked >>

CallSucceeds(f) ==
  /\ fetcher[f] = "calling"
  /\ f \notin cancelled
  /\ fetcher' = [fetcher EXCEPT ![f] = "receiving"]
  /\ UNCHANGED << ranges, mode, readers, todo, stored, announced, landed, panicked >>

\* The peer refused, or our own context was cancelled.  The orchestrator is
\* not told, and quitFetchers makes no difference.
CallFails(f) ==
  /\ fetcher[f] = "calling"
  /\ f \in cancelled \/ "refuse" \in Faults
  /\ IF ~ remote THEN Panic
     ELSE /\ TopOfLoop(f, want \ todo[f], readahead \ todo[f], downloading \ todo[f])
          /\ WakeReaders
          /\ UNCHANGED << have, mode, request, stored, announced, landed, panicked >>

\* The block that a message carries.
Received(f) == Min(todo[f])

\* Slip: the block is accounted for without having been written.
WriteBlockNowhere(f) ==
  /\ fetcher[f] = "receiving"
  /\ todo[f] # {}
  /\ remote
  /\ fetcher' = [fetcher EXCEPT ![f] = "wrote"]
  /\ UNCHANGED << ranges, mode, readers, todo, stored, announced, landed, panicked >>

\* A message with the next block, written to the cache.
WriteBlock(f) ==
  /\ fetcher[f] = "receiving"
  /\ todo[f] # {}
  /\ remote
  /\ stored' = stored \cup {Received(f)}
  /\ fetcher' = [fetcher EXCEPT ![f] = "wrote"]
  /\ UNCHANGED << ranges, mode, readers, todo, announced, landed, panicked >>

\* The storage is the local file by now, opened read-only, or the cache cannot
\* grow.  iv.Start..offset is no longer marked as downloading: receivedBytes
\* saw to that.
WriteFails(f) ==
  /\ fetcher[f] = "receiving"
  /\ todo[f] # {}
  /\ ~ remote \/ "disk" \in Faults
  /\ TopOfLoop(f, want \ todo[f], readahead \ todo[f], downloading \ todo[f])
  /\ UNCHANGED << have, mode, request, stored, landed, panicked >>
  /\ ByteRangesUpdated
  /\ WakeReaders

\* receivedBytes(..., t.peers[pno].Name)
Account(f) ==
  /\ fetcher[f] = "wrote"
  /\ IF ~ remote THEN Panic
     ELSE /\ ReceivedBytes({Received(f)})
          /\ todo' = [todo EXCEPT ![f] = @ \ {Received(f)}]
          /\ fetcher' = [fetcher EXCEPT ![f] = "receiving"]
          /\ UNCHANGED << mode, request, stored, landed, panicked >>

\* Recv returns io.EOF: everything was sent, the peer's file is short, or a
\* redirect was the whole answer.  What is left stays wanted.
StreamEnds(f) ==
  /\ \/ fetcher[f] = "receiving" /\ (todo[f] = {} \/ "short" \in Faults)
     \/ fetcher[f] = "redirected"
  /\ TopOfLoop(f, want, readahead, downloading \ todo[f])
  /\ UNCHANGED << have, mode, request, stored, landed, panicked >>
  /\ ByteRangesUpdated
  /\ WakeReaders

\* Slip: a fetcher that stops leaves its blocks marked as downloading.
StreamBreaksLeavingMarks(f) ==
  /\ fetcher[f] \in {"receiving", "redirected"}
  /\ f \in cancelled \/ "break" \in Faults
  /\ LET lost == IF quitFetchers THEN {} ELSE todo[f]
     IN /\ TopOfLoop(f, want \ lost, readahead \ lost, downloading \ lost)
        /\ UNCHANGED << have, mode, request, stored, landed, panicked >>
        /\ ByteRangesUpdated
        /\ WakeReaders

\* Slip: a broken stream is retried for ever.
StreamBreaksNeverGivesUp(f) ==
  /\ fetcher[f] \in {"receiving", "redirected"}
  /\ f \in cancelled \/ "break" \in Faults
  /\ TopOfLoop(f, want, readahead, downloading \ todo[f])
  /\ UNCHANGED << have, mode, request, stored, landed, panicked >>
  /\ ByteRangesUpdated
  /\ WakeReaders

\* Recv returns another error.  When the fetchers are being stopped, what is
\* left stays wanted; otherwise this fetcher gives up on it.
StreamBreaks(f) ==
  /\ fetcher[f] \in {"receiving", "redirected"}
  /\ f \in cancelled \/ "break" \in Faults
  /\ IF ~ quitFetchers /\ ~ remote THEN Panic
     ELSE LET lost == IF quitFetchers THEN {} ELSE todo[f]
          IN /\ TopOfLoop(f, want \ lost, readahead \ lost, downloading \ todo[f])
             /\ UNCHANGED << have, mode, request, stored, landed, panicked >>
             /\ ByteRangesUpdated
             /\ WakeReaders

-----------------------------------------------------------------------------
(* Switching modes.                                                        *)

\* SwitchToOrchestratedMode, when it gets its stream: `at` says where the
\* fetchers are once the step is over.  A stream that we have already stays
\* open, but t.orchestream is the new one.
JoinOrchestration(at) ==
  /\ orchestrated' = TRUE
  /\ joined' = TRUE
  /\ strays' = strays + (IF orchestrated THEN 1 ELSE 0)
  /\ strays' <= MaxStrays
  /\ quitFetchers' = TRUE
  /\ cancelled' = { f \in Fetchers : fetcher[f] # "none" }
  /\ fetcher' = [f \in Fetchers |-> IF at[f] = "sleeping" THEN "woken" ELSE at[f]]
  /\ announced' = Announcement(have, want, readahead)

\* A peer answers ReadFile with a redirect, and RedirectToOrchestration joins,
\* finds that we are in that orchestration, or fails ("continuing in simple
\* mode").
Redirected(f) ==
  LET at == [fetcher EXCEPT ![f] = "redirected"]
  IN /\ "redirect" \in Faults
     /\ fetcher[f] = "receiving"
     /\ todo[f] # {}
     /\ \/ JoinOrchestration(at)
        \/ /\ orchestrated \/ "nodiscovery" \in Faults
           /\ fetcher' = at
           /\ UNCHANGED << orchestrated, joined, strays, quitFetchers, cancelled,
                           announced >>
     /\ UNCHANGED << ranges, readers, todo, remote, stored, landed, panicked >>

\* makeTransferWithLocalfile found that we have the file ourselves.
SetLocalFile ==
  /\ "localfile" \in Faults
  /\ ~ panicked
  /\ remote
  /\ remote' = FALSE
  /\ stored' = Blocks
  /\ have' = Blocks
  /\ want' = {} /\ readahead' = {} /\ downloading' = {}
  /\ quitFetchers' = TRUE
  /\ cancelled' = { f \in Fetchers : fetcher[f] # "none" }
  /\ ByteRangesUpdated
  /\ WakeReaders
  /\ WakeFetchers
  /\ UNCHANGED << orchestrated, joined, strays, request, todo, landed, panicked >>

\* Its callers then share the local file in an orchestration, also when it is
\* shared in another one already.
ShareLocalFile ==
  /\ ~ remote /\ ~ panicked
  /\ JoinOrchestration(fetcher)
  /\ UNCHANGED << ranges, readers, todo, remote, stored, landed, panicked >>

\* An orchestration stream ends: t.orchestream, or a stray.  The end of a
\* stray closes t.orchestream as well, whose reader may have read an end of
\* its own by then, and makes a stray of it.
StreamOver ==
  /\ orchestrated' = FALSE
  /\ strays' \in { strays, strays - 1 } \cap Nat


\* switchFromOrchestratedMode: the discovery server closed a stream.
OrchestrationClosed ==
  /\ orchestrated /\ ~ panicked
  /\ StreamOver
  /\ quitFetchers' = FALSE
  /\ IF remote
     THEN \E team \in SUBSET { f \in Fetchers : fetcher[f] = "none" } :
            /\ Cardinality(team) = Team
            /\ fetcher' = [f \in Fetchers |->
                             IF f \in team THEN "new" ELSE fetcher[f]]
            /\ cancelled' = cancelled \ team
     ELSE UNCHANGED << fetcher, cancelled >>
  /\ UNCHANGED << ranges, readers, todo, remote, joined, stored, announced, landed,
                  panicked >>

\* ... and when we are in no orchestration by then, t.orchestream is nil.
StrayClosed == strays > 0 /\ ~ orchestrated /\ ~ panicked /\ Panic

\* handleInboundData: a peer pushes a block, asked for or not, also over a
\* stream of an orchestration that is closed on our side.  The local file
\* cannot be written, which ends that peer's stream and changes nothing here.
PassiveWrite(b) ==
  /\ joined /\ ~ panicked
  /\ remote
  /\ stored' = stored \cup {b}
  /\ landed' = landed \cup {b}
  /\ UNCHANGED << ranges, mode, readers, fetchers, announced, panicked >>

\* ... and tells the transfer, which may have changed mode in between.
PassiveReceived(b) ==
  /\ b \in landed
  /\ landed' = landed \ {b}
  /\ ReceivedBytes({b})
  /\ UNCHANGED << mode, request, fetchers, stored, panicked >>

-----------------------------------------------------------------------------
ReaderStep(r) ==
  \/ \E first, last \in 0 .. NBlocks : first < last /\ StartRead(r, first, last)
  \/ WakeUp(r)
  \/ Return(r)

\* What a fetcher does by itself, and what its peer's answers make it do.
FetcherStep(f) ==
  \/ Enter(f) \/ Resume(f) \/ PickPeer(f)
  \/ CallSucceeds(f) \/ CallFails(f)
  \/ WriteBlock(f) \/ WriteFails(f) \/ Account(f)
  \/ StreamEnds(f) \/ StreamBreaks(f) \/ Redirected(f)

Next ==
  \/ \E r \in Readers : ReaderStep(r)
  \/ \E f \in Fetchers : FetcherStep(f)
  \/ SetLocalFile \/ ShareLocalFile
  \/ OrchestrationClosed \/ StrayClosed
  \/ \E b \in Blocks : PassiveWrite(b)
  \/ \E b \in Blocks : PassiveReceived(b)

Spec == Init /\ [][Next]_vars

\* What a fetcher does without a peer: cancelled calls and streams end, too.
OwnStep(f) ==
  \/ Enter(f) \/ Resume(f) \/ PickPeer(f) \/ Account(f)
  \/ f \in cancelled /\ (CallFails(f) \/ StreamBreaks(f))

\* Runnable goroutines run.  Nothing is assumed of peers, of the swarm or of
\* the discovery server: a call may stay open for ever.
FairSpec ==
  /\ Spec
  /\ \A r \in Readers : WF_vars(WakeUp(r))
  /\ \A f \in Fetchers : WF_vars(OwnStep(f))
  /\ \A b \in Blocks : WF_vars(PassiveReceived(b))

-----------------------------------------------------------------------------
(* Properties.                                                             *)

TypeOK ==
  /\ have \in SUBSET Blocks /\ want \in SUBSET Blocks
  /\ readahead \in SUBSET Blocks /\ downloading \in SUBSET Blocks
  /\ stored \in SUBSET Blocks /\ landed \in SUBSET Blocks
  /\ remote \in BOOLEAN /\ quitFetchers \in BOOLEAN
  /\ orchestrated \in BOOLEAN /\ joined \in BOOLEAN
  /\ strays \in 0 .. MaxStrays /\ panicked \in BOOLEAN
  /\ announced \in [have : SUBSET Blocks, readnow : SUBSET Blocks,
                    readahead : SUBSET Blocks]
  /\ reader \in [Readers -> ReaderState]
  /\ request \in [Readers -> SUBSET Blocks]
  /\ fetcher \in [Fetchers -> FetcherState]
  /\ todo \in [Fetchers -> SUBSET Blocks]
  /\ cancelled \in SUBSET Fetchers

(* What we have, want and read ahead never overlap ("Prevent overlap       *)
(* between want & readahead"), across concurrent reads, failures, pushed   *)
(* blocks and the arrival of a local file: the scheduler would otherwise   *)
(* send a block twice, or send us what we have.                            *)
RangesDisjoint ==
  /\ have \cap want = {}
  /\ have \cap readahead = {}
  /\ want \cap readahead = {}

(* A read that is about to copy its bytes out of the storage finds all of  *)
(* them there, whatever happened between the wake-up and now: have never   *)
(* runs ahead of the storage, also when a block was pushed by a peer, came *)
(* from a fetcher of a former mode, or the storage was replaced.           *)
ReadsSeeWrittenData ==
  /\ have \cup landed \subseteq stored
  /\ \A r \in Readers : reader[r] = "ready" => request[r] \subseteq stored

(* Every block marked as downloading has a fetcher at work on it, and no   *)
(* block has two: a mark left behind by a failed, cancelled or redirected  *)
(* call would keep the block from ever being fetched again, a missing one  *)
(* fetches it twice.                                                       *)
DownloadsHaveOneFetcher ==
  /\ downloading \subseteq UNION { todo[f] : f \in Fetchers }
  /\ \A f, g \in Fetchers : f # g => todo[f] \cap todo[g] = {}
  /\ \A f \in Fetchers : todo[f] \subseteq downloading \cup have

\* A reader in serveCond.Wait() misses a block, and all it misses is wanted.
ReadersWaitForWanted ==
  \A r \in Readers : reader[r] = "waiting" =>
    /\ request[r] \ have # {}
    /\ request[r] \ have \subseteq want

\* While there is something to fetch in simple mode, some fetcher is awake.
FetchersSeeWork ==
  (remote /\ ~ quitFetchers /\ NeedsDownload(want, readahead, downloading) # {})
    => \E f \in Fetchers : fetcher[f] \notin {"none", "sleeping"}

(* Nobody sleeps through a wake-up: not the reader whose block came in or  *)
(* was given up, and not the fetchers when a read or a failure leaves a    *)
(* block to fetch.                                                         *)
NobodyOversleeps == ReadersWaitForWanted /\ FetchersSeeWork

(* While we are in an orchestration, the server was told of every block we *)
(* have and of every block we wait for or read ahead: an update that one   *)
(* path forgets leaves a read hanging, since no fetcher is running.        *)
OrchestratorIsUpToDate ==
  orchestrated =>
    /\ announced.have = have
    /\ want \subseteq announced.readnow
    /\ readahead \subseteq announced.readahead

(* What we announce: three disjoint sets, as the scheduler relies on       *)
(* (Orchestrator.tla, UpdateByteRanges), and nothing that this transfer    *)
(* announced before is gone, so that only a restart can strand a shipment. *)
AnnouncementsAreLegal ==
  [][announced' # announced =>
       /\ announced'.have \cap announced'.readnow = {}
       /\ announced'.have \cap announced'.readahead = {}
       /\ announced'.readnow \cap announced'.readahead = {}
       /\ announced.have \subseteq announced'.have]_vars

\* A call that is open, with a context that is not cancelled.
WaitsForPeer(f) ==
  f \notin cancelled /\ fetcher[f] \in {"calling", "receiving", "redirected"}

\* Somebody else is to serve r: the swarm was told, a peer was asked, or every
\* fetcher waits for some peer.
Owed(r) ==
  LET missing == request[r] \ have
      running == { f \in Fetchers : fetcher[f] # "none" }
  IN \/ orchestrated /\ missing \subseteq announced.readnow
     \/ \E f \in running : WaitsForPeer(f) /\ todo[f] \cap missing # {}
     \/ running # {} /\ \A f \in running : WaitsForPeer(f)


(* "This happens after SetLocalFile() was called, at which point t.storage *)
(* becomes readonly. This is harmless." (transfer.go:354): a fetcher with  *)
(* a message in hand when the local file arrives gets over it, whether it  *)
(* has written the message already or the write fails.                     *)
SetLocalFileIsHarmless ==
  [][(\E f \in Fetchers : WriteFails(f) \/ Account(f)) => ~ panicked']_vars
==============================================================================
