--------------------------- MODULE TransferProofs ---------------------------
(***************************************************************************)
(* The safety of one transfer for any number of readers, fetchers and      *)
(* blocks and any faults: proved from the inductive invariant TransferInv. *)
(***************************************************************************)
EXTENDS Transfer, FiniteSetTheorems, WellFoundedInduction, TLAPS

\* Without its local copy or with it, we have what the storage holds.
Written ==
  /\ have \cup landed \subseteq stored
  /\ ~ remote => have = Blocks

\* A fetcher has blocks left to do only while it works, and the block it is
\* about to account for is in the storage.
JobsMatchFetchers ==
  \A f \in Fetchers :
    /\ fetcher[f] \in {"none", "new", "sleeping", "woken"} => todo[f] = {}
    /\ fetcher[f] = "wrote" => todo[f] # {} /\ Received(f) \in stored

\* A reader that left serveCond misses nothing.
ReadyReadersMissNothing ==
  \A r \in Readers : reader[r] = "ready" => request[r] \subseteq have

\* Simple mode has fetchers.
SimpleModeIsStaffed ==
  remote /\ ~ quitFetchers => \E f \in Fetchers : fetcher[f] # "none"

TransferInv ==
  /\ TypeOK
  /\ RangesDisjoint
  /\ Written
  /\ JobsMatchFetchers
  /\ ReadyReadersMissNothing
  /\ SimpleModeIsStaffed
  /\ DownloadsHaveOneFetcher
  /\ NobodyOversleeps
  /\ OrchestratorIsUpToDate
  /\ announced.have \subseteq have

-----------------------------------------------------------------------------
(* Data.                                                                   *)

(* A non-empty set of blocks has a first block.                            *)
LEMMA FirstBlock ==
  ASSUME NEW S \in SUBSET Blocks, S # {}
  PROVE  Min(S) \in S
<1> DEFINE Less == { ss \in Nat \X Nat : ss[1] < ss[2] }
<1>1. S \subseteq Nat
  BY TransferAssumptions DEF Blocks
<1>2. IsWellFoundedOn(Less, Nat)
  BY NatLessThanWellFounded, Zenon DEF OpToRel
<1>3. PICK x \in S : \A y \in S : ~ (<<y, x>> \in Less)
  <2> HIDE DEF Less
  <2> QED BY <1>1, <1>2, WFMin, Zenon
<1>4. ASSUME NEW y \in S
      PROVE  x <= y
  <2>1. x \in Nat /\ y \in Nat
    BY <1>1
  <2>2. <<y, x>> \in Less <=> y < x
    BY <2>1
  <2> QED BY <1>3, <2>1, <2>2
<1> QED BY <1>4 DEF Min

(* A fetcher's job is part of what needs downloading.                      *)
LEMMA JobIsNeeded ==
  ASSUME NEW S
  PROVE  FirstJob(S) \subseteq S
  BY DEF FirstJob

(* A broadcast leaves no reader waiting and makes none ready, so that data *)
(* may grow under it.                                                      *)
LEMMA BroadcastKeepsReaders ==
  ASSUME TypeOK, ReadyReadersMissNothing, WakeReaders,
         request' = request, have \subseteq have'
  PROVE  /\ reader' \in [Readers -> ReaderState]
         /\ ReadersWaitForWanted'
         /\ ReadyReadersMissNothing'
<1>1. ASSUME NEW r \in Readers
      PROVE  /\ reader'[r] \in ReaderState \ {"waiting"}
             /\ reader'[r] = "ready" => reader[r] = "ready"
  BY DEF TypeOK, WakeReaders, ReaderState
<1>2. reader' \in [Readers -> ReaderState]
  BY <1>1 DEF WakeReaders
<1>3. ReadersWaitForWanted'
  BY <1>1 DEF ReadersWaitForWanted
<1>4. ReadyReadersMissNothing'
  BY <1>1 DEF ReadyReadersMissNothing
<1> QED BY <1>2, <1>3, <1>4

-----------------------------------------------------------------------------
(* The top of the fetchers' loop.                                          *)

(* A fetcher that gives back its blocks and looks for others keeps the     *)
(* books straight: whatever it takes nobody else has, and it goes to sleep *)
(* only when nothing is left to fetch.                                     *)
LEMMA LoopKeepsBooks ==
  ASSUME TransferInv, NEW f \in Fetchers,
         NEW w \in SUBSET want, NEW a \in SUBSET readahead,
         TopOfLoop(f, w, a, downloading \ todo[f]),
         UNCHANGED << have, mode, stored >>
  PROVE  /\ want' \in SUBSET Blocks /\ readahead' \in SUBSET Blocks
         /\ downloading' \in SUBSET Blocks
         /\ fetcher' \in [Fetchers -> FetcherState]
         /\ todo' \in [Fetchers -> SUBSET Blocks]
         /\ RangesDisjoint'
         /\ JobsMatchFetchers'
         /\ SimpleModeIsStaffed'
         /\ DownloadsHaveOneFetcher'
         /\ FetchersSeeWork'
<1> DEFINE d     == downloading \ todo[f]
           needs == NeedsDownload(w, a, d)
           job   == IF quitFetchers \/ needs = {} THEN {} ELSE FirstJob(needs)
<1>1. /\ want' = w /\ readahead' = a /\ downloading' = d \cup job
      /\ todo' = [todo EXCEPT ![f] = job]
      /\ fetcher' = [fetcher EXCEPT ![f] = IF quitFetchers THEN "none"
                                          ELSE IF needs = {} THEN "sleeping"
                                          ELSE "picked"]
  BY DEF TopOfLoop
<1>2. job \subseteq (w \cup a) \ d
  <2>1. job \subseteq needs
    BY JobIsNeeded
  <2> QED BY <2>1 DEF NeedsDownload
<1> HIDE DEF job
<1>3. /\ want' \in SUBSET Blocks /\ readahead' \in SUBSET Blocks
      /\ downloading' \in SUBSET Blocks
      /\ todo' \in [Fetchers -> SUBSET Blocks]
  BY <1>1, <1>2 DEF TransferInv, TypeOK
<1>4. fetcher' \in [Fetchers -> FetcherState]
  BY <1>1 DEF TransferInv, TypeOK, FetcherState
<1>5. RangesDisjoint'
  BY <1>1 DEF TransferInv, RangesDisjoint
<1>6. /\ todo'[f] = job
      /\ \A g \in Fetchers \ {f} : todo'[g] = todo[g] /\ fetcher'[g] = fetcher[g]
  BY <1>1 DEF TransferInv, TypeOK
<1>7. /\ fetcher'[f] \in {"none", "sleeping", "picked"}
      /\ fetcher'[f] # "picked" => job = {}
      /\ fetcher'[f] = "none" => quitFetchers
      /\ fetcher'[f] = "sleeping" => needs = {}
  BY <1>1 DEF TransferInv, TypeOK, job
<1>8. JobsMatchFetchers'
  <2> SUFFICES ASSUME NEW g \in Fetchers
               PROVE  /\ fetcher'[g] \in {"none", "new", "sleeping", "woken"}
                            => todo'[g] = {}
                      /\ fetcher'[g] = "wrote"
                            => todo'[g] # {} /\ Min(todo'[g]) \in stored'
    BY DEF JobsMatchFetchers, Received
  <2>1. CASE g = f
    BY <2>1, <1>6, <1>7
  <2>2. CASE g # f
    BY <2>2, <1>6 DEF TransferInv, JobsMatchFetchers, Received
  <2> QED BY <2>1, <2>2
<1>9. SimpleModeIsStaffed'
  BY <1>7 DEF SimpleModeIsStaffed, mode
<1>10. DownloadsHaveOneFetcher'
  <2>1. \A g \in Fetchers \ {f} : todo[g] \cap todo[f] = {}
    BY DEF TransferInv, DownloadsHaveOneFetcher
  <2>2. \A g \in Fetchers \ {f} : todo[g] \subseteq d \cup have
    BY <2>1 DEF TransferInv, DownloadsHaveOneFetcher
  <2>3. job \cap (d \cup have) = {}
    BY <1>2 DEF TransferInv, RangesDisjoint
  <2>4. downloading' \subseteq UNION { todo'[g] : g \in Fetchers }
    <3> SUFFICES ASSUME NEW b \in d \cup job
                 PROVE  \E g \in Fetchers : b \in todo'[g]
      BY <1>1
    <3>1. CASE b \in job
      BY <3>1, <1>6
    <3>2. CASE b \in d
      <4>1. PICK g \in Fetchers : b \in todo[g]
        BY <3>2 DEF TransferInv, DownloadsHaveOneFetcher
      <4> QED BY <3>2, <4>1, <1>6
    <3> QED BY <3>1, <3>2
  <2>5. \A g, h \in Fetchers : g # h => todo'[g] \cap todo'[h] = {}
    BY <2>2, <2>3, <1>6 DEF TransferInv, DownloadsHaveOneFetcher
  <2>6. \A g \in Fetchers : todo'[g] \subseteq downloading' \cup have'
    BY <2>2, <1>1, <1>6
  <2> QED BY <2>4, <2>5, <2>6 DEF DownloadsHaveOneFetcher
<1>11. FetchersSeeWork'
  <2>1. CASE fetcher'[f] = "picked"
    BY <2>1 DEF FetchersSeeWork
  <2>2. CASE fetcher'[f] = "none"
    BY <2>2, <1>7 DEF FetchersSeeWork, mode
  <2>3. CASE fetcher'[f] = "sleeping"
    BY <2>3, <1>1, <1>7 DEF FetchersSeeWork, NeedsDownload
  <2> QED BY <2>1, <2>2, <2>3, <1>7
<1> QED BY <1>3, <1>4, <1>5, <1>8, <1>9, <1>10, <1>11

(* A step that ends at the top of the loop, having told the orchestrator   *)
(* and the readers of what was given up.                                   *)
LEMMA LoopKeepsInv ==
  ASSUME TransferInv, NEW f \in Fetchers,
         NEW w \in SUBSET want, NEW a \in SUBSET readahead,
         TopOfLoop(f, w, a, downloading \ todo[f]),
         WakeReaders \/ (reader' = reader /\ w = want),
         ByteRangesUpdated \/ announced' = announced,
         UNCHANGED << have, mode, request, stored, landed, panicked >>
  PROVE  TransferInv'
<1>1. /\ want' \in SUBSET Blocks /\ readahead' \in SUBSET Blocks
      /\ downloading' \in SUBSET Blocks
      /\ fetcher' \in [Fetchers -> FetcherState]
      /\ todo' \in [Fetchers -> SUBSET Blocks]
      /\ RangesDisjoint' /\ JobsMatchFetchers' /\ SimpleModeIsStaffed'
      /\ DownloadsHaveOneFetcher' /\ FetchersSeeWork'
  BY LoopKeepsBooks
<1>2. want' = w /\ readahead' = a
  BY DEF TopOfLoop
<1>3. /\ reader' \in [Readers -> ReaderState]
      /\ ReadersWaitForWanted'
      /\ ReadyReadersMissNothing'
  <2>1. CASE WakeReaders
    BY <2>1, BroadcastKeepsReaders DEF TransferInv
  <2>2. CASE reader' = reader /\ w = want
    BY <2>2, <1>2 DEF TransferInv, TypeOK, ReadyReadersMissNothing,
                      NobodyOversleeps, ReadersWaitForWanted
  <2> QED BY <2>1, <2>2
<1>4. /\ announced' \in [have : SUBSET Blocks, readnow : SUBSET Blocks,
                         readahead : SUBSET Blocks]
      /\ OrchestratorIsUpToDate'
      /\ announced'.have \subseteq have'
  <2>1. CASE ByteRangesUpdated
    BY <2>1, <1>1 DEF TransferInv, TypeOK, ByteRangesUpdated, Announcement,
                      OrchestratorIsUpToDate, mode
  <2>2. CASE announced' = announced
    BY <2>2, <1>2 DEF TransferInv, TypeOK, OrchestratorIsUpToDate, mode
  <2> QED BY <2>1, <2>2
<1>5. TypeOK'
  BY <1>1, <1>3, <1>4 DEF TransferInv, TypeOK, mode
<1>6. Written'
  BY DEF TransferInv, Written, mode
<1> QED BY <1>1, <1>3, <1>4, <1>5, <1>6 DEF TransferInv, NobodyOversleeps

(* A panic leaves the data as it is and nobody asleep.                     *)
LEMMA PanicKeepsInv ==
  ASSUME TransferInv, Panic
  PROVE  TransferInv'
<1>1. /\ \A r \in Readers : reader'[r] = "dead"
      /\ \A f \in Fetchers : fetcher'[f] = "dead"
  BY DEF Panic
<1>2. TypeOK'
  BY DEF TransferInv, TypeOK, Panic, ranges, mode, ReaderState, FetcherState
<1>3. RangesDisjoint' /\ Written' /\ announced'.have \subseteq have'
  BY DEF TransferInv, RangesDisjoint, Written, Panic, ranges, mode
<1>4. JobsMatchFetchers' /\ ReadyReadersMissNothing' /\ ReadersWaitForWanted'
  BY <1>1 DEF JobsMatchFetchers, ReadyReadersMissNothing, ReadersWaitForWanted
<1>5. SimpleModeIsStaffed' /\ FetchersSeeWork'
  BY <1>1 DEF TransferInv, SimpleModeIsStaffed, FetchersSeeWork, Panic, mode
<1>6. DownloadsHaveOneFetcher' /\ OrchestratorIsUpToDate'
  BY DEF TransferInv, DownloadsHaveOneFetcher, OrchestratorIsUpToDate, Panic,
         ranges, mode
<1> QED BY <1>2, <1>3, <1>4, <1>5, <1>6 DEF TransferInv, NobodyOversleeps

(* A working fetcher that takes another step with the blocks it has.       *)
LEMMA WorkKeepsInv ==
  ASSUME TransferInv, NEW f \in Fetchers,
         NEW s \in FetcherState \ {"none", "new", "sleeping", "woken"},
         fetcher' = [fetcher EXCEPT ![f] = s],
         stored \subseteq stored', stored' \subseteq Blocks,
         s = "wrote" => todo[f] # {} /\ Received(f) \in stored',
         UNCHANGED << ranges, mode, readers, todo, announced, landed, panicked >>
  PROVE  TransferInv'
<1>1. /\ fetcher'[f] = s
      /\ \A g \in Fetchers \ {f} : fetcher'[g] = fetcher[g]
  BY DEF TransferInv, TypeOK
<1>2. TypeOK'
  BY DEF TransferInv, TypeOK, ranges, mode, readers
<1>3. RangesDisjoint' /\ Written' /\ announced'.have \subseteq have'
  BY DEF TransferInv, RangesDisjoint, Written, ranges, mode
<1>4. JobsMatchFetchers'
  <2> SUFFICES ASSUME NEW g \in Fetchers
               PROVE  /\ fetcher'[g] \in {"none", "new", "sleeping", "woken"}
                            => todo[g] = {}
                      /\ fetcher'[g] = "wrote"
                            => todo[g] # {} /\ Min(todo[g]) \in stored'
    BY DEF JobsMatchFetchers, Received
  <2>1. CASE g = f
    BY <2>1, <1>1 DEF Received
  <2>2. CASE g # f
    BY <2>2, <1>1 DEF TransferInv, JobsMatchFetchers, Received
  <2> QED BY <2>1, <2>2
<1>5. ReadyReadersMissNothing' /\ ReadersWaitForWanted'
  BY DEF TransferInv, NobodyOversleeps, ReadyReadersMissNothing,
         ReadersWaitForWanted, ranges, readers
<1>6. SimpleModeIsStaffed' /\ FetchersSeeWork'
  BY <1>1 DEF SimpleModeIsStaffed, FetchersSeeWork
<1>7. DownloadsHaveOneFetcher' /\ OrchestratorIsUpToDate'
  BY DEF TransferInv, DownloadsHaveOneFetcher, OrchestratorIsUpToDate, ranges, mode
<1> QED BY <1>2, <1>3, <1>4, <1>5, <1>6, <1>7 DEF TransferInv, NobodyOversleeps

-----------------------------------------------------------------------------
(* The steps of a fetcher.                                                 *)

(* A fetcher that starts takes its first job, or finds no peers.           *)
LEMMA EnterKeepsInv ==
  ASSUME TransferInv, NEW f \in Fetchers, Enter(f)
  PROVE  TransferInv'
<1>1. CASE ~ remote
  BY <1>1, PanicKeepsInv DEF Enter
<1>2. CASE remote
  <2>1. downloading \ todo[f] = downloading
    BY DEF TransferInv, JobsMatchFetchers, Enter
  <2>2. /\ TopOfLoop(f, want, readahead, downloading \ todo[f])
        /\ UNCHANGED << have, mode, readers, stored, announced, landed, panicked >>
    BY <1>2, <2>1 DEF Enter
  <2> QED BY <2>2, LoopKeepsInv DEF readers
<1> QED BY <1>1, <1>2

(* A fetcher that was woken looks for a job.                               *)
LEMMA ResumeKeepsInv ==
  ASSUME TransferInv, NEW f \in Fetchers, Resume(f)
  PROVE  TransferInv'
<1>1. downloading \ todo[f] = downloading
  BY DEF TransferInv, JobsMatchFetchers, Resume
<1>2. /\ TopOfLoop(f, want, readahead, downloading \ todo[f])
      /\ UNCHANGED << have, mode, readers, stored, announced, landed, panicked >>
  BY <1>1 DEF Resume
<1> QED BY <1>2, LoopKeepsInv DEF readers

(* The next peer is called, if there are any peers.                        *)
LEMMA PickPeerKeepsInv ==
  ASSUME TransferInv, NEW f \in Fetchers, PickPeer(f)
  PROVE  TransferInv'
<1>1. CASE ~ remote
  BY <1>1, PanicKeepsInv DEF PickPeer
<1>2. CASE remote
  BY <1>2, WorkKeepsInv DEF PickPeer, FetcherState, TransferInv, TypeOK
<1> QED BY <1>1, <1>2

(* The call goes through.                                                  *)
LEMMA CallSucceedsKeepsInv ==
  ASSUME TransferInv, NEW f \in Fetchers, CallSucceeds(f)
  PROVE  TransferInv'
  BY WorkKeepsInv DEF CallSucceeds, FetcherState, TransferInv, TypeOK

(* A refused call gives the blocks up, and its readers with them.          *)
LEMMA CallFailsKeepsInv ==
  ASSUME TransferInv, NEW f \in Fetchers, CallFails(f)
  PROVE  TransferInv'
<1>1. CASE ~ remote
  BY <1>1, PanicKeepsInv DEF CallFails
<1>2. CASE remote
  <2>1. /\ TopOfLoop(f, want \ todo[f], readahead \ todo[f], downloading \ todo[f])
        /\ WakeReaders
        /\ UNCHANGED << have, mode, request, stored, announced, landed, panicked >>
    BY <1>2 DEF CallFails
  <2> QED BY <2>1, LoopKeepsInv
<1> QED BY <1>1, <1>2

(* A block is written: it is one of the file's, and in the storage.        *)
LEMMA WriteBlockKeepsInv ==
  ASSUME TransferInv, NEW f \in Fetchers, WriteBlock(f)
  PROVE  TransferInv'
<1>1. todo[f] \in SUBSET Blocks /\ todo[f] # {}
  BY DEF TransferInv, TypeOK, WriteBlock
<1>2. Received(f) \in todo[f]
  BY <1>1, FirstBlock DEF Received
<1>3. stored' = stored \cup {Received(f)}
  BY DEF WriteBlock
<1>4. stored \subseteq stored' /\ stored' \subseteq Blocks /\ Received(f) \in stored'
  BY <1>1, <1>2, <1>3 DEF TransferInv, TypeOK
<1> QED BY <1>1, <1>4, WorkKeepsInv DEF WriteBlock, FetcherState

(* A write that fails gives the blocks up.                                 *)
LEMMA WriteFailsKeepsInv ==
  ASSUME TransferInv, NEW f \in Fetchers, WriteFails(f)
  PROVE  TransferInv'
  BY LoopKeepsInv DEF WriteFails

(* A stream that ends leaves its blocks wanted.                            *)
LEMMA StreamEndsKeepsInv ==
  ASSUME TransferInv, NEW f \in Fetchers, StreamEnds(f)
  PROVE  TransferInv'
  BY LoopKeepsInv DEF StreamEnds

(* A stream that breaks gives its blocks up unless we quit.                *)
LEMMA StreamBreaksKeepsInv ==
  ASSUME TransferInv, NEW f \in Fetchers, StreamBreaks(f)
  PROVE  TransferInv'
<1>1. CASE ~ quitFetchers /\ ~ remote
  BY <1>1, PanicKeepsInv DEF StreamBreaks
<1>2. CASE quitFetchers \/ remote
  <2> DEFINE lost == IF quitFetchers THEN {} ELSE todo[f]
  <2>1. /\ TopOfLoop(f, want \ lost, readahead \ lost, downloading \ todo[f])
        /\ ByteRangesUpdated /\ WakeReaders
        /\ UNCHANGED << have, mode, request, stored, landed, panicked >>
    BY <1>2 DEF StreamBreaks
  <2> HIDE DEF lost
  <2> QED BY <2>1, LoopKeepsInv
<1> QED BY <1>1, <1>2

-----------------------------------------------------------------------------
(* Blocks that come in.                                                    *)

(* receivedBytes keeps what concerns the data and the readers.             *)
LEMMA ReceivedKeepsData ==
  ASSUME TransferInv, NEW b \in Blocks, ReceivedBytes({b}),
         UNCHANGED << mode, request >>
  PROVE  /\ have' \in SUBSET Blocks /\ want' \in SUBSET Blocks
         /\ readahead' \in SUBSET Blocks /\ downloading' \in SUBSET Blocks
         /\ announced' \in [have : SUBSET Blocks, readnow : SUBSET Blocks,
                            readahead : SUBSET Blocks]
         /\ reader' \in [Readers -> ReaderState]
         /\ RangesDisjoint'
         /\ ReadersWaitForWanted' /\ ReadyReadersMissNothing'
         /\ OrchestratorIsUpToDate' /\ announced'.have \subseteq have'
<1>1. /\ have' = have \cup {b} /\ want' = want \ {b}
      /\ readahead' = readahead \ {b} /\ downloading' = downloading \ {b}
      /\ WakeReaders /\ ByteRangesUpdated
  BY DEF ReceivedBytes
<1>2. /\ have' \in SUBSET Blocks /\ want' \in SUBSET Blocks
      /\ readahead' \in SUBSET Blocks /\ downloading' \in SUBSET Blocks
  BY <1>1 DEF TransferInv, TypeOK
<1>3. RangesDisjoint'
  BY <1>1 DEF TransferInv, RangesDisjoint
<1>4. /\ reader' \in [Readers -> ReaderState]
      /\ ReadersWaitForWanted' /\ ReadyReadersMissNothing'
  BY <1>1, BroadcastKeepsReaders DEF TransferInv
<1>5. /\ announced' \in [have : SUBSET Blocks, readnow : SUBSET Blocks,
                         readahead : SUBSET Blocks]
      /\ OrchestratorIsUpToDate' /\ announced'.have \subseteq have'
  BY <1>1, <1>2 DEF TransferInv, TypeOK, ByteRangesUpdated, Announcement,
                    OrchestratorIsUpToDate, mode
<1> QED BY <1>2, <1>3, <1>4, <1>5

(* A fetcher accounts for the block it wrote, or finds no peers.           *)
LEMMA AccountKeepsInv ==
  ASSUME TransferInv, NEW f \in Fetchers, Account(f)
  PROVE  TransferInv'
<1>1. CASE ~ remote
  BY <1>1, PanicKeepsInv DEF Account
<1>2. CASE remote
  <2> DEFINE b == Received(f)
  <2>1. todo[f] \in SUBSET Blocks /\ todo[f] # {} /\ b \in stored
    BY DEF TransferInv, TypeOK, JobsMatchFetchers, Account
  <2>2. b \in todo[f] /\ b \in Blocks
    BY <2>1, FirstBlock DEF Received
  <2>3. /\ ReceivedBytes({b})
        /\ todo' = [todo EXCEPT ![f] = @ \ {b}]
        /\ fetcher' = [fetcher EXCEPT ![f] = "receiving"]
        /\ UNCHANGED << mode, request, stored, landed, panicked >>
    BY <1>2 DEF Account
  <2> HIDE DEF b
  <2>4. /\ have' \in SUBSET Blocks /\ want' \in SUBSET Blocks
        /\ readahead' \in SUBSET Blocks /\ downloading' \in SUBSET Blocks
        /\ announced' \in [have : SUBSET Blocks, readnow : SUBSET Blocks,
                           readahead : SUBSET Blocks]
        /\ reader' \in [Readers -> ReaderState]
        /\ RangesDisjoint'
        /\ ReadersWaitForWanted' /\ ReadyReadersMissNothing'
        /\ OrchestratorIsUpToDate' /\ announced'.have \subseteq have'
    BY <2>2, <2>3, ReceivedKeepsData
  <2>5. /\ todo'[f] = todo[f] \ {b} /\ fetcher'[f] = "receiving"
        /\ \A g \in Fetchers \ {f} : todo'[g] = todo[g] /\ fetcher'[g] = fetcher[g]
    BY <2>3 DEF TransferInv, TypeOK
  <2>6. TypeOK'
    BY <2>1, <2>3, <2>4 DEF TransferInv, TypeOK, FetcherState, mode
  <2>7. Written'
    BY <2>1, <2>2, <2>3 DEF TransferInv, Written, ReceivedBytes, mode
  <2>8. JobsMatchFetchers'
    <3> SUFFICES ASSUME NEW g \in Fetchers, g # f
                 PROVE  /\ fetcher'[g] \in {"none", "new", "sleeping", "woken"}
                              => todo'[g] = {}
                        /\ fetcher'[g] = "wrote"
                              => todo'[g] # {} /\ Min(todo'[g]) \in stored'
      BY <2>5 DEF JobsMatchFetchers, Received
    <3> QED BY <2>3, <2>5 DEF TransferInv, JobsMatchFetchers, Received
  <2>9. SimpleModeIsStaffed' /\ FetchersSeeWork'
    BY <2>5 DEF SimpleModeIsStaffed, FetchersSeeWork
  <2>10. DownloadsHaveOneFetcher'
    <3>1. downloading' = downloading \ {b} /\ have' = have \cup {b}
      BY <2>3 DEF ReceivedBytes
    <3>2. \A g \in Fetchers : todo[g] \ {b} \subseteq todo'[g]
      BY <2>5
    <3>3. \A g \in Fetchers : todo'[g] \subseteq todo[g]
      BY <2>5
    <3> QED BY <3>1, <3>2, <3>3 DEF TransferInv, DownloadsHaveOneFetcher
  <2> QED BY <2>4, <2>6, <2>7, <2>8, <2>9, <2>10 DEF TransferInv, NobodyOversleeps
<1> QED BY <1>1, <1>2

(* A pushed block is written.                                              *)
LEMMA PassiveWriteKeepsInv ==
  ASSUME TransferInv, NEW b \in Blocks, PassiveWrite(b)
  PROVE  TransferInv'
<1>1. TypeOK' /\ Written'
  BY DEF TransferInv, TypeOK, Written, PassiveWrite, ranges, mode, readers, fetchers
<1>2. /\ RangesDisjoint' /\ DownloadsHaveOneFetcher'
      /\ OrchestratorIsUpToDate' /\ announced'.have \subseteq have'
  BY DEF TransferInv, RangesDisjoint, DownloadsHaveOneFetcher,
         OrchestratorIsUpToDate, PassiveWrite, ranges, mode, fetchers
<1>3. JobsMatchFetchers'
  BY DEF TransferInv, JobsMatchFetchers, Received, PassiveWrite, fetchers
<1>4. ReadyReadersMissNothing' /\ ReadersWaitForWanted'
  BY DEF TransferInv, NobodyOversleeps, ReadyReadersMissNothing,
         ReadersWaitForWanted, PassiveWrite, ranges, readers
<1>5. SimpleModeIsStaffed' /\ FetchersSeeWork'
  BY DEF TransferInv, NobodyOversleeps, SimpleModeIsStaffed, FetchersSeeWork,
         PassiveWrite, ranges, mode, fetchers
<1> QED BY <1>1, <1>2, <1>3, <1>4, <1>5 DEF TransferInv, NobodyOversleeps

(* ... and accounted for; fetchers that were at it go on.                  *)
LEMMA PassiveReceivedKeepsInv ==
  ASSUME TransferInv, NEW b \in Blocks, PassiveReceived(b)
  PROVE  TransferInv'
<1>1. /\ ReceivedBytes({b}) /\ b \in landed /\ landed' = landed \ {b}
      /\ UNCHANGED << mode, request, fetchers, stored, panicked >>
  BY DEF PassiveReceived
<1>2. /\ have' \in SUBSET Blocks /\ want' \in SUBSET Blocks
      /\ readahead' \in SUBSET Blocks /\ downloading' \in SUBSET Blocks
      /\ announced' \in [have : SUBSET Blocks, readnow : SUBSET Blocks,
                         readahead : SUBSET Blocks]
      /\ reader' \in [Readers -> ReaderState]
      /\ RangesDisjoint'
      /\ ReadersWaitForWanted' /\ ReadyReadersMissNothing'
      /\ OrchestratorIsUpToDate' /\ announced'.have \subseteq have'
  BY <1>1, ReceivedKeepsData
<1>3. /\ have' = have \cup {b} /\ want' = want \ {b}
      /\ readahead' = readahead \ {b} /\ downloading' = downloading \ {b}
  BY <1>1 DEF ReceivedBytes
<1>4. TypeOK'
  BY <1>1, <1>2 DEF TransferInv, TypeOK, mode, fetchers
<1>5. Written'
  BY <1>1, <1>3 DEF TransferInv, TypeOK, Written, mode
<1>6. JobsMatchFetchers'
  BY <1>1 DEF TransferInv, JobsMatchFetchers, Received, fetchers
<1>7. SimpleModeIsStaffed'
  BY <1>1 DEF TransferInv, SimpleModeIsStaffed, mode, fetchers
<1>8. FetchersSeeWork'
  <2>1. NeedsDownload(want', readahead', downloading') # {}
          => NeedsDownload(want, readahead, downloading) # {}
    BY <1>3 DEF NeedsDownload
  <2> QED BY <2>1, <1>1 DEF TransferInv, NobodyOversleeps, FetchersSeeWork,
                            mode, fetchers
<1>9. DownloadsHaveOneFetcher'
  BY <1>1, <1>3 DEF TransferInv, DownloadsHaveOneFetcher, fetchers
<1> QED BY <1>2, <1>4, <1>5, <1>6, <1>7, <1>8, <1>9 DEF TransferInv, NobodyOversleeps

-----------------------------------------------------------------------------
(* The steps of a reader.                                                  *)

(* A broadcast leaves no fetcher asleep; there is one in simple mode.      *)
LEMMA BroadcastKeepsFetchers ==
  ASSUME TransferInv, WakeFetchers, todo' = todo, stored \subseteq stored',
         remote' /\ ~ quitFetchers' => remote /\ ~ quitFetchers
  PROVE  /\ fetcher' \in [Fetchers -> FetcherState]
         /\ JobsMatchFetchers'
         /\ SimpleModeIsStaffed' /\ FetchersSeeWork'
<1>1. \A f \in Fetchers :
        fetcher'[f] = IF fetcher[f] = "sleeping" THEN "woken" ELSE fetcher[f]
  BY DEF WakeFetchers
<1>2. fetcher' \in [Fetchers -> FetcherState]
  BY DEF TransferInv, TypeOK, WakeFetchers, FetcherState
<1>3. JobsMatchFetchers'
  BY <1>1 DEF TransferInv, JobsMatchFetchers, Received
<1>4. SimpleModeIsStaffed' /\ FetchersSeeWork'
  BY <1>1 DEF TransferInv, SimpleModeIsStaffed, FetchersSeeWork
<1> QED BY <1>2, <1>3, <1>4

(* A read asks for what it misses, and wakes the fetchers if there is more *)
(* to fetch.                                                               *)
LEMMA StartReadKeepsInv ==
  ASSUME TransferInv, NEW r \in Readers,
         NEW first \in 0 .. NBlocks, NEW last \in 0 .. NBlocks,
         StartRead(r, first, last)
  PROVE  TransferInv'
<1> DEFINE S            == first .. (last - 1)
           missing      == S \ have
           missingAhead == AheadOf(first, last) \ have
           at           == IF missing = {} THEN "ready" ELSE "waiting"
<1>1. S \in SUBSET Blocks /\ missingAhead \in SUBSET Blocks
  BY TransferAssumptions DEF Blocks, AheadOf
<1>2. /\ request' = [request EXCEPT ![r] = S]
      /\ reader' = [reader EXCEPT ![r] = at]
      /\ UNCHANGED << mode, stored, landed, panicked >>
  BY DEF StartRead
<1>3. \/ /\ missing = {}
         /\ UNCHANGED << ranges, fetchers, announced >>
      \/ /\ want' = want \cup missing
         /\ readahead' = (readahead \cup missingAhead) \ want'
         /\ UNCHANGED << have, downloading, todo >>
         /\ ByteRangesUpdated
         /\ WakeFetchers
  BY DEF StartRead, WidenedReadahead
<1> HIDE DEF S, missingAhead, at
<1>4. /\ have' = have /\ downloading' = downloading
      /\ want' = want \cup missing /\ readahead' \in SUBSET Blocks
      /\ RangesDisjoint'
  BY <1>1, <1>3 DEF TransferInv, TypeOK, RangesDisjoint, ranges, missingAhead
<1>5. /\ fetcher' \in [Fetchers -> FetcherState] /\ todo' = todo
      /\ JobsMatchFetchers'
      /\ SimpleModeIsStaffed' /\ FetchersSeeWork'
  <2>1. CASE UNCHANGED << ranges, fetchers, announced >>
    BY <2>1, <1>2 DEF TransferInv, TypeOK, JobsMatchFetchers, Received,
       NobodyOversleeps, SimpleModeIsStaffed, FetchersSeeWork, ranges, mode, fetchers
  <2>2. CASE WakeFetchers /\ todo' = todo
    BY <2>2, <1>2, BroadcastKeepsFetchers DEF mode
  <2> QED BY <2>1, <2>2, <1>3
<1>6. /\ announced' \in [have : SUBSET Blocks, readnow : SUBSET Blocks,
                         readahead : SUBSET Blocks]
      /\ OrchestratorIsUpToDate' /\ announced'.have \subseteq have'
  <2>1. CASE UNCHANGED << ranges, fetchers, announced >>
    BY <2>1, <1>2 DEF TransferInv, TypeOK, OrchestratorIsUpToDate, ranges, mode
  <2>2. CASE ByteRangesUpdated
    BY <2>2, <1>1, <1>2, <1>4 DEF TransferInv, TypeOK, OrchestratorIsUpToDate,
       ByteRangesUpdated, Announcement, mode
  <2> QED BY <2>1, <2>2, <1>3
<1>7. /\ reader'[r] = at /\ request'[r] = S
      /\ \A q \in Readers \ {r} : reader'[q] = reader[q] /\ request'[q] = request[q]
  BY <1>2 DEF TransferInv, TypeOK
<1>8. ReadyReadersMissNothing'
  BY <1>4, <1>7 DEF TransferInv, ReadyReadersMissNothing, at
<1>9. ReadersWaitForWanted'
  BY <1>4, <1>7 DEF TransferInv, NobodyOversleeps, ReadersWaitForWanted, at
<1>10. TypeOK'
  <2>1. want' \in SUBSET Blocks
    BY <1>1, <1>4 DEF TransferInv, TypeOK
  <2>2. reader' \in [Readers -> ReaderState] /\ request' \in [Readers -> SUBSET Blocks]
    BY <1>1, <1>2 DEF TransferInv, TypeOK, ReaderState, at
  <2> QED BY <2>1, <2>2, <1>2, <1>4, <1>5, <1>6 DEF TransferInv, TypeOK, mode
<1>11. Written' /\ DownloadsHaveOneFetcher'
  BY <1>2, <1>4, <1>5 DEF TransferInv, Written, DownloadsHaveOneFetcher, mode
<1> QED BY <1>4, <1>5, <1>6, <1>8, <1>9, <1>10, <1>11 DEF TransferInv, NobodyOversleeps

(* What only moves a reader keeps the rest.                                *)
LEMMA ReaderMoveKeepsRest ==
  ASSUME TransferInv,
         UNCHANGED << ranges, mode, fetchers, stored, announced, landed, panicked >>,
         reader' \in [Readers -> ReaderState],
         request' \in [Readers -> SUBSET Blocks],
         ReadyReadersMissNothing', ReadersWaitForWanted'
  PROVE  TransferInv'
<1>1. TypeOK' /\ Written' /\ RangesDisjoint'
  BY DEF TransferInv, TypeOK, Written, RangesDisjoint, ranges, mode, fetchers
<1>2. /\ DownloadsHaveOneFetcher'
      /\ OrchestratorIsUpToDate' /\ announced'.have \subseteq have'
  BY DEF TransferInv, DownloadsHaveOneFetcher, OrchestratorIsUpToDate, ranges, mode,
         fetchers
<1>3. JobsMatchFetchers'
  BY DEF TransferInv, JobsMatchFetchers, Received, fetchers
<1>4. SimpleModeIsStaffed' /\ FetchersSeeWork'
  BY DEF TransferInv, NobodyOversleeps, SimpleModeIsStaffed, FetchersSeeWork, ranges,
         mode, fetchers
<1> QED BY <1>1, <1>2, <1>3, <1>4 DEF TransferInv, NobodyOversleeps

(* A reader that was woken leaves with its data, gives up, or waits for    *)
(* what is still wanted.                                                   *)
LEMMA WakeUpKeepsInv ==
  ASSUME TransferInv, NEW r \in Readers, WakeUp(r)
  PROVE  TransferInv'
<1> DEFINE missing == request[r] \ have
           at      == IF missing \ want # {} THEN "failed"
                      ELSE IF missing = {} THEN "ready" ELSE "waiting"
<1>1. /\ reader' = [reader EXCEPT ![r] = at] /\ request' = request
      /\ UNCHANGED << ranges, mode, fetchers, stored, announced, landed, panicked >>
  BY DEF WakeUp
<1>2. /\ reader'[r] = at
      /\ \A q \in Readers \ {r} : reader'[q] = reader[q]
  BY <1>1 DEF TransferInv, TypeOK
<1>3. ReadyReadersMissNothing' /\ ReadersWaitForWanted'
  BY <1>1, <1>2 DEF TransferInv, NobodyOversleeps, ReadyReadersMissNothing,
     ReadersWaitForWanted, ranges
<1>4. reader' \in [Readers -> ReaderState] /\ request' \in [Readers -> SUBSET Blocks]
  BY <1>1 DEF TransferInv, TypeOK, ReaderState
<1> QED BY <1>1, <1>3, <1>4, ReaderMoveKeepsRest

(* A reader that returns is out of the picture.                            *)
LEMMA ReturnKeepsInv ==
  ASSUME TransferInv, NEW r \in Readers, Return(r)
  PROVE  TransferInv'
<1>1. /\ reader' = [reader EXCEPT ![r] = "idle"]
      /\ request' = [request EXCEPT ![r] = {}]
      /\ UNCHANGED << ranges, mode, fetchers, stored, announced, landed, panicked >>
  BY DEF Return
<1>2. /\ reader'[r] = "idle"
      /\ \A q \in Readers \ {r} : reader'[q] = reader[q] /\ request'[q] = request[q]
  BY <1>1 DEF TransferInv, TypeOK
<1>3. ReadyReadersMissNothing' /\ ReadersWaitForWanted'
  BY <1>1, <1>2 DEF TransferInv, NobodyOversleeps, ReadyReadersMissNothing,
     ReadersWaitForWanted, ranges
<1>4. reader' \in [Readers -> ReaderState] /\ request' \in [Readers -> SUBSET Blocks]
  BY <1>1 DEF TransferInv, TypeOK, ReaderState
<1> QED BY <1>1, <1>3, <1>4, ReaderMoveKeepsRest

-----------------------------------------------------------------------------
(* Switching modes.                                                        *)

(* Joining an orchestration stops the fetchers, wherever they are.         *)
LEMMA JoinKeepsInv ==
  ASSUME TransferInv, NEW at \in [Fetchers -> FetcherState],
         \A f \in Fetchers : at[f] \in {fetcher[f], "redirected"},
         JoinOrchestration(at),
         UNCHANGED << ranges, readers, todo, remote, stored, landed, panicked >>
  PROVE  TransferInv'
<1>1. /\ orchestrated' = TRUE /\ quitFetchers' = TRUE
      /\ announced' = Announcement(have, want, readahead)
      /\ \A f \in Fetchers :
           fetcher'[f] = IF at[f] = "sleeping" THEN "woken" ELSE at[f]
  BY DEF JoinOrchestration
<1>2. TypeOK'
  <2>1. cancelled' \in SUBSET Fetchers
    BY DEF JoinOrchestration
  <2>2. fetcher' \in [Fetchers -> FetcherState]
    BY DEF JoinOrchestration, FetcherState
  <2>3. joined' \in BOOLEAN /\ strays' \in 0 .. MaxStrays
    BY TransferAssumptions DEF JoinOrchestration, TransferInv, TypeOK
  <2> QED BY <1>1, <2>1, <2>2, <2>3
          DEF TransferInv, TypeOK, Announcement, ranges, readers
<1>3. RangesDisjoint' /\ Written' /\ DownloadsHaveOneFetcher'
  BY DEF TransferInv, RangesDisjoint, Written, DownloadsHaveOneFetcher, ranges
<1>4. JobsMatchFetchers'
  BY <1>1 DEF TransferInv, JobsMatchFetchers, Received
<1>5. ReadyReadersMissNothing' /\ ReadersWaitForWanted'
  BY DEF TransferInv, NobodyOversleeps, ReadyReadersMissNothing,
         ReadersWaitForWanted, ranges, readers
<1>6. SimpleModeIsStaffed' /\ FetchersSeeWork'
  BY <1>1 DEF SimpleModeIsStaffed, FetchersSeeWork
<1>7. OrchestratorIsUpToDate' /\ announced'.have \subseteq have'
  BY <1>1 DEF OrchestratorIsUpToDate, Announcement, ranges
<1> QED BY <1>2, <1>3, <1>4, <1>5, <1>6, <1>7 DEF TransferInv, NobodyOversleeps

(* A redirect joins, or leaves the mode as it is.                          *)
LEMMA RedirectedKeepsInv ==
  ASSUME TransferInv, NEW f \in Fetchers, Redirected(f)
  PROVE  TransferInv'
<1> DEFINE at == [fetcher EXCEPT ![f] = "redirected"]
<1>1. UNCHANGED << ranges, readers, todo, remote, stored, landed, panicked >>
  BY DEF Redirected
<1>2. CASE JoinOrchestration(at)
  <2>1. /\ at \in [Fetchers -> FetcherState]
        /\ \A g \in Fetchers : at[g] \in {fetcher[g], "redirected"}
    BY DEF TransferInv, TypeOK, FetcherState
  <2> QED BY <1>1, <1>2, <2>1, JoinKeepsInv
<1>3. CASE /\ fetcher' = at
           /\ UNCHANGED << orchestrated, joined, strays, quitFetchers, cancelled,
                           announced >>
  BY <1>1, <1>3, WorkKeepsInv DEF FetcherState, mode, TransferInv, TypeOK
<1> QED BY <1>2, <1>3 DEF Redirected

(* A local file in an orchestration.                                       *)
LEMMA ShareLocalFileKeepsInv ==
  ASSUME TransferInv, ShareLocalFile
  PROVE  TransferInv'
  BY JoinKeepsInv DEF ShareLocalFile, TransferInv, TypeOK

(* A local file replaces the cache: all of it is there, nothing is left to *)
(* do, and everybody is told.                                              *)
LEMMA SetLocalFileKeepsInv ==
  ASSUME TransferInv, SetLocalFile
  PROVE  TransferInv'
<1>1. /\ remote' = FALSE /\ stored' = Blocks /\ have' = Blocks
      /\ want' = {} /\ readahead' = {} /\ downloading' = {}
      /\ quitFetchers' = TRUE
      /\ ByteRangesUpdated /\ WakeReaders /\ WakeFetchers
      /\ UNCHANGED << orchestrated, joined, strays, request, todo, landed, panicked >>
  BY DEF SetLocalFile
<1>2. have \subseteq have' /\ stored \subseteq stored'
  BY <1>1 DEF TransferInv, TypeOK
<1>3. /\ reader' \in [Readers -> ReaderState]
      /\ ReadersWaitForWanted' /\ ReadyReadersMissNothing'
  BY <1>1, <1>2, BroadcastKeepsReaders DEF TransferInv
<1>4. /\ fetcher' \in [Fetchers -> FetcherState]
      /\ JobsMatchFetchers' /\ SimpleModeIsStaffed' /\ FetchersSeeWork'
  BY <1>1, <1>2, BroadcastKeepsFetchers
<1>5. /\ announced' \in [have : SUBSET Blocks, readnow : SUBSET Blocks,
                         readahead : SUBSET Blocks]
      /\ OrchestratorIsUpToDate' /\ announced'.have \subseteq have'
  BY <1>1, <1>2 DEF TransferInv, TypeOK, ByteRangesUpdated, Announcement,
     OrchestratorIsUpToDate
<1>6. cancelled' \in SUBSET Fetchers
  BY DEF SetLocalFile
<1>7. TypeOK'
  BY <1>1, <1>3, <1>4, <1>5, <1>6 DEF TransferInv, TypeOK
<1>8. RangesDisjoint' /\ Written' /\ DownloadsHaveOneFetcher'
  BY <1>1 DEF TransferInv, TypeOK, RangesDisjoint, Written, DownloadsHaveOneFetcher
<1> QED BY <1>3, <1>4, <1>5, <1>7, <1>8 DEF TransferInv, NobodyOversleeps

(* Back in simple mode, new fetchers start unless the file is local.       *)
LEMMA OrchestrationClosedKeepsInv ==
  ASSUME TransferInv, OrchestrationClosed
  PROVE  TransferInv'
<1>1. /\ orchestrated' = FALSE /\ quitFetchers' = FALSE
      /\ UNCHANGED << ranges, readers, todo, remote, joined, stored, announced,
                      landed, panicked >>
  BY DEF OrchestrationClosed, StreamOver
<1>7. strays' \in 0 .. MaxStrays
  BY TransferAssumptions DEF OrchestrationClosed, StreamOver, TransferInv, TypeOK
<1>2. RangesDisjoint' /\ Written' /\ DownloadsHaveOneFetcher'
  BY <1>1 DEF TransferInv, RangesDisjoint, Written, DownloadsHaveOneFetcher, ranges
<1>3. ReadyReadersMissNothing' /\ ReadersWaitForWanted'
  BY <1>1 DEF TransferInv, NobodyOversleeps, ReadyReadersMissNothing,
     ReadersWaitForWanted, ranges, readers
<1>4. OrchestratorIsUpToDate' /\ announced'.have \subseteq have'
  BY <1>1 DEF TransferInv, OrchestratorIsUpToDate, ranges
<1>5. CASE remote
  <2>1. PICK team \in SUBSET { f \in Fetchers : fetcher[f] = "none" } :
          /\ Cardinality(team) = Team
          /\ fetcher' = [f \in Fetchers |->
                           IF f \in team THEN "new" ELSE fetcher[f]]
          /\ cancelled' = cancelled \ team
    BY <1>5 DEF OrchestrationClosed
  <2>2. PICK f \in team : TRUE
    BY <2>1, FS_EmptySet, TransferAssumptions
  <2>3. f \in Fetchers /\ fetcher'[f] = "new"
    BY <2>1, <2>2
  <2>4. TypeOK'
    BY <1>1, <1>7, <2>1 DEF TransferInv, TypeOK, FetcherState, ranges, readers
  <2>5. JobsMatchFetchers'
    BY <1>1, <2>1 DEF TransferInv, JobsMatchFetchers, Received
  <2>6. SimpleModeIsStaffed' /\ FetchersSeeWork'
    BY <2>3 DEF SimpleModeIsStaffed, FetchersSeeWork
  <2> QED BY <1>2, <1>3, <1>4, <2>4, <2>5, <2>6 DEF TransferInv, NobodyOversleeps
<1>6. CASE ~ remote
  <2>1. UNCHANGED << fetcher, cancelled >>
    BY <1>6 DEF OrchestrationClosed
  <2>2. TypeOK'
    BY <1>1, <1>7, <2>1 DEF TransferInv, TypeOK, ranges, readers
  <2>3. JobsMatchFetchers'
    BY <1>1, <2>1 DEF TransferInv, JobsMatchFetchers, Received
  <2>4. SimpleModeIsStaffed' /\ FetchersSeeWork'
    BY <1>1, <1>6 DEF SimpleModeIsStaffed, FetchersSeeWork
  <2> QED BY <1>2, <1>3, <1>4, <2>2, <2>3, <2>4 DEF TransferInv, NobodyOversleeps
<1> QED BY <1>5, <1>6

-----------------------------------------------------------------------------
(* The theorems.                                                           *)

(* A transfer starts with its first bytes to read ahead and a team.        *)
LEMMA InitHasInv == Init => TransferInv
<1> SUFFICES ASSUME Init PROVE TransferInv
  OBVIOUS
<1>1. PICK team \in SUBSET Fetchers :
        /\ Cardinality(team) = Team
        /\ fetcher = [f \in Fetchers |-> IF f \in team THEN "new" ELSE "none"]
  BY DEF Init
<1>2. PICK f \in team : TRUE
  BY <1>1, FS_EmptySet, TransferAssumptions
<1>3. f \in Fetchers /\ fetcher[f] = "new"
  BY <1>1, <1>2
<1>4. 0 \in Blocks
  BY TransferAssumptions DEF Blocks
<1>11. strays \in 0 .. MaxStrays
  BY TransferAssumptions DEF Init
<1>5. TypeOK
  BY <1>1, <1>4, <1>11 DEF Init, TypeOK, Announcement, ReaderState, FetcherState
<1>6. RangesDisjoint /\ Written /\ announced.have \subseteq have
  BY DEF Init, RangesDisjoint, Written, Announcement
<1>7. JobsMatchFetchers
  BY <1>1 DEF Init, JobsMatchFetchers
<1>8. ReadyReadersMissNothing /\ ReadersWaitForWanted /\ OrchestratorIsUpToDate
  BY DEF Init, ReadyReadersMissNothing, ReadersWaitForWanted, OrchestratorIsUpToDate
<1>9. SimpleModeIsStaffed /\ FetchersSeeWork
  BY <1>3 DEF SimpleModeIsStaffed, FetchersSeeWork
<1>10. DownloadsHaveOneFetcher
  BY DEF Init, DownloadsHaveOneFetcher
<1> QED BY <1>5, <1>6, <1>7, <1>8, <1>9, <1>10 DEF TransferInv, NobodyOversleeps

(* Every step keeps the invariant.                                         *)
LEMMA NextKeepsInv == TransferInv /\ [Next]_vars => TransferInv'
<1> SUFFICES ASSUME TransferInv, [Next]_vars PROVE TransferInv'
  OBVIOUS
<1>1. ASSUME NEW r \in Readers, ReaderStep(r)
      PROVE  TransferInv'
  BY <1>1, StartReadKeepsInv, WakeUpKeepsInv, ReturnKeepsInv DEF ReaderStep
<1>2. ASSUME NEW f \in Fetchers, FetcherStep(f)
      PROVE  TransferInv'
  BY <1>2, EnterKeepsInv, ResumeKeepsInv, PickPeerKeepsInv, CallSucceedsKeepsInv,
     CallFailsKeepsInv, WriteBlockKeepsInv, WriteFailsKeepsInv, AccountKeepsInv,
     StreamEndsKeepsInv, StreamBreaksKeepsInv, RedirectedKeepsInv DEF FetcherStep
<1>3. CASE SetLocalFile \/ ShareLocalFile \/ OrchestrationClosed \/ StrayClosed
  BY <1>3, SetLocalFileKeepsInv, ShareLocalFileKeepsInv, OrchestrationClosedKeepsInv,
     PanicKeepsInv DEF StrayClosed
<1>4. ASSUME NEW b \in Blocks, PassiveWrite(b) \/ PassiveReceived(b)
      PROVE  TransferInv'
  BY <1>4, PassiveWriteKeepsInv, PassiveReceivedKeepsInv
<1>5. CASE UNCHANGED vars
  <2>1. /\ UNCHANGED << ranges, mode, fetchers, stored, announced, landed, panicked >>
        /\ UNCHANGED readers
    BY <1>5 DEF vars
  <2>2. /\ reader' \in [Readers -> ReaderState]
        /\ request' \in [Readers -> SUBSET Blocks]
    BY <2>1 DEF readers, TransferInv, TypeOK
  <2>3. ReadyReadersMissNothing' /\ ReadersWaitForWanted'
    BY <2>1 DEF TransferInv, NobodyOversleeps, ReadyReadersMissNothing,
       ReadersWaitForWanted, ranges, readers
  <2> QED BY <2>1, <2>2, <2>3, ReaderMoveKeepsRest
<1> QED BY <1>1, <1>2, <1>3, <1>4, <1>5 DEF Next

(* The bookkeeping of simpleFetcher, ReadAt, the passive transfer and the  *)
(* mode switches is inductive, for any number of each.                     *)
THEOREM TransferInvHolds == Spec => []TransferInv
  BY InitHasInv, NextKeepsInv, PTL DEF Spec

(* Every variable of a transfer keeps its type.                            *)
THEOREM TypesHold == Spec => []TypeOK
<1>1. TransferInv => TypeOK
  BY DEF TransferInv
<1> QED BY <1>1, TransferInvHolds, PTL

(* have, want and readahead never overlap.                                 *)
THEOREM RangesStayDisjoint == Spec => []RangesDisjoint
<1>1. TransferInv => RangesDisjoint
  BY DEF TransferInv
<1> QED BY <1>1, TransferInvHolds, PTL

(* ReadAt copies only bytes that were written to the storage.              *)
THEOREM ReadsAreBacked == Spec => []ReadsSeeWrittenData
<1>1. TransferInv => ReadsSeeWrittenData
  BY DEF TransferInv, Written, ReadyReadersMissNothing, ReadsSeeWrittenData
<1> QED BY <1>1, TransferInvHolds, PTL

(* Exactly one fetcher works on each block marked as downloading.          *)
THEOREM OneFetcherPerDownload == Spec => []DownloadsHaveOneFetcher
<1>1. TransferInv => DownloadsHaveOneFetcher
  BY DEF TransferInv
<1> QED BY <1>1, TransferInvHolds, PTL

(* No reader waits for what nobody wants, and no work is slept through.    *)
THEOREM WakeUpsAreNotLost == Spec => []NobodyOversleeps
<1>1. TransferInv => NobodyOversleeps
  BY DEF TransferInv
<1> QED BY <1>1, TransferInvHolds, PTL

(* The discovery server knows what we have and what we wait for.           *)
THEOREM OrchestratorKnows == Spec => []OrchestratorIsUpToDate
<1>1. TransferInv => OrchestratorIsUpToDate
  BY DEF TransferInv
<1> QED BY <1>1, TransferInvHolds, PTL

(* What a step announces is what the scheduler relies on: disjoint sets,   *)
(* and nothing that was announced before is gone.                          *)
THEOREM AnnouncementsStayLegal == Spec => AnnouncementsAreLegal
<1> DEFINE Legal == announced' # announced =>
                      /\ announced'.have \cap announced'.readnow = {}
                      /\ announced'.have \cap announced'.readahead = {}
                      /\ announced'.readnow \cap announced'.readahead = {}
                      /\ announced.have \subseteq announced'.have
<1>1. TransferInv /\ TransferInv' /\ [Next]_vars => Legal
  <2> SUFFICES ASSUME TransferInv, TransferInv', [Next]_vars, announced' # announced
               PROVE  Legal
    OBVIOUS
  <2>1. announced' = Announcement(have', want', readahead')
    <3>1. ASSUME NEW r \in Readers, ReaderStep(r)
          PROVE  announced' = Announcement(have', want', readahead')
      BY <3>1 DEF ReaderStep, StartRead, WakeUp, Return, ByteRangesUpdated
    <3>2. ASSUME NEW f \in Fetchers, FetcherStep(f)
          PROVE  announced' = Announcement(have', want', readahead')
      BY <3>2 DEF FetcherStep, Enter, Resume, PickPeer, CallSucceeds, CallFails,
         WriteBlock, WriteFails, Account, StreamEnds, StreamBreaks, Redirected,
         JoinOrchestration, ReceivedBytes, ByteRangesUpdated, Panic, ranges
    <3>3. CASE SetLocalFile \/ ShareLocalFile \/ OrchestrationClosed \/ StrayClosed
      BY <3>3 DEF SetLocalFile, ShareLocalFile, OrchestrationClosed, StrayClosed,
         Panic, JoinOrchestration, ByteRangesUpdated, ranges
    <3>4. ASSUME NEW b \in Blocks, PassiveWrite(b) \/ PassiveReceived(b)
          PROVE  announced' = Announcement(have', want', readahead')
      BY <3>4 DEF PassiveWrite, PassiveReceived, ReceivedBytes, ByteRangesUpdated
    <3> QED BY <3>1, <3>2, <3>3, <3>4 DEF Next, vars
  <2>2. have \subseteq have'
    <3>1. ASSUME NEW r \in Readers, ReaderStep(r)
          PROVE  have \subseteq have'
      BY <3>1 DEF ReaderStep, StartRead, WakeUp, Return, ranges
    <3>2. ASSUME NEW f \in Fetchers, FetcherStep(f)
          PROVE  have \subseteq have'
      BY <3>2 DEF FetcherStep, Enter, Resume, PickPeer, CallSucceeds, CallFails,
         WriteBlock, WriteFails, Account, StreamEnds, StreamBreaks, Redirected,
         ReceivedBytes, Panic, ranges
    <3>3. CASE SetLocalFile \/ ShareLocalFile \/ OrchestrationClosed \/ StrayClosed
      BY <3>3 DEF SetLocalFile, ShareLocalFile, OrchestrationClosed, StrayClosed,
         Panic, TransferInv, TypeOK, ranges
    <3>4. ASSUME NEW b \in Blocks, PassiveWrite(b) \/ PassiveReceived(b)
          PROVE  have \subseteq have'
      BY <3>4 DEF PassiveWrite, PassiveReceived, ReceivedBytes, ranges
    <3> QED BY <3>1, <3>2, <3>3, <3>4 DEF Next, vars, ranges
  <2> QED BY <2>1, <2>2 DEF TransferInv, RangesDisjoint, Announcement
<1> QED BY <1>1, TransferInvHolds, PTL DEF Spec, AnnouncementsAreLegal
=============================================================================
