-------------------------- MODULE ExperimentRun_proofs --------------------------
(* The final manifest of ExperimentRun, for every number of tasks, rollouts, *)
(* failures and signals and every error policy.                              *)
EXTENDS ExperimentRun, FiniteSetTheorems, TLAPS

LEMMA EpisodeInRange ==
  ASSUME TypeOK
  PROVE  episode \in Episodes
BY DEF TypeOK, episode, Episodes

LEMMA TypeInitially == Init => TypeOK
<1> SUFFICES ASSUME Init PROVE TypeOK
  OBVIOUS
<1>1. task \in Tasks /\ rollout \in Rollouts
  BY RunAssumption DEF Init, Tasks, Rollouts
<1>2. manifest \in [status: {"none", "completed", "failed", "aborted"}, episodes: Nat]
  BY DEF Init, NoManifest
<1>3. /\ directory \in [Episodes -> {"absent", "partial", "episode"}]
      /\ episodeFiles \in [Episodes -> SUBSET EpisodeFileNames]
      /\ verdicts \in [Episodes -> {"none", "started", "ok", "failed"}]
  BY DEF Init
<1> QED BY <1>1, <1>2, <1>3 DEF Init, TypeOK, ConnectPcs, AdapterState

\* What the actions leave alone, spelled out.
LEMMA Unfold ==
  /\ UNCHANGED loop => UNCHANGED <<errorPolicy, task, rollout, error, episodeCount, verdicts>>
  /\ UNCHANGED adapters => UNCHANGED <<policy, benchmark, resourcesClosed, closeRaised, caller,
                                       closingTrouble, benchmarkTrouble>>
  /\ UNCHANGED files => UNCHANGED <<runFiles, taskMetrics, directory, episodeFiles>>
  /\ UNCHANGED final => UNCHANGED <<manifest, pendingVideos, sealed>>
  /\ UNCHANGED counters => UNCHANGED <<faults, interrupts>>
BY DEF loop, adapters, closing, troubles, files, tree, final, counters

LEMMA ConnectingType ==
  ASSUME TypeOK, Connecting
  PROVE  TypeOK'
<1> USE DEF closing, troubles, tree, AdapterState
<1>1. CASE InitializeBenchmark
  BY <1>1, Unfold DEF InitializeBenchmark, TypeOK, ConnectPcs
<1>2. CASE InitializePolicy
  BY <1>2, Unfold DEF InitializePolicy, TypeOK, ConnectPcs
<1>3. CASE Negotiate \/ DescribeRun
  BY <1>3, Unfold DEF Negotiate, DescribeRun, TypeOK, ConnectPcs
<1>4. CASE WriteFirstFiles
  <2>1. PICK n \in 1..Len(FirstFiles) :
          /\ runFiles' = runFiles \union {FirstFiles[n]}
          /\ IF n = Len(FirstFiles)
             THEN pc' = "connected" /\ state' = "connected"
             ELSE UNCHANGED <<pc, state>>
    BY <1>4 DEF WriteFirstFiles
  <2> QED BY <1>4, <2>1, Unfold DEF WriteFirstFiles, TypeOK
<1> QED BY <1>1, <1>2, <1>3, <1>4 DEF Connecting

(* What execute_episode leaves behind has the types of the run's variables.  *)
LEMMA ResultType ==
  ASSUME NEW p, NEW b, NEW r \in Contract!Results(p, b)
  PROVE  /\ r.policy \in {"ready", "episode_active"}
         /\ r.benchmark \in {"ready", "episode_active"}
         /\ r.outcome.error \in {"none", "exception", "interrupt"}
<1>1. r.outcome \in Contract!Outcomes
  BY DEF Contract!Results
<1>2. r.outcome.error \in {"none", "exception", "interrupt"}
  BY <1>1 DEF Contract!Outcomes, Contract!Clean, Contract!Failed, Contract!Aborted,
              Contract!Escaped
<1> QED BY <1>2 DEF Contract!Results, Contract!AdapterStates

LEMMA EpisodeFileType ==
  ASSUME TypeOK, NEW at, NEW name \in EpisodeFileNames, NEW next,
         WriteEpisodeFile(at, name, next),
         next \in LoopPcs
  PROVE  TypeOK'
<1>1. episodeFiles' \in [Episodes -> SUBSET EpisodeFileNames]
  BY DEF WriteEpisodeFile, TypeOK
<1> QED BY <1>1, Unfold DEF WriteEpisodeFile, TypeOK, tree

LEMMA LoopingType ==
  ASSUME TypeOK, Looping
  PROVE  TypeOK'
<1> USE DEF LoopPcs, EpisodePcs
<1>1. CASE StartRun
  BY <1>1, Unfold DEF StartRun, TypeOK
<1>2. CASE ExecuteEpisode
  <2>1. PICK r \in Contract!Results(policy, benchmark) :
          /\ \/ interrupts' = interrupts + 1
             \/ UNCHANGED interrupts
          /\ \/ pc' = "except" /\ raised' = "interrupt" /\ UNCHANGED error
             \/ pc' = "make_partial" /\ error' = r.outcome.error /\ UNCHANGED raised
          /\ policy' = r.policy
          /\ benchmark' = r.benchmark
    BY <1>2 DEF ExecuteEpisode
  <2>2. verdicts' \in [Episodes -> {"none", "started", "ok", "failed"}]
    BY <1>2 DEF ExecuteEpisode, TypeOK
  <2> QED BY <1>2, <2>1, <2>2, ResultType, Unfold
          DEF ExecuteEpisode, TypeOK, closing, troubles, AdapterState
<1>3. CASE MakePartial \/ RenameEpisode
  <2>1. directory' \in [Episodes -> {"absent", "partial", "episode"}]
    BY <1>3 DEF MakePartial, RenameEpisode, TypeOK
  <2> QED BY <1>3, <2>1, Unfold DEF MakePartial, RenameEpisode, TypeOK
<1>4. CASE WriteTrace
  BY <1>4, EpisodeFileType DEF WriteTrace, EpisodeFileNames
<1>5. CASE MarkTrace
  BY <1>5, EpisodeFileType DEF MarkTrace, EpisodeFileNames
<1>6. CASE CountEpisode
  BY <1>6, Unfold DEF CountEpisode, TypeOK
<1>7. CASE WriteMetrics
  BY <1>7, EpisodeFileType DEF WriteMetrics, EpisodeFileNames
<1>8. CASE WriteMetadata
  BY <1>8, EpisodeFileType DEF WriteMetadata, EpisodeFileNames
<1>9. CASE FinishEpisode
  BY <1>9, EpisodeFileType DEF FinishEpisode, EpisodeFileNames
<1>10. CASE JudgeEpisode
  <2>1. PICK failed \in BOOLEAN :
          /\ AfterEpisode(failed)
          /\ verdicts' = [verdicts EXCEPT ![episode] = IF failed THEN "failed" ELSE "ok"]
    BY <1>10 DEF JudgeEpisode
  <2>2. verdicts' \in [Episodes -> {"none", "started", "ok", "failed"}]
    BY <2>1 DEF TypeOK
  <2>3. /\ rollout' \in Rollouts
        /\ raised' \in {"none", "exception", "interrupt"}
        /\ pc' \in {"episode", "aggregate", "except"}
    BY <2>1, RunAssumption DEF AfterEpisode, NextRollout, RaiseInRun, TypeOK, Rollouts
  <2> QED BY <1>10, <2>2, <2>3, Unfold DEF JudgeEpisode, TypeOK
<1>11. CASE WriteTaskMetrics
  BY <1>11, Unfold DEF WriteTaskMetrics, TypeOK
<1>12. CASE PostprocessTask
  <2>1. /\ task' \in Tasks /\ rollout' \in Rollouts
        /\ pc' \in {"manifest", "episode"}
    BY <1>12, RunAssumption DEF PostprocessTask, LastTask, TypeOK, Tasks, Rollouts
  <2> QED BY <1>12, <2>1, Unfold DEF PostprocessTask, TypeOK
<1>13. CASE MakeCompletedManifest
  BY <1>13, Unfold DEF MakeCompletedManifest, TypeOK, FinalPcs
<1> QED BY <1>1, <1>2, <1>3, <1>4, <1>5, <1>6, <1>7, <1>8, <1>9, <1>10, <1>11, <1>12, <1>13
        DEF Looping

LEMMA NewFileType ==
  ASSUME TypeOK, NEW at, NEW name \in {"reports", "integrity.json"}, NEW next \in FinalPcs,
         WriteNewFile(at, name, next)
  PROVE  TypeOK'
<1> QED BY Unfold DEF WriteNewFile, TypeOK, tree, FinalPcs

LEMMA FinalizingType ==
  ASSUME TypeOK, Finalizing
  PROVE  TypeOK'
<1> USE DEF FinalPcs, WritePcs, ClosePcs
<1>1. CASE EnterFinalization
  <2>1. /\ pendingVideos' \subseteq Episodes
        /\ pc' \in {"close_progress", "except", "videos"}
        /\ raised' \in {"none", "exception", "interrupt"}
    BY <1>1 DEF EnterFinalization, LeaveFinalization, TypeOK
  <2> QED BY <1>1, <2>1, Unfold DEF EnterFinalization, TypeOK
<1>2. CASE GenerateVideo
  <2>1. PICK e \in pendingVideos :
          IF Encodable(e)
          THEN /\ episodeFiles' = [episodeFiles EXCEPT ![e] = @ \union {"video.json"}]
               /\ pendingVideos' = pendingVideos \ {e}
               /\ UNCHANGED pc
          ELSE pc' = "cleanup" /\ UNCHANGED <<episodeFiles, pendingVideos>>
    BY <1>2 DEF GenerateVideo
  <2>2. episodeFiles' \in [Episodes -> SUBSET EpisodeFileNames]
    BY <2>1 DEF TypeOK, EpisodeFileNames
  <2> QED BY <1>2, <2>1, <2>2, Unfold DEF GenerateVideo, TypeOK, tree
<1>3. CASE VideosDone
  BY <1>3, Unfold DEF VideosDone, TypeOK
<1>4. CASE WriteReport
  BY <1>4, NewFileType DEF WriteReport
<1>5. CASE WriteIntegrity
  BY <1>5, NewFileType DEF WriteIntegrity
<1>6. CASE StageManifest \/ PublishManifest
  BY <1>6, Unfold DEF StageManifest, PublishManifest, TypeOK, tree, StagingName, ManifestName,
                      StagingNames, FinalNames
<1>7. CASE CleanUp
  <2>1. episodeFiles' \in [Episodes -> SUBSET EpisodeFileNames]
    BY <1>7 DEF CleanUp, Cleaned, TypeOK
  <2> QED BY <1>7, <2>1, Unfold DEF CleanUp, LeaveFinalization, TypeOK, tree
<1>8. CASE Published \/ PostprocessRun
  BY <1>8, Unfold DEF Published, PostprocessRun, TypeOK
<1>9. CASE HandleException
  BY <1>9, Unfold DEF HandleException, StatusOf, TypeOK
<1> QED BY <1>1, <1>2, <1>3, <1>4, <1>5, <1>6, <1>7, <1>8, <1>9 DEF Finalizing

LEMMA ClosingType ==
  ASSUME TypeOK, Closing
  PROVE  TypeOK'
<1> USE DEF ClosePcs, AdapterState, troubles, closing
<1>1. CASE ClosePolicy
  <2>1. /\ pc' = "close_benchmark" /\ policy' = "closed" /\ closeRaised' = FALSE
        /\ UNCHANGED <<state, raised, loop, benchmark, resourcesClosed, caller, closingTrouble,
                       benchmarkTrouble, files, final, counters, unsettled>>
    BY <1>1 DEF ClosePolicy
  <2>2. UNCHANGED <<errorPolicy, task, rollout, error, episodeCount, verdicts, runFiles,
                    taskMetrics, directory, episodeFiles, manifest, pendingVideos, faults,
                    interrupts>>
    BY <2>1, Unfold
  <2>3. /\ pc' \in ClosePcs
        /\ policy' \in AdapterState /\ benchmark' \in AdapterState
        /\ closeRaised' \in BOOLEAN
        /\ UNCHANGED <<state, raised, resourcesClosed, caller, closingTrouble, benchmarkTrouble,
                       unsettled>>
    BY <2>1 DEF TypeOK
  <2> HIDE DEF ClosePcs, AdapterState
  <2> QED BY <2>2, <2>3 DEF TypeOK
<1>2. CASE CloseBenchmark
  <2>1. /\ pc' \in {"cli_finally", "exited"} /\ benchmark' = "closed"
        /\ resourcesClosed' \in BOOLEAN
        /\ state' \in {"closed", state}
    BY <1>2 DEF CloseBenchmark, LeaveClosing
  <2> QED BY <1>2, <2>1, Unfold DEF CloseBenchmark, TypeOK
<1>3. CASE CloseRunner
  BY <1>3, Unfold DEF CloseRunner, TypeOK
<1>4. CASE CloseProgress
  BY <1>4, Unfold DEF CloseProgress, TypeOK
<1> QED BY <1>1, <1>2, <1>3, <1>4 DEF Closing

LEMMA FailuresType ==
  ASSUME TypeOK, Failures
  PROVE  TypeOK'
<1> USE DEF ClosePcs, FinalPcs, Fault
<1>1. CASE ConnectFails
  BY <1>1, Unfold DEF ConnectFails, TypeOK
<1>2. CASE WriteFails
  BY <1>2, Unfold DEF WriteFails, WriteFailure, TypeOK
<1>3. CASE FinalizationFails
  BY <1>3, Unfold DEF FinalizationFails, InExceptBlock, TypeOK
<1>4. CASE ClosePolicyFails
  BY <1>4, Unfold DEF ClosePolicyFails, AfterPolicyClose, TypeOK
<1>5. CASE CloseBenchmarkFails
  BY <1>5, Unfold DEF CloseBenchmarkFails, LeaveClosing, TypeOK
<1>6. CASE DescribeFails
  BY <1>6, Unfold DEF DescribeFails, TypeOK
<1>7. CASE HandleExceptionFails
  BY <1>7, Unfold DEF HandleExceptionFails, StatusOf, TypeOK
<1> QED BY <1>1, <1>2, <1>3, <1>4, <1>5, <1>6, <1>7 DEF Failures

LEMMA SignalsType ==
  ASSUME TypeOK, Signals
  PROVE  TypeOK'
<1> USE DEF ClosePcs, Signal
<1>1. CASE InterruptConnect
  BY <1>1, Unfold DEF InterruptConnect, TypeOK
<1>2. CASE InterruptRun
  BY <1>2, Unfold DEF InterruptRun, TypeOK
<1>3. CASE InterruptExceptBlock
  BY <1>3, Unfold DEF InterruptExceptBlock, TypeOK
<1>4. CASE InterruptClosing
  <2>1. benchmarkTrouble' \in Nat /\ pc \in ClosePcs
    BY <1>4 DEF InterruptClosing, TypeOK
  <2>2. pc' \in {"close_benchmark", "cli_finally", "exited"}
    BY <1>4, <2>1 DEF InterruptClosing, LeaveClosing
  <2> QED BY <1>4, <2>1, <2>2, Unfold DEF InterruptClosing, TypeOK
<1> QED BY <1>1, <1>2, <1>3, <1>4 DEF Signals

LEMMA TypePreserved == TypeOK /\ [Next]_vars => TypeOK'
<1> SUFFICES ASSUME TypeOK, [Next]_vars PROVE TypeOK'
  OBVIOUS
<1>1. CASE UNCHANGED vars
  BY <1>1, Unfold DEF vars, TypeOK
<1> QED BY <1>1, ConnectingType, LoopingType, FinalizingType, ClosingType, FailuresType,
           SignalsType
        DEF Next, Progress

(* The runner and its run directory keep their types (runner.py,             *)
(* filesystem.py).                                                           *)
THEOREM TypeCorrect == Spec => []TypeOK
BY TypeInitially, TypePreserved, PTL DEF Spec

-----------------------------------------------------------------------------
(* The final manifest.                                                       *)

Generated == {"reports", "integrity.json"}
AfterPublicationPcs == {"published", "postprocess_run", "except", "finalize"} \union ClosePcs
                       \union {"exited"}
BeforeFinalizationPcs == ConnectPcs \union LoopPcs \union {"connected", "episode"}

\* Until run looks for a final manifest nothing is generated.
NothingGenerated ==
  pc \in BeforeFinalizationPcs =>
    /\ manifest.status = "none"
    /\ runFiles \intersect (FinalNames \union StagingNames \union Generated) = {}

\* A staging file is left only with the report of the same attempt, which a
\* second attempt trips over; the failed manifest is staged in the except block.
StagingIsBlocked ==
  /\ pc \in {"except", "finalize", "videos", "report", "cleanup"}
       /\ StagingNames \intersect runFiles # {} => "reports" \in runFiles
  /\ ~(manifest.status \in {"failed", "aborted"}) => "manifest.failed.json.tmp" \notin runFiles
  /\ pc \in {"integrity", "stage"} =>
       StagingNames \intersect runFiles = {} /\ "reports" \in runFiles
  /\ pc = "publish" =>
       StagingNames \intersect runFiles = {StagingName} /\ "reports" \in runFiles

\* A finalization has a manifest to publish, and leaves published ones alone.
PublicationInOrder ==
  /\ pc \in FinalPcs => manifest.status # "none"
  /\ pc \in {"published", "postprocess_run"} => FinalManifests # {}
  /\ FinalManifests # {} => pc \in AfterPublicationPcs

\* The videos, then the inventory, are complete when the manifest is staged.
SealIsCurrent ==
  /\ pc = "videos" =>
       \A e \in Episodes : directory[e] # "absent" =>
         e \in pendingVideos \/ "video.json" \in episodeFiles[e]
  /\ pc \in {"report", "integrity", "stage", "publish"} =>
       \A e \in Episodes : directory[e] # "absent" => "video.json" \in episodeFiles[e]
  /\ pc \in {"stage", "publish"} =>
       /\ "integrity.json" \in runFiles
       /\ sealed = [Inventory EXCEPT !.run = @ \union {ManifestName}]

SealInv ==
  /\ TypeOK
  /\ NothingGenerated
  /\ StagingIsBlocked
  /\ SealIsCurrent
  /\ PublicationInOrder
  /\ FinalManifestSealsRun

(* Until finalization: the loops write nothing that finalization writes.     *)
LEMMA BeforeFinalization ==
  ASSUME SealInv, TypeOK', pc \in BeforeFinalizationPcs,
         pc' \in BeforeFinalizationPcs => manifest' = manifest,
         pc' \in BeforeFinalizationPcs \union {"except", "finalize", "close_policy", "cli_finally"},
         pc' = "finalize" => manifest'.status # "none",
         manifest'.status \in {"none", "completed"},
         runFiles' \intersect (FinalNames \union StagingNames \union Generated) = {}
  PROVE  SealInv'
<1>1. FinalManifests' = {} /\ StagingNames \intersect runFiles' = {}
      /\ "manifest.failed.json.tmp" \notin runFiles'
  BY DEF FinalManifests, StagingNames
<1>2. NothingGenerated'
  BY DEF SealInv, NothingGenerated
<1>3. pc' \notin {"videos", "report", "cleanup", "integrity", "stage", "publish", "published",
                 "postprocess_run"}
  BY DEF BeforeFinalizationPcs, ConnectPcs, LoopPcs, EpisodePcs
<1>4. pc' \in FinalPcs => pc' = "finalize"
  BY <1>3 DEF FinalPcs, WritePcs
<1>5. StagingIsBlocked' /\ SealIsCurrent' /\ PublicationInOrder' /\ FinalManifestSealsRun'
  BY <1>1, <1>3, <1>4 DEF StagingIsBlocked, SealIsCurrent, PublicationInOrder,
                          FinalManifestSealsRun
<1> QED BY <1>2, <1>5 DEF SealInv

(* Nothing is written and nothing more will be.                              *)
LEMMA LeftAlone ==
  ASSUME SealInv, TypeOK', UNCHANGED <<files, manifest, sealed>>,
         pc' \in ClosePcs \union {"exited", "published", "postprocess_run"},
         pc' \in {"published", "postprocess_run"} => pc \in {"published", "postprocess_run"}
  PROVE  SealInv'
<1>1. UNCHANGED <<runFiles, taskMetrics, directory, episodeFiles, manifest, sealed>>
  BY Unfold
<1>2. FinalManifests' = FinalManifests /\ Inventory' = Inventory
  BY <1>1 DEF FinalManifests, Inventory
<1>3. FinalManifestSealsRun'
  BY <1>1, <1>2 DEF SealInv, FinalManifestSealsRun
<1>4. PublicationInOrder'
  BY <1>1, <1>2 DEF SealInv, PublicationInOrder, AfterPublicationPcs, FinalPcs, WritePcs, ClosePcs
<1>5. NothingGenerated' /\ StagingIsBlocked' /\ SealIsCurrent'
  BY <1>1 DEF SealInv, NothingGenerated, StagingIsBlocked, SealIsCurrent, ClosePcs,
              BeforeFinalizationPcs, ConnectPcs, LoopPcs, EpisodePcs
<1> QED BY <1>3, <1>4, <1>5 DEF SealInv

(* A finalization that is broken off leaves what it has written.             *)
LEMMA BrokenOff ==
  ASSUME SealInv, TypeOK', UNCHANGED <<files, manifest>>,
         FinalManifests # {} => UNCHANGED sealed /\ pc' = "except",
         pc \in FinalPcs, pc' \in {"except", "cleanup"}
  PROVE  SealInv'
<1>1. UNCHANGED <<runFiles, taskMetrics, directory, episodeFiles, manifest>>
  BY Unfold
<1>2. FinalManifests' = FinalManifests /\ Inventory' = Inventory
  BY <1>1 DEF FinalManifests, Inventory
<1>3. FinalManifestSealsRun'
  BY <1>1, <1>2 DEF SealInv, FinalManifestSealsRun
<1>4. PublicationInOrder'
  BY <1>1, <1>2 DEF SealInv, PublicationInOrder, AfterPublicationPcs, FinalPcs
<1>5. StagingNames \intersect runFiles # {} => "reports" \in runFiles
  <2>1. CASE pc \in {"published", "postprocess_run"}
    BY <2>1 DEF SealInv, PublicationInOrder, FinalManifestSealsRun
  <2>2. CASE pc \notin {"published", "postprocess_run"}
    BY <2>2 DEF SealInv, StagingIsBlocked, FinalPcs, WritePcs
  <2> QED BY <2>1, <2>2
<1>6. NothingGenerated' /\ StagingIsBlocked' /\ SealIsCurrent'
  BY <1>1, <1>5 DEF SealInv, NothingGenerated, StagingIsBlocked, SealIsCurrent,
                    BeforeFinalizationPcs, ConnectPcs, LoopPcs, EpisodePcs
<1> QED BY <1>3, <1>4, <1>6 DEF SealInv

LEMMA Names ==
  /\ ManifestName \in FinalNames
  /\ StagingName \in StagingNames
  /\ ManifestName \notin StagingNames \union Generated
  /\ StagingName \notin FinalNames \union Generated
BY DEF ManifestName, StagingName, FinalNames, StagingNames, Generated

(* Nothing is published while the final manifest is still being made.        *)
LEMMA Unpublished ==
  ASSUME SealInv, pc \in WritePcs \union {"cleanup"}
  PROVE  FinalNames \intersect runFiles = {} /\ pc \notin AfterPublicationPcs
BY DEF SealInv, PublicationInOrder, AfterPublicationPcs, WritePcs, ClosePcs, FinalManifests

\* The control points of a finalization are not those before one.
LEMMA FinalIsNotBefore ==
  ASSUME NEW p \in FinalPcs \union {"except"}
  PROVE  p \notin BeforeFinalizationPcs
BY DEF FinalPcs, WritePcs, BeforeFinalizationPcs, ConnectPcs, LoopPcs, EpisodePcs

LEMMA EnterKeepsSeal ==
  ASSUME SealInv, TypeOK', EnterFinalization
  PROVE  SealInv'
<1>1. UNCHANGED <<files, manifest, sealed>> /\ pc = "finalize" /\ pc \in FinalPcs
  BY DEF EnterFinalization, FinalPcs
<1>2. CASE pc' = "close_progress"
  BY <1>1, <1>2, LeftAlone DEF ClosePcs
<1>3. CASE pc' = "except"
  BY <1>1, <1>3, BrokenOff
<1>4. CASE pc' = "videos"
  <2>1. /\ FinalNames \intersect runFiles = {}
        /\ pendingVideos' = {e \in Episodes : directory[e] # "absent"}
        /\ UNCHANGED <<runFiles, directory, episodeFiles, manifest>>
    BY <1>4, Unfold DEF EnterFinalization, LeaveFinalization, RefusesToFinalize
  <2>2. NothingGenerated'
    BY <1>4, FinalIsNotBefore DEF NothingGenerated, FinalPcs, WritePcs
  <2>3. StagingIsBlocked'
    BY <1>1, <1>4, <2>1 DEF SealInv, StagingIsBlocked
  <2>4. SealIsCurrent'
    BY <1>4, <2>1 DEF SealIsCurrent
  <2>5. PublicationInOrder' /\ FinalManifestSealsRun'
    BY <1>1, <1>4, <2>1 DEF SealInv, PublicationInOrder, FinalManifestSealsRun, FinalManifests
  <2> QED BY <2>2, <2>3, <2>4, <2>5 DEF SealInv
<1> QED BY <1>2, <1>3, <1>4 DEF EnterFinalization, LeaveFinalization

(* Videos and report: nothing is staged, nothing is published.               *)
LEMMA VideosKeepSeal ==
  ASSUME SealInv, TypeOK', GenerateVideo \/ VideosDone
  PROVE  SealInv'
<1>1. /\ pc = "videos" /\ pc' \in {"videos", "cleanup", "report"}
      /\ UNCHANGED <<runFiles, directory, manifest>>
  BY Unfold DEF GenerateVideo, VideosDone, tree
<1>2. FinalNames \intersect runFiles = {}
  BY <1>1, Unpublished DEF WritePcs
<1>3. NothingGenerated'
  BY <1>1, FinalIsNotBefore DEF NothingGenerated, FinalPcs, WritePcs
<1>4. StagingIsBlocked'
  BY <1>1 DEF SealInv, StagingIsBlocked
<1>5. PublicationInOrder' /\ FinalManifestSealsRun'
  BY <1>1, <1>2 DEF SealInv, PublicationInOrder, FinalManifestSealsRun, FinalManifests, FinalPcs,
                    WritePcs
<1>6. SealIsCurrent'
  <2>1. CASE VideosDone
    BY <1>1, <2>1, Unfold DEF VideosDone, SealInv, SealIsCurrent
  <2>2. CASE GenerateVideo
    <3>1. PICK e \in pendingVideos :
            IF Encodable(e)
            THEN /\ episodeFiles' = [episodeFiles EXCEPT ![e] = @ \union {"video.json"}]
                 /\ pendingVideos' = pendingVideos \ {e}
                 /\ UNCHANGED pc
            ELSE pc' = "cleanup" /\ UNCHANGED <<episodeFiles, pendingVideos>>
      BY <2>2 DEF GenerateVideo
    <3>2. CASE pc' = "cleanup"
      BY <3>2 DEF SealIsCurrent
    <3>3. CASE pc' # "cleanup"
      <4>1. \A f \in Episodes :
              episodeFiles'[f] = IF f = e THEN episodeFiles[f] \union {"video.json"}
                                 ELSE episodeFiles[f]
        BY <3>1, <3>3 DEF SealInv, TypeOK
      <4>2. pendingVideos' = pendingVideos \ {e} /\ pc' = "videos"
        BY <1>1, <3>1, <3>3
      <4> QED BY <1>1, <4>1, <4>2 DEF SealInv, SealIsCurrent
    <3> QED BY <3>2, <3>3
  <2> QED BY <2>1, <2>2
<1> QED BY <1>3, <1>4, <1>5, <1>6 DEF SealInv

LEMMA ReportKeepsSeal ==
  ASSUME SealInv, TypeOK', WriteReport
  PROVE  SealInv'
<1>1. /\ pc = "report" /\ pc \in FinalPcs
      /\ UNCHANGED <<tree, episodeFiles, manifest, sealed, directory>>
  BY DEF WriteReport, WriteNewFile, FinalPcs, WritePcs, tree
<1>2. FinalNames \intersect runFiles = {}
  BY <1>1, Unpublished DEF WritePcs
<1>3. CASE "reports" \in runFiles
  BY <1>1, <1>2, <1>3, BrokenOff DEF WriteReport, WriteNewFile, files, FinalManifests
<1>4. CASE "reports" \notin runFiles
  <2>1. pc' = "integrity" /\ runFiles' = runFiles \union {"reports"}
    BY <1>4 DEF WriteReport, WriteNewFile
  <2>2. StagingNames \intersect runFiles' = {} /\ FinalNames \intersect runFiles' = {}
    BY <1>1, <1>2, <1>4, <2>1 DEF SealInv, StagingIsBlocked, StagingNames, FinalNames
  <2>3. NothingGenerated'
    BY <2>1, FinalIsNotBefore DEF NothingGenerated, FinalPcs, WritePcs
  <2>4. StagingIsBlocked'
    BY <2>1, <2>2 DEF StagingIsBlocked, StagingNames
  <2>5. SealIsCurrent'
    BY <1>1, <2>1 DEF SealInv, SealIsCurrent
  <2>6. PublicationInOrder' /\ FinalManifestSealsRun'
    BY <1>1, <2>1, <2>2 DEF SealInv, PublicationInOrder, FinalManifestSealsRun, FinalManifests
  <2> QED BY <2>3, <2>4, <2>5, <2>6 DEF SealInv
<1> QED BY <1>3, <1>4

LEMMA IntegrityKeepsSeal ==
  ASSUME SealInv, TypeOK', WriteIntegrity
  PROVE  SealInv'
<1>1. /\ pc = "integrity" /\ pc \in FinalPcs
      /\ UNCHANGED <<tree, episodeFiles, manifest, directory, taskMetrics>>
      /\ sealed' = [Inventory EXCEPT !.run = @ \union {ManifestName}]
  BY DEF WriteIntegrity, WriteNewFile, FinalPcs, WritePcs, tree
<1>2. FinalNames \intersect runFiles = {}
  BY <1>1, Unpublished DEF WritePcs
<1>3. CASE "integrity.json" \in runFiles
  BY <1>1, <1>2, <1>3, BrokenOff DEF WriteIntegrity, WriteNewFile, files, FinalManifests
<1>4. CASE "integrity.json" \notin runFiles
  <2>1. pc' = "stage" /\ runFiles' = runFiles \union {"integrity.json"}
    BY <1>4 DEF WriteIntegrity, WriteNewFile
  <2>2. StagingNames \intersect runFiles' = {} /\ FinalNames \intersect runFiles' = {}
        /\ "reports" \in runFiles'
    BY <1>1, <1>2, <2>1 DEF SealInv, StagingIsBlocked, StagingNames, FinalNames
  <2>3. NothingGenerated'
    BY <2>1, FinalIsNotBefore DEF NothingGenerated, FinalPcs, WritePcs
  <2>4. StagingIsBlocked'
    BY <2>1, <2>2 DEF StagingIsBlocked, StagingNames
  <2>5. Inventory' = Inventory /\ ManifestName' = ManifestName
    BY <1>1, <2>1 DEF Inventory, ManifestName
  <2>6. SealIsCurrent'
    BY <1>1, <2>1, <2>5 DEF SealInv, SealIsCurrent
  <2>7. PublicationInOrder' /\ FinalManifestSealsRun'
    BY <1>1, <2>1, <2>2 DEF SealInv, PublicationInOrder, FinalManifestSealsRun, FinalManifests
  <2> QED BY <2>3, <2>4, <2>6, <2>7 DEF SealInv
<1> QED BY <1>3, <1>4

LEMMA StagingKeepsSeal ==
  ASSUME SealInv, TypeOK', StageManifest
  PROVE  SealInv'
<1>1. /\ pc = "stage" /\ pc' = "publish" /\ runFiles' = runFiles \union {StagingName}
      /\ UNCHANGED <<taskMetrics, episodeFiles, manifest, sealed, directory>>
  BY DEF StageManifest, tree, final
<1>2. FinalNames \intersect runFiles = {} /\ pc \in FinalPcs
  BY <1>1, Unpublished DEF WritePcs, FinalPcs
<1>3. FinalNames \intersect runFiles' = {}
  BY <1>1, <1>2, Names
<1>4. NothingGenerated'
  BY <1>1, FinalIsNotBefore DEF NothingGenerated, FinalPcs, WritePcs
<1>5. Inventory' = Inventory /\ ManifestName' = ManifestName /\ StagingName' = StagingName
  BY <1>1, Names DEF Inventory, ManifestName, StagingName
<1>6. StagingNames \intersect runFiles' = {StagingName} /\ "reports" \in runFiles'
  BY <1>1, Names DEF SealInv, StagingIsBlocked
<1>7. ~(manifest.status \in {"failed", "aborted"}) => StagingName # "manifest.failed.json.tmp"
  BY <1>2 DEF SealInv, PublicationInOrder, StagingName, TypeOK
<1>8. StagingIsBlocked'
  BY <1>1, <1>5, <1>6, <1>7 DEF SealInv, StagingIsBlocked
<1>9. SealIsCurrent'
  BY <1>1, <1>5 DEF SealInv, SealIsCurrent
<1>10. PublicationInOrder' /\ FinalManifestSealsRun'
  BY <1>1, <1>2, <1>3 DEF SealInv, PublicationInOrder, FinalManifestSealsRun, FinalManifests,
                          FinalPcs
<1> QED BY <1>4, <1>8, <1>9, <1>10 DEF SealInv

(* The rename publishes exactly the directory that integrity.json lists.     *)
LEMMA PublicationSeals ==
  ASSUME SealInv, TypeOK', PublishManifest
  PROVE  SealInv'
<1>1. /\ pc = "publish" /\ pc' = "published"
      /\ runFiles' = (runFiles \ {StagingName}) \union {ManifestName}
      /\ UNCHANGED <<taskMetrics, episodeFiles, manifest, sealed, directory>>
  BY DEF PublishManifest, tree, final
<1>2. FinalNames \intersect runFiles = {} /\ pc \in FinalPcs
  BY <1>1, Unpublished DEF WritePcs, FinalPcs
<1>3. /\ StagingNames \intersect runFiles = {StagingName}
      /\ "integrity.json" \in runFiles
      /\ sealed = [Inventory EXCEPT !.run = @ \union {ManifestName}]
      /\ \A e \in Episodes : directory[e] # "absent" => "video.json" \in episodeFiles[e]
  BY <1>1 DEF SealInv, StagingIsBlocked, SealIsCurrent
<1>4. FinalNames \intersect runFiles' = {ManifestName}
  BY <1>1, <1>2, Names
<1>5. StagingNames \intersect runFiles' = {}
  BY <1>1, <1>3, Names
<1>6. "integrity.json" \in runFiles'
  BY <1>1, <1>3, Names DEF Generated
<1>7. sealed' = Inventory'
  <2>1. runFiles' \ (StagingNames \union {"integrity.json"})
          = (runFiles \ (StagingNames \union {"integrity.json"})) \union {ManifestName}
    BY <1>1, Names DEF Generated
  <2> QED BY <1>1, <1>3, <2>1 DEF Inventory
<1>8. FinalManifestSealsRun'
  <2>1. Cardinality({ManifestName}) = 1
    BY FS_Singleton
  <2> QED BY <1>1, <1>3, <1>4, <1>5, <1>6, <1>7, <2>1 DEF FinalManifestSealsRun, FinalManifests
<1>9. NothingGenerated'
  BY <1>1, FinalIsNotBefore DEF NothingGenerated, FinalPcs
<1>10. StagingIsBlocked' /\ SealIsCurrent'
  BY <1>1, <1>5 DEF StagingIsBlocked, SealIsCurrent, StagingNames
<1>11. PublicationInOrder'
  BY <1>1, <1>2, <1>4 DEF SealInv, PublicationInOrder, FinalManifests, AfterPublicationPcs
<1> QED BY <1>8, <1>9, <1>10, <1>11 DEF SealInv

(* A failed publication is cleaned up: the run can still be marked failed.   *)
LEMMA CleaningKeepsSeal ==
  ASSUME SealInv, TypeOK', CleanUp
  PROVE  SealInv'
<1>1. /\ pc = "cleanup" /\ pc' \in {"close_progress", "except"}
      /\ runFiles' = runFiles \ {StagingName, "reports", "integrity.json"}
      /\ UNCHANGED manifest
      /\ pc' = "except" => ~InExceptBlock
  BY DEF CleanUp, LeaveFinalization, final
<1>2. FinalNames \intersect runFiles = {} /\ pc \in FinalPcs
  BY <1>1, Unpublished DEF FinalPcs
<1>3. FinalManifests' = {}
  BY <1>1, <1>2 DEF FinalManifests
<1>4. pc' = "except" => StagingNames \intersect runFiles' = {}
  <2> SUFFICES ASSUME pc' = "except" PROVE StagingNames \intersect runFiles' = {}
    OBVIOUS
  <2>1. ~(manifest.status \in {"failed", "aborted"})
    BY <1>1 DEF InExceptBlock
  <2>2. "manifest.failed.json.tmp" \notin runFiles
    BY <2>1 DEF SealInv, StagingIsBlocked
  <2>3. StagingName = "manifest.completed.json.tmp"
    BY <1>2, <2>1 DEF SealInv, PublicationInOrder, TypeOK, StagingName
  <2> QED BY <1>1, <2>2, <2>3 DEF StagingNames
<1>5. StagingIsBlocked'
  BY <1>1, <1>4 DEF SealInv, StagingIsBlocked
<1>6. NothingGenerated'
  BY <1>1, FinalIsNotBefore DEF NothingGenerated, BeforeFinalizationPcs, ConnectPcs, LoopPcs,
                                EpisodePcs
<1>7. SealIsCurrent' /\ FinalManifestSealsRun'
  BY <1>1, <1>3 DEF SealIsCurrent, FinalManifestSealsRun
<1>8. PublicationInOrder'
  BY <1>1, <1>3 DEF PublicationInOrder, FinalPcs, WritePcs
<1> QED BY <1>5, <1>6, <1>7, <1>8 DEF SealInv

LEMMA ExceptKeepsSeal ==
  ASSUME SealInv, TypeOK', HandleException
  PROVE  SealInv'
<1>1. /\ pc = "except" /\ pc' = "finalize"
      /\ UNCHANGED <<runFiles, taskMetrics, episodeFiles, sealed, directory>>
      /\ manifest'.status \in {"failed", "aborted"}
  BY Unfold DEF HandleException, StatusOf
<1>2. FinalManifests' = FinalManifests /\ Inventory' = Inventory
  BY <1>1 DEF FinalManifests, Inventory
<1>3. FinalManifestSealsRun'
  BY <1>1, <1>2 DEF SealInv, FinalManifestSealsRun
<1>4. PublicationInOrder'
  BY <1>1, <1>2 DEF PublicationInOrder, AfterPublicationPcs
<1>5. NothingGenerated'
  BY <1>1, FinalIsNotBefore DEF NothingGenerated, FinalPcs
<1>6. StagingIsBlocked' /\ SealIsCurrent'
  BY <1>1 DEF SealInv, StagingIsBlocked, SealIsCurrent
<1> QED BY <1>3, <1>4, <1>5, <1>6 DEF SealInv

LEMMA FinalizingKeepsSeal ==
  ASSUME SealInv, TypeOK', Finalizing
  PROVE  SealInv'
<1>1. CASE Published \/ PostprocessRun
  <2>1. /\ pc \in {"published", "postprocess_run"}
        /\ pc' \in {"postprocess_run", "close_progress"}
        /\ UNCHANGED <<files, manifest, sealed>>
    BY <1>1 DEF Published, PostprocessRun, final
  <2> QED BY <2>1, LeftAlone DEF ClosePcs
<1> QED BY <1>1, EnterKeepsSeal, VideosKeepSeal, ReportKeepsSeal, IntegrityKeepsSeal,
           StagingKeepsSeal, PublicationSeals, CleaningKeepsSeal, ExceptKeepsSeal
        DEF Finalizing

LEMMA ConnectingKeepsSeal ==
  ASSUME SealInv, TypeOK', Connecting
  PROVE  SealInv'
<1>1. /\ pc \in ConnectPcs
      /\ pc' \in ConnectPcs \union {"connected"}
      /\ UNCHANGED manifest
  BY DEF Connecting, InitializeBenchmark, InitializePolicy, Negotiate, DescribeRun, WriteFirstFiles,
         ConnectPcs, final
<1>2. runFiles \intersect (FinalNames \union StagingNames \union Generated) = {}
      /\ manifest.status = "none"
  BY <1>1 DEF SealInv, NothingGenerated, BeforeFinalizationPcs
<1>3. runFiles' \intersect (FinalNames \union StagingNames \union Generated) = {}
  <2>1. CASE UNCHANGED runFiles
    BY <1>2, <2>1
  <2>2. CASE WriteFirstFiles
    <3>1. PICK n \in 1..Len(FirstFiles) : runFiles' = runFiles \union {FirstFiles[n]}
      BY <2>2 DEF WriteFirstFiles
    <3>2. FirstFiles[n] \in {"manifest.started.json", "source_config.yaml",
                             "resolved_config.yaml", "plan.json", "connection.json"}
      BY <3>1 DEF FirstFiles
    <3>3. FirstFiles[n] \notin FinalNames \union StagingNames \union Generated
      BY <3>2 DEF FinalNames, StagingNames, Generated
    <3> QED BY <1>2, <3>1, <3>3
  <2> QED BY <2>1, <2>2, Unfold
    DEF Connecting, InitializeBenchmark, InitializePolicy, Negotiate, DescribeRun
<1> QED BY <1>1, <1>2, <1>3, BeforeFinalization DEF BeforeFinalizationPcs, ConnectPcs

LEMMA LoopingKeepsSeal ==
  ASSUME SealInv, TypeOK', Looping
  PROVE  SealInv'
<1>1. /\ pc \in LoopPcs \union {"connected", "episode"}
      /\ UNCHANGED runFiles
  BY Unfold DEF Looping, StartRun, ExecuteEpisode, MakePartial, WriteTrace, MarkTrace,
         RenameEpisode, CountEpisode, WriteMetrics, WriteMetadata, FinishEpisode, JudgeEpisode,
         WriteTaskMetrics, PostprocessTask, MakeCompletedManifest, WriteEpisodeFile, LoopPcs,
         EpisodePcs
<1>2. runFiles \intersect (FinalNames \union StagingNames \union Generated) = {}
      /\ manifest.status = "none"
  BY <1>1 DEF SealInv, NothingGenerated, BeforeFinalizationPcs
<1>3. CASE MakeCompletedManifest
  <2>1. pc' = "finalize" /\ manifest'.status = "completed"
    BY <1>3 DEF MakeCompletedManifest
  <2> QED BY <1>1, <1>2, <2>1, BeforeFinalization
          DEF BeforeFinalizationPcs, ConnectPcs, LoopPcs, EpisodePcs
<1>4. CASE ~MakeCompletedManifest
  <2>1. pc' \in LoopPcs \union {"episode", "except"} /\ UNCHANGED manifest
    <3>1. CASE JudgeEpisode \/ PostprocessTask \/ ExecuteEpisode
      BY <3>1, Unfold DEF JudgeEpisode, AfterEpisode, NextRollout, RaiseInRun, PostprocessTask,
                          ExecuteEpisode, LoopPcs, EpisodePcs
    <3>2. CASE ~(JudgeEpisode \/ PostprocessTask \/ ExecuteEpisode)
      BY <1>4, <3>2, Unfold DEF Looping, StartRun, MakePartial, WriteTrace, MarkTrace,
         RenameEpisode, CountEpisode, WriteMetrics, WriteMetadata, FinishEpisode,
         WriteTaskMetrics, WriteEpisodeFile, LoopPcs, EpisodePcs
    <3> QED BY <3>1, <3>2
  <2> QED BY <1>1, <1>2, <2>1, BeforeFinalization
          DEF BeforeFinalizationPcs, ConnectPcs, LoopPcs, EpisodePcs
<1> QED BY <1>3, <1>4

LEMMA ClosingKeepsSeal ==
  ASSUME SealInv, TypeOK', Closing
  PROVE  SealInv'
<1>1. UNCHANGED <<files, manifest, sealed>> /\ pc' \in ClosePcs \union {"exited"}
  BY DEF Closing, CloseProgress, ClosePolicy, CloseBenchmark, CloseRunner, LeaveClosing, ClosePcs,
       final
<1> QED BY <1>1, LeftAlone DEF ClosePcs

LEMMA FailuresKeepSeal ==
  ASSUME SealInv, TypeOK', Failures
  PROVE  SealInv'
<1>1. UNCHANGED <<files, manifest, sealed>>
  BY DEF Failures, ConnectFails, DescribeFails, HandleExceptionFails, WriteFails,
       FinalizationFails, ClosePolicyFails,
         CloseBenchmarkFails, final
<1>2. CASE \/ ConnectFails \/ DescribeFails \/ HandleExceptionFails \/ ClosePolicyFails
           \/ CloseBenchmarkFails
  <2>1. pc' \in ClosePcs \union {"exited"}
    BY <1>2 DEF ConnectFails, DescribeFails, HandleExceptionFails, ClosePolicyFails,
         AfterPolicyClose, CloseBenchmarkFails,
                LeaveClosing, ClosePcs
  <2> QED BY <1>1, <2>1, LeftAlone DEF ClosePcs
<1>3. CASE WriteFails
  <2>1. pc \in BeforeFinalizationPcs /\ pc' = "except" /\ UNCHANGED <<runFiles, manifest>>
    BY <1>1, <1>3, Unfold DEF WriteFails, WriteFailure, BeforeFinalizationPcs, LoopPcs
  <2>2. /\ runFiles' \intersect (FinalNames \union StagingNames \union Generated) = {}
        /\ manifest'.status = "none"
    BY <2>1 DEF SealInv, NothingGenerated
  <2> QED BY <2>1, <2>2, BeforeFinalization, FinalIsNotBefore
<1>4. CASE FinalizationFails
  <2>1. pc \in WritePcs /\ pc' = "cleanup"
    BY <1>4 DEF FinalizationFails
  <2> QED BY <1>1, <2>1, BrokenOff, Unpublished DEF FinalPcs, FinalManifests
<1> QED BY <1>2, <1>3, <1>4 DEF Failures

LEMMA SignalsKeepSeal ==
  ASSUME SealInv, TypeOK', Signals
  PROVE  SealInv'
<1>1. UNCHANGED <<files, manifest, sealed>>
  BY DEF Signals, InterruptConnect, InterruptRun, InterruptExceptBlock, InterruptClosing, final
<1>2. CASE InterruptConnect \/ InterruptExceptBlock
  BY <1>1, <1>2, LeftAlone DEF InterruptConnect, InterruptExceptBlock, ClosePcs
<1>3. CASE InterruptClosing
  <2>1. pc' \in ClosePcs \union {"exited"}
    BY <1>3 DEF InterruptClosing, LeaveClosing, ClosePcs
  <2> QED BY <1>1, <2>1, LeftAlone DEF ClosePcs
<1>4. CASE InterruptRun /\ pc \in LoopPcs
  <2>1. pc \in BeforeFinalizationPcs /\ pc' = "except" /\ UNCHANGED <<runFiles, manifest>>
    BY <1>1, <1>4, Unfold DEF InterruptRun, BeforeFinalizationPcs
  <2>2. /\ runFiles' \intersect (FinalNames \union StagingNames \union Generated) = {}
        /\ manifest'.status = "none"
    BY <2>1 DEF SealInv, NothingGenerated
  <2> QED BY <2>1, <2>2, BeforeFinalization, FinalIsNotBefore
<1>5. CASE InterruptRun /\ pc \in FinalPcs
  BY <1>1, <1>5, BrokenOff DEF InterruptRun
<1> QED BY <1>2, <1>3, <1>4, <1>5 DEF Signals, InterruptRun

LEMMA SealInitially == Init => SealInv
<1> SUFFICES ASSUME Init PROVE SealInv
  OBVIOUS
<1>1. /\ pc = "initialize_benchmark" /\ pc \in ConnectPcs /\ pc \notin FinalPcs
      /\ runFiles = {} /\ manifest.status = "none"
  BY DEF Init, ConnectPcs, FinalPcs, WritePcs, NoManifest
<1>2. FinalManifests = {}
  BY <1>1 DEF FinalManifests
<1> QED BY <1>1, <1>2, TypeInitially
        DEF SealInv, NothingGenerated, StagingIsBlocked, SealIsCurrent, PublicationInOrder,
            FinalManifestSealsRun

LEMMA SealPreserved == SealInv /\ [Next]_vars => SealInv'
<1> SUFFICES ASSUME SealInv, [Next]_vars PROVE SealInv'
  OBVIOUS
<1>1. TypeOK'
  BY TypePreserved DEF SealInv
<1>2. CASE UNCHANGED vars
  <2>1. UNCHANGED <<pc, runFiles, taskMetrics, directory, episodeFiles, manifest, pendingVideos,
                    sealed>>
    BY <1>2, Unfold DEF vars
  <2>2. /\ FinalManifests' = FinalManifests /\ Inventory' = Inventory
        /\ ManifestName' = ManifestName /\ StagingName' = StagingName
    BY <2>1 DEF FinalManifests, Inventory, ManifestName, StagingName
  <2>3. FinalManifestSealsRun' /\ PublicationInOrder' /\ NothingGenerated'
    BY <2>1, <2>2 DEF SealInv, FinalManifestSealsRun, PublicationInOrder, NothingGenerated
  <2>4. StagingIsBlocked' /\ SealIsCurrent'
    BY <2>1, <2>2 DEF SealInv, StagingIsBlocked, SealIsCurrent
  <2> QED BY <1>1, <2>3, <2>4 DEF SealInv
<1> QED BY <1>1, <1>2, ConnectingKeepsSeal, LoopingKeepsSeal, FinalizingKeepsSeal,
           ClosingKeepsSeal, FailuresKeepSeal, SignalsKeepSeal
        DEF Next, Progress

(* A published manifest is the only one and closes exactly the directory its *)
(* integrity.json lists (filesystem.py:212-236), whatever fails or           *)
(* interrupts, and however often.                                            *)
THEOREM FinalManifestSeals == Spec => []FinalManifestSealsRun
<1>1. SealInv => FinalManifestSealsRun
  BY DEF SealInv
<1> QED BY <1>1, SealInitially, SealPreserved, PTL DEF Spec

(* No step after the publication changes a file of the run.                  *)
THEOREM FinalizedRunsAreImmutable == Spec => FinalizedRunIsImmutable
<1>1. SealInv /\ [Next]_vars => [FinalManifests # {} => UNCHANGED files]_vars
  <2> SUFFICES ASSUME SealInv, Next, FinalManifests # {} PROVE UNCHANGED files
    BY DEF FinalManifests
  <2>1. pc \in AfterPublicationPcs
    BY DEF SealInv, PublicationInOrder
  <2>2. pc \notin BeforeFinalizationPcs /\ pc \notin WritePcs \union {"cleanup"}
    BY <2>1 DEF AfterPublicationPcs, ClosePcs, BeforeFinalizationPcs, ConnectPcs, LoopPcs,
                EpisodePcs, WritePcs
  <2>3. ~Connecting /\ (Looping => UNCHANGED files)
    BY <2>2 DEF Connecting, InitializeBenchmark, InitializePolicy, Negotiate, DescribeRun,
         WriteFirstFiles,
         Looping, StartRun, ExecuteEpisode, MakePartial, WriteTrace, MarkTrace,
         RenameEpisode, CountEpisode, WriteMetrics, WriteMetadata, FinishEpisode, JudgeEpisode,
         WriteTaskMetrics, PostprocessTask, MakeCompletedManifest, WriteEpisodeFile, LoopPcs,
         EpisodePcs, BeforeFinalizationPcs, ConnectPcs
  <2>4. CASE Finalizing
    BY <2>2, <2>4 DEF Finalizing, EnterFinalization, GenerateVideo, VideosDone, WriteReport,
         WriteIntegrity, WriteNewFile, StageManifest, PublishManifest, CleanUp, Published,
         PostprocessRun, HandleException, WritePcs
  <2>5. CASE Closing \/ Failures \/ Signals
    BY <2>5 DEF Closing, CloseProgress, ClosePolicy, CloseBenchmark, CloseRunner, Failures,
         ConnectFails, DescribeFails, WriteFails, FinalizationFails, HandleExceptionFails,
         ClosePolicyFails, CloseBenchmarkFails, Signals,
         InterruptConnect, InterruptRun, InterruptExceptBlock, InterruptClosing
  <2> QED BY <2>3, <2>4, <2>5 DEF Next, Progress
<1> QED BY <1>1, SealInitially, SealPreserved, PTL DEF Spec, FinalizedRunIsImmutable

-----------------------------------------------------------------------------
(* The loops over tasks and rollouts.                                        *)

\* Control points before execute_episode is called for the current episode,
\* from then until it is counted, until it is judged, and after that.
UnstartedPcs == ConnectPcs \union {"connected", "episode"}
UncountedPcs == {"make_partial", "write_trace", "mark_trace", "rename", "count"}
UnjudgedPcs == {"metrics", "metadata", "finish_episode", "judge"}
JudgedPcs == {"aggregate", "postprocess_task", "manifest"}

\* The loops are over, and the run is, or is about to be, called completed.
LoopsDone ==
  \/ pc = "manifest"
  \/ manifest.status = "completed"
  \/ "manifest.completed.json" \in runFiles

\* What the current episode's directory holds at each control point.
WrittenFiles ==
  CASE pc = "mark_trace" -> {"trace.json"}
    [] pc \in {"rename", "count", "metrics"} -> {"trace.json", "trace.finalized.json"}
    [] pc = "metadata" -> {"trace.json", "trace.finalized.json", "metrics.episode.json"}
    [] pc = "finish_episode" -> CanonicalFiles \ {"finalized.json"}
    [] pc \in {"judge"} \union JudgedPcs -> CanonicalFiles
    [] OTHER -> {}

\* The loops reach the episodes in order: the later ones are untouched, the
\* earlier ones were attempted as far as the error policy called for them.
EpisodesInOrder ==
  /\ \A e \in Episodes : Earlier(episode, e) => verdicts[e] = "none"
  /\ pc \in UnstartedPcs => verdicts[episode] = "none"
  /\ pc \in UncountedPcs \union UnjudgedPcs => verdicts[episode] = "started"
  /\ pc \in JudgedPcs => verdicts[episode] \in {"ok", "failed"}
  /\ \A e \in Episodes : Earlier(e, episode) /\ Due(e) => e \in Attempted

\* The loops go past an episode only as the error policy lets them.
PolicyObeyed ==
  /\ Due(episode)
  /\ \A e \in Attempted : Due(e)
  /\ pc \in JudgedPcs =>
       /\ verdicts[episode] = "failed" => errorPolicy # "stop_run"
       /\ rollout = RolloutCount \/ (verdicts[episode] = "failed" /\ errorPolicy = "continue_run")
  /\ pc = "manifest" => task = TaskCount

\* The run directory holds what the loops have passed.
DirectoryFollows ==
  /\ OnlyLastEpisodeIncomplete
  /\ \A e \in Episodes \ Attempted : directory[e] = "absent"
  /\ \A e \in Episodes : directory[e] = "episode" => "trace.json" \in episodeFiles[e]
  /\ WrittenFiles \subseteq episodeFiles[episode]
  /\ pc \in {"count"} \union UnjudgedPcs \union JudgedPcs => directory[episode] = "episode"
  /\ \A t \in Tasks : t < task => t \in taskMetrics
  /\ pc \in {"postprocess_task", "manifest"} => task \in taskMetrics

EpisodesCounted ==
  /\ pc \in UnstartedPcs \union UncountedPcs => episodeCount = Cardinality(Attempted \ {episode})
  /\ pc \in UnjudgedPcs \union JudgedPcs => episodeCount = Cardinality(Attempted)

\* What a completed run has done; nothing takes any of it back.
AllDone ==
  /\ \A e \in Episodes : Due(e) => e \in Attempted
  /\ taskMetrics = Tasks
  /\ \A e \in Attempted : directory[e] = "episode" /\ CanonicalFiles \subseteq episodeFiles[e]
  /\ episodeCount = Cardinality(Attempted)

LoopInv ==
  /\ EpisodesInOrder
  /\ PolicyObeyed
  /\ DirectoryFollows
  /\ EpisodesCounted
  /\ LoopsDone => AllDone

\* The order of the episodes is total.
LEMMA EpisodeOrder ==
  ASSUME NEW e \in Episodes, NEW f \in Episodes
  PROVE  /\ Earlier(e, f) \/ e = f \/ Earlier(f, e)
         /\ ~(Earlier(e, f) /\ Earlier(f, e))
         /\ ~Earlier(e, e)
<1>1. PICK t \in Tasks, r \in Rollouts : e = <<t, r>>
  BY DEF Episodes
<1>2. PICK u \in Tasks, q \in Rollouts : f = <<u, q>>
  BY DEF Episodes
<1>3. t \in Int /\ r \in Int /\ u \in Int /\ q \in Int
  BY DEF Tasks, Rollouts
<1> QED BY <1>1, <1>2, <1>3 DEF Earlier

LEMMA EpisodesFinite == IsFiniteSet(Episodes)
<1>1. IsFiniteSet(Tasks) /\ IsFiniteSet(Rollouts)
  BY RunAssumption, FS_Interval DEF Tasks, Rollouts
<1> QED BY <1>1, FS_Product DEF Episodes

\* Whether an episode is due depends on the failures before it only.
LEMMA DueUnchanged ==
  ASSUME NEW e \in Episodes, UNCHANGED errorPolicy,
         \A f \in Episodes : Earlier(f, e) => (verdicts'[f] = "failed" <=> verdicts[f] = "failed")
  PROVE  Due(e)' <=> Due(e)
BY DEF Due

\* The control points of the loops are distinct from one another.
LEMMA LabelsApart ==
  /\ UnstartedPcs \intersect UncountedPcs = {}
  /\ UnstartedPcs \intersect UnjudgedPcs = {}
  /\ UnstartedPcs \intersect JudgedPcs = {}
  /\ UncountedPcs \intersect UnjudgedPcs = {}
  /\ UncountedPcs \intersect JudgedPcs = {}
  /\ UnjudgedPcs \intersect JudgedPcs = {}
  /\ UncountedPcs \union UnjudgedPcs \union JudgedPcs = LoopPcs
  /\ UnstartedPcs \union LoopPcs = BeforeFinalizationPcs
BY DEF UnstartedPcs, UncountedPcs, UnjudgedPcs, JudgedPcs, ConnectPcs, LoopPcs, EpisodePcs,
       BeforeFinalizationPcs

\* While the loops run nothing says that they are done, but the last step.
LEMMA NotDoneBefore ==
  ASSUME SealInv, pc \in BeforeFinalizationPcs
  PROVE  LoopsDone <=> pc = "manifest"
<1>1. manifest.status = "none" /\ runFiles \intersect FinalNames = {}
  BY DEF SealInv, NothingGenerated
<1> QED BY <1>1 DEF LoopsDone, FinalNames

(* The loop variables stand still: at most files of the run change.          *)
LEMMA StandingStill ==
  ASSUME TypeOK, EpisodesInOrder, PolicyObeyed,
         UNCHANGED <<errorPolicy, task, rollout, verdicts>>,
         pc' \in UnstartedPcs => pc \in UnstartedPcs,
         pc' \in UncountedPcs \union UnjudgedPcs => pc \in UncountedPcs \union UnjudgedPcs,
         pc' \in JudgedPcs => pc \in JudgedPcs,
         pc' # "manifest"
  PROVE  EpisodesInOrder' /\ PolicyObeyed'
<1>1. episode' = episode /\ Attempted' = Attempted
  BY DEF episode, Attempted
<1>2. \A e \in Episodes : Due(e)' <=> Due(e)
  BY DueUnchanged
<1>3. EpisodesInOrder'
  BY <1>1, <1>2 DEF EpisodesInOrder
<1>4. Due(episode)' <=> Due(episode)
  BY <1>1 DEF Due
<1>5. (\A e \in Attempted : Due(e))'
  BY <1>1, <1>2 DEF PolicyObeyed, Attempted
<1> QED BY <1>1, <1>3, <1>4, <1>5 DEF PolicyObeyed

(* Files are added to the run directory, and only videos are removed.        *)
LEMMA FilesStay ==
  ASSUME TypeOK, TypeOK', DirectoryFollows,
         UNCHANGED <<task, rollout, verdicts, directory>>,
         taskMetrics \subseteq taskMetrics',
         \A e \in Episodes : episodeFiles[e] \ {"video.json"} \subseteq episodeFiles'[e],
         WrittenFiles' \subseteq episodeFiles'[episode],
         pc' \in {"count"} \union UnjudgedPcs \union JudgedPcs =>
           pc \in {"count"} \union UnjudgedPcs \union JudgedPcs,
         pc' \in {"postprocess_task", "manifest"} => task \in taskMetrics'
  PROVE  DirectoryFollows'
<1>1. episode' = episode /\ Attempted' = Attempted
  BY DEF episode, Attempted
<1>2. OnlyLastEpisodeIncomplete'
  BY <1>1 DEF DirectoryFollows, OnlyLastEpisodeIncomplete, CanonicalFiles, EpisodeFileNames,
              Attempted
<1>3. (\A e \in Episodes \ Attempted : directory[e] = "absent")'
  BY <1>1 DEF DirectoryFollows
<1>4. (\A e \in Episodes : directory[e] = "episode" => "trace.json" \in episodeFiles[e])'
  BY DEF DirectoryFollows
<1> QED BY <1>1, <1>2, <1>3, <1>4 DEF DirectoryFollows

LEMMA CountStays ==
  ASSUME EpisodesCounted, UNCHANGED <<task, rollout, verdicts, episodeCount>>,
         pc' \in UnstartedPcs \union UncountedPcs => pc \in UnstartedPcs \union UncountedPcs,
         pc' \in UnjudgedPcs \union JudgedPcs => pc \in UnjudgedPcs \union JudgedPcs
  PROVE  EpisodesCounted'
<1>1. episode' = episode /\ Attempted' = Attempted
  BY DEF episode, Attempted
<1> QED BY <1>1 DEF EpisodesCounted

LEMMA DoneStays ==
  ASSUME AllDone, UNCHANGED <<errorPolicy, verdicts, episodeCount, taskMetrics, directory>>,
         \A e \in Episodes : episodeFiles[e] \ {"video.json"} \subseteq episodeFiles'[e]
  PROVE  AllDone'
<1>1. Attempted' = Attempted
  BY DEF Attempted
<1>2. \A e \in Episodes : Due(e)' <=> Due(e)
  BY DueUnchanged
<1>3. \A e \in Attempted : CanonicalFiles \subseteq episodeFiles'[e]
  BY DEF AllDone, CanonicalFiles, Attempted
<1> QED BY <1>1, <1>2, <1>3 DEF AllDone

(* After the loops, also when an exception leaves them, nothing a loop wrote *)
(* is taken back.                                                            *)
LEMMA LoopsLeft ==
  ASSUME TypeOK, TypeOK', LoopInv,
         UNCHANGED <<errorPolicy, task, rollout, verdicts, episodeCount, taskMetrics, directory>>,
         \A e \in Episodes : episodeFiles[e] \ {"video.json"} \subseteq episodeFiles'[e],
         pc' \notin UnstartedPcs \union LoopPcs,
         LoopsDone' => LoopsDone
  PROVE  LoopInv'
<1>1. /\ pc' \notin UnstartedPcs /\ pc' \notin UncountedPcs
      /\ pc' \notin UnjudgedPcs /\ pc' \notin JudgedPcs
      /\ pc' \notin {"count", "postprocess_task", "manifest"}
  BY LabelsApart DEF UncountedPcs, JudgedPcs
<1>2. EpisodesInOrder' /\ PolicyObeyed'
  BY <1>1, StandingStill DEF LoopInv
<1>3. WrittenFiles' = {}
  BY <1>1 DEF WrittenFiles, UncountedPcs, UnjudgedPcs, JudgedPcs
<1>4. DirectoryFollows'
  BY <1>1, <1>3, FilesStay DEF LoopInv
<1>5. EpisodesCounted'
  BY <1>1, CountStays DEF LoopInv
<1> QED BY <1>2, <1>4, <1>5, DoneStays DEF LoopInv

(* Connecting and starting attempt nothing.                                  *)
LEMMA NothingStarted ==
  ASSUME SealInv, TypeOK', SealInv', LoopInv, UNCHANGED <<loop, tree, episodeFiles>>,
         pc \in UnstartedPcs, pc' \in UnstartedPcs
  PROVE  LoopInv'
<1>1. UNCHANGED <<errorPolicy, task, rollout, verdicts, episodeCount, taskMetrics, directory>>
  BY Unfold DEF tree
<1>2. pc' \notin UncountedPcs /\ pc' \notin UnjudgedPcs /\ pc' \notin JudgedPcs
  BY LabelsApart
<1>3. pc' \notin {"count", "postprocess_task", "manifest"}
  BY <1>2 DEF UncountedPcs, JudgedPcs
<1>4. TypeOK
  BY DEF SealInv
<1>5. EpisodesInOrder' /\ PolicyObeyed'
  BY <1>1, <1>2, <1>3, <1>4, StandingStill DEF LoopInv
<1>6. WrittenFiles' = {}
  BY <1>2 DEF WrittenFiles, UncountedPcs, UnjudgedPcs, JudgedPcs
<1>7. DirectoryFollows'
  BY <1>1, <1>2, <1>3, <1>4, <1>6, FilesStay DEF LoopInv
<1>8. EpisodesCounted'
  BY <1>1, <1>2, CountStays DEF LoopInv
<1>9. pc' \in BeforeFinalizationPcs
  BY LabelsApart
<1>10. ~LoopsDone'
  <2>1. (SealInv /\ pc \in BeforeFinalizationPcs => (LoopsDone <=> pc = "manifest"))'
    BY NotDoneBefore, PTL
  <2> QED BY <1>3, <1>9, <2>1
<1> QED BY <1>5, <1>7, <1>8, <1>10 DEF LoopInv

(* execute_episode: the episode counts as attempted from here on.            *)
LEMMA ExecutingKeepsLoop ==
  ASSUME SealInv, TypeOK', LoopInv, ExecuteEpisode
  PROVE  LoopInv'
<1>1. /\ pc = "episode" /\ pc' \in {"except", "make_partial"}
      /\ verdicts' = [verdicts EXCEPT ![episode] = "started"]
      /\ UNCHANGED <<errorPolicy, task, rollout, episodeCount, runFiles, taskMetrics, directory,
                     episodeFiles, manifest>>
  BY Unfold DEF ExecuteEpisode
<1>2. TypeOK /\ episode' = episode /\ episode \in Episodes
  BY <1>1, EpisodeInRange DEF SealInv, episode
<1>3. verdicts[episode] = "none"
  BY <1>1 DEF LoopInv, EpisodesInOrder, UnstartedPcs
<1>4. \A e \in Episodes : verdicts'[e] = IF e = episode THEN "started" ELSE verdicts[e]
  BY <1>1, <1>2 DEF TypeOK
<1>5. Attempted' = Attempted \union {episode} /\ episode \notin Attempted
  BY <1>2, <1>3, <1>4 DEF Attempted
<1>6. \A e \in Episodes : Due(e)' <=> Due(e)
  BY <1>1, <1>3, <1>4, DueUnchanged
<1>7. pc' \notin UnstartedPcs \union UnjudgedPcs \union JudgedPcs /\ pc' # "manifest"
  BY <1>1 DEF UnstartedPcs, UnjudgedPcs, JudgedPcs, ConnectPcs
<1>8. EpisodesInOrder'
  <2>1. \A e \in Episodes : Earlier(episode, e) => verdicts'[e] = "none"
    BY <1>2, <1>4, EpisodeOrder DEF LoopInv, EpisodesInOrder
  <2>2. \A e \in Episodes : Earlier(e, episode) /\ Due(e)' => e \in Attempted'
    BY <1>5, <1>6 DEF LoopInv, EpisodesInOrder
  <2> QED BY <1>2, <1>4, <1>7, <2>1, <2>2 DEF EpisodesInOrder
<1>9. PolicyObeyed'
  <2>1. Due(episode)'
    BY <1>1, <1>2, <1>3, <1>4, <1>6 DEF LoopInv, PolicyObeyed, Due
  <2>2. (\A e \in Attempted : Due(e))'
    BY <1>2, <1>5, <1>6 DEF LoopInv, PolicyObeyed, Attempted
  <2> QED BY <1>7, <2>1, <2>2 DEF PolicyObeyed
<1>10. DirectoryFollows'
  <2>1. OnlyLastEpisodeIncomplete'
    BY <1>1, <1>2, <1>4, <1>5 DEF LoopInv, DirectoryFollows, OnlyLastEpisodeIncomplete, Attempted
  <2>2. WrittenFiles' = {}
    BY <1>1 DEF WrittenFiles, JudgedPcs
  <2>3. pc' \notin {"count", "postprocess_task"}
    BY <1>1
  <2> QED BY <1>1, <1>2, <1>5, <1>7, <2>1, <2>2, <2>3 DEF LoopInv, DirectoryFollows
<1>11. EpisodesCounted'
  <2>1. Attempted' \ {episode} = Attempted \ {episode}
    BY <1>5
  <2>2. episodeCount = Cardinality(Attempted \ {episode})
    BY <1>1 DEF LoopInv, EpisodesCounted, UnstartedPcs
  <2> QED BY <1>1, <1>2, <1>7, <2>1, <2>2 DEF EpisodesCounted
<1>12. ~LoopsDone'
  BY <1>1, <1>7, NotDoneBefore DEF LoopsDone, BeforeFinalizationPcs
<1> QED BY <1>8, <1>9, <1>10, <1>11, <1>12 DEF LoopInv

\* In the loops the run is not done, but on their last step.
LEMMA StillLooping ==
  ASSUME SealInv', pc' \in LoopPcs \union {"episode"}, pc' # "manifest"
  PROVE  ~LoopsDone'
<1>1. pc' \in BeforeFinalizationPcs
  BY DEF BeforeFinalizationPcs
<1>2. (SealInv /\ pc \in BeforeFinalizationPcs => (LoopsDone <=> pc = "manifest"))'
  BY NotDoneBefore, PTL
<1> QED BY <1>1, <1>2

(* Writing the trace and the metrics of the current episode.                 *)
LEMMA EpisodeFileKeepsLoop ==
  ASSUME SealInv, TypeOK', SealInv', LoopInv,
         NEW at, NEW name, NEW next, WriteEpisodeFile(at, name, next),
         \/ at \in UncountedPcs /\ next \in UncountedPcs
         \/ at \in UnjudgedPcs /\ next \in UnjudgedPcs,
         next # "count", WrittenFiles' \subseteq WrittenFiles \union {name}
  PROVE  LoopInv'
<1>1. /\ pc = at /\ pc' = next
      /\ episodeFiles' = [episodeFiles EXCEPT ![episode] = @ \union {name}]
      /\ UNCHANGED <<errorPolicy, task, rollout, verdicts, episodeCount, taskMetrics, directory>>
  BY Unfold DEF WriteEpisodeFile, tree
<1>2. TypeOK /\ episode \in Episodes
  BY EpisodeInRange DEF SealInv
<1>3. \A e \in Episodes : episodeFiles'[e] = IF e = episode THEN episodeFiles[e] \union {name}
                                             ELSE episodeFiles[e]
  BY <1>1, <1>2 DEF TypeOK
<1>4. /\ pc' \notin UnstartedPcs /\ pc' \notin JudgedPcs
      /\ pc' \notin {"postprocess_task", "manifest", "count"}
      /\ pc \notin UnstartedPcs /\ pc \notin JudgedPcs
      /\ pc' \in UncountedPcs => pc \in UncountedPcs
      /\ pc' \in UnjudgedPcs => pc \in UnjudgedPcs
  BY <1>1, LabelsApart DEF JudgedPcs
<1>5. EpisodesInOrder' /\ PolicyObeyed'
  BY <1>1, <1>2, <1>4, StandingStill DEF LoopInv
<1>6. WrittenFiles' \subseteq episodeFiles'[episode]
  BY <1>2, <1>3 DEF LoopInv, DirectoryFollows
<1>7. \A e \in Episodes : episodeFiles[e] \ {"video.json"} \subseteq episodeFiles'[e]
  BY <1>3
<1>8. DirectoryFollows'
  BY <1>1, <1>2, <1>4, <1>6, <1>7, FilesStay DEF LoopInv
<1>9. EpisodesCounted'
  BY <1>1, <1>4, CountStays DEF LoopInv
<1>10. ~LoopsDone'
  BY <1>1, <1>4, LabelsApart, StillLooping
<1> QED BY <1>5, <1>8, <1>9, <1>10 DEF LoopInv

LEMMA EpisodeFilesKeepLoop ==
  ASSUME SealInv, TypeOK', SealInv', LoopInv,
         WriteTrace \/ MarkTrace \/ WriteMetrics \/ WriteMetadata \/ FinishEpisode
  PROVE  LoopInv'
<1>a. /\ {"write_trace", "mark_trace", "rename"} \subseteq UncountedPcs
      /\ {"metrics", "metadata", "finish_episode", "judge"} \subseteq UnjudgedPcs
  BY DEF UncountedPcs, UnjudgedPcs
<1>1. CASE WriteTrace
  <2>1. WrittenFiles' \subseteq WrittenFiles \union {"trace.json"}
    BY <1>1 DEF WriteTrace, WriteEpisodeFile, WrittenFiles, JudgedPcs
  <2>2. WriteEpisodeFile("write_trace", "trace.json", "mark_trace")
    BY <1>1 DEF WriteTrace
  <2> QED BY <1>a, <2>1, <2>2, EpisodeFileKeepsLoop
<1>2. CASE MarkTrace
  <2>1. WrittenFiles' \subseteq WrittenFiles \union {"trace.finalized.json"}
    BY <1>2 DEF MarkTrace, WriteEpisodeFile, WrittenFiles, JudgedPcs
  <2>2. WriteEpisodeFile("mark_trace", "trace.finalized.json", "rename")
    BY <1>2 DEF MarkTrace
  <2> QED BY <1>a, <2>1, <2>2, EpisodeFileKeepsLoop
<1>3. CASE WriteMetrics
  <2>1. WrittenFiles' \subseteq WrittenFiles \union {"metrics.episode.json"}
    BY <1>3 DEF WriteMetrics, WriteEpisodeFile, WrittenFiles, JudgedPcs
  <2>2. WriteEpisodeFile("metrics", "metrics.episode.json", "metadata")
    BY <1>3 DEF WriteMetrics
  <2> QED BY <1>a, <2>1, <2>2, EpisodeFileKeepsLoop
<1>4. CASE WriteMetadata
  <2>1. WrittenFiles' \subseteq WrittenFiles \union {"metadata.json"}
    BY <1>4 DEF WriteMetadata, WriteEpisodeFile, WrittenFiles, JudgedPcs, CanonicalFiles,
           EpisodeFileNames
  <2>2. WriteEpisodeFile("metadata", "metadata.json", "finish_episode")
    BY <1>4 DEF WriteMetadata
  <2> QED BY <1>a, <2>1, <2>2, EpisodeFileKeepsLoop
<1>5. CASE FinishEpisode
  <2>1. WrittenFiles' \subseteq WrittenFiles \union {"finalized.json"}
    BY <1>5 DEF FinishEpisode, WriteEpisodeFile, WrittenFiles, JudgedPcs, CanonicalFiles,
           EpisodeFileNames
  <2>2. WriteEpisodeFile("finish_episode", "finalized.json", "judge")
    BY <1>5 DEF FinishEpisode
  <2> QED BY <1>a, <2>1, <2>2, EpisodeFileKeepsLoop
<1> QED BY <1>1, <1>2, <1>3, <1>4, <1>5

(* The partial directory is made, then renamed with the whole trace in it.   *)
LEMMA DirectoryKeepsLoop ==
  ASSUME SealInv, TypeOK', SealInv', LoopInv, MakePartial \/ RenameEpisode
  PROVE  LoopInv'
<1>1. PICK kind \in {"partial", "episode"} :
        /\ directory' = [directory EXCEPT ![episode] = kind]
        /\ kind = "episode" => pc = "rename" /\ pc' = "count"
        /\ kind = "partial" => pc = "make_partial" /\ pc' = "write_trace"
  BY DEF MakePartial, RenameEpisode
<1>2. UNCHANGED <<errorPolicy, task, rollout, verdicts, episodeCount, taskMetrics, episodeFiles>>
  BY Unfold DEF MakePartial, RenameEpisode
<1>3. TypeOK /\ episode \in Episodes /\ episode' = episode /\ Attempted' = Attempted
  BY <1>2, EpisodeInRange DEF SealInv, episode, Attempted
<1>4. \A e \in Episodes : directory'[e] = IF e = episode THEN kind ELSE directory[e]
  BY <1>1, <1>3 DEF TypeOK
<1>5. /\ pc \in UncountedPcs /\ pc' \in UncountedPcs
      /\ pc' \notin UnstartedPcs /\ pc' \notin UnjudgedPcs /\ pc' \notin JudgedPcs
      /\ pc' \notin {"postprocess_task", "manifest"}
  BY <1>1, LabelsApart DEF UncountedPcs
<1>6. EpisodesInOrder' /\ PolicyObeyed'
  BY <1>2, <1>3, <1>5, StandingStill DEF LoopInv
<1>7. verdicts[episode] = "started"
  BY <1>5 DEF LoopInv, EpisodesInOrder
<1>8. DirectoryFollows'
  <2>1. WrittenFiles' \subseteq WrittenFiles
    BY <1>1 DEF WrittenFiles, JudgedPcs
  <2>2. kind = "episode" => "trace.json" \in episodeFiles[episode]
    <3>1. kind = "episode" => "trace.json" \in WrittenFiles
      BY <1>1 DEF WrittenFiles, JudgedPcs
    <3> QED BY <3>1 DEF LoopInv, DirectoryFollows
  <2>3. OnlyLastEpisodeIncomplete'
    BY <1>2, <1>3, <1>4 DEF LoopInv, DirectoryFollows, OnlyLastEpisodeIncomplete, Attempted
  <2>4. pc' = "count" => directory'[episode] = "episode"
    BY <1>1, <1>3, <1>4
  <2>5. (\A e \in Episodes \ Attempted : directory[e] = "absent")'
    BY <1>3, <1>4, <1>7 DEF LoopInv, DirectoryFollows, Attempted
  <2>6. (\A e \in Episodes : directory[e] = "episode" => "trace.json" \in episodeFiles[e])'
    BY <1>2, <1>4, <2>2 DEF LoopInv, DirectoryFollows
  <2> QED BY <1>2, <1>3, <1>5, <2>1, <2>3, <2>4, <2>5, <2>6 DEF LoopInv, DirectoryFollows
<1>9. EpisodesCounted'
  BY <1>2, <1>5, CountStays DEF LoopInv
<1>10. ~LoopsDone'
  BY <1>5, LabelsApart, StillLooping
<1> QED BY <1>6, <1>8, <1>9, <1>10 DEF LoopInv

LEMMA CountingKeepsLoop ==
  ASSUME SealInv, TypeOK', SealInv', LoopInv, CountEpisode
  PROVE  LoopInv'
<1>1. /\ pc = "count" /\ pc' = "metrics" /\ episodeCount' = episodeCount + 1
      /\ UNCHANGED <<errorPolicy, task, rollout, verdicts, taskMetrics, directory, episodeFiles>>
  BY Unfold DEF CountEpisode
<1>2. TypeOK /\ episode \in Episodes /\ episode' = episode /\ Attempted' = Attempted
  BY <1>1, EpisodeInRange DEF SealInv, episode, Attempted
<1>3. /\ pc \in UncountedPcs /\ pc' \in UnjudgedPcs
      /\ pc' \notin UnstartedPcs /\ pc' \notin UncountedPcs /\ pc' \notin JudgedPcs
      /\ pc' \notin {"postprocess_task", "manifest"}
  BY <1>1, LabelsApart DEF UncountedPcs, UnjudgedPcs
<1>4. EpisodesInOrder' /\ PolicyObeyed'
  BY <1>1, <1>2, <1>3, StandingStill DEF LoopInv
<1>5. DirectoryFollows'
  <2>1. WrittenFiles' = WrittenFiles
    BY <1>1 DEF WrittenFiles, JudgedPcs
  <2>2. WrittenFiles \subseteq episodeFiles[episode] /\ DirectoryFollows
    BY DEF LoopInv, DirectoryFollows
  <2> QED BY <1>1, <1>2, <1>3, <2>1, <2>2, FilesStay
<1>6. EpisodesCounted'
  <2>1. episode \in Attempted
    BY <1>2, <1>3 DEF LoopInv, EpisodesInOrder, Attempted
  <2>2. IsFiniteSet(Attempted \ {episode})
    BY EpisodesFinite, FS_Subset DEF Attempted
  <2>3. Cardinality((Attempted \ {episode}) \union {episode})
          = Cardinality(Attempted \ {episode}) + 1
    BY <2>2, FS_AddElement
  <2>4. (Attempted \ {episode}) \union {episode} = Attempted
    BY <2>1
  <2>5. episodeCount = Cardinality(Attempted \ {episode})
    BY <1>3 DEF LoopInv, EpisodesCounted
  <2> QED BY <1>1, <1>2, <1>3, <2>3, <2>4, <2>5 DEF EpisodesCounted
<1>7. ~LoopsDone'
  BY <1>3, LabelsApart, StillLooping
<1> QED BY <1>4, <1>5, <1>6, <1>7 DEF LoopInv

LEMMA TaskMetricsKeepLoop ==
  ASSUME SealInv, TypeOK', SealInv', LoopInv, WriteTaskMetrics
  PROVE  LoopInv'
<1>1. /\ pc = "aggregate" /\ pc' = "postprocess_task"
      /\ taskMetrics' = taskMetrics \union {task}
      /\ UNCHANGED <<errorPolicy, task, rollout, verdicts, episodeCount, directory, episodeFiles>>
  BY Unfold DEF WriteTaskMetrics
<1>2. TypeOK
  BY DEF SealInv
<1>3. /\ pc \in JudgedPcs /\ pc' \in JudgedPcs
      /\ pc' \notin UnstartedPcs /\ pc' \notin UncountedPcs /\ pc' \notin UnjudgedPcs
  BY <1>1, LabelsApart DEF JudgedPcs
<1>4. EpisodesInOrder' /\ PolicyObeyed'
  BY <1>1, <1>2, <1>3, StandingStill DEF LoopInv
<1>5. DirectoryFollows'
  <2>1. WrittenFiles' = WrittenFiles
    BY <1>1 DEF WrittenFiles, JudgedPcs
  <2>2. WrittenFiles \subseteq episodeFiles[episode] /\ DirectoryFollows
    BY DEF LoopInv, DirectoryFollows
  <2> QED BY <1>1, <1>2, <1>3, <2>1, <2>2, FilesStay
<1>6. EpisodesCounted'
  BY <1>1, <1>3, CountStays DEF LoopInv
<1>7. ~LoopsDone'
  BY <1>1, <1>3, LabelsApart, StillLooping
<1> QED BY <1>4, <1>5, <1>6, <1>7 DEF LoopInv

\* What comes before the next rollout, and before the next task.
LEMMA NextInOrder ==
  ASSUME NEW t \in Tasks, NEW r \in Rollouts, NEW e \in Episodes
  PROVE  /\ Earlier(e, <<t, r + 1>>) <=> Earlier(e, <<t, r>>) \/ e = <<t, r>>
         /\ Earlier(<<t, r + 1>>, e) => Earlier(<<t, r>>, e)
         /\ Earlier(e, <<t + 1, 1>>) <=> e[1] <= t
         /\ Earlier(<<t + 1, 1>>, e) => Earlier(<<t, r>>, e)
<1>1. PICK u \in Tasks, q \in Rollouts : e = <<u, q>>
  BY DEF Episodes
<1>2. t \in Nat /\ r \in Nat /\ u \in Nat /\ q \in Nat /\ q >= 1
  BY DEF Tasks, Rollouts
<1> QED BY <1>1, <1>2 DEF Earlier

(* The verdict on an episode and the error policy decide where the loops go. *)
LEMMA JudgingKeepsLoop ==
  ASSUME SealInv, TypeOK', SealInv', LoopInv, JudgeEpisode
  PROVE  LoopInv'
<1>1. PICK failed \in BOOLEAN :
        /\ AfterEpisode(failed)
        /\ verdicts' = [verdicts EXCEPT ![episode] = IF failed THEN "failed" ELSE "ok"]
  BY DEF JudgeEpisode
<1>2. /\ pc = "judge"
      /\ UNCHANGED <<errorPolicy, task, episodeCount, runFiles, taskMetrics, directory,
                     episodeFiles, manifest>>
  BY Unfold DEF JudgeEpisode
<1>3. TypeOK /\ episode \in Episodes
  BY EpisodeInRange DEF SealInv
<1>4. \A e \in Episodes :
        verdicts'[e] = IF e = episode THEN (IF failed THEN "failed" ELSE "ok") ELSE verdicts[e]
  BY <1>1, <1>3 DEF TypeOK
<1>5. verdicts[episode] = "started"
  BY <1>2 DEF LoopInv, EpisodesInOrder, UnjudgedPcs
<1>6. Attempted' = Attempted /\ episode \in Attempted
  BY <1>3, <1>4, <1>5 DEF Attempted
<1>7. \A e \in Episodes : ~Earlier(episode, e) => (Due(e)' <=> Due(e))
  BY <1>2, <1>4, DueUnchanged
<1>8. \A e \in Attempted : ~Earlier(episode, e) /\ Due(e)'
  BY <1>7 DEF LoopInv, EpisodesInOrder, PolicyObeyed, Attempted
<1>9. /\ \A e \in Episodes : Earlier(episode, e) => verdicts'[e] = "none"
      /\ \A e \in Episodes : Earlier(e, episode) /\ Due(e)' => e \in Attempted
  BY <1>3, <1>4, <1>7, EpisodeOrder DEF LoopInv, EpisodesInOrder
<1>10. directory[episode] = "episode" /\ CanonicalFiles \subseteq episodeFiles[episode]
  <2>1. WrittenFiles = CanonicalFiles
    BY <1>2 DEF WrittenFiles, JudgedPcs
  <2> QED BY <1>2, <2>1 DEF LoopInv, DirectoryFollows, UnjudgedPcs
<1>11. \A e \in Attempted :
         /\ directory[e] = "episode"
         /\ CanonicalFiles \subseteq episodeFiles[e]
         /\ verdicts'[e] \in {"ok", "failed"}
  BY <1>3, <1>4, <1>10 DEF LoopInv, DirectoryFollows, OnlyLastEpisodeIncomplete, Attempted
<1>12. OnlyLastEpisodeIncomplete'
  BY <1>2, <1>6, <1>11 DEF OnlyLastEpisodeIncomplete
<1>13. /\ (\A e \in Episodes \ Attempted : directory[e] = "absent")'
       /\ (\A e \in Episodes : directory[e] = "episode" => "trace.json" \in episodeFiles[e])'
       /\ (\A t \in Tasks : t < task => t \in taskMetrics)'
  BY <1>2, <1>6 DEF LoopInv, DirectoryFollows
<1>14. episodeCount' = Cardinality(Attempted')
  BY <1>2, <1>6 DEF LoopInv, EpisodesCounted, UnjudgedPcs
<1>15. (\A e \in Attempted : Due(e))'
  BY <1>6, <1>8
<1>16. ~LoopsDone'
  <2>1. pc' \in {"episode", "aggregate", "except"}
    BY <1>1 DEF AfterEpisode, NextRollout, RaiseInRun
  <2>2. ~LoopsDone
    BY <1>2, NotDoneBefore DEF BeforeFinalizationPcs, LoopPcs, EpisodePcs
  <2> QED BY <1>2, <2>1, <2>2 DEF LoopsDone
<1>17. CASE pc' = "episode"
  <2>1. /\ rollout' = rollout + 1
        /\ failed => errorPolicy = "continue_task"
    BY <1>1, <1>17 DEF AfterEpisode, NextRollout, RaiseInRun
  <2>2. episode = <<task, rollout>> /\ episode' = <<task, rollout + 1>>
        /\ task \in Tasks /\ rollout \in Rollouts /\ episode' \in Episodes
    <3>1. (TypeOK => episode \in Episodes)'
      BY EpisodeInRange, PTL
    <3> QED BY <1>2, <1>3, <2>1, <3>1 DEF episode, TypeOK
  <2>3. /\ pc' \in UnstartedPcs /\ pc' \notin UncountedPcs /\ pc' \notin UnjudgedPcs
        /\ pc' \notin JudgedPcs /\ pc' \notin {"count", "postprocess_task", "manifest"}
    BY <1>17, LabelsApart DEF UnstartedPcs
  <2>4. \A e \in Episodes : /\ Earlier(e, episode') <=> Earlier(e, episode) \/ e = episode
                            /\ Earlier(episode', e) => Earlier(episode, e)
    BY <2>2, NextInOrder
  <2>5. Earlier(episode, episode') /\ episode' # episode
    BY <1>3, <2>2, <2>4, EpisodeOrder
  <2>6. verdicts'[episode'] = "none"
    BY <1>9, <2>2, <2>5
  <2>7. EpisodesInOrder'
    <3>1. (\A e \in Episodes : Earlier(episode, e) => verdicts[e] = "none")'
      BY <1>9, <2>4
    <3>2. (\A e \in Episodes : Earlier(e, episode) /\ Due(e) => e \in Attempted)'
      BY <1>6, <1>9, <2>4
    <3> QED BY <2>3, <2>6, <3>1, <3>2 DEF EpisodesInOrder
  <2>8. PolicyObeyed'
    <3>1. ASSUME NEW f \in Episodes, Earlier(f, episode'), verdicts'[f] = "failed"
          PROVE  \/ errorPolicy' = "continue_task"
                 \/ (errorPolicy' = "continue_run" /\ f[1] # episode'[1])
      <4>1. CASE f = episode
        BY <1>2, <1>4, <2>1, <3>1, <4>1
      <4>2. CASE f # episode
        <5>1. Earlier(f, episode) /\ verdicts[f] = "failed"
          BY <1>4, <2>4, <3>1, <4>2
        <5>2. \/ errorPolicy = "continue_task"
              \/ (errorPolicy = "continue_run" /\ f[1] # episode[1])
          BY <5>1 DEF LoopInv, PolicyObeyed, Due
        <5> QED BY <1>2, <2>2, <5>2
      <4> QED BY <4>1, <4>2
    <3>2. Due(episode)'
      BY <3>1 DEF Due
    <3> QED BY <1>15, <2>3, <3>2 DEF PolicyObeyed
  <2>9. WrittenFiles' = {}
    BY <1>17 DEF WrittenFiles, JudgedPcs
  <2>10. DirectoryFollows'
    BY <1>12, <1>13, <2>3, <2>9 DEF DirectoryFollows
  <2>11. EpisodesCounted'
    <3>1. Attempted' \ {episode'} = Attempted'
      BY <2>6 DEF Attempted
    <3> QED BY <1>14, <2>3, <3>1 DEF EpisodesCounted
  <2> QED BY <1>16, <2>7, <2>8, <2>10, <2>11 DEF LoopInv
<1>18. CASE pc' # "episode"
  <2>1. /\ pc' \in {"aggregate", "except"} /\ UNCHANGED rollout
        /\ pc' = "aggregate" /\ failed => errorPolicy # "stop_run"
        /\ pc' = "aggregate" => \/ ~(rollout < RolloutCount)
                                \/ failed /\ errorPolicy = "continue_run"
    BY <1>1, <1>18 DEF AfterEpisode, NextRollout, RaiseInRun
  <2>2. episode' = episode
    BY <1>2, <2>1 DEF episode
  <2>3. /\ pc' \notin UnstartedPcs /\ pc' \notin UncountedPcs /\ pc' \notin UnjudgedPcs
        /\ pc' \notin {"count", "postprocess_task", "manifest"}
        /\ pc' \in JudgedPcs => pc' = "aggregate"
    BY <2>1 DEF UnstartedPcs, ConnectPcs, UncountedPcs, UnjudgedPcs, JudgedPcs
  <2>4. verdicts'[episode] = IF failed THEN "failed" ELSE "ok"
    BY <1>3, <1>4
  <2>5. EpisodesInOrder'
    BY <1>6, <1>9, <2>2, <2>3, <2>4 DEF EpisodesInOrder
  <2>6. PolicyObeyed'
    <3>1. ~(rollout < RolloutCount) => rollout = RolloutCount
      BY <1>3, RunAssumption DEF TypeOK, Rollouts
    <3>2. Due(episode)'
      BY <1>6, <1>8, <2>2 DEF Due
    <3> QED BY <1>2, <1>15, <2>1, <2>2, <2>3, <2>4, <3>1, <3>2 DEF PolicyObeyed
  <2>7. WrittenFiles' \subseteq CanonicalFiles
    BY <2>1 DEF WrittenFiles, JudgedPcs
  <2>8. DirectoryFollows'
    BY <1>2, <1>10, <1>12, <1>13, <2>2, <2>3, <2>7 DEF DirectoryFollows
  <2>9. EpisodesCounted'
    BY <1>14, <2>3 DEF EpisodesCounted
  <2> QED BY <1>16, <2>5, <2>6, <2>8, <2>9 DEF LoopInv
<1> QED BY <1>17, <1>18

(* The next task leaves out only episodes the error policy gave up; after    *)
(* the last one everything due has been attempted.                           *)
LEMMA NextTaskKeepsLoop ==
  ASSUME SealInv, TypeOK', SealInv', LoopInv, PostprocessTask
  PROVE  LoopInv'
<1>1. /\ pc = "postprocess_task"
      /\ UNCHANGED <<errorPolicy, episodeCount, verdicts, runFiles, taskMetrics, directory,
                     episodeFiles, manifest>>
  BY Unfold DEF PostprocessTask
<1>2. TypeOK /\ episode \in Episodes /\ episode = <<task, rollout>>
      /\ task \in Tasks /\ rollout \in Rollouts
  BY EpisodeInRange DEF SealInv, TypeOK, episode
<1>3. verdicts[episode] \in {"ok", "failed"} /\ pc \in JudgedPcs
  BY <1>1 DEF LoopInv, EpisodesInOrder, JudgedPcs
<1>4. /\ verdicts[episode] = "failed" => errorPolicy # "stop_run"
      /\ rollout = RolloutCount \/ (verdicts[episode] = "failed" /\ errorPolicy = "continue_run")
  BY <1>3 DEF LoopInv, PolicyObeyed
<1>5. Attempted' = Attempted /\ episode \in Attempted
  BY <1>1, <1>2, <1>3 DEF Attempted
<1>6. \A e \in Episodes : Due(e)' <=> Due(e)
  BY <1>1, DueUnchanged
<1>7. directory[episode] = "episode" /\ CanonicalFiles \subseteq episodeFiles[episode]
  <2>1. WrittenFiles = CanonicalFiles
    BY <1>1 DEF WrittenFiles, JudgedPcs
  <2> QED BY <1>3, <2>1 DEF LoopInv, DirectoryFollows
<1>8. \A e \in Attempted :
        /\ directory[e] = "episode"
        /\ CanonicalFiles \subseteq episodeFiles[e]
        /\ verdicts[e] \in {"ok", "failed"}
  BY <1>2, <1>3, <1>7 DEF LoopInv, DirectoryFollows, OnlyLastEpisodeIncomplete, Attempted
<1>9. OnlyLastEpisodeIncomplete'
  BY <1>1, <1>5, <1>8 DEF OnlyLastEpisodeIncomplete
<1>10. /\ (\A e \in Episodes \ Attempted : directory[e] = "absent")'
       /\ (\A e \in Episodes : directory[e] = "episode" => "trace.json" \in episodeFiles[e])'
       /\ \A t \in Tasks : t <= task => t \in taskMetrics
  <2>1. task \in taskMetrics /\ \A t \in Tasks : t < task => t \in taskMetrics
    BY <1>1 DEF LoopInv, DirectoryFollows
  <2>2. \A t \in Tasks : t <= task => t < task \/ t = task
    BY <1>2 DEF Tasks
  <2> QED BY <1>1, <1>5, <2>1, <2>2 DEF LoopInv, DirectoryFollows
<1>11. episodeCount = Cardinality(Attempted)
  BY <1>3 DEF LoopInv, EpisodesCounted
<1>12. \A e \in Episodes : e[1] <= task /\ Due(e) => e \in Attempted
  <2> SUFFICES ASSUME NEW e \in Episodes, e[1] <= task, Due(e), ~Earlier(e, episode), e # episode
               PROVE  FALSE
    BY <1>5 DEF LoopInv, EpisodesInOrder
  <2>1. Earlier(episode, e)
    BY <1>2, EpisodeOrder
  <2>2. PICK u \in Tasks, q \in Rollouts : e = <<u, q>>
    BY DEF Episodes
  <2>3. u = task /\ rollout < q
    BY <1>2, <2>1, <2>2 DEF Earlier, Tasks, Rollouts
  <2>4. rollout # RolloutCount
    BY <1>2, <2>3, RunAssumption DEF Rollouts
  <2>5. verdicts[episode] = "failed" /\ errorPolicy = "continue_run"
    BY <1>4, <2>4
  <2>6. episode[1] = e[1]
    BY <1>2, <2>2, <2>3
  <2> QED BY <1>2, <2>1, <2>5, <2>6 DEF Due
<1>13. \A f \in Episodes : verdicts[f] = "failed" => errorPolicy # "stop_run" /\ f[1] <= task
  <2> SUFFICES ASSUME NEW f \in Episodes, verdicts[f] = "failed"
               PROVE  errorPolicy # "stop_run" /\ f[1] <= task
    OBVIOUS
  <2>1. ~Earlier(episode, f)
    BY DEF LoopInv, EpisodesInOrder
  <2>2. f = episode \/ Earlier(f, episode)
    BY <1>2, <2>1, EpisodeOrder
  <2>3. PICK u \in Tasks, q \in Rollouts : f = <<u, q>>
    BY DEF Episodes
  <2>4. f[1] <= task
    BY <1>2, <2>2, <2>3 DEF Earlier, Tasks
  <2>5. Earlier(f, episode) => errorPolicy # "stop_run"
    BY DEF LoopInv, PolicyObeyed, Due
  <2> QED BY <1>4, <2>2, <2>4, <2>5
<1>14. CASE LastTask
  <2>1. pc' = "manifest" /\ UNCHANGED <<task, rollout>> /\ task = TaskCount
    BY <1>14 DEF PostprocessTask, LastTask
  <2>2. episode' = episode
    BY <2>1 DEF episode
  <2>3. /\ pc' \in JudgedPcs /\ pc' \notin UnstartedPcs /\ pc' \notin UncountedPcs
        /\ pc' \notin UnjudgedPcs
    BY <2>1, LabelsApart DEF JudgedPcs
  <2>4. EpisodesInOrder'
    BY <1>1, <1>3, <1>5, <1>6, <2>2, <2>3 DEF LoopInv, EpisodesInOrder
  <2>5. PolicyObeyed'
    <3>1. Due(episode)'
      BY <1>1, <2>2 DEF LoopInv, PolicyObeyed, Due
    <3>2. (\A e \in Attempted : Due(e))'
      BY <1>5, <1>6 DEF LoopInv, PolicyObeyed, Attempted
    <3> QED BY <1>1, <1>4, <2>1, <2>2, <3>1, <3>2 DEF PolicyObeyed
  <2>6. \A t \in Tasks : t <= task
    BY <2>1, RunAssumption DEF Tasks
  <2>7. taskMetrics = Tasks
    BY <1>2, <1>10, <2>6 DEF TypeOK
  <2>8. DirectoryFollows'
    <3>1. WrittenFiles' = CanonicalFiles
      BY <2>1 DEF WrittenFiles, JudgedPcs
    <3> QED BY <1>1, <1>2, <1>7, <1>9, <1>10, <2>1, <2>2, <2>7, <3>1 DEF DirectoryFollows
  <2>9. EpisodesCounted'
    BY <1>1, <1>5, <1>11, <2>3 DEF EpisodesCounted
  <2>10. \A e \in Episodes : e[1] <= task
    BY <2>6 DEF Episodes
  <2>11. AllDone'
    BY <1>1, <1>5, <1>6, <1>8, <1>11, <1>12, <2>7, <2>10 DEF AllDone
  <2> QED BY <2>4, <2>5, <2>8, <2>9, <2>11 DEF LoopInv
<1>15. CASE ~LastTask
  <2>1. pc' = "episode" /\ task' = task + 1 /\ rollout' = 1
    BY <1>15 DEF PostprocessTask
  <2>2. episode' = <<task + 1, 1>> /\ episode' \in Episodes
    <3>1. (TypeOK => episode \in Episodes)'
      BY EpisodeInRange, PTL
    <3> QED BY <2>1, <3>1 DEF episode
  <2>3. /\ pc' \in UnstartedPcs /\ pc' \notin UncountedPcs /\ pc' \notin UnjudgedPcs
        /\ pc' \notin JudgedPcs /\ pc' \notin {"count", "postprocess_task", "manifest"}
    BY <2>1, LabelsApart DEF UnstartedPcs
  <2>4. \A e \in Episodes : /\ Earlier(e, episode') <=> e[1] <= task
                            /\ Earlier(episode', e) => Earlier(episode, e)
    BY <1>2, <2>2, NextInOrder
  <2>5. Earlier(episode, episode')
    <3>1. episode[1] <= task
      BY <1>2 DEF Tasks
    <3> QED BY <1>2, <2>4, <3>1
  <2>6. verdicts'[episode'] = "none"
    BY <1>1, <2>2, <2>5 DEF LoopInv, EpisodesInOrder
  <2>7. EpisodesInOrder'
    <3>1. (\A e \in Episodes : Earlier(episode, e) => verdicts[e] = "none")'
      BY <1>1, <2>4 DEF LoopInv, EpisodesInOrder
    <3>2. (\A e \in Episodes : Earlier(e, episode) /\ Due(e) => e \in Attempted)'
      BY <1>5, <1>6, <1>12, <2>4
    <3> QED BY <2>3, <2>6, <3>1, <3>2 DEF EpisodesInOrder
  <2>8. PolicyObeyed'
    <3>1. ASSUME NEW f \in Episodes, verdicts'[f] = "failed"
          PROVE  \/ errorPolicy' = "continue_task"
                 \/ (errorPolicy' = "continue_run" /\ f[1] # episode'[1])
      <4>1. errorPolicy # "stop_run" /\ f[1] <= task
        BY <1>1, <1>13, <3>1
      <4>2. f[1] # task + 1
        BY <1>2, <4>1 DEF Tasks, Episodes
      <4>3. errorPolicy \in {"continue_task", "continue_run"}
        BY <1>2, <4>1, RunAssumption DEF TypeOK, AllErrorPolicies
      <4> QED BY <1>1, <2>2, <4>2, <4>3
    <3>2. Due(episode)'
      BY <3>1 DEF Due
    <3>3. (\A e \in Attempted : Due(e))'
      BY <1>5, <1>6 DEF LoopInv, PolicyObeyed, Attempted
    <3> QED BY <2>3, <3>2, <3>3 DEF PolicyObeyed
  <2>9. DirectoryFollows'
    <3>1. WrittenFiles' = {}
      BY <2>1 DEF WrittenFiles, JudgedPcs
    <3>2. \A t \in Tasks : t < task + 1 => t \in taskMetrics
      BY <1>2, <1>10 DEF Tasks
    <3> QED BY <1>1, <1>9, <1>10, <2>1, <2>3, <3>1, <3>2 DEF DirectoryFollows
  <2>10. EpisodesCounted'
    <3>1. Attempted' \ {episode'} = Attempted'
      BY <2>6 DEF Attempted
    <3> QED BY <1>1, <1>5, <1>11, <2>3, <3>1 DEF EpisodesCounted
  <2>11. ~LoopsDone'
    BY <2>1, StillLooping
  <2> QED BY <2>7, <2>8, <2>9, <2>10, <2>11 DEF LoopInv
<1> QED BY <1>14, <1>15

\* The control points after the loops are none of the loops'.
LEMMA AfterLoops ==
  ASSUME NEW p \in FinalPcs \union ClosePcs \union {"except", "exited"}
  PROVE  p \notin UnstartedPcs \union LoopPcs
BY DEF FinalPcs, WritePcs, ClosePcs, UnstartedPcs, ConnectPcs, LoopPcs, EpisodePcs

LEMMA LoopingKeepsLoop ==
  ASSUME SealInv, TypeOK', SealInv', LoopInv, Looping
  PROVE  LoopInv'
<1>1. CASE StartRun
  BY <1>1, NothingStarted DEF StartRun, UnstartedPcs, files
<1>2. CASE MakeCompletedManifest
  <2>1. /\ pc = "manifest" /\ pc' = "finalize"
        /\ UNCHANGED <<errorPolicy, task, rollout, verdicts, episodeCount, taskMetrics, directory,
                       episodeFiles>>
    BY <1>2, Unfold DEF MakeCompletedManifest
  <2>2. pc' \notin UnstartedPcs \union LoopPcs
    BY <2>1, AfterLoops DEF FinalPcs
  <2>3. TypeOK /\ LoopsDone
    BY <2>1 DEF SealInv, LoopsDone
  <2>4. \A e \in Episodes : episodeFiles[e] \ {"video.json"} \subseteq episodeFiles'[e]
    BY <2>1
  <2> QED BY <2>1, <2>2, <2>3, <2>4, LoopsLeft
<1> QED BY <1>1, <1>2, ExecutingKeepsLoop, EpisodeFilesKeepLoop, DirectoryKeepsLoop,
           CountingKeepsLoop, JudgingKeepsLoop, TaskMetricsKeepLoop, NextTaskKeepsLoop
        DEF Looping

LEMMA ConnectingKeepsLoop ==
  ASSUME SealInv, TypeOK', SealInv', LoopInv, Connecting
  PROVE  LoopInv'
<1>1. UNCHANGED <<loop, tree, episodeFiles>>
  BY DEF Connecting, InitializeBenchmark, InitializePolicy, Negotiate, DescribeRun,
       WriteFirstFiles, files
<1>2. pc \in UnstartedPcs /\ pc' \in UnstartedPcs
  BY DEF Connecting, InitializeBenchmark, InitializePolicy, Negotiate, DescribeRun, WriteFirstFiles,
         UnstartedPcs, ConnectPcs
<1> QED BY <1>1, <1>2, NothingStarted

(* The finalization adds and removes only what it generates.                 *)
LEMMA FinalizingKeepsLoop ==
  ASSUME SealInv, TypeOK', LoopInv, Finalizing
  PROVE  LoopInv'
<1>1. UNCHANGED <<errorPolicy, task, rollout, verdicts, episodeCount, taskMetrics, directory>>
  BY Unfold DEF Finalizing, EnterFinalization, GenerateVideo, VideosDone, WriteReport,
     WriteIntegrity, WriteNewFile, StageManifest, PublishManifest, CleanUp, Published,
     PostprocessRun, HandleException, tree
<1>2. TypeOK
  BY DEF SealInv
<1>3. \A e \in Episodes : episodeFiles[e] \ {"video.json"} \subseteq episodeFiles'[e]
  <2>1. CASE GenerateVideo
    BY <1>2, <2>1 DEF GenerateVideo, TypeOK
  <2>2. CASE CleanUp
    BY <1>2, <2>2 DEF CleanUp, Cleaned, TypeOK
  <2>3. CASE ~GenerateVideo /\ ~CleanUp
    BY <2>3, Unfold DEF Finalizing, EnterFinalization, VideosDone, WriteReport,
       WriteIntegrity, WriteNewFile, StageManifest, PublishManifest, Published,
       PostprocessRun, HandleException
  <2> QED BY <2>1, <2>2, <2>3
<1>4. LoopsDone' => LoopsDone
  <2>1. pc' # "manifest"
    BY DEF Finalizing, EnterFinalization, LeaveFinalization, GenerateVideo, VideosDone,
       WriteReport, WriteIntegrity, WriteNewFile, StageManifest, PublishManifest, CleanUp,
       Published, PostprocessRun, HandleException
  <2>2. manifest'.status = "completed" => manifest.status = "completed"
    BY Unfold DEF Finalizing, EnterFinalization, GenerateVideo, VideosDone, WriteReport,
       WriteIntegrity, WriteNewFile, StageManifest, PublishManifest, CleanUp, Published,
       PostprocessRun, HandleException, StatusOf
  <2>3. "manifest.completed.json" \in runFiles' =>
          "manifest.completed.json" \in runFiles \/ manifest.status = "completed"
    <3>1. CASE PublishManifest
      BY <3>1 DEF PublishManifest, ManifestName
    <3>2. CASE ~PublishManifest
      BY <3>2, Unfold DEF Finalizing, EnterFinalization, GenerateVideo, VideosDone, WriteReport,
         WriteIntegrity, WriteNewFile, StageManifest, CleanUp, Published, PostprocessRun,
         HandleException, StagingName, tree
    <3> QED BY <3>1, <3>2
  <2> QED BY <2>1, <2>2, <2>3 DEF LoopsDone
<1>5. pc' \in FinalPcs \union ClosePcs \union {"except"}
  BY DEF Finalizing, EnterFinalization, LeaveFinalization, GenerateVideo, VideosDone, WriteReport,
     WriteIntegrity, WriteNewFile, StageManifest, PublishManifest, CleanUp, Published,
     PostprocessRun, HandleException, FinalPcs, WritePcs, ClosePcs
<1> QED BY <1>1, <1>2, <1>3, <1>4, <1>5, AfterLoops, LoopsLeft

(* Closing the adapters, failures and signals write nothing.                 *)
LEMMA LeavingKeepsLoop ==
  ASSUME SealInv, TypeOK', LoopInv, Closing \/ Failures \/ Signals
  PROVE  LoopInv'
<1>1. UNCHANGED <<loop, files, final>>
  BY DEF Closing, CloseProgress, ClosePolicy, CloseBenchmark, CloseRunner, Failures, ConnectFails,
       DescribeFails, HandleExceptionFails, WriteFails,
     FinalizationFails, ClosePolicyFails, CloseBenchmarkFails, Signals, InterruptConnect,
     InterruptRun, InterruptExceptBlock, InterruptClosing
<1>2. pc' \in FinalPcs \union ClosePcs \union {"except", "exited"}
  <2>1. CASE Closing
    BY <2>1 DEF Closing, CloseProgress, ClosePolicy, CloseBenchmark, CloseRunner, LeaveClosing,
         ClosePcs
  <2>2. CASE Failures
    BY <2>2 DEF Failures, ConnectFails, DescribeFails, HandleExceptionFails, WriteFails,
         WriteFailure, FinalizationFails,
       ClosePolicyFails, AfterPolicyClose, CloseBenchmarkFails, LeaveClosing, ClosePcs, FinalPcs
  <2>3. CASE Signals
    BY <2>3 DEF Signals, InterruptConnect, InterruptRun, InterruptExceptBlock, InterruptClosing,
       LeaveClosing, ClosePcs
  <2> QED BY <2>1, <2>2, <2>3
<1>3. UNCHANGED <<errorPolicy, task, rollout, verdicts, episodeCount, runFiles, taskMetrics,
                  directory, episodeFiles, manifest>>
  BY <1>1, Unfold
<1>4. pc' \notin UnstartedPcs \union LoopPcs
  BY <1>2, AfterLoops
<1>5. LoopsDone' => LoopsDone
  BY <1>3, <1>4 DEF LoopsDone, LoopPcs
<1>6. \A e \in Episodes : episodeFiles[e] \ {"video.json"} \subseteq episodeFiles'[e]
  BY <1>3
<1> QED BY <1>3, <1>4, <1>5, <1>6, LoopsLeft DEF SealInv

LEMMA LoopInitially == Init => LoopInv
<1> SUFFICES ASSUME Init PROVE LoopInv
  OBVIOUS
<1>1. /\ pc = "initialize_benchmark" /\ episodeCount = 0 /\ manifest.status = "none"
      /\ runFiles = {} /\ task = 1 /\ verdicts = [e \in Episodes |-> "none"]
      /\ directory = [e \in Episodes |-> "absent"]
  BY DEF Init, NoManifest
<1>2. TypeOK /\ episode \in Episodes
  BY TypeInitially, EpisodeInRange
<1>3. Attempted = {} /\ \A e \in Episodes : verdicts[e] = "none" /\ directory[e] = "absent"
  BY <1>1 DEF Attempted
<1>4. /\ pc \in UnstartedPcs /\ pc \notin UncountedPcs /\ pc \notin UnjudgedPcs
      /\ pc \notin JudgedPcs
      /\ pc \notin {"count", "postprocess_task", "manifest"}
  BY <1>1, LabelsApart DEF UnstartedPcs, ConnectPcs
<1>5. \A e \in Episodes : Due(e)
  BY <1>3 DEF Due
<1>6. EpisodesInOrder
  <2>1. \A e \in Episodes : ~Earlier(e, episode)
    BY <1>1, NextInOrder, RunAssumption DEF Init, episode, Earlier, Episodes, Tasks, Rollouts
  <2> QED BY <1>2, <1>3, <1>4, <2>1 DEF EpisodesInOrder
<1>7. PolicyObeyed
  BY <1>2, <1>3, <1>4, <1>5 DEF PolicyObeyed
<1>8. DirectoryFollows
  <2>1. WrittenFiles = {}
    BY <1>1 DEF WrittenFiles, JudgedPcs
  <2>2. \A t \in Tasks : ~(t < task)
    BY <1>1 DEF Tasks
  <2> QED BY <1>3, <1>4, <2>1, <2>2 DEF DirectoryFollows, OnlyLastEpisodeIncomplete
<1>9. EpisodesCounted
  BY <1>1, <1>3, <1>4, FS_EmptySet DEF EpisodesCounted
<1> QED BY <1>1, <1>6, <1>7, <1>8, <1>9 DEF LoopInv, LoopsDone

LEMMA LoopPreserved == SealInv /\ LoopInv /\ [Next]_vars => LoopInv'
<1> SUFFICES ASSUME SealInv, LoopInv, [Next]_vars PROVE LoopInv'
  OBVIOUS
<1>1. SealInv' /\ TypeOK /\ TypeOK'
  BY SealPreserved DEF SealInv
<1>2. CASE UNCHANGED vars
  <2>1. UNCHANGED <<pc, errorPolicy, task, rollout, verdicts, episodeCount, runFiles, taskMetrics,
                    directory, episodeFiles, manifest>>
    BY <1>2, Unfold DEF vars
  <2>2. Attempted' = Attempted /\ episode' = episode /\ (LoopsDone' => LoopsDone)
        /\ WrittenFiles' = WrittenFiles
    BY <2>1 DEF Attempted, episode, LoopsDone, WrittenFiles
  <2>3. \A e \in Episodes : Due(e)' <=> Due(e)
    BY <2>1, DueUnchanged
  <2>4. EpisodesInOrder'
    BY <2>1, <2>2, <2>3 DEF LoopInv, EpisodesInOrder
  <2>5. Due(episode)' /\ (\A e \in Attempted : Due(e))'
    BY <2>1, <2>2 DEF LoopInv, PolicyObeyed, Due
  <2>6. PolicyObeyed'
    BY <2>1, <2>2, <2>5 DEF LoopInv, PolicyObeyed
  <2>7. DirectoryFollows'
    BY <2>1, <2>2 DEF LoopInv, DirectoryFollows, OnlyLastEpisodeIncomplete
  <2>8. EpisodesCounted' /\ (AllDone => AllDone')
    BY <2>1, <2>2, <2>3 DEF LoopInv, EpisodesCounted, AllDone
  <2> QED BY <2>2, <2>4, <2>6, <2>7, <2>8 DEF LoopInv
<1> QED BY <1>1, <1>2, ConnectingKeepsLoop, LoopingKeepsLoop, FinalizingKeepsLoop,
           LeavingKeepsLoop
        DEF Next, Progress

(* Every attempted episode was due under the error policy, and a run         *)
(* published as completed attempted all that were due (the loops of          *)
(* ExperimentRunner.run, runner.py), whatever fails or interrupts.           *)
THEOREM ErrorPolicyIsRespected == Spec => []ErrorPolicyRespected
<1>1. LoopInv => ErrorPolicyRespected
  BY DEF LoopInv, PolicyObeyed, AllDone, LoopsDone, ErrorPolicyRespected
<1> QED BY <1>1, SealInitially, SealPreserved, LoopInitially, LoopPreserved, PTL DEF Spec

(* A run published as completed has every file of every attempted episode,   *)
(* the metrics of every task and the right count; any other lacks at most    *)
(* files of the episode it was stopped in.                                   *)
THEOREM CompletedIsComplete == Spec => []CompletedMeansComplete
<1>1. SealInv /\ LoopInv => CompletedMeansComplete
  <2> SUFFICES ASSUME SealInv, LoopInv, "manifest.completed.json" \in runFiles
               PROVE  CompletedRunIsWhole
    BY DEF LoopInv, DirectoryFollows, CompletedMeansComplete, CompletedRunIsWhole
  <2>1. AllDone
    BY DEF LoopInv, LoopsDone
  <2>2. FinalManifests # {}
    BY DEF FinalManifests, FinalNames
  <2>3. \A e \in Attempted : "video.json" \in episodeFiles[e]
    BY <2>1, <2>2 DEF SealInv, FinalManifestSealsRun, AllDone, Attempted
  <2>4. \A e \in Attempted : episodeFiles[e] = EpisodeFileNames
    BY <2>1, <2>3 DEF SealInv, TypeOK, AllDone, Attempted, CanonicalFiles
  <2> QED BY <2>1, <2>4 DEF LoopInv, DirectoryFollows, AllDone, CompletedRunIsWhole
<1> QED BY <1>1, SealInitially, SealPreserved, LoopInitially, LoopPreserved, PTL DEF Spec

-----------------------------------------------------------------------------
(* What the caller of run sees, and what the run directory says.             *)

\* An exception is on its way out from the moment it is raised, and the except
\* block is entered once.
RaisedExplained ==
  /\ pc = "except" => raised # "none" /\ manifest.status \notin {"failed", "aborted"}
  /\ manifest.status \in {"failed", "aborted"} => raised # "none"
  /\ pc \in BeforeFinalizationPcs => raised = "none"
  /\ pc \in FinalPcs /\ manifest.status = "completed" => raised = "none"

\* The published manifest has the name of the outcome it reports, and only
\* trouble on the way out makes the exception another one.
PublishedAsDecided ==
  /\ pc \in {"published", "postprocess_run"} => ManifestName \in runFiles
  /\ "manifest.failed.json" \in runFiles => manifest.status \in {"failed", "aborted"}
  /\ pc \in ClosePcs \union {"exited"} /\ raised = "none" => "manifest.completed.json" \in runFiles
  /\ "manifest.completed.json" \in runFiles /\ raised # "none" => unsettled \/ closingTrouble
  /\ pc = "finalize" /\ manifest.status = "completed" => FinalManifests = {}
  /\ manifest.status \in {"failed", "aborted"} /\ ~unsettled /\ ~closingTrouble =>
       manifest.status = StatusOf(raised)

NoVideos == \A e \in Episodes : "video.json" \notin episodeFiles[e]
SomeUndecodable == \E e \in Episodes : Undecodable(e)
NothingGeneratedYet == runFiles \intersect (FinalNames \union StagingNames \union Generated) = {}

\* An undisturbed finalization starts without generated files, so that only a
\* torn trace can stop the one in the except block.
FinalizationStartsClean ==
  /\ pc \in ConnectPcs \union {"connected"} => Attempted = {}
  /\ pc \in BeforeFinalizationPcs => NoVideos
  /\ pc \in {"except", "finalize"} /\ ~unsettled => NoVideos /\ NothingGeneratedYet
  /\ pc = "videos" =>
       \A e \in pendingVideos :
         /\ directory[e] # "absent"
         /\ ~unsettled => "video.json" \notin episodeFiles[e]
  /\ pc \in {"videos", "report"} /\ ~unsettled => runFiles \intersect Generated = {}
  /\ pc = "integrity" /\ ~unsettled => "integrity.json" \notin runFiles
  /\ pc = "cleanup" /\ manifest.status \in {"failed", "aborted"} => unsettled \/ SomeUndecodable
  /\ pc \in ClosePcs \union {"exited"} /\ Attempted # {} /\ FinalManifests = {} =>
       unsettled \/ SomeUndecodable

OutcomeInv == RaisedExplained /\ PublishedAsDecided /\ FinalizationStartsClean

\* Each kind of control point excludes the others.
LEMMA PhasesApart ==
  /\ \A p \in BeforeFinalizationPcs : p \notin FinalPcs \union ClosePcs \union {"except", "exited"}
  /\ \A p \in FinalPcs :
       p \notin BeforeFinalizationPcs \union ClosePcs \union {"except", "exited"}
  /\ \A p \in ClosePcs \union {"exited"} :
       p \notin BeforeFinalizationPcs \union FinalPcs \union {"except"}
  /\ "except" \notin BeforeFinalizationPcs \union FinalPcs
  /\ {"finalize", "videos", "report", "integrity", "cleanup", "published", "postprocess_run"}
       \subseteq FinalPcs
BY DEF BeforeFinalizationPcs, ConnectPcs, LoopPcs, EpisodePcs, FinalPcs, WritePcs, ClosePcs

\* Nothing is published before the finalization.
LEMMA NothingPublished ==
  ASSUME SealInv, pc \in BeforeFinalizationPcs
  PROVE  /\ manifest.status = "none" /\ NothingGeneratedYet
         /\ "manifest.completed.json" \notin runFiles /\ "manifest.failed.json" \notin runFiles
         /\ FinalManifests = {}
BY DEF SealInv, NothingGenerated, NothingGeneratedYet, FinalManifests, FinalNames

(* On the way to the finalization.                                           *)
LEMMA OutcomeOpen ==
  ASSUME SealInv', pc' \in BeforeFinalizationPcs, raised' = "none", NoVideos',
         pc' \in ConnectPcs \union {"connected"} => Attempted' = {}
  PROVE  OutcomeInv'
<1>1. /\ manifest'.status = "none"
      /\ "manifest.completed.json" \notin runFiles' /\ "manifest.failed.json" \notin runFiles'
  <2>1. (SealInv /\ pc \in BeforeFinalizationPcs =>
          /\ manifest.status = "none"
          /\ "manifest.completed.json" \notin runFiles /\ "manifest.failed.json" \notin runFiles)'
    BY NothingPublished, PTL
  <2> QED BY <2>1
<1>2. /\ pc' \notin FinalPcs /\ pc' \notin ClosePcs \union {"exited"}
      /\ pc' \notin {"except", "finalize", "videos", "report", "integrity", "cleanup", "published",
                     "postprocess_run"}
  BY PhasesApart
<1> QED BY <1>1, <1>2 DEF OutcomeInv, RaisedExplained, PublishedAsDecided, FinalizationStartsClean

(* An exception or a signal leaves connect or the loops.                     *)
LEMMA OutcomeThrown ==
  ASSUME SealInv, OutcomeInv, pc \in BeforeFinalizationPcs, raised' # "none",
         UNCHANGED <<verdicts, runFiles, directory, episodeFiles, manifest>>,
         \/ pc' = "except"
         \/ pc' \in ClosePcs /\ pc \in ConnectPcs \union {"connected"}
  PROVE  OutcomeInv'
<1>1. /\ manifest.status = "none" /\ NothingGeneratedYet /\ NoVideos
      /\ "manifest.completed.json" \notin runFiles /\ "manifest.failed.json" \notin runFiles
  BY NothingPublished DEF OutcomeInv, FinalizationStartsClean
<1>2. /\ pc' \notin FinalPcs /\ pc' \notin BeforeFinalizationPcs
      /\ pc' \notin {"finalize", "videos", "report", "integrity", "cleanup", "published",
                     "postprocess_run"}
      /\ pc' \in ClosePcs \union {"exited"} => pc \in ConnectPcs \union {"connected"}
      /\ pc' \notin ConnectPcs \union {"connected"}
  BY PhasesApart DEF ClosePcs, BeforeFinalizationPcs
<1>3. NoVideos' /\ NothingGeneratedYet' /\ Attempted' = Attempted
  BY <1>1 DEF NoVideos, NothingGeneratedYet, Attempted
<1>4. pc \in ConnectPcs \union {"connected"} => Attempted = {}
  BY DEF OutcomeInv, FinalizationStartsClean
<1>5. RaisedExplained' /\ PublishedAsDecided'
  BY <1>1, <1>2 DEF RaisedExplained, PublishedAsDecided
<1>6. FinalizationStartsClean'
  BY <1>1, <1>2, <1>3, <1>4 DEF FinalizationStartsClean
<1> QED BY <1>5, <1>6 DEF OutcomeInv

LEMMA LoopingKeepsOutcome ==
  ASSUME SealInv, SealInv', OutcomeInv, Connecting \/ Looping
  PROVE  OutcomeInv'
<1>1. pc \in BeforeFinalizationPcs /\ raised = "none" /\ NoVideos
  <2>1. pc \in BeforeFinalizationPcs
    BY DEF Connecting, InitializeBenchmark, InitializePolicy, Negotiate, DescribeRun,
         WriteFirstFiles, Looping,
       StartRun, ExecuteEpisode, MakePartial, WriteTrace, MarkTrace, RenameEpisode, CountEpisode,
       WriteMetrics, WriteMetadata, FinishEpisode, JudgeEpisode, WriteTaskMetrics,
       PostprocessTask, MakeCompletedManifest, WriteEpisodeFile, BeforeFinalizationPcs, ConnectPcs,
       LoopPcs, EpisodePcs
  <2> QED BY <2>1 DEF OutcomeInv, RaisedExplained, FinalizationStartsClean
<1>2. TypeOK /\ episode \in Episodes
  BY EpisodeInRange DEF SealInv
<1>3. CASE Connecting
  <2>1. /\ pc \in ConnectPcs /\ pc' \in ConnectPcs \union {"connected"}
        /\ UNCHANGED <<raised, verdicts, episodeFiles>>
    BY <1>3, Unfold DEF Connecting, InitializeBenchmark, InitializePolicy, Negotiate, DescribeRun,
       WriteFirstFiles, ConnectPcs
  <2>2. NoVideos' /\ Attempted' = Attempted /\ Attempted = {}
    BY <1>1, <2>1 DEF NoVideos, Attempted, OutcomeInv, FinalizationStartsClean
  <2> QED BY <1>1, <2>1, <2>2, OutcomeOpen DEF BeforeFinalizationPcs
<1>4. CASE MakeCompletedManifest
  <2>1. /\ pc' = "finalize" /\ manifest'.status = "completed"
        /\ UNCHANGED <<raised, runFiles, episodeFiles>>
    BY <1>4, Unfold DEF MakeCompletedManifest
  <2>2. /\ NothingGeneratedYet /\ FinalManifests = {}
        /\ "manifest.completed.json" \notin runFiles /\ "manifest.failed.json" \notin runFiles
    BY <1>1, NothingPublished
  <2>3. NothingGeneratedYet' /\ FinalManifests' = {} /\ NoVideos'
    BY <1>1, <2>1, <2>2 DEF NothingGeneratedYet, FinalManifests, NoVideos
  <2>4. pc' \notin BeforeFinalizationPcs /\ pc' \notin ClosePcs \union {"exited"}
        /\ pc' \notin ConnectPcs \union {"connected"}
    BY <2>1, PhasesApart DEF BeforeFinalizationPcs
  <2>5. RaisedExplained' /\ PublishedAsDecided'
    BY <1>1, <2>1, <2>2, <2>3, <2>4 DEF RaisedExplained, PublishedAsDecided
  <2>6. FinalizationStartsClean'
    BY <2>1, <2>3, <2>4 DEF FinalizationStartsClean
  <2> QED BY <2>5, <2>6 DEF OutcomeInv
<1>5. CASE Looping /\ ~MakeCompletedManifest
  <2>1. UNCHANGED <<runFiles, manifest>>
    BY <1>5, Unfold DEF Looping, StartRun, ExecuteEpisode, MakePartial, WriteTrace, MarkTrace,
       RenameEpisode, CountEpisode, WriteMetrics, WriteMetadata, FinishEpisode, JudgeEpisode,
       WriteTaskMetrics, PostprocessTask, WriteEpisodeFile
  <2>2. \/ pc' \in LoopPcs \union {"episode"} /\ raised' = raised
        \/ pc' = "except" /\ raised' # "none"
    <3>1. CASE JudgeEpisode
      BY <3>1, Unfold DEF JudgeEpisode, AfterEpisode, NextRollout, RaiseInRun, LoopPcs, EpisodePcs
    <3>2. CASE ExecuteEpisode
      BY <3>2, Unfold DEF ExecuteEpisode, LoopPcs, EpisodePcs
    <3>3. CASE PostprocessTask
      BY <3>3, Unfold DEF PostprocessTask, LoopPcs, EpisodePcs
    <3>4. CASE ~(JudgeEpisode \/ ExecuteEpisode \/ PostprocessTask)
      BY <1>5, <3>4, Unfold DEF Looping, StartRun, MakePartial, WriteTrace, MarkTrace,
         RenameEpisode, CountEpisode, WriteMetrics, WriteMetadata, FinishEpisode,
         WriteTaskMetrics, WriteEpisodeFile, LoopPcs, EpisodePcs
    <3> QED BY <1>5, <3>1, <3>2, <3>3, <3>4
  <2>3. NoVideos'
    <3>1. CASE WriteTrace \/ MarkTrace \/ WriteMetrics \/ WriteMetadata \/ FinishEpisode
      <4>1. PICK name \in CanonicalFiles :
              episodeFiles' = [episodeFiles EXCEPT ![episode] = @ \union {name}]
        BY <3>1 DEF WriteTrace, MarkTrace, WriteMetrics, WriteMetadata, FinishEpisode,
           WriteEpisodeFile, CanonicalFiles, EpisodeFileNames
      <4> QED BY <1>1, <1>2, <4>1 DEF NoVideos, TypeOK, CanonicalFiles
    <3>2. CASE ~(WriteTrace \/ MarkTrace \/ WriteMetrics \/ WriteMetadata \/ FinishEpisode)
      <4>1. UNCHANGED episodeFiles
        BY <1>5, <3>2, Unfold DEF Looping, StartRun, ExecuteEpisode, MakePartial, RenameEpisode,
           CountEpisode, JudgeEpisode, WriteTaskMetrics, PostprocessTask
      <4> QED BY <1>1, <4>1 DEF NoVideos
    <3> QED BY <3>1, <3>2
  <2>4. CASE pc' = "except"
    <3>1. raised' # "none" /\ pc' \notin LoopPcs \union {"episode"}
      BY <2>2, <2>4 DEF LoopPcs, EpisodePcs
    <3>2. /\ manifest'.status = "none" /\ NothingGeneratedYet'
          /\ "manifest.completed.json" \notin runFiles' /\ "manifest.failed.json" \notin runFiles'
      BY <1>1, <2>1, NothingPublished DEF NothingGeneratedYet
    <3>3. pc' \notin FinalPcs /\ pc' \notin BeforeFinalizationPcs
          /\ pc' \notin ClosePcs \union {"exited"} /\ pc' \notin ConnectPcs \union {"connected"}
      BY <2>4, PhasesApart DEF ClosePcs, BeforeFinalizationPcs
    <3>4. RaisedExplained' /\ PublishedAsDecided'
      BY <2>4, <3>1, <3>2, <3>3 DEF RaisedExplained, PublishedAsDecided
    <3>5. FinalizationStartsClean'
      BY <2>3, <2>4, <3>2, <3>3 DEF FinalizationStartsClean
    <3> QED BY <3>4, <3>5 DEF OutcomeInv
  <2>5. CASE pc' # "except"
    <3>1. pc' \in LoopPcs \union {"episode"} /\ raised' = "none"
      BY <1>1, <2>2, <2>5
    <3>2. pc' \in BeforeFinalizationPcs /\ pc' \notin ConnectPcs \union {"connected"}
      BY <3>1 DEF BeforeFinalizationPcs, ConnectPcs, LoopPcs, EpisodePcs
    <3> QED BY <2>3, <3>1, <3>2, OutcomeOpen
  <2> QED BY <2>4, <2>5
<1> QED BY <1>3, <1>4, <1>5

\* What a torn trace left stays torn: files are only added to episodes that
\* hold their trace.
LEMMA UndecodableStays ==
  ASSUME TypeOK, UNCHANGED directory,
         \A e \in Episodes : "trace.json" \in episodeFiles'[e] => "trace.json" \in episodeFiles[e],
         SomeUndecodable
  PROVE  SomeUndecodable'
BY DEF SomeUndecodable, Undecodable

\* Within the finalization, where nothing is published yet or any more.
LEMMA FinalStatus ==
  ASSUME SealInv, pc \in FinalPcs
  PROVE  /\ manifest.status \in {"completed", "failed", "aborted"}
         /\ InExceptBlock <=> manifest.status \in {"failed", "aborted"}
<1>1. pc # "except"
  BY DEF FinalPcs, WritePcs
<1> QED BY <1>1 DEF SealInv, TypeOK, PublicationInOrder, InExceptBlock

LEMMA EnterKeepsOutcome ==
  ASSUME SealInv, OutcomeInv, EnterFinalization
  PROVE  OutcomeInv'
<1>1. /\ pc = "finalize" /\ pc \in FinalPcs
      /\ UNCHANGED <<verdicts, runFiles, directory, episodeFiles, manifest, unsettled,
                     closingTrouble>>
  BY Unfold DEF EnterFinalization, FinalPcs
<1>2. /\ manifest.status \in {"completed", "failed", "aborted"}
      /\ InExceptBlock <=> manifest.status \in {"failed", "aborted"}
  BY <1>1, FinalStatus
<1>3. /\ Attempted' = Attempted /\ FinalManifests' = FinalManifests
      /\ SomeUndecodable' = SomeUndecodable /\ NoVideos' = NoVideos
      /\ NothingGeneratedYet' = NothingGeneratedYet
  BY <1>1 DEF Attempted, FinalManifests, SomeUndecodable, Undecodable, NoVideos,
              NothingGeneratedYet
<1>4. ~unsettled => NoVideos /\ NothingGeneratedYet
  BY <1>1 DEF OutcomeInv, FinalizationStartsClean
<1>5. CASE RefusesToFinalize
  <2>1. LeaveFinalization
    BY <1>5 DEF EnterFinalization
  <2>2. unsettled
    BY <1>4, <1>5, Names DEF RefusesToFinalize, NothingGeneratedYet
  <2>3. \/ pc' = "close_progress" /\ raised' = raised /\ manifest.status \in {"failed", "aborted"}
        \/ pc' = "except" /\ raised' = "exception" /\ manifest.status = "completed"
    BY <1>2, <2>1 DEF LeaveFinalization
  <2>4. /\ pc' \notin FinalPcs /\ pc' \notin BeforeFinalizationPcs
        /\ pc' \notin ConnectPcs \union {"connected"}
        /\ pc' \in ClosePcs \union {"exited"} => pc' = "close_progress"
        /\ pc' \notin {"finalize", "videos", "report", "integrity", "cleanup", "published",
                       "postprocess_run"}
    BY <2>3, PhasesApart DEF ClosePcs, BeforeFinalizationPcs
  <2>5. RaisedExplained'
    BY <1>1, <2>3, <2>4 DEF OutcomeInv, RaisedExplained
  <2>6. PublishedAsDecided'
    BY <1>1, <2>2, <2>3, <2>4 DEF OutcomeInv, RaisedExplained, PublishedAsDecided
  <2>7. FinalizationStartsClean'
    BY <1>1, <2>2, <2>3, <2>4 DEF FinalizationStartsClean
  <2> QED BY <2>5, <2>6, <2>7 DEF OutcomeInv
<1>6. CASE ~RefusesToFinalize
  <2>1. /\ pc' = "videos" /\ raised' = raised
        /\ pendingVideos' = {e \in Episodes : directory[e] # "absent"}
    BY <1>6 DEF EnterFinalization
  <2>2. /\ pc' \in FinalPcs /\ pc' \notin BeforeFinalizationPcs
        /\ pc' \notin ClosePcs \union {"exited"} /\ pc' \notin ConnectPcs \union {"connected"}
    BY <2>1, PhasesApart DEF BeforeFinalizationPcs
  <2>3. RaisedExplained' /\ PublishedAsDecided'
    BY <1>1, <1>3, <2>1, <2>2 DEF OutcomeInv, RaisedExplained, PublishedAsDecided
  <2>4. ~unsettled => runFiles \intersect Generated = {}
    BY <1>4 DEF NothingGeneratedYet
  <2>5. FinalizationStartsClean'
    BY <1>1, <1>4, <2>1, <2>2, <2>4 DEF FinalizationStartsClean, NoVideos
  <2> QED BY <2>3, <2>5 DEF OutcomeInv
<1> QED BY <1>5, <1>6

(* The videos: only a torn trace stops an undisturbed finalization.          *)
LEMMA VideosKeepOutcome ==
  ASSUME SealInv, LoopInv, OutcomeInv, GenerateVideo \/ VideosDone
  PROVE  OutcomeInv'
<1>1. /\ pc = "videos" /\ pc \in FinalPcs /\ pc' \in {"videos", "cleanup", "report"}
      /\ UNCHANGED <<raised, verdicts, runFiles, directory, manifest, unsettled, closingTrouble>>
  BY PhasesApart, Unfold DEF GenerateVideo, VideosDone, tree
<1>2. /\ pc' \in FinalPcs /\ pc' \notin BeforeFinalizationPcs
      /\ pc' \notin ClosePcs \union {"exited"} /\ pc' \notin ConnectPcs \union {"connected"}
      /\ pc' \notin {"except", "finalize", "integrity", "published", "postprocess_run"}
  BY <1>1, PhasesApart DEF BeforeFinalizationPcs
<1>3. RaisedExplained' /\ PublishedAsDecided'
  BY <1>1, <1>2 DEF OutcomeInv, RaisedExplained, PublishedAsDecided
<1>4. \A e \in pendingVideos :
        /\ directory[e] # "absent"
        /\ ~unsettled => "video.json" \notin episodeFiles[e]
  BY <1>1 DEF OutcomeInv, FinalizationStartsClean
<1>5. ~unsettled => runFiles \intersect Generated = {}
  BY <1>1 DEF OutcomeInv, FinalizationStartsClean
<1>6. TypeOK
  BY DEF SealInv
<1>7. CASE pc' = "cleanup"
  <2>1. PICK e \in pendingVideos : ~Encodable(e) /\ UNCHANGED episodeFiles
    BY <1>1, <1>7 DEF GenerateVideo, VideosDone
  <2>2. ~unsettled => Undecodable(e)
    BY <1>4, <1>6, <2>1 DEF Encodable, Undecodable, LoopInv, DirectoryFollows, TypeOK
  <2>3. e \in Episodes
    BY <1>6, <2>1 DEF TypeOK
  <2>4. (unsettled \/ SomeUndecodable)'
    BY <1>1, <2>1, <2>2, <2>3 DEF SomeUndecodable, Undecodable
  <2>5. FinalizationStartsClean'
    BY <1>2, <1>7, <2>4 DEF FinalizationStartsClean
  <2> QED BY <1>3, <2>5 DEF OutcomeInv
<1>8. CASE pc' = "videos"
  <2>1. PICK e \in pendingVideos :
          /\ episodeFiles' = [episodeFiles EXCEPT ![e] = @ \union {"video.json"}]
          /\ pendingVideos' = pendingVideos \ {e}
    BY <1>1, <1>8 DEF GenerateVideo, VideosDone
  <2>2. \A f \in pendingVideos' : f \in pendingVideos /\ episodeFiles'[f] = episodeFiles[f]
    BY <1>6, <2>1 DEF TypeOK
  <2>3. FinalizationStartsClean'
    BY <1>1, <1>2, <1>4, <1>5, <1>8, <2>2 DEF FinalizationStartsClean
  <2> QED BY <1>3, <2>3 DEF OutcomeInv
<1>9. CASE pc' = "report"
  <2>1. FinalizationStartsClean'
    BY <1>1, <1>2, <1>5, <1>9 DEF FinalizationStartsClean
  <2> QED BY <1>3, <2>1 DEF OutcomeInv
<1> QED BY <1>1, <1>7, <1>8, <1>9

(* The report, the inventory, the staged manifest.                           *)
LEMMA WritingKeepsOutcome ==
  ASSUME SealInv, OutcomeInv, WriteReport \/ WriteIntegrity \/ StageManifest
  PROVE  OutcomeInv'
<1>1. /\ pc \in {"report", "integrity", "stage"} /\ pc \in FinalPcs
      /\ UNCHANGED <<raised, manifest, unsettled, closingTrouble>>
      /\ runFiles \subseteq runFiles'
      /\ runFiles' \subseteq runFiles \union Generated \union StagingNames
      /\ pc' \in {"integrity", "stage", "publish", "cleanup"}
  BY Names, Unfold DEF WriteReport, WriteIntegrity, StageManifest, WriteNewFile, Generated,
                       FinalPcs, WritePcs
<1>2. /\ pc' \in FinalPcs /\ pc' \notin BeforeFinalizationPcs
      /\ pc' \notin ClosePcs \union {"exited"} /\ pc' \notin ConnectPcs \union {"connected"}
      /\ pc' \notin {"except", "finalize", "videos", "report", "published", "postprocess_run"}
  <2>1. pc' \in FinalPcs
    BY <1>1 DEF FinalPcs, WritePcs
  <2> QED BY <1>1, <2>1, PhasesApart DEF BeforeFinalizationPcs
<1>3. "manifest.failed.json" \in runFiles' <=> "manifest.failed.json" \in runFiles
  BY <1>1 DEF Generated, StagingNames
<1>4. "manifest.completed.json" \in runFiles' <=> "manifest.completed.json" \in runFiles
  BY <1>1 DEF Generated, StagingNames
<1>5. RaisedExplained' /\ PublishedAsDecided'
  BY <1>1, <1>2, <1>3, <1>4 DEF OutcomeInv, RaisedExplained, PublishedAsDecided
<1>6. pc' = "integrity" /\ ~unsettled => "integrity.json" \notin runFiles'
  BY <1>1 DEF WriteReport, WriteIntegrity, StageManifest, WriteNewFile, Generated, OutcomeInv,
              FinalizationStartsClean
<1>7. pc' = "cleanup" => unsettled
  BY <1>1 DEF WriteReport, WriteIntegrity, StageManifest, WriteNewFile, Generated, OutcomeInv,
              FinalizationStartsClean
<1>8. FinalizationStartsClean'
  BY <1>1, <1>2, <1>6, <1>7 DEF FinalizationStartsClean
<1> QED BY <1>5, <1>8 DEF OutcomeInv

(* The publication, and the way out of it.                                   *)
LEMMA PublishingKeepsOutcome ==
  ASSUME SealInv, SealInv', OutcomeInv, PublishManifest \/ Published \/ PostprocessRun
  PROVE  OutcomeInv'
<1>1. /\ pc \in {"publish", "published", "postprocess_run"} /\ pc \in FinalPcs
      /\ UNCHANGED <<raised, manifest, unsettled, closingTrouble>>
      /\ pc' \in {"published", "postprocess_run", "close_progress"}
      /\ pc' = "close_progress" => pc = "postprocess_run"
  BY Unfold DEF PublishManifest, Published, PostprocessRun, FinalPcs, WritePcs
<1>2. /\ pc' \notin BeforeFinalizationPcs /\ pc' \notin ConnectPcs \union {"connected"}
      /\ pc' \notin {"except", "finalize", "videos", "report", "integrity", "cleanup"}
      /\ pc' \in ClosePcs \union {"exited"} => pc' = "close_progress"
      /\ pc' \in FinalPcs => pc' \in {"published", "postprocess_run"}
  <2>1. pc' \in FinalPcs \union ClosePcs
    BY <1>1 DEF FinalPcs, ClosePcs
  <2> QED BY <1>1, <2>1, PhasesApart DEF BeforeFinalizationPcs, ClosePcs
<1>3. manifest.status \in {"completed", "failed", "aborted"}
  BY <1>1, FinalStatus
<1>4. ManifestName' = ManifestName /\ ManifestName \in runFiles' /\ ManifestName \in FinalNames
  <2>1. CASE PublishManifest
    BY <1>1, <2>1, Names DEF PublishManifest, ManifestName
  <2>2. CASE Published \/ PostprocessRun
    <3>1. UNCHANGED runFiles /\ pc \in {"published", "postprocess_run"}
      BY <2>2, Unfold DEF Published, PostprocessRun
    <3> QED BY <1>1, <3>1, Names DEF OutcomeInv, PublishedAsDecided, ManifestName
  <2> QED BY <2>1, <2>2
<1>5. \A n \in FinalNames : n \in runFiles' => n \in runFiles \/ n = ManifestName
  BY Unfold DEF PublishManifest, Published, PostprocessRun
<1>6. /\ "manifest.failed.json" \in runFiles' => manifest.status \in {"failed", "aborted"}
      /\ "manifest.completed.json" \in runFiles' /\ raised # "none" => unsettled \/ closingTrouble
  BY <1>1, <1>3, <1>5 DEF FinalNames, ManifestName, OutcomeInv, RaisedExplained,
                          PublishedAsDecided
<1>7. raised = "none" => "manifest.completed.json" \in runFiles'
  BY <1>1, <1>3, <1>4 DEF OutcomeInv, RaisedExplained, ManifestName
<1>8. RaisedExplained'
  BY <1>1, <1>2 DEF OutcomeInv, RaisedExplained
<1>9. PublishedAsDecided'
  BY <1>1, <1>2, <1>4, <1>6, <1>7 DEF OutcomeInv, PublishedAsDecided
<1>10. FinalizationStartsClean'
  <2>1. FinalManifests' # {}
    BY <1>4 DEF FinalManifests
  <2> QED BY <1>2, <2>1 DEF FinalizationStartsClean
<1> QED BY <1>8, <1>9, <1>10 DEF OutcomeInv

(* The clean-up leaves an undisturbed run as clean as it was before.         *)
LEMMA CleaningKeepsOutcome ==
  ASSUME SealInv, OutcomeInv, CleanUp
  PROVE  OutcomeInv'
<1>1. /\ pc = "cleanup" /\ pc \in FinalPcs
      /\ UNCHANGED <<verdicts, directory, manifest, unsettled, closingTrouble>>
      /\ runFiles' = runFiles \ {StagingName, "reports", "integrity.json"}
      /\ episodeFiles' = Cleaned
  BY PhasesApart, Unfold DEF CleanUp, tree
<1>2. /\ manifest.status \in {"completed", "failed", "aborted"}
      /\ InExceptBlock <=> manifest.status \in {"failed", "aborted"}
  BY <1>1, FinalStatus
<1>3. \/ pc' = "close_progress" /\ raised' = raised /\ manifest.status \in {"failed", "aborted"}
      \/ pc' = "except" /\ raised' = "exception" /\ manifest.status = "completed"
  BY <1>2 DEF CleanUp, LeaveFinalization
<1>4. /\ pc' \notin FinalPcs /\ pc' \notin BeforeFinalizationPcs
      /\ pc' \notin ConnectPcs \union {"connected"}
      /\ pc' \in ClosePcs \union {"exited"} => pc' = "close_progress"
      /\ pc' \notin {"finalize", "videos", "report", "integrity", "cleanup", "published",
                     "postprocess_run"}
  BY <1>3, PhasesApart DEF ClosePcs, BeforeFinalizationPcs
<1>5. TypeOK /\ FinalNames \intersect runFiles = {}
  BY <1>1, Unpublished DEF SealInv
<1>6. "manifest.completed.json" \notin runFiles' /\ "manifest.failed.json" \notin runFiles'
  BY <1>1, <1>5 DEF FinalNames
<1>7. RaisedExplained'
  BY <1>1, <1>3, <1>4 DEF OutcomeInv, RaisedExplained
<1>8. PublishedAsDecided'
  BY <1>1, <1>3, <1>4, <1>6 DEF OutcomeInv, RaisedExplained, PublishedAsDecided
<1>9. NoVideos'
  BY <1>1, <1>5 DEF NoVideos, Cleaned, TypeOK
<1>10. manifest.status = "completed" => NothingGeneratedYet'
  <2> SUFFICES ASSUME manifest.status = "completed" PROVE NothingGeneratedYet'
    OBVIOUS
  <2>1. StagingName = "manifest.completed.json.tmp" /\ "manifest.failed.json.tmp" \notin runFiles
    BY DEF StagingName, SealInv, StagingIsBlocked
  <2> QED BY <1>1, <1>5, <2>1 DEF NothingGeneratedYet, StagingNames, Generated
<1>11. pc' = "close_progress" => (unsettled \/ SomeUndecodable)'
  <2>1. pc' = "close_progress" => unsettled \/ SomeUndecodable
    BY <1>1, <1>3 DEF OutcomeInv, FinalizationStartsClean
  <2>2. \A e \in Episodes : "trace.json" \in episodeFiles'[e] => "trace.json" \in episodeFiles[e]
    BY <1>1, <1>5 DEF Cleaned, TypeOK
  <2> QED BY <1>1, <1>5, <2>1, <2>2, UndecodableStays
<1>12. FinalizationStartsClean'
  BY <1>3, <1>4, <1>9, <1>10, <1>11 DEF FinalizationStartsClean
<1> QED BY <1>7, <1>8, <1>12 DEF OutcomeInv

(* run's except block decides between failed and aborted.                    *)
LEMMA ExceptKeepsOutcome ==
  ASSUME SealInv, OutcomeInv, HandleException
  PROVE  OutcomeInv'
<1>1. /\ pc = "except" /\ pc' = "finalize"
      /\ manifest'.status = StatusOf(raised)
      /\ UNCHANGED <<raised, verdicts, runFiles, directory, episodeFiles, unsettled,
                     closingTrouble>>
  BY Unfold DEF HandleException
<1>2. /\ raised # "none" /\ manifest'.status \in {"failed", "aborted"}
      /\ manifest'.status = StatusOf(raised)'
  BY <1>1 DEF OutcomeInv, RaisedExplained, StatusOf
<1>3. /\ pc' \notin BeforeFinalizationPcs /\ pc' \notin ClosePcs \union {"exited"}
      /\ pc' \notin ConnectPcs \union {"connected"}
  BY <1>1, PhasesApart DEF BeforeFinalizationPcs
<1>4. NoVideos' = NoVideos /\ NothingGeneratedYet' = NothingGeneratedYet
  BY <1>1 DEF NoVideos, NothingGeneratedYet
<1>5. RaisedExplained'
  BY <1>1, <1>2, <1>3 DEF RaisedExplained
<1>6. PublishedAsDecided'
  BY <1>1, <1>2, <1>3 DEF OutcomeInv, PublishedAsDecided
<1>7. FinalizationStartsClean'
  BY <1>1, <1>3, <1>4 DEF OutcomeInv, FinalizationStartsClean
<1> QED BY <1>5, <1>6, <1>7 DEF OutcomeInv

(* On the way out: closing the adapters touches no file of the run.          *)
LEMMA ClosingKeepsOutcome ==
  ASSUME SealInv, OutcomeInv, pc \in ClosePcs, pc' \in ClosePcs \union {"exited"},
         UNCHANGED <<verdicts, runFiles, directory, episodeFiles, manifest, unsettled>>,
         \/ UNCHANGED <<raised, closingTrouble>>
         \/ raised' # "none" /\ closingTrouble'
  PROVE  OutcomeInv'
<1>1. /\ pc' \notin FinalPcs /\ pc' \notin BeforeFinalizationPcs
      /\ pc' \notin ConnectPcs \union {"connected"}
      /\ pc' \notin {"except", "finalize", "videos", "report", "integrity", "cleanup", "published",
                     "postprocess_run"}
  BY PhasesApart DEF BeforeFinalizationPcs
<1>2. /\ Attempted' = Attempted /\ FinalManifests' = FinalManifests
      /\ SomeUndecodable' = SomeUndecodable
  BY DEF Attempted, FinalManifests, SomeUndecodable, Undecodable
<1>3. RaisedExplained'
  BY <1>1 DEF OutcomeInv, RaisedExplained
<1>4. PublishedAsDecided'
  BY <1>1 DEF OutcomeInv, PublishedAsDecided, StatusOf
<1>5. FinalizationStartsClean'
  BY <1>1, <1>2 DEF OutcomeInv, FinalizationStartsClean
<1> QED BY <1>3, <1>4, <1>5 DEF OutcomeInv

(* The publication is disturbed: from then on nothing is promised.           *)
LEMMA DisturbedOutcome ==
  ASSUME SealInv, OutcomeInv, pc \in FinalPcs \union {"except"}, unsettled',
         UNCHANGED <<verdicts, runFiles, directory, episodeFiles, manifest>>,
         \/ pc' = "except" /\ pc \in FinalPcs /\ ~InExceptBlock
         \/ pc' = "close_progress",
         raised' # "none"
  PROVE  OutcomeInv'
<1>1. /\ pc' \notin FinalPcs /\ pc' \notin BeforeFinalizationPcs
      /\ pc' \notin ConnectPcs \union {"connected"}
      /\ pc' \notin {"finalize", "videos", "report", "integrity", "cleanup", "published",
                     "postprocess_run"}
  BY PhasesApart DEF ClosePcs, BeforeFinalizationPcs
<1>2. pc' = "except" => manifest.status \notin {"failed", "aborted"}
  BY DEF InExceptBlock
<1>3. RaisedExplained'
  BY <1>1, <1>2 DEF OutcomeInv, RaisedExplained
<1>4. PublishedAsDecided'
  BY <1>1 DEF OutcomeInv, PublishedAsDecided
<1>5. FinalizationStartsClean'
  BY <1>1 DEF FinalizationStartsClean
<1> QED BY <1>3, <1>4, <1>5 DEF OutcomeInv

LEMMA FailuresKeepOutcome ==
  ASSUME SealInv, OutcomeInv, Failures
  PROVE  OutcomeInv'
<1>1. UNCHANGED <<verdicts, runFiles, directory, episodeFiles, manifest>>
  BY Unfold DEF Failures, ConnectFails, DescribeFails, HandleExceptionFails, WriteFails,
       FinalizationFails, ClosePolicyFails,
     CloseBenchmarkFails
<1>2. CASE ConnectFails \/ DescribeFails \/ WriteFails
  <2>1. /\ pc \in BeforeFinalizationPcs /\ raised' # "none"
        /\ \/ pc' = "except"
           \/ pc' \in ClosePcs /\ pc \in ConnectPcs \union {"connected"}
    BY <1>2 DEF ConnectFails, DescribeFails, WriteFails, WriteFailure, BeforeFinalizationPcs,
                ConnectPcs, LoopPcs, ClosePcs
  <2> QED BY <1>1, <2>1, OutcomeThrown
<1>3. CASE FinalizationFails
  <2>1. /\ pc \in WritePcs /\ pc \in FinalPcs /\ pc' = "cleanup"
        /\ unsettled' = (unsettled \/ InExceptBlock)
        /\ UNCHANGED <<raised, closingTrouble>>
    BY <1>3, Unfold DEF FinalizationFails, FinalPcs
  <2>2. /\ pc' \in FinalPcs /\ pc' \notin BeforeFinalizationPcs
        /\ pc' \notin ClosePcs \union {"exited"} /\ pc' \notin ConnectPcs \union {"connected"}
    BY <2>1, PhasesApart DEF BeforeFinalizationPcs
  <2>3. /\ InExceptBlock <=> manifest.status \in {"failed", "aborted"}
        /\ unsettled \in BOOLEAN
    BY <2>1, FinalStatus DEF SealInv, TypeOK
  <2>4. RaisedExplained' /\ PublishedAsDecided'
    BY <1>1, <2>1, <2>2, <2>3 DEF OutcomeInv, RaisedExplained, PublishedAsDecided
  <2>5. FinalizationStartsClean'
    BY <1>1, <2>1, <2>2, <2>3 DEF FinalizationStartsClean
  <2> QED BY <2>4, <2>5 DEF OutcomeInv
<1>4. CASE ClosePolicyFails \/ CloseBenchmarkFails
  <2>1. /\ pc \in ClosePcs /\ pc' \in ClosePcs \union {"exited"}
        /\ raised' # "none" /\ closingTrouble' /\ UNCHANGED unsettled
    BY <1>4 DEF ClosePolicyFails, AfterPolicyClose, CloseBenchmarkFails, LeaveClosing, ClosePcs
  <2> QED BY <1>1, <2>1, ClosingKeepsOutcome
<1>5. CASE HandleExceptionFails
  BY <1>1, <1>5, DisturbedOutcome DEF HandleExceptionFails
<1> QED BY <1>2, <1>3, <1>4, <1>5 DEF Failures

LEMMA SignalsKeepOutcome ==
  ASSUME SealInv, OutcomeInv, Signals
  PROVE  OutcomeInv'
<1>1. /\ UNCHANGED <<verdicts, runFiles, directory, episodeFiles, manifest>>
      /\ raised' # "none"
  BY Unfold DEF Signals, Signal, InterruptConnect, InterruptRun, InterruptExceptBlock,
     InterruptClosing
<1>2. CASE InterruptConnect \/ (InterruptRun /\ pc \in LoopPcs)
  <2>1. /\ pc \in BeforeFinalizationPcs
        /\ \/ pc' = "except"
           \/ pc' \in ClosePcs /\ pc \in ConnectPcs \union {"connected"}
    BY <1>2 DEF InterruptConnect, InterruptRun, BeforeFinalizationPcs, ClosePcs
  <2> QED BY <1>1, <2>1, OutcomeThrown
<1>3. CASE InterruptExceptBlock \/ (InterruptRun /\ pc \in FinalPcs)
  BY <1>1, <1>3, DisturbedOutcome DEF InterruptExceptBlock, InterruptRun
<1>4. CASE InterruptClosing
  <2>1. pc \in ClosePcs /\ pc' \in ClosePcs \union {"exited"} /\ closingTrouble'
        /\ UNCHANGED unsettled
    BY <1>4 DEF InterruptClosing, LeaveClosing, ClosePcs
  <2> QED BY <1>1, <2>1, ClosingKeepsOutcome
<1> QED BY <1>2, <1>3, <1>4 DEF Signals, InterruptRun

LEMMA OutcomeInitially == Init => OutcomeInv
<1> SUFFICES ASSUME Init PROVE OutcomeInv
  OBVIOUS
<1>1. /\ pc = "initialize_benchmark" /\ raised = "none" /\ manifest.status = "none"
      /\ runFiles = {} /\ Attempted = {} /\ NoVideos
  BY DEF Init, NoManifest, Attempted, NoVideos
<1>2. pc \in BeforeFinalizationPcs
  BY <1>1 DEF BeforeFinalizationPcs, ConnectPcs
<1>3. /\ pc \notin FinalPcs /\ pc \notin ClosePcs \union {"exited"}
      /\ pc \notin {"except", "finalize", "videos", "report", "integrity", "cleanup", "published",
                    "postprocess_run"}
  BY <1>2, PhasesApart
<1> QED BY <1>1, <1>3 DEF OutcomeInv, RaisedExplained, PublishedAsDecided, FinalizationStartsClean

LEMMA OutcomePreserved == SealInv /\ LoopInv /\ OutcomeInv /\ [Next]_vars => OutcomeInv'
<1> SUFFICES ASSUME SealInv, LoopInv, OutcomeInv, [Next]_vars PROVE OutcomeInv'
  OBVIOUS
<1>1. SealInv'
  BY SealPreserved
<1>2. CASE UNCHANGED vars
  <2>1. UNCHANGED <<pc, raised, verdicts, runFiles, directory, episodeFiles, manifest,
                    pendingVideos, unsettled, closingTrouble>>
    BY <1>2, Unfold DEF vars
  <2>2. /\ Attempted' = Attempted /\ FinalManifests' = FinalManifests
        /\ SomeUndecodable' = SomeUndecodable /\ NoVideos' = NoVideos
        /\ NothingGeneratedYet' = NothingGeneratedYet /\ ManifestName' = ManifestName
    BY <2>1 DEF Attempted, FinalManifests, SomeUndecodable, Undecodable, NoVideos,
                NothingGeneratedYet, ManifestName
  <2>3. RaisedExplained' /\ FinalizationStartsClean'
    BY <2>1, <2>2 DEF OutcomeInv, RaisedExplained, FinalizationStartsClean
  <2>4. PublishedAsDecided'
    BY <2>1, <2>2 DEF OutcomeInv, PublishedAsDecided, StatusOf
  <2> QED BY <2>3, <2>4 DEF OutcomeInv
<1>3. CASE Closing
  <2>1. /\ UNCHANGED <<verdicts, runFiles, directory, episodeFiles, manifest, unsettled, raised,
                       closingTrouble>>
        /\ pc \in ClosePcs /\ pc' \in ClosePcs \union {"exited"}
    BY <1>3, Unfold DEF Closing, CloseProgress, ClosePolicy, CloseBenchmark, CloseRunner,
         LeaveClosing, ClosePcs,
                        troubles
  <2> QED BY <2>1, ClosingKeepsOutcome
<1> QED BY <1>1, <1>2, <1>3, LoopingKeepsOutcome, EnterKeepsOutcome, VideosKeepOutcome,
           WritingKeepsOutcome, PublishingKeepsOutcome, CleaningKeepsOutcome, ExceptKeepsOutcome,
           FailuresKeepOutcome, SignalsKeepOutcome
        DEF Next, Progress, Finalizing

-----------------------------------------------------------------------------
(* The release of the simulator.                                             *)

ReleaseTried ==
  benchmark = "closed" \/ benchmarkTrouble >= 1 \/ state \in {"created", "connected"}

\* The benchmark is closed, or every attempt there was to close it has failed;
\* there are two, but for an interrupted connect.
ReleaseInv ==
  /\ pc \in ConnectPcs \union {"connected"} => state \in {"created", "connected"}
  /\ resourcesClosed => benchmark = "closed" /\ pc \in {"cli_finally", "exited"}
  /\ caller = "cli" => pc \in {"close_policy", "close_benchmark", "exited"}
  /\ pc = "cli_finally" \/ (caller = "cli" /\ pc # "exited") => ReleaseTried
  /\ BenchmarkReleased

LEMMA ReleaseInitially == Init => ReleaseInv
BY DEF Init, ReleaseInv, BenchmarkReleased

(* Before the adapters are closed the command line is not involved.          *)
LEMMA NotYetReleased ==
  ASSUME TypeOK, ReleaseInv, pc \notin ClosePcs \union {"exited"},
         UNCHANGED <<resourcesClosed, caller>>,
         pc' \notin {"cli_finally", "exited"},
         pc' \in ConnectPcs \union {"connected"} => state' \in {"created", "connected"}
  PROVE  ReleaseInv'
<1>1. ~resourcesClosed /\ caller # "cli"
  BY DEF ReleaseInv, ClosePcs
<1> QED BY <1>1 DEF ReleaseInv, BenchmarkReleased

LEMMA ProgressKeepsRelease ==
  ASSUME TypeOK, ReleaseInv, Connecting \/ Looping \/ Finalizing
  PROVE  ReleaseInv'
<1>1. UNCHANGED <<resourcesClosed, caller>>
  <2>1. CASE Connecting
    BY <2>1, Unfold DEF Connecting, InitializeBenchmark, InitializePolicy, Negotiate, DescribeRun,
                        WriteFirstFiles, closing
  <2>2. CASE Looping
    BY <2>2, Unfold DEF Looping, StartRun, ExecuteEpisode, MakePartial, WriteTrace, MarkTrace,
       RenameEpisode, CountEpisode, WriteMetrics, WriteMetadata, FinishEpisode, JudgeEpisode,
       WriteTaskMetrics, PostprocessTask, MakeCompletedManifest, WriteEpisodeFile, closing
  <2>3. CASE Finalizing
    BY <2>3, Unfold DEF Finalizing, EnterFinalization, GenerateVideo, VideosDone, WriteReport,
       WriteIntegrity, WriteNewFile, StageManifest, PublishManifest, CleanUp, Published,
       PostprocessRun, HandleException
  <2> QED BY <2>1, <2>2, <2>3
<1>2. CASE Connecting
  <2>1. /\ pc \in ConnectPcs /\ pc' \in ConnectPcs \union {"connected"}
        /\ state' \in {state, "connected"}
    BY <1>2 DEF Connecting, InitializeBenchmark, InitializePolicy, Negotiate, DescribeRun,
         WriteFirstFiles,
                ConnectPcs
  <2>2. /\ pc \notin ClosePcs \union {"exited"} /\ pc' \notin {"cli_finally", "exited"}
        /\ state' \in {"created", "connected"}
    BY <2>1 DEF ConnectPcs, ClosePcs, ReleaseInv
  <2> QED BY <1>1, <2>2, NotYetReleased
<1>3. CASE Looping
  <2>1. pc \in LoopPcs \union {"connected", "episode"}
        /\ pc' \in LoopPcs \union {"episode", "except", "finalize"}
    <3>1. CASE JudgeEpisode \/ ExecuteEpisode \/ PostprocessTask \/ MakeCompletedManifest
      BY <3>1 DEF JudgeEpisode, AfterEpisode, NextRollout, RaiseInRun, ExecuteEpisode,
                  PostprocessTask, MakeCompletedManifest, LoopPcs, EpisodePcs
    <3>2. CASE ~(JudgeEpisode \/ ExecuteEpisode \/ PostprocessTask \/ MakeCompletedManifest)
      BY <1>3, <3>2 DEF Looping, StartRun, MakePartial, WriteTrace, MarkTrace, RenameEpisode,
         CountEpisode, WriteMetrics, WriteMetadata, FinishEpisode, WriteTaskMetrics,
         WriteEpisodeFile, LoopPcs, EpisodePcs
    <3> QED BY <3>1, <3>2
  <2>2. /\ pc \notin ClosePcs \union {"exited"} /\ pc' \notin {"cli_finally", "exited"}
        /\ pc' \notin ConnectPcs \union {"connected"}
    BY <2>1 DEF LoopPcs, EpisodePcs, ClosePcs, ConnectPcs
  <2> QED BY <1>1, <2>2, NotYetReleased
<1>4. CASE Finalizing
  <2>1. pc \in FinalPcs \union {"except"} /\ pc' \in FinalPcs \union {"except", "close_progress"}
    BY <1>4 DEF Finalizing, EnterFinalization, LeaveFinalization, GenerateVideo, VideosDone,
       WriteReport, WriteIntegrity, WriteNewFile, StageManifest, PublishManifest, CleanUp,
       Published, PostprocessRun, HandleException, FinalPcs, WritePcs
  <2>2. /\ pc \notin ClosePcs \union {"exited"} /\ pc' \notin {"cli_finally", "exited"}
        /\ pc' \notin ConnectPcs \union {"connected"}
    BY <2>1 DEF FinalPcs, WritePcs, ClosePcs, ConnectPcs
  <2> QED BY <1>1, <2>2, NotYetReleased
<1> QED BY <1>2, <1>3, <1>4

LEMMA ClosingKeepsRelease ==
  ASSUME TypeOK, ReleaseInv, Closing
  PROVE  ReleaseInv'
<1> USE DEF ReleaseInv, ReleaseTried, BenchmarkReleased, ConnectPcs
<1>1. CASE ClosePolicy
  BY <1>1, Unfold DEF ClosePolicy, troubles
<1>2. CASE CloseBenchmark
  BY <1>2, Unfold DEF CloseBenchmark, LeaveClosing, TypeOK, troubles
<1>3. CASE CloseRunner
  BY <1>3, Unfold DEF CloseRunner, TypeOK, troubles
<1>4. CASE CloseProgress
  BY <1>4, Unfold DEF CloseProgress, troubles
<1> QED BY <1>1, <1>2, <1>3, <1>4 DEF Closing

LEMMA FailuresKeepRelease ==
  ASSUME TypeOK, ReleaseInv, Failures
  PROVE  ReleaseInv'
<1>1. CASE ConnectFails \/ WriteFails \/ FinalizationFails \/ HandleExceptionFails
  <2>1. /\ pc \notin ClosePcs \union {"exited"}
        /\ pc' \in {"close_policy", "close_progress", "except", "cleanup"}
        /\ UNCHANGED <<resourcesClosed, caller>>
    BY <1>1, Unfold DEF ConnectFails, HandleExceptionFails, WriteFails, WriteFailure,
       FinalizationFails, ConnectPcs, EpisodePcs, WritePcs, ClosePcs
  <2>2. pc' \notin ConnectPcs \union {"connected"} /\ pc' \notin {"cli_finally", "exited"}
    BY <2>1 DEF ConnectPcs
  <2> QED BY <2>1, <2>2, NotYetReleased
<1>2. CASE ClosePolicyFails
  BY <1>2 DEF ClosePolicyFails, AfterPolicyClose, ReleaseInv, ReleaseTried, BenchmarkReleased,
              ConnectPcs
<1>3. CASE CloseBenchmarkFails
  BY <1>3 DEF CloseBenchmarkFails, LeaveClosing, ReleaseInv, ReleaseTried, BenchmarkReleased,
              ConnectPcs, TypeOK
<1>4. CASE DescribeFails
  BY <1>4, Unfold
  DEF DescribeFails, ReleaseInv, ReleaseTried, BenchmarkReleased, ConnectPcs
<1> QED BY <1>1, <1>2, <1>3, <1>4 DEF Failures

LEMMA SignalsKeepRelease ==
  ASSUME TypeOK, ReleaseInv, Signals
  PROVE  ReleaseInv'
<1>1. CASE InterruptConnect
  <2>1. /\ pc \in ConnectPcs \union {"connected"} /\ pc' = "cli_finally"
        /\ UNCHANGED <<state, benchmark, resourcesClosed, caller, benchmarkTrouble>>
    BY <1>1, Unfold DEF InterruptConnect
  <2>2. ~resourcesClosed /\ caller # "cli" /\ state \in {"created", "connected"}
    BY <2>1 DEF ReleaseInv, ConnectPcs
  <2> QED BY <2>1, <2>2 DEF ReleaseInv, ReleaseTried, BenchmarkReleased, ConnectPcs
<1>2. CASE InterruptRun \/ InterruptExceptBlock
  <2>1. /\ pc \notin ClosePcs \union {"exited"} /\ pc' \in {"close_progress", "except"}
        /\ UNCHANGED <<resourcesClosed, caller>>
    BY <1>2, Unfold DEF InterruptRun, InterruptExceptBlock, LoopPcs, EpisodePcs, FinalPcs,
                        WritePcs, ClosePcs
  <2>2. pc' \notin ConnectPcs \union {"connected"} /\ pc' \notin {"cli_finally", "exited"}
    BY <2>1 DEF ConnectPcs
  <2> QED BY <2>1, <2>2, NotYetReleased
<1>3. CASE InterruptClosing
  <2>1. UNCHANGED <<state, benchmark, resourcesClosed, caller>>
    BY <1>3 DEF InterruptClosing
  <2>2. \/ pc = "close_policy" /\ pc' = "close_benchmark" /\ UNCHANGED benchmarkTrouble
        \/ /\ pc \in {"close_progress", "close_benchmark"}
           /\ benchmarkTrouble' = benchmarkTrouble + 1
           /\ pc' = IF caller = "runner" THEN "cli_finally" ELSE "exited"
        \/ pc = "cli_finally" /\ pc' = "exited" /\ benchmarkTrouble' = benchmarkTrouble + 1
    BY <1>3 DEF InterruptClosing, LeaveClosing, ClosePcs
  <2> QED BY <2>1, <2>2 DEF ReleaseInv, ReleaseTried, BenchmarkReleased, ConnectPcs, TypeOK
<1> QED BY <1>1, <1>2, <1>3 DEF Signals

LEMMA ReleasePreserved == SealInv /\ ReleaseInv /\ [Next]_vars => ReleaseInv'
<1> SUFFICES ASSUME SealInv, ReleaseInv, [Next]_vars PROVE ReleaseInv'
  OBVIOUS
<1>1. TypeOK
  BY DEF SealInv
<1>2. CASE UNCHANGED vars
  BY <1>2, Unfold DEF vars, ReleaseInv, ReleaseTried, BenchmarkReleased
<1> QED BY <1>1, <1>2, ProgressKeepsRelease, ClosingKeepsRelease, FailuresKeepRelease,
           SignalsKeepRelease
        DEF Next, Progress

(* A run that has ended left its directory and its adapters as it said: the  *)
(* manifest has the name of the outcome the caller sees, only a torn trace   *)
(* or trouble in the publication itself explains a missing one, and the      *)
(* benchmark is closed but where every attempt failed (runner.py,            *)
(* filesystem.py, cli.py), for any number of failures and signals.           *)
THEOREM ManifestsAgree == Spec => []ManifestAgreesWithOutcome
<1>1. SealInv /\ OutcomeInv /\ ReleaseInv => ManifestAgreesWithOutcome
  <2> SUFFICES ASSUME SealInv, OutcomeInv, ReleaseInv PROVE ManifestAgreesWithOutcome
    OBVIOUS
  <2>1. OutcomeAgrees
    <3>1. manifest.status \in {"failed", "aborted"} /\ ~unsettled /\ ~closingTrouble =>
            raised = IF manifest.status = "aborted" THEN "interrupt" ELSE "exception"
      BY DEF OutcomeInv, RaisedExplained, PublishedAsDecided, StatusOf, SealInv, TypeOK
    <3> QED BY <3>1 DEF OutcomeInv, PublishedAsDecided, OutcomeAgrees
  <2>2. MissingManifestExplained
    BY DEF OutcomeInv, FinalizationStartsClean, MissingManifestExplained, SomeUndecodable
  <2>3. BenchmarkReleased
    BY DEF ReleaseInv
  <2> QED BY <2>1, <2>2, <2>3 DEF ManifestAgreesWithOutcome
<1> QED BY <1>1, SealInitially, SealPreserved, LoopInitially, LoopPreserved, OutcomeInitially,
           OutcomePreserved, ReleaseInitially, ReleasePreserved, PTL DEF Spec
=============================================================================
