------------------------ MODULE EpisodeExecution_proofs ------------------------
(* Invariants of EpisodeExecution, for every task length, chunk length,      *)
(* replan interval, set of instructions and number of episodes and signals.  *)
EXTENDS EpisodeExecution, SequenceTheorems, TLAPS

USE DEF AdapterState, AllModes, TryPcs, HandlerPcs, Prediction, Action, Outcome

LEMMA EmptyRecorder ==
  /\ <<>> \in Seq(Instructions)
  /\ <<>> \in Seq(Prediction)
  /\ <<>> \in Seq(Action)
OBVIOUS

LEMMA LimitType ==
  ASSUME mode \in Modes, NEW h \in 1..MaximumHorizon
  PROVE  Limit(h) \in Nat
BY ExecutionAssumption DEF Limit

LEMMA NextActionType ==
  ASSUME TypeOK, ~NeedsPrediction
  PROVE  NextAction \in Action
BY DEF TypeOK, NeedsPrediction, NextAction

LEMMA RecordStepType ==
  ASSUME TypeOK, ~NeedsPrediction, NEW i \in Instructions, RecordStep(i)
  PROVE  /\ executed' \in Seq(Action)
         /\ contexts' \in Nat
         /\ observed' \in Seq(Instructions)
         /\ predictions' \in Seq(Prediction)
BY NextActionType DEF TypeOK, RecordStep

LEMMA TypeInitially == Init => TypeOK
<1> SUFFICES ASSUME Init PROVE TypeOK
  OBVIOUS
<1>1. outcome \in Outcome /\ entry \in [policy: AdapterState, benchmark: AdapterState]
  BY DEF Init
<1>2. /\ observed \in Seq(Instructions)
      /\ predictions \in Seq(Prediction)
      /\ executed \in Seq(Action)
  BY EmptyRecorder DEF Init
<1> QED BY <1>1, <1>2, ExecutionAssumption DEF Init, TypeOK

LEMMA TypePreserved == TypeOK /\ [Next]_vars => TypeOK'
<1> SUFFICES ASSUME TypeOK, [Next]_vars PROVE TypeOK'
  OBVIOUS
<1>1. CASE Begin
  <2>1. /\ observed' \in Seq(Instructions)
        /\ predictions' \in Seq(Prediction)
        /\ executed' \in Seq(Action)
    BY <1>1, EmptyRecorder DEF Begin
  <2>2. entry' \in [policy: AdapterState, benchmark: AdapterState]
    BY <1>1 DEF Begin, TypeOK
  <2>3. outcome' \in Outcome
    BY <1>1 DEF Begin, TypeOK
  <2>4. /\ mode' \in Modes
        /\ policy' \in AdapterState
        /\ benchmark' \in AdapterState
        /\ interrupts' \in Nat
    BY <1>1 DEF Begin, TypeOK
  <2>5. /\ pending' \in Nat
        /\ chunkIndex' \in Nat
        /\ executionLimit' \in Nat
        /\ contexts' \in Nat
        /\ episode' \in Nat
    BY <1>1 DEF Begin, TypeOK
  <2>6. instruction' \in Instructions
    BY <1>1, ExecutionAssumption DEF Begin
  <2>7. /\ pc' = "reset_policy"
        /\ policyActive' = FALSE
        /\ failureDomain' = "policy"
        /\ exc' = "none"
        /\ blame' = "none"
        /\ terminal' = "none"
    BY <1>1 DEF Begin
  <2> QED BY <2>1, <2>2, <2>3, <2>4, <2>5, <2>6, <2>7 DEF TypeOK
<1>2. CASE ResetPolicy
  BY <1>2 DEF TypeOK, ResetPolicy, locals, recorder, run
<1>3. CASE ResetPolicyFails
  BY <1>3 DEF TypeOK, ResetPolicyFails, Raise, RaiseFrom, Caught, recorder, run
<1>4. CASE MarkPolicyActive
  BY <1>4 DEF TypeOK, MarkPolicyActive, recorder, run
<1>5. CASE ResetBenchmark
  BY <1>5, ExecutionAssumption DEF TypeOK, ResetBenchmark, locals, run
<1>6. CASE ResetBenchmarkFails
  BY <1>6 DEF TypeOK, ResetBenchmarkFails, Raise, RaiseFrom, Caught, recorder, run
<1>7. CASE Predict
  <2>1. PICK h \in 1..MaximumHorizon :
          /\ predictions' = Append(predictions, [horizon |-> h, step |-> stepIndex])
          /\ IF IntervalExceeds(h)
             THEN /\ RaiseFrom("plan", "runner")
                  /\ UNCHANGED <<executionLimit, pending, chunkIndex>>
             ELSE /\ pending' = Len(predictions) + 1
                  /\ executionLimit' = Limit(h)
                  /\ chunkIndex' = 0
                  /\ failureDomain' = "runner"
                  /\ UNCHANGED <<pc, exc, blame>>
    BY <1>7 DEF Predict
  <2>2. predictions' \in Seq(Prediction)
    BY <2>1, ExecutionAssumption DEF TypeOK, stepIndex
  <2>3. Limit(h) \in Nat
    BY LimitType DEF TypeOK
  <2>4. CASE IntervalExceeds(h)
    BY <1>7, <2>1, <2>2, <2>4 DEF TypeOK, Predict, RaiseFrom, Caught, run
  <2>5. CASE ~IntervalExceeds(h)
    BY <1>7, <2>1, <2>2, <2>3, <2>5 DEF TypeOK, Predict, run
  <2> QED BY <2>4, <2>5
<1>8. CASE PredictFails
  BY <1>8 DEF TypeOK, PredictFails, Raise, RaiseFrom, Caught, recorder, run
<1>9. CASE Step
  <2>1. PICK i \in Instructions :
          RecordStep(i) /\ instruction' = i /\ pending' = PendingAfter(i)
    BY <1>9 DEF Step
  <2>2. /\ executed' \in Seq(Action)
        /\ contexts' \in Nat
        /\ observed' \in Seq(Instructions)
        /\ predictions' \in Seq(Prediction)
    BY <1>9, <2>1, RecordStepType DEF Step
  <2>3. pending' \in Nat
    BY <2>1 DEF PendingAfter, TypeOK
  <2> QED BY <1>9, <2>1, <2>2, <2>3 DEF TypeOK, Step, run
<1>10. CASE StepOverrunsMaximum
  <2>1. PICK i \in Instructions : RecordStep(i)
    BY <1>10 DEF StepOverrunsMaximum
  <2>2. /\ executed' \in Seq(Action)
        /\ contexts' \in Nat
        /\ observed' \in Seq(Instructions)
        /\ predictions' \in Seq(Prediction)
    BY <1>10, <2>1, RecordStepType DEF StepOverrunsMaximum
  <2> QED BY <1>10, <2>2 DEF TypeOK, StepOverrunsMaximum, Raise, RaiseFrom, Caught, run
<1>11. CASE StepEndsEpisode
  <2>1. /\ executed' \in Seq(Action)
        /\ contexts' \in Nat
        /\ observed' \in Seq(Instructions)
        /\ predictions' \in Seq(Prediction)
    <3>1. CASE \E i \in Instructions : RecordStep(i)
      BY <1>11, <3>1, RecordStepType DEF StepEndsEpisode
    <3>2. CASE RecordLastStep
      BY <1>11, <3>2, NextActionType DEF StepEndsEpisode, RecordLastStep, TypeOK
    <3> QED BY <1>11, <3>1, <3>2 DEF StepEndsEpisode
  <2> QED BY <1>11, <2>1 DEF TypeOK, StepEndsEpisode, run
<1>12. CASE StepFails
  BY <1>12 DEF TypeOK, StepFails, Raise, RaiseFrom, Caught, recorder, run
<1>13. CASE EndEpisode
  BY <1>13 DEF TypeOK, EndEpisode, locals, recorder, run
<1>14. CASE EndEpisodeFails
  BY <1>14 DEF TypeOK, EndEpisodeFails, Raise, RaiseFrom, Caught, recorder, run
<1>15. CASE ReturnClean
  <2>1. outcome' \in Outcome
    BY <1>15 DEF TypeOK, ReturnClean
  <2> HIDE DEF AdapterState, Prediction, Action, Outcome
  <2> QED BY <1>15, <2>1 DEF TypeOK, ReturnClean, recorder
<1>16. CASE SafeEnd
  BY <1>16 DEF TypeOK, SafeEnd, locals, recorder, run
<1>17. CASE SafeAbort
  BY <1>17 DEF TypeOK, SafeAbort, locals, recorder, run
<1>18. CASE ReturnFailed
  BY <1>18 DEF TypeOK, ReturnFailed, ErrorStatus, locals, recorder
<1>19. CASE Interrupt
  BY <1>19 DEF TypeOK, Interrupt, Caught, recorder
<1>20. CASE InterruptHandler
  BY <1>20 DEF TypeOK, InterruptHandler, locals, recorder
<1>21. CASE UNCHANGED vars
  BY <1>21 DEF TypeOK, vars, locals, recorder, run
<1> QED
  BY <1>1, <1>2, <1>3, <1>4, <1>5, <1>6, <1>7, <1>8, <1>9, <1>10, <1>11, <1>12, <1>13, <1>14,
     <1>15, <1>16, <1>17, <1>18, <1>19, <1>20, <1>21
  DEF Next, TryBlock, Handlers

(* The execution loop and the recorder keep their types (execution.py,       *)
(* recorder.py).                                                             *)
THEOREM TypeCorrect == Spec => []TypeOK
BY TypeInitially, TypePreserved, PTL DEF Spec

-----------------------------------------------------------------------------
(* The recorder: what it holds agrees with the locals of the loop.           *)

\* The prediction of the last executed action, 0 before the first action.
LastPredictionUsed == IF executed = <<>> THEN 0 ELSE executed[Len(executed)].prediction

\* Before the loop nothing is pending and nothing is recorded.
NothingYet ==
  pc \in {"reset_policy", "policy_reset", "reset_benchmark"} =>
    /\ pending = 0 /\ predictions = <<>> /\ executed = <<>>
    /\ instruction = InitialInstruction

\* The newest recorded observation is the one the loop holds.
AtCurrentStep ==
  pc = "loop" =>
    /\ contexts = Len(executed) + 1
    /\ Len(observed) = contexts
    /\ instruction = observed[contexts]

\* The pending prediction is the newest; chunkIndex counts the steps since it
\* was made and has not passed its limit, which its horizon admits.
PendingIsNewest ==
  pc = "loop" /\ pending # 0 =>
    /\ pending = Len(predictions)
    /\ executionLimit = Limit(predictions[pending].horizon)
    /\ ~IntervalExceeds(predictions[pending].horizon)
    /\ predictions[pending].step + chunkIndex = Len(executed)
    /\ chunkIndex <= executionLimit
    /\ IF chunkIndex = 0
       THEN pending = LastPredictionUsed + 1
       ELSE /\ executed # <<>>
            /\ executed[Len(executed)] = [prediction |-> pending, offset |-> chunkIndex - 1]

\* A prediction that is no longer pending has been acted on.
DiscardedWasUsed ==
  pc = "loop" /\ pending = 0 =>
    /\ Len(predictions) = LastPredictionUsed
    /\ predictions # <<>> => predictions[Len(predictions)].step < Len(executed)

LoopInv == NothingYet /\ AtCurrentStep /\ PendingIsNewest /\ DiscardedWasUsed

RecorderInv == TypeOK /\ LoopInv /\ ChunksExecutedAsPrefixes /\ OnePredictionPerStep

HIDE DEF AdapterState, AllModes, TryPcs, HandlerPcs, Prediction, Action, Outcome

LEMMA RecordedPrediction ==
  ASSUME TypeOK, NEW k \in 1..Len(predictions)
  PROVE  predictions[k].horizon \in 1..MaximumHorizon /\ predictions[k].step \in Nat
<1>1. predictions[k] \in Prediction
  BY ElementOfSeq DEF TypeOK
<1> QED BY <1>1 DEF Prediction

LEMMA RecordedAction ==
  ASSUME TypeOK, NEW k \in 1..Len(executed)
  PROVE  executed[k].prediction \in Nat \ {0} /\ executed[k].offset \in Nat
<1>1. executed[k] \in Action
  BY ElementOfSeq DEF TypeOK
<1> QED BY <1>1 DEF Action

LEMMA LimitBounds ==
  ASSUME mode \in Modes, NEW h \in 1..MaximumHorizon, ~IntervalExceeds(h)
  PROVE  Limit(h) \in 1..h
BY ExecutionAssumption DEF AllModes, Limit, IntervalExceeds

(* When the loop asks for a prediction, every earlier one has been used.     *)
LEMMA AllPredictionsUsed ==
  ASSUME RecorderInv, pc = "loop", NeedsPrediction
  PROVE  /\ Len(predictions) = LastPredictionUsed
         /\ predictions # <<>> => predictions[Len(predictions)].step < Len(executed)
<1>1. CASE pending = 0
  BY <1>1 DEF RecorderInv, LoopInv, DiscardedWasUsed
<1>2. CASE pending # 0
  <2> DEFINE p == predictions[pending]
  <2>1. /\ pending = Len(predictions)
        /\ p.step + chunkIndex = Len(executed)
        /\ executionLimit = Limit(p.horizon)
        /\ ~IntervalExceeds(p.horizon)
        /\ chunkIndex >= executionLimit
    BY <1>2 DEF RecorderInv, LoopInv, PendingIsNewest, NeedsPrediction
  <2>2. p.horizon \in 1..MaximumHorizon /\ p.step \in Nat
    <3>1. pending \in 1..Len(predictions)
      BY <1>2, <2>1 DEF RecorderInv, TypeOK
    <3> QED BY <3>1, RecordedPrediction DEF RecorderInv
  <2>3. executionLimit \in 1..p.horizon
    <3>1. mode \in Modes
      BY DEF RecorderInv, TypeOK
    <3> QED BY <2>1, <2>2, <3>1, LimitBounds
  <2>4. chunkIndex \in Nat \ {0}
    BY <2>1, <2>2, <2>3 DEF RecorderInv, TypeOK
  <2>5. /\ executed # <<>>
        /\ executed[Len(executed)] = [prediction |-> pending, offset |-> chunkIndex - 1]
    BY <1>2, <2>4 DEF RecorderInv, LoopInv, PendingIsNewest
  <2>6. LastPredictionUsed = pending
    BY <2>5 DEF LastPredictionUsed
  <2>7. p.step < Len(executed)
    BY <2>1, <2>2, <2>4 DEF RecorderInv, TypeOK
  <2> QED BY <2>1, <2>6, <2>7
<1> QED BY <1>1, <1>2

(* Outside the loop nothing records: the invariant is kept.                  *)
LEMMA RecorderUntouched ==
  ASSUME RecorderInv, TypeOK', UNCHANGED <<mode, pending, instruction, recorder>>, pc' # "loop",
         pc' \in {"reset_policy", "policy_reset", "reset_benchmark"} =>
           pc \in {"reset_policy", "policy_reset", "reset_benchmark"}
  PROVE  RecorderInv'
<1>1. ChunksExecutedAsPrefixes' /\ OnePredictionPerStep'
  BY DEF RecorderInv, ChunksExecutedAsPrefixes, OnePredictionPerStep, HorizonOf, recorder
<1>2. LoopInv'
  BY DEF RecorderInv, LoopInv, NothingYet, AtCurrentStep, PendingIsNewest, DiscardedWasUsed,
         recorder
<1> QED BY <1>1, <1>2 DEF RecorderInv

(* Acting on the pending prediction extends the executed prefix of a chunk.  *)
LEMMA ActionExtendsPrefix ==
  ASSUME RecorderInv, pc = "loop", ~NeedsPrediction,
         executed' = Append(executed, NextAction), UNCHANGED predictions
  PROVE  ChunksExecutedAsPrefixes'
<1> DEFINE n == Len(executed) + 1
<1>1. /\ pending = Len(predictions)
      /\ pending # 0
      /\ predictions[pending].horizon \in 1..MaximumHorizon
      /\ chunkIndex < executionLimit
      /\ executionLimit = Limit(predictions[pending].horizon)
      /\ ~IntervalExceeds(predictions[pending].horizon)
  <2>1. /\ pending = Len(predictions)
        /\ pending # 0
        /\ executionLimit = Limit(predictions[pending].horizon)
        /\ ~IntervalExceeds(predictions[pending].horizon)
    BY DEF RecorderInv, LoopInv, PendingIsNewest, NeedsPrediction
  <2>2. pending \in 1..Len(predictions)
    BY <2>1 DEF RecorderInv, TypeOK
  <2>3. chunkIndex < executionLimit
    BY DEF RecorderInv, TypeOK, NeedsPrediction
  <2> QED BY <2>1, <2>2, <2>3, RecordedPrediction DEF RecorderInv
<1>2. chunkIndex < predictions[pending].horizon
  <2>1. mode \in Modes /\ chunkIndex \in Nat
    BY DEF RecorderInv, TypeOK
  <2>2. executionLimit \in 1..predictions[pending].horizon
    BY <1>1, <2>1, LimitBounds
  <2> QED BY <1>1, <2>1, <2>2
<1>3. /\ Len(executed') = n
      /\ executed'[n] = NextAction
      /\ \A k \in 1..Len(executed) : executed'[k] = executed[k]
  BY NextActionType DEF RecorderInv, TypeOK
<1>4. chunkIndex = 0 => pending = IF n = 1 THEN 1 ELSE executed[n - 1].prediction + 1
  BY <1>1 DEF RecorderInv, LoopInv, PendingIsNewest, LastPredictionUsed, TypeOK
<1>5. chunkIndex # 0 => n > 1 /\ executed[n - 1] = [prediction |-> pending, offset |-> chunkIndex - 1]
  BY <1>1 DEF RecorderInv, LoopInv, PendingIsNewest, TypeOK
<1> SUFFICES ASSUME NEW k \in 1..n
    PROVE  LET a == executed'[k] IN
           /\ a.prediction \in 1..Len(predictions)
           /\ a.offset < predictions[a.prediction].horizon
           /\ IF a.offset = 0
              THEN a.prediction = IF k = 1 THEN 1 ELSE executed'[k - 1].prediction + 1
              ELSE k > 1 /\ executed'[k - 1] = [prediction |-> a.prediction,
                                               offset |-> a.offset - 1]
  BY <1>3 DEF ChunksExecutedAsPrefixes, HorizonOf
<1>6. CASE k = n
  <2>1. executed'[k] = [prediction |-> pending, offset |-> chunkIndex]
    BY <1>3, <1>6 DEF NextAction
  <2>2. n > 1 => executed'[n - 1] = executed[n - 1]
    BY <1>3 DEF RecorderInv, TypeOK
  <2>3. pending \in 1..Len(predictions) /\ chunkIndex \in Nat
    BY <1>1 DEF RecorderInv, TypeOK
  <2> QED BY <1>2, <1>4, <1>5, <1>6, <2>1, <2>2, <2>3
<1>7. CASE k # n
  <2>1. k \in 1..Len(executed) /\ executed'[k] = executed[k]
    BY <1>3, <1>7 DEF RecorderInv, TypeOK
  <2>2. k > 1 => executed'[k - 1] = executed[k - 1]
    BY <1>3, <2>1
  <2> QED BY <2>1, <2>2 DEF RecorderInv, ChunksExecutedAsPrefixes, HorizonOf
<1> QED BY <1>6, <1>7

(* A prediction made when all earlier ones are used keeps their order.       *)
LEMMA PredictionKeepsOrder ==
  ASSUME RecorderInv, pc = "loop", NeedsPrediction, NEW h \in 1..MaximumHorizon,
         predictions' = Append(predictions, [horizon |-> h, step |-> stepIndex])
  PROVE  OnePredictionPerStep'
<1> DEFINE n == Len(predictions)
<1>1. n \in Nat /\ Len(executed) \in Nat
  BY DEF RecorderInv, TypeOK
<1>2. n # 0 => predictions[n].step < Len(executed)
  BY <1>1, AllPredictionsUsed DEF RecorderInv, TypeOK
<1>3. \A j \in 1..n : predictions[j].step \in Nat
  BY RecordedPrediction DEF RecorderInv
<1>4. \A j \in 1..n : predictions[j].step <= predictions[n].step
  BY <1>1, <1>3 DEF RecorderInv, OnePredictionPerStep
<1>5. \A j \in 1..n : predictions[j].step < Len(executed)
  BY <1>1, <1>2, <1>3, <1>4
<1>6. /\ Len(predictions') = n + 1
      /\ predictions'[n + 1].step = Len(executed)
      /\ \A j \in 1..n : predictions'[j] = predictions[j]
  BY DEF RecorderInv, TypeOK, stepIndex
<1> SUFFICES ASSUME NEW j \in 1..(n + 1), NEW k \in 1..(n + 1), j < k
    PROVE  predictions'[j].step < predictions'[k].step
  BY <1>6 DEF OnePredictionPerStep
<1>7. j \in 1..n
  BY <1>1
<1>8. CASE k = n + 1
  BY <1>5, <1>6, <1>7, <1>8
<1>9. CASE k # n + 1
  BY <1>1, <1>6, <1>7, <1>9 DEF RecorderInv, OnePredictionPerStep
<1> QED BY <1>8, <1>9

LEMMA RecorderInitially == Init => RecorderInv
<1> SUFFICES ASSUME Init PROVE RecorderInv
  OBVIOUS
<1>1. LoopInv
  BY DEF Init, LoopInv, NothingYet, AtCurrentStep, PendingIsNewest, DiscardedWasUsed
<1>2. ChunksExecutedAsPrefixes /\ OnePredictionPerStep
  BY DEF Init, ChunksExecutedAsPrefixes, OnePredictionPerStep
<1> QED BY <1>1, <1>2, TypeInitially DEF RecorderInv

(* One step of the loop: the pending prediction advances or is discarded.    *)
LEMMA StepKeepsLoop ==
  ASSUME RecorderInv, TypeOK', Step
  PROVE  LoopInv'
<1>1. PICK i \in Instructions :
        RecordStep(i) /\ instruction' = i /\ pending' = PendingAfter(i)
  BY DEF Step
<1>2. /\ pc = "loop" /\ pc' = "loop" /\ ~NeedsPrediction
      /\ mode' = mode /\ executionLimit' = executionLimit
      /\ chunkIndex' = chunkIndex + 1
      /\ predictions' = predictions
      /\ pending' \in {pending, 0}
  BY <1>1 DEF Step, run, RecordStep, PendingAfter
<1>3. /\ contexts = Len(executed) + 1
      /\ Len(observed) = contexts
      /\ executed \in Seq(Action) /\ observed \in Seq(Instructions)
      /\ NextAction \in Action
      /\ chunkIndex \in Nat /\ executionLimit \in Nat
  BY <1>2, NextActionType DEF RecorderInv, LoopInv, AtCurrentStep, TypeOK
<1>4. /\ contexts' = contexts + 1
      /\ Len(observed') = Len(observed) + 1 /\ observed'[Len(observed) + 1] = i
      /\ Len(executed') = Len(executed) + 1 /\ executed' # <<>>
      /\ executed'[Len(executed')] = [prediction |-> pending, offset |-> chunkIndex]
  BY <1>1, <1>3 DEF RecordStep, NextAction
<1>5. /\ pending = Len(predictions)
      /\ pending # 0
      /\ executionLimit = Limit(predictions[pending].horizon)
      /\ ~IntervalExceeds(predictions[pending].horizon)
      /\ predictions[pending].step + chunkIndex = Len(executed)
      /\ chunkIndex < executionLimit
  BY <1>2, <1>3 DEF RecorderInv, LoopInv, PendingIsNewest, NeedsPrediction
<1>6. predictions[pending].step \in Nat
  <2>1. pending \in 1..Len(predictions)
    BY <1>5 DEF RecorderInv, TypeOK
  <2> QED BY <2>1, RecordedPrediction DEF RecorderInv
<1>7. NothingYet'
  BY <1>2 DEF NothingYet
<1>8. AtCurrentStep'
  BY <1>1, <1>3, <1>4 DEF AtCurrentStep
<1>9. LastPredictionUsed' = pending
  BY <1>4 DEF LastPredictionUsed
<1>10. PendingIsNewest'
  <2> SUFFICES ASSUME pending' # 0
      PROVE  /\ pending' = Len(predictions')
             /\ executionLimit' = Limit(predictions[pending].horizon)'
             /\ ~IntervalExceeds(predictions[pending].horizon)'
             /\ predictions'[pending'].step + chunkIndex' = Len(executed')
             /\ chunkIndex' <= executionLimit'
             /\ chunkIndex' # 0
             /\ executed' # <<>>
             /\ executed'[Len(executed')] = [prediction |-> pending', offset |-> chunkIndex' - 1]
    BY DEF PendingIsNewest
  <2>1. pending' = pending /\ predictions' = predictions /\ mode' = mode
    BY <1>2
  <2>2. /\ Limit(predictions[pending].horizon)' = Limit(predictions[pending].horizon)
        /\ IntervalExceeds(predictions[pending].horizon)'
             = IntervalExceeds(predictions[pending].horizon)
    BY <2>1 DEF Limit, IntervalExceeds
  <2>3. chunkIndex' - 1 = chunkIndex /\ chunkIndex' # 0 /\ chunkIndex' <= executionLimit
    BY <1>2, <1>3, <1>5
  <2>4. predictions[pending].step + chunkIndex' = Len(executed')
    <3>1. chunkIndex' = chunkIndex + 1 /\ Len(executed') = Len(executed) + 1
      BY <1>2, <1>4
    <3>2. predictions[pending].step + chunkIndex = Len(executed)
      BY <1>5
    <3>3. chunkIndex \in Nat
      BY <1>3
    <3> QED BY <1>6, <3>1, <3>2, <3>3
  <2> QED BY <1>2, <1>4, <1>5, <2>1, <2>2, <2>3, <2>4
<1>11. DiscardedWasUsed'
  BY <1>2, <1>3, <1>4, <1>5, <1>6, <1>9 DEF DiscardedWasUsed
<1> QED BY <1>7, <1>8, <1>10, <1>11 DEF LoopInv

LEMMA RecorderPreserved == RecorderInv /\ [Next]_vars => RecorderInv'
<1> SUFFICES ASSUME RecorderInv, [Next]_vars PROVE RecorderInv'
  OBVIOUS
<1>t. TypeOK'
  BY TypePreserved DEF RecorderInv
<1>1. CASE Begin
  <2>1. ChunksExecutedAsPrefixes' /\ OnePredictionPerStep'
    BY <1>1 DEF Begin, ChunksExecutedAsPrefixes, OnePredictionPerStep
  <2>2. /\ pc' # "loop" /\ pending' = 0 /\ predictions' = <<>> /\ executed' = <<>>
        /\ instruction' = InitialInstruction
    BY <1>1 DEF Begin
  <2>3. LoopInv'
    BY <2>2 DEF LoopInv, NothingYet, AtCurrentStep, PendingIsNewest, DiscardedWasUsed
  <2> QED BY <1>t, <2>1, <2>3 DEF RecorderInv
<1>2. CASE ResetBenchmark
  <2>1. /\ pending = 0 /\ predictions = <<>> /\ executed = <<>>
        /\ instruction = InitialInstruction
    BY <1>2 DEF ResetBenchmark, RecorderInv, LoopInv, NothingYet
  <2>2. /\ pending' = 0 /\ predictions' = <<>> /\ executed' = <<>>
        /\ contexts' = 1 /\ observed' = <<InitialInstruction>> /\ pc' = "loop"
        /\ instruction' = InitialInstruction
    BY <1>2, <2>1 DEF ResetBenchmark, locals
  <2>3. ChunksExecutedAsPrefixes' /\ OnePredictionPerStep'
    BY <2>2 DEF ChunksExecutedAsPrefixes, OnePredictionPerStep
  <2>4. LoopInv'
    BY <2>2 DEF LoopInv, NothingYet, AtCurrentStep, PendingIsNewest, DiscardedWasUsed,
                LastPredictionUsed
  <2> QED BY <1>t, <2>3, <2>4 DEF RecorderInv
<1>3. CASE Step
  <2>1. ChunksExecutedAsPrefixes'
    BY <1>3, ActionExtendsPrefix DEF Step, RecordStep
  <2>2. OnePredictionPerStep'
    BY <1>3 DEF Step, RecordStep, RecorderInv, OnePredictionPerStep
  <2> QED BY <1>3, <1>t, <2>1, <2>2, StepKeepsLoop DEF RecorderInv
<1>4. CASE StepOverrunsMaximum \/ StepEndsEpisode
  <2>1. /\ pc = "loop" /\ ~NeedsPrediction
        /\ executed' = Append(executed, NextAction) /\ UNCHANGED predictions
        /\ pc' \in {"safe_end", "ending"}
    BY <1>4 DEF StepOverrunsMaximum, StepEndsEpisode, RecordStep, RecordLastStep, Raise,
                RaiseFrom, Caught
  <2>2. ChunksExecutedAsPrefixes'
    BY <2>1, ActionExtendsPrefix
  <2>3. OnePredictionPerStep'
    BY <2>1 DEF RecorderInv, OnePredictionPerStep
  <2>4. LoopInv'
    BY <2>1 DEF LoopInv, NothingYet, AtCurrentStep, PendingIsNewest, DiscardedWasUsed
  <2> QED BY <1>t, <2>2, <2>3, <2>4 DEF RecorderInv
<1>5. CASE ResetPolicy \/ ResetPolicyFails \/ MarkPolicyActive \/ ResetBenchmarkFails
           \/ PredictFails \/ StepFails \/ EndEpisode \/ EndEpisodeFails \/ ReturnClean
  <2>1. /\ UNCHANGED <<mode, pending, instruction, recorder>>
        /\ pc' # "loop"
        /\ pc' \in {"reset_policy", "policy_reset", "reset_benchmark"} =>
             pc \in {"reset_policy", "policy_reset", "reset_benchmark"}
    BY <1>5 DEF ResetPolicy, ResetPolicyFails, MarkPolicyActive, ResetBenchmarkFails,
                PredictFails, StepFails, EndEpisode, EndEpisodeFails, ReturnClean, Raise,
                RaiseFrom, Caught, locals, run
  <2> QED BY <1>t, <2>1, RecorderUntouched
<1>6. CASE Handlers \/ Interrupt \/ InterruptHandler
  <2>1. /\ UNCHANGED <<mode, pending, instruction, recorder>>
        /\ pc' \in {"safe_end", "safe_abort", "finalize", "idle"}
    <3>1. CASE SafeEnd \/ SafeAbort
      BY <3>1 DEF SafeEnd, SafeAbort, locals, run
    <3>2. CASE ReturnFailed \/ InterruptHandler
      BY <3>2 DEF ReturnFailed, InterruptHandler, locals
    <3>3. CASE Interrupt
      BY <3>3 DEF Interrupt, Caught
    <3> QED BY <1>6, <3>1, <3>2, <3>3 DEF Handlers
  <2> QED BY <1>t, <2>1, RecorderUntouched
<1>7. CASE Predict
  <2>1. PICK h \in 1..MaximumHorizon :
          /\ predictions' = Append(predictions, [horizon |-> h, step |-> stepIndex])
          /\ IF IntervalExceeds(h)
             THEN RaiseFrom("plan", "runner")
             ELSE /\ pending' = Len(predictions) + 1
                  /\ executionLimit' = Limit(h)
                  /\ chunkIndex' = 0
                  /\ UNCHANGED pc
    BY <1>7 DEF Predict
  <2>2. /\ pc = "loop" /\ NeedsPrediction
        /\ UNCHANGED <<mode, instruction, contexts, observed, executed>>
    BY <1>7 DEF Predict, run
  <2>3. OnePredictionPerStep'
    BY <2>1, <2>2, PredictionKeepsOrder
  <2>4. /\ predictions \in Seq(Prediction) /\ executed \in Seq(Action)
        /\ [horizon |-> h, step |-> stepIndex] \in Prediction
    BY DEF RecorderInv, TypeOK, stepIndex, Prediction
  <2>5. /\ Len(predictions') = Len(predictions) + 1
        /\ predictions'[Len(predictions) + 1] = [horizon |-> h, step |-> Len(executed)]
        /\ \A j \in 1..Len(predictions) : predictions'[j] = predictions[j]
    BY <2>1, <2>4 DEF stepIndex
  <2>6. ChunksExecutedAsPrefixes'
    <3> SUFFICES ASSUME NEW k \in 1..Len(executed)
        PROVE  LET a == executed[k] IN
               /\ a.prediction \in 1..(Len(predictions) + 1)
               /\ a.offset < predictions'[a.prediction].horizon
               /\ IF a.offset = 0
                  THEN a.prediction = IF k = 1 THEN 1 ELSE executed[k - 1].prediction + 1
                  ELSE k > 1 /\ executed[k - 1] = [prediction |-> a.prediction,
                                                  offset |-> a.offset - 1]
      BY <2>2, <2>5 DEF ChunksExecutedAsPrefixes, HorizonOf
    <3>1. executed[k].prediction \in 1..Len(predictions)
      BY DEF RecorderInv, ChunksExecutedAsPrefixes
    <3>2. executed[k].prediction \in 1..(Len(predictions) + 1)
      BY <2>4, <3>1
    <3>3. predictions'[executed[k].prediction] = predictions[executed[k].prediction]
      BY <2>5, <3>1
    <3> QED BY <3>2, <3>3 DEF RecorderInv, ChunksExecutedAsPrefixes, HorizonOf
  <2>7. NothingYet' /\ AtCurrentStep'
    BY <2>1, <2>2 DEF RecorderInv, LoopInv, NothingYet, AtCurrentStep, RaiseFrom, Caught
  <2>8. CASE IntervalExceeds(h)
    <3>1. PendingIsNewest' /\ DiscardedWasUsed'
      BY <2>1, <2>8 DEF RaiseFrom, Caught, PendingIsNewest, DiscardedWasUsed
    <3> QED BY <1>t, <2>3, <2>6, <2>7, <3>1 DEF RecorderInv, LoopInv
  <2>9. CASE ~IntervalExceeds(h)
    <3>1. /\ pending' = Len(predictions') /\ pending' # 0
          /\ predictions'[pending'].horizon = h
          /\ predictions'[pending'].step + chunkIndex' = Len(executed')
          /\ executionLimit' = Limit(h) /\ executionLimit' \in Nat /\ chunkIndex' = 0
      BY <2>1, <2>2, <2>4, <2>5, <2>9, LimitType DEF RecorderInv, TypeOK
    <3>2. pending' = LastPredictionUsed' + 1
      BY <2>1, <2>2, <2>9, AllPredictionsUsed DEF LastPredictionUsed
    <3>3. Limit(h)' = Limit(h) /\ IntervalExceeds(h)' = IntervalExceeds(h)
      BY <2>2 DEF Limit, IntervalExceeds
    <3>4. PendingIsNewest'
      BY <2>9, <3>1, <3>2, <3>3 DEF PendingIsNewest
    <3>5. DiscardedWasUsed'
      BY <3>1 DEF DiscardedWasUsed
    <3> QED BY <1>t, <2>3, <2>6, <2>7, <3>4, <3>5 DEF RecorderInv, LoopInv
  <2> QED BY <2>8, <2>9
<1>8. CASE UNCHANGED vars
  BY <1>8, <1>t DEF vars, locals, recorder, run, RecorderInv, LoopInv, NothingYet,
                    AtCurrentStep, PendingIsNewest, DiscardedWasUsed, LastPredictionUsed, Limit,
                    IntervalExceeds, ChunksExecutedAsPrefixes, HorizonOf, OnePredictionPerStep
<1> QED BY <1>1, <1>2, <1>3, <1>4, <1>5, <1>6, <1>7, <1>8 DEF Next, TryBlock

(* Whatever the execution mode, the horizons, the instructions, the failures *)
(* and the signals: what is executed of every chunk is a gapless prefix, and *)
(* no chunk is skipped or returned to (execution.py:66-135).                 *)
THEOREM ChunksAreExecutedAsPrefixes == Spec => []ChunksExecutedAsPrefixes
<1>1. RecorderInv => ChunksExecutedAsPrefixes
  BY DEF RecorderInv
<1> QED BY <1>1, RecorderInitially, RecorderPreserved, PTL DEF Spec

(* No step of an episode is predicted twice, so the remote service's refusal *)
(* of a repeated step_id is never met (execution.py:66-85).                  *)
THEOREM NoStepPredictedTwice == Spec => []OnePredictionPerStep
<1>1. RecorderInv => OnePredictionPerStep
  BY DEF RecorderInv
<1> QED BY <1>1, RecorderInitially, RecorderPreserved, PTL DEF Spec

(* The recorder's checks never refuse the loop (recorder.py:47-96).          *)
THEOREM RecorderAccepts == Spec => []RecorderNeverRefuses
<1>1. RecorderInv => RecorderNeverRefuses
  <2> SUFFICES ASSUME RecorderInv, pc = "loop", ~NeedsPrediction
      PROVE  pending = Len(predictions) /\ chunkIndex < predictions[pending].horizon
    BY DEF RecorderInv, LoopInv, AtCurrentStep, RecorderNeverRefuses
  <2>1. /\ pending = Len(predictions)
        /\ executionLimit = Limit(predictions[pending].horizon)
        /\ ~IntervalExceeds(predictions[pending].horizon)
    BY DEF RecorderInv, LoopInv, PendingIsNewest, NeedsPrediction
  <2>2. pending \in 1..Len(predictions)
    BY <2>1 DEF RecorderInv, TypeOK, NeedsPrediction
  <2>3. /\ mode \in Modes
        /\ predictions[pending].horizon \in 1..MaximumHorizon
        /\ chunkIndex < executionLimit /\ chunkIndex \in Nat
    BY <2>2, RecordedPrediction DEF RecorderInv, TypeOK, NeedsPrediction
  <2>4. executionLimit \in 1..predictions[pending].horizon
    BY <2>1, <2>3, LimitBounds
  <2> QED BY <2>1, <2>3, <2>4
<1> QED BY <1>1, RecorderInitially, RecorderPreserved, PTL DEF Spec

(* The recorder is given what happened, and refuses nothing of it            *)
(* (execution.py:66-134, recorder.py:47-96).                                 *)
THEOREM ExecutionRecorded == Spec => []ExecutionIsRecorded
<1>1. (ChunksExecutedAsPrefixes /\ RecorderNeverRefuses) => ExecutionIsRecorded
  BY DEF ExecutionIsRecorded
<1> QED BY <1>1, ChunksAreExecutedAsPrefixes, RecorderAccepts, PTL

-----------------------------------------------------------------------------
(* Instructions: only with recorded observations does the loop know which    *)
(* instruction a pending chunk was predicted for.                            *)

InstructionInv ==
  /\ RecorderInv
  /\ Len(executed) <= Len(observed)
  /\ \A k \in 1..Len(executed) : MadeAtStep(executed[k]) < k
  /\ pc = "loop" /\ pending # 0 => observed[predictions[pending].step + 1] = instruction
  /\ ExecutesCurrentInstruction

(* An action is executed under the instruction its prediction was made for.  *)
LEMMA ActionKeepsInstruction ==
  ASSUME InstructionInv, pc = "loop", ~NeedsPrediction,
         executed' = Append(executed, NextAction), UNCHANGED predictions,
         \/ UNCHANGED observed
         \/ \E i \in Instructions : observed' = Append(observed, i)
  PROVE  /\ Len(executed') <= Len(observed')
         /\ \A k \in 1..Len(executed') : MadeAtStep(executed[k])' < k
         /\ ExecutesCurrentInstruction'
         /\ observed'[predictions[pending].step + 1] = instruction
<1> DEFINE n == Len(executed) + 1
<1>1. /\ pending \in 1..Len(predictions)
      /\ predictions[pending].step + chunkIndex = Len(executed)
      /\ chunkIndex \in Nat /\ Len(executed) \in Nat
      /\ Len(observed) = n
      /\ instruction = observed[n]
      /\ observed[predictions[pending].step + 1] = instruction
  BY DEF InstructionInv, RecorderInv, LoopInv, AtCurrentStep, PendingIsNewest, NeedsPrediction,
         TypeOK
<1>2. predictions[pending].step \in Nat /\ predictions[pending].step < n
  BY <1>1, RecordedPrediction DEF InstructionInv, RecorderInv
<1>3. \A k \in 1..n : observed'[k] = observed[k]
  BY <1>1 DEF InstructionInv, RecorderInv, TypeOK
<1>4. n <= Len(observed')
  BY <1>1 DEF InstructionInv, RecorderInv, TypeOK
<1>5. /\ Len(executed') = n
      /\ executed'[n] = NextAction
      /\ \A k \in 1..Len(executed) : executed'[k] = executed[k]
  BY NextActionType DEF InstructionInv, RecorderInv, TypeOK
<1>6. \A k \in 1..Len(executed) :
        executed[k].prediction \in 1..Len(predictions)
  BY DEF InstructionInv, RecorderInv, ChunksExecutedAsPrefixes
<1>7. \A k \in 1..Len(executed) : MadeAtStep(executed[k]) \in Nat
  BY <1>6, RecordedPrediction DEF InstructionInv, RecorderInv, MadeAtStep
<1>8. observed'[predictions[pending].step + 1] = instruction
  BY <1>1, <1>2, <1>3
<1>9. ASSUME NEW k \in 1..n
      PROVE  /\ MadeAtStep(executed[k])' < k
             /\ observed'[MadeAtStep(executed[k])' + 1] = observed'[k]
  <2>1. CASE k = n
    <3>1. MadeAtStep(executed[k])' = predictions[pending].step
      BY <1>5, <2>1 DEF MadeAtStep, NextAction
    <3>2. observed'[n] = instruction
      BY <1>1, <1>3
    <3> QED BY <1>2, <1>8, <2>1, <3>1, <3>2
  <2>2. CASE k # n
    <3>1. k \in 1..Len(executed)
      BY <1>1, <2>2
    <3>2. MadeAtStep(executed[k])' = MadeAtStep(executed[k])
      BY <1>5, <3>1 DEF MadeAtStep
    <3>3. /\ MadeAtStep(executed[k]) < k
          /\ observed[MadeAtStep(executed[k]) + 1] = observed[k]
      BY <3>1 DEF InstructionInv, ExecutesCurrentInstruction
    <3>4. MadeAtStep(executed[k]) + 1 \in 1..n
      BY <1>1, <1>7, <3>1, <3>3
    <3> QED BY <1>3, <3>2, <3>3, <3>4
  <2> QED BY <2>1, <2>2
<1> QED BY <1>4, <1>5, <1>8, <1>9 DEF ExecutesCurrentInstruction, MadeAtStep

LEMMA InstructionPreserved ==
  ASSUME RecordObservations
  PROVE  InstructionInv /\ [Next]_vars => InstructionInv'
<1> SUFFICES ASSUME InstructionInv, [Next]_vars PROVE InstructionInv'
  OBVIOUS
<1>t. RecorderInv'
  BY RecorderPreserved DEF InstructionInv
<1>1. CASE Begin \/ ResetBenchmark
  <2>1. /\ executed' = <<>> /\ pending' = 0
    BY <1>1 DEF Begin, ResetBenchmark, InstructionInv, RecorderInv, LoopInv, NothingYet, locals
  <2>2. Len(observed') \in Nat
    BY <1>t DEF RecorderInv, TypeOK
  <2> QED BY <1>t, <2>1, <2>2 DEF InstructionInv, ExecutesCurrentInstruction
<1>2. CASE Predict
  <2>1. PICK h \in 1..MaximumHorizon :
          /\ predictions' = Append(predictions, [horizon |-> h, step |-> stepIndex])
          /\ IF IntervalExceeds(h)
             THEN RaiseFrom("plan", "runner")
             ELSE pending' = Len(predictions) + 1
    BY <1>2 DEF Predict
  <2>2. pc = "loop" /\ UNCHANGED <<instruction, observed, executed>>
    BY <1>2 DEF Predict
  <2>3. predictions \in Seq(Prediction) /\ [horizon |-> h, step |-> stepIndex] \in Prediction
    BY DEF InstructionInv, RecorderInv, TypeOK, stepIndex, Prediction
  <2>4. /\ predictions'[Len(predictions) + 1].step = Len(executed)
        /\ \A j \in 1..Len(predictions) : predictions'[j] = predictions[j]
    BY <2>1, <2>3 DEF stepIndex
  <2>5. \A k \in 1..Len(executed) : MadeAtStep(executed[k])' = MadeAtStep(executed[k])
    BY <2>2, <2>4 DEF InstructionInv, RecorderInv, ChunksExecutedAsPrefixes, MadeAtStep
  <2>6. instruction = observed[Len(executed) + 1]
    BY <2>2 DEF InstructionInv, RecorderInv, LoopInv, AtCurrentStep
  <2>7. pc' = "loop" => observed'[predictions'[pending'].step + 1] = instruction'
    BY <2>1, <2>2, <2>4, <2>6 DEF RaiseFrom, Caught
  <2>8. ExecutesCurrentInstruction'
    BY <2>2, <2>5 DEF InstructionInv, ExecutesCurrentInstruction
  <2> QED BY <1>t, <2>2, <2>5, <2>7, <2>8 DEF InstructionInv
<1>3. CASE Step
  <2>1. PICK i \in Instructions :
          RecordStep(i) /\ instruction' = i /\ pending' = PendingAfter(i)
    BY <1>3 DEF Step
  <2>2. pc = "loop" /\ ~NeedsPrediction /\ UNCHANGED predictions
    BY <1>3, <2>1 DEF Step, RecordStep
  <2>3. /\ Len(executed') <= Len(observed')
        /\ \A k \in 1..Len(executed') : MadeAtStep(executed[k])' < k
        /\ ExecutesCurrentInstruction'
        /\ observed'[predictions[pending].step + 1] = instruction
    BY <2>1, <2>2, ActionKeepsInstruction DEF RecordStep
  <2>4. pending' # 0 => pending' = pending /\ i = observed[predictions[pending].step + 1]
    BY <2>1 DEF PendingAfter, PendingInstruction
  <2>5. observed[predictions[pending].step + 1] = instruction
    BY <2>2 DEF InstructionInv, NeedsPrediction
  <2>6. pending' # 0 => observed'[predictions'[pending'].step + 1] = instruction'
    BY <2>1, <2>2, <2>3, <2>4, <2>5
  <2> QED BY <1>t, <2>3, <2>6 DEF InstructionInv
<1>4. CASE StepOverrunsMaximum \/ StepEndsEpisode
  <2>1. /\ pc = "loop" /\ ~NeedsPrediction /\ pc' # "loop"
        /\ executed' = Append(executed, NextAction) /\ UNCHANGED predictions
        /\ \/ UNCHANGED observed
           \/ \E i \in Instructions : observed' = Append(observed, i)
    BY <1>4 DEF StepOverrunsMaximum, StepEndsEpisode, RecordStep, RecordLastStep, Raise,
                RaiseFrom, Caught
  <2> QED BY <1>t, <2>1, ActionKeepsInstruction DEF InstructionInv
<1>5. CASE ResetPolicy \/ ResetPolicyFails \/ MarkPolicyActive \/ ResetBenchmarkFails
           \/ PredictFails \/ StepFails \/ EndEpisode \/ EndEpisodeFails \/ ReturnClean
           \/ Handlers \/ Interrupt \/ InterruptHandler
  <2>1. pc' # "loop" /\ UNCHANGED recorder
    <3>1. CASE Handlers \/ Interrupt \/ InterruptHandler
      BY <3>1 DEF Handlers, SafeEnd, SafeAbort, ReturnFailed, Interrupt, InterruptHandler, Caught
    <3>2. CASE ~(Handlers \/ Interrupt \/ InterruptHandler)
      BY <1>5, <3>2 DEF ResetPolicy, ResetPolicyFails, MarkPolicyActive, ResetBenchmarkFails,
                        PredictFails, StepFails, EndEpisode, EndEpisodeFails, ReturnClean, Raise,
                        RaiseFrom, Caught
    <3> QED BY <3>1, <3>2
  <2> QED BY <1>t, <2>1 DEF InstructionInv, ExecutesCurrentInstruction, MadeAtStep, recorder
<1>6. CASE UNCHANGED vars
  BY <1>6, <1>t DEF vars, locals, recorder, InstructionInv, ExecutesCurrentInstruction,
                    MadeAtStep
<1> QED BY <1>1, <1>2, <1>3, <1>4, <1>5, <1>6 DEF Next, TryBlock

(* With recorded observations a chunk never outlives a change of instruction *)
(* (execution.py:134-135, 162-166).  Without them it may: the assumption is  *)
(* the whole difference.                                                     *)
THEOREM ChunksFollowInstructions ==
  ASSUME RecordObservations
  PROVE  Spec => []ExecutesCurrentInstruction
<1>1. Init => InstructionInv
  BY RecorderInitially DEF Init, InstructionInv, ExecutesCurrentInstruction
<1>2. InstructionInv /\ [Next]_vars => InstructionInv'
  BY InstructionPreserved
<1>3. InstructionInv => ExecutesCurrentInstruction
  BY DEF InstructionInv
<1> QED BY <1>1, <1>2, <1>3, PTL DEF Spec

-----------------------------------------------------------------------------
(* Replanning: a chunk is left at its limit or for a new instruction.        *)

\* Action k was the last the loop meant to take from its prediction.
LeftWhenDue(k) ==
  \/ executed[k].offset + 1 = Limit(HorizonOf(executed[k]))
  \/ observed[k + 1] # observed[MadeAtStep(executed[k]) + 1]

\* In the loop, a prediction that is no longer pending was left when it was due.
LastWasDue ==
  pc = "loop" /\ executed # <<>> /\ executed[Len(executed)].prediction # pending =>
    LeftWhenDue(Len(executed))

ReplanInv == InstructionInv /\ ReplansExactlyWhenDue /\ LastWasDue

LEMMA ReplansAreDue ==
  ReplansExactlyWhenDue <=>
    \A k \in 1..Len(executed) :
      /\ executed[k].offset < Limit(HorizonOf(executed[k]))
      /\ k < Len(executed) /\ executed[k + 1].prediction # executed[k].prediction =>
           LeftWhenDue(k)
BY DEF ReplansExactlyWhenDue, LeftWhenDue

(* The actions taken so far are judged as before while their predictions and *)
(* the observations around them stay.                                        *)
LEMMA JudgedAsBefore ==
  ASSUME ReplanInv, mode' = mode, NEW k \in 1..Len(executed), executed'[k] = executed[k],
         predictions'[executed[k].prediction] = predictions[executed[k].prediction],
         \A j \in 1..(k + 1) : observed'[j] = observed[j]
  PROVE  /\ Limit(HorizonOf(executed[k]))' = Limit(HorizonOf(executed[k]))
         /\ LeftWhenDue(k)' <=> LeftWhenDue(k)
<1>1. k \in Nat \ {0} /\ executed[k].prediction \in 1..Len(predictions)
  <2>1. executed \in Seq(Action) /\ ChunksExecutedAsPrefixes
    BY DEF ReplanInv, InstructionInv, RecorderInv, TypeOK
  <2>2. k \in Nat \ {0}
    BY <2>1
  <2> QED BY <2>1, <2>2 DEF ChunksExecutedAsPrefixes
<1>2. MadeAtStep(executed[k]) \in Nat /\ MadeAtStep(executed[k]) < k
  <2>1. TypeOK
    BY DEF ReplanInv, InstructionInv, RecorderInv
  <2>2. MadeAtStep(executed[k]) \in Nat
    BY <1>1, <2>1, RecordedPrediction DEF MadeAtStep
  <2> QED BY <2>2 DEF ReplanInv, InstructionInv
<1>3. /\ MadeAtStep(executed[k])' = MadeAtStep(executed[k])
      /\ HorizonOf(executed[k])' = HorizonOf(executed[k])
  BY DEF MadeAtStep, HorizonOf
<1>4. Limit(HorizonOf(executed[k]))' = Limit(HorizonOf(executed[k]))
  BY <1>3 DEF Limit
<1>5. observed'[k + 1] = observed[k + 1]
      /\ observed'[MadeAtStep(executed[k]) + 1] = observed[MadeAtStep(executed[k]) + 1]
  BY <1>1, <1>2
<1> QED BY <1>3, <1>4, <1>5 DEF LeftWhenDue

(* Acting on the pending prediction below its limit.                         *)
LEMMA ActionKeepsReplans ==
  ASSUME ReplanInv, pc = "loop", ~NeedsPrediction, mode' = mode,
         executed' = Append(executed, NextAction), UNCHANGED predictions,
         \/ UNCHANGED observed
         \/ \E i \in Instructions : observed' = Append(observed, i)
  PROVE  ReplansExactlyWhenDue'
<1>n. PICK n \in Nat : n = Len(executed)
  BY DEF ReplanInv, InstructionInv, RecorderInv, TypeOK
<1>1. /\ executed \in Seq(Action) /\ n = Len(executed)
      /\ Len(observed) = n + 1 /\ observed \in Seq(Instructions)
      /\ chunkIndex < executionLimit
      /\ executionLimit = Limit(predictions[pending].horizon)
  BY <1>n DEF ReplanInv, InstructionInv, RecorderInv, LoopInv, AtCurrentStep, PendingIsNewest,
              NeedsPrediction, TypeOK
<1>2. /\ Len(executed') = n + 1 /\ executed'[n + 1] = NextAction
      /\ \A k \in 1..n : executed'[k] = executed[k]
  BY <1>1, NextActionType DEF ReplanInv, InstructionInv, RecorderInv
<1>3. \A j \in 1..(n + 1) : observed'[j] = observed[j]
  BY <1>1
<1>4. ASSUME NEW k \in 1..n
      PROVE  /\ executed'[k].offset < Limit(HorizonOf(executed[k]))'
             /\ executed'[k + 1].prediction # executed'[k].prediction => LeftWhenDue(k)'
  <2>1. /\ Limit(HorizonOf(executed[k]))' = Limit(HorizonOf(executed[k]))
        /\ LeftWhenDue(k)' <=> LeftWhenDue(k)
    BY <1>1, <1>2, <1>3, JudgedAsBefore
  <2>2. executed[k].offset < Limit(HorizonOf(executed[k]))
    BY <1>1, ReplansAreDue DEF ReplanInv
  <2>3. CASE k = n
    <3>1. executed'[k + 1].prediction = pending
      BY <1>2, <2>3 DEF NextAction
    <3>2. executed # <<>>
      BY <1>1
    <3> QED BY <1>2, <2>1, <2>2, <2>3, <3>1, <3>2 DEF ReplanInv, LastWasDue
  <2>4. CASE k # n
    <3>1. k < n /\ k + 1 \in 1..n
      BY <1>1, <2>4
    <3> QED BY <1>2, <2>1, <2>2, <3>1, ReplansAreDue DEF ReplanInv
  <2> QED BY <2>3, <2>4
<1>5. executed'[n + 1].offset < Limit(HorizonOf(executed[n + 1]))'
  <2>1. executed'[n + 1].prediction = pending /\ executed'[n + 1].offset = chunkIndex
    BY <1>2 DEF NextAction
  <2>2. HorizonOf(executed[n + 1])' = predictions[pending].horizon
    BY <2>1 DEF HorizonOf
  <2>3. Limit(HorizonOf(executed[n + 1]))' = Limit(predictions[pending].horizon)
    BY <2>2 DEF Limit
  <2> QED BY <1>1, <2>1, <2>3
<1> SUFFICES ASSUME NEW k \in 1..(n + 1)
             PROVE  /\ executed'[k].offset < Limit(HorizonOf(executed[k]))'
                    /\ k < n + 1 /\ executed'[k + 1].prediction # executed'[k].prediction =>
                         LeftWhenDue(k)'
  BY <1>2 DEF ReplansExactlyWhenDue, LeftWhenDue, Limit
<1>6. CASE k = n + 1
  BY <1>1, <1>5, <1>6
<1>7. CASE k # n + 1
  BY <1>1, <1>4, <1>7
<1> QED BY <1>6, <1>7

(* A new prediction replaces one that was executed to its limit, or none.    *)
LEMMA PredictionKeepsReplans ==
  ASSUME ReplanInv, Predict
  PROVE  ReplansExactlyWhenDue' /\ LastWasDue'
<1>1. PICK h \in 1..MaximumHorizon :
        /\ predictions' = Append(predictions, [horizon |-> h, step |-> stepIndex])
        /\ IF IntervalExceeds(h)
           THEN RaiseFrom("plan", "runner")
           ELSE pending' = Len(predictions) + 1
  BY DEF Predict
<1>2. pc = "loop" /\ NeedsPrediction /\ UNCHANGED <<mode, observed, executed>>
  BY DEF Predict, run
<1>3. /\ RecorderInv /\ predictions \in Seq(Prediction) /\ executed \in Seq(Action)
      /\ chunkIndex \in Nat /\ executionLimit \in Nat
      /\ [horizon |-> h, step |-> stepIndex] \in Prediction
  BY DEF ReplanInv, InstructionInv, RecorderInv, TypeOK, stepIndex, Prediction
<1>4. \A j \in 1..Len(predictions) : predictions'[j] = predictions[j]
  BY <1>1, <1>3
<1>5. \A k \in 1..Len(executed) : executed[k].prediction \in 1..Len(predictions)
  BY <1>3 DEF RecorderInv, ChunksExecutedAsPrefixes
<1>6. \A k \in 1..Len(executed) :
        /\ Limit(HorizonOf(executed[k]))' = Limit(HorizonOf(executed[k]))
        /\ LeftWhenDue(k)' <=> LeftWhenDue(k)
  BY <1>2, <1>4, <1>5, JudgedAsBefore
<1>7. ReplansExactlyWhenDue'
  <2> SUFFICES ASSUME NEW k \in 1..Len(executed)
               PROVE  /\ executed'[k].offset < Limit(HorizonOf(executed[k]))'
                      /\ k < Len(executed) /\ executed[k + 1].prediction # executed[k].prediction =>
                           LeftWhenDue(k)'
    BY <1>2 DEF ReplansExactlyWhenDue, LeftWhenDue, Limit
  <2> QED BY <1>2, <1>6, ReplansAreDue DEF ReplanInv
<1>8. LastWasDue'
  <2> SUFFICES ASSUME pc' = "loop", executed # <<>>
               PROVE  LeftWhenDue(Len(executed))'
    BY <1>2 DEF LastWasDue
  <2>1. PICK n \in Nat : n = Len(executed)
    BY <1>3
  <2>2. n \in 1..Len(executed)
    BY <1>3, <2>1
  <2>3. LeftWhenDue(n)
    <3>1. CASE executed[n].prediction # pending
      BY <1>2, <2>1, <3>1 DEF ReplanInv, LastWasDue
    <3>2. CASE executed[n].prediction = pending
      <4>1. /\ pending # 0 /\ pending = Len(predictions)
            /\ executionLimit = Limit(predictions[pending].horizon)
            /\ chunkIndex <= executionLimit
            /\ chunkIndex >= executionLimit
        BY <1>2, <1>3, <1>5, <2>2, <3>2 DEF RecorderInv, LoopInv, PendingIsNewest, NeedsPrediction
      <4>2. chunkIndex = executionLimit
        BY <1>3, <4>1
      <4>3. executionLimit # 0
        <5>1. pending \in 1..Len(predictions) /\ TypeOK
          BY <1>3, <1>5, <2>2, <3>2 DEF RecorderInv
        <5>2. predictions[pending].horizon \in 1..MaximumHorizon
          BY <5>1, RecordedPrediction
        <5>3. mode \in Modes /\ ~IntervalExceeds(predictions[pending].horizon)
          BY <1>2, <1>3, <4>1, <5>1 DEF RecorderInv, LoopInv, PendingIsNewest, TypeOK
        <5> QED BY <4>1, <5>2, <5>3, LimitBounds
      <4>4. executed[n] = [prediction |-> pending, offset |-> chunkIndex - 1]
        BY <1>2, <1>3, <2>1, <4>1, <4>2, <4>3 DEF RecorderInv, LoopInv, PendingIsNewest
      <4>5. executed[n].offset + 1 = executionLimit
        BY <1>3, <4>2, <4>4
      <4>6. HorizonOf(executed[n]) = predictions[pending].horizon
        BY <3>2 DEF HorizonOf
      <4> QED BY <4>1, <4>5, <4>6 DEF LeftWhenDue
    <3> QED BY <3>1, <3>2
  <2>4. LeftWhenDue(n)'
    BY <1>6, <2>2, <2>3
  <2>5. n = Len(executed')
    BY <1>2, <2>1
  <2> QED BY <2>4, <2>5 DEF LeftWhenDue
<1> QED BY <1>7, <1>8

(* An observation discards the pending chunk only for a new instruction.     *)
LEMMA StepKeepsReplans ==
  ASSUME RecordObservations, ReplanInv, InstructionInv', Step
  PROVE  ReplansExactlyWhenDue' /\ LastWasDue'
<1>1. PICK i \in Instructions :
        RecordStep(i) /\ instruction' = i /\ pending' = PendingAfter(i)
  BY DEF Step
<1>2. /\ pc = "loop" /\ ~NeedsPrediction /\ mode' = mode
      /\ executed' = Append(executed, NextAction) /\ observed' = Append(observed, i)
      /\ predictions' = predictions
  BY <1>1 DEF Step, RecordStep, run
<1>3. ReplansExactlyWhenDue'
  BY <1>2, ActionKeepsReplans
<1>4. /\ executed \in Seq(Action) /\ observed \in Seq(Instructions) /\ NextAction \in Action
      /\ Len(observed) = Len(executed) + 1
      /\ pending # 0
      /\ predictions[pending].step + 1 \in 1..Len(observed)
  <2>1. /\ executed \in Seq(Action) /\ observed \in Seq(Instructions)
        /\ NextAction \in Action /\ pending # 0 /\ RecorderInv /\ TypeOK
        /\ Len(observed) = Len(executed) + 1 /\ chunkIndex \in Nat
    BY <1>2, NextActionType
    DEF ReplanInv, InstructionInv, RecorderInv, LoopInv, AtCurrentStep, NeedsPrediction, TypeOK
  <2>2. pending \in 1..Len(predictions) /\ predictions[pending].step + chunkIndex = Len(executed)
    BY <1>2, <2>1 DEF RecorderInv, LoopInv, PendingIsNewest, TypeOK
  <2>3. predictions[pending].step \in Nat
    BY <2>1, <2>2, RecordedPrediction
  <2> QED BY <2>1, <2>2, <2>3
<1>5. LastWasDue'
  <2>1. PICK n \in Nat : n = Len(executed)
    BY <1>4
  <2>2. /\ Len(executed') = n + 1
        /\ executed'[n + 1].prediction = pending
    BY <1>2, <1>4, <2>1 DEF NextAction
  <2> SUFFICES ASSUME pending' # pending
               PROVE  LeftWhenDue(n + 1)'
    BY <2>2 DEF LastWasDue, LeftWhenDue
  <2>3. i # observed[predictions[pending].step + 1]
    BY <1>1 DEF PendingAfter, PendingInstruction
  <2>4. observed'[n + 2] = i
    BY <1>2, <1>4, <2>1
  <2>5. MadeAtStep(executed[n + 1])' = predictions[pending].step
    BY <1>2, <2>2 DEF MadeAtStep
  <2>6. observed'[predictions[pending].step + 1] = observed[predictions[pending].step + 1]
    BY <1>2, <1>4
  <2> QED BY <2>3, <2>4, <2>5, <2>6 DEF LeftWhenDue
<1> QED BY <1>3, <1>5

LEMMA ReplanPreserved ==
  ASSUME RecordObservations
  PROVE  ReplanInv /\ [Next]_vars => ReplanInv'
<1> SUFFICES ASSUME ReplanInv, [Next]_vars PROVE ReplanInv'
  OBVIOUS
<1>t. InstructionInv'
  BY InstructionPreserved DEF ReplanInv
<1>1. CASE Begin \/ ResetBenchmark
  <2>1. executed' = <<>>
    BY <1>1 DEF Begin, ResetBenchmark, ReplanInv, InstructionInv, RecorderInv, LoopInv, NothingYet,
                locals
  <2> QED BY <1>t, <2>1 DEF ReplanInv, ReplansExactlyWhenDue, LastWasDue
<1>2. CASE Predict
  BY <1>t, <1>2, PredictionKeepsReplans DEF ReplanInv
<1>3. CASE Step
  BY <1>t, <1>3, StepKeepsReplans DEF ReplanInv
<1>4. CASE StepOverrunsMaximum \/ StepEndsEpisode
  <2>1. /\ pc = "loop" /\ ~NeedsPrediction /\ pc' # "loop" /\ mode' = mode
        /\ executed' = Append(executed, NextAction) /\ UNCHANGED predictions
        /\ \/ UNCHANGED observed
           \/ \E i \in Instructions : observed' = Append(observed, i)
    BY <1>4 DEF StepOverrunsMaximum, StepEndsEpisode, RecordStep, RecordLastStep, Raise,
                RaiseFrom, Caught, run
  <2> QED BY <1>t, <2>1, ActionKeepsReplans DEF ReplanInv, LastWasDue
<1>5. CASE ResetPolicy \/ ResetPolicyFails \/ MarkPolicyActive \/ ResetBenchmarkFails
           \/ PredictFails \/ StepFails \/ EndEpisode \/ EndEpisodeFails \/ ReturnClean
           \/ Handlers \/ Interrupt \/ InterruptHandler
  <2>1. pc' # "loop" /\ UNCHANGED <<mode, recorder>>
    <3>1. CASE Handlers \/ Interrupt \/ InterruptHandler
      BY <3>1 DEF Handlers, SafeEnd, SafeAbort, ReturnFailed, Interrupt, InterruptHandler, Caught,
                  run
    <3>2. CASE ~(Handlers \/ Interrupt \/ InterruptHandler)
      BY <1>5, <3>2 DEF ResetPolicy, ResetPolicyFails, MarkPolicyActive, ResetBenchmarkFails,
                        PredictFails, StepFails, EndEpisode, EndEpisodeFails, ReturnClean, Raise,
                        RaiseFrom, Caught, run
    <3> QED BY <3>1, <3>2
  <2> QED BY <1>t, <2>1 DEF ReplanInv, ReplansExactlyWhenDue, LastWasDue, HorizonOf, MadeAtStep,
                            Limit, recorder
<1>6. CASE UNCHANGED vars
  BY <1>6, <1>t DEF vars, locals, recorder, run, ReplanInv, ReplansExactlyWhenDue, LastWasDue,
                    LeftWhenDue, HorizonOf, MadeAtStep, Limit
<1> QED BY <1>1, <1>2, <1>3, <1>4, <1>5, <1>6 DEF Next, TryBlock

(* A chunk is executed below its limit, and left at the limit or for a new   *)
(* instruction (execution.py:66-85, 130-135, 162-166).                       *)
THEOREM ReplansAreDueAlways ==
  ASSUME RecordObservations
  PROVE  Spec => []ReplansExactlyWhenDue
<1>1. Init => ReplanInv
  BY RecorderInitially
  DEF Init, ReplanInv, InstructionInv, ExecutesCurrentInstruction, ReplansExactlyWhenDue, LastWasDue
<1>2. ReplanInv /\ [Next]_vars => ReplanInv'
  BY ReplanPreserved
<1>3. ReplanInv => ReplansExactlyWhenDue
  BY DEF ReplanInv
<1> QED BY <1>1, <1>2, <1>3, PTL DEF Spec

-----------------------------------------------------------------------------
(* What a call hands back: the contract the runner relies on.                *)

\* Where the adapters are at each point of a call that began with them READY.
AdaptersFollowCall ==
  /\ pc = "reset_policy" => policy = entry.policy
  /\ pc \in {"reset_policy", "policy_reset", "reset_benchmark"} => benchmark = entry.benchmark
  /\ pc \in {"policy_reset", "reset_benchmark", "loop", "ending", "ended"} =>
       entry.policy = "ready"
  /\ pc \in {"loop", "ending", "ended"} => entry.benchmark = "ready"
  /\ pc \in {"ending", "ended"} =>
       benchmark = "ready" /\ terminal \in {"success", "failure", "time_limit"}
  /\ pc = "ended" => policy = "ready"

\* A call that began on a policy still active never gets past its reset.
StaysActive ==
  pc # "idle" /\ entry.policy = "episode_active" =>
    policy = "episode_active" /\ ~policyActive /\ failureDomain = "policy"

\* What the except clauses know of the failure.
FailureKnown ==
  /\ pc \in TryPcs => blame = "none"
  /\ pc \in HandlerPcs =>
       /\ exc # "none"
       /\ blame = "policy" => failureDomain \in {"policy", "runner"}
       /\ exc = "exception" /\ failureDomain = "benchmark" => blame = "benchmark"

CallInv == TypeOK /\ AdaptersFollowCall /\ StaysActive /\ FailureKnown /\ FailuresAttributed

LEMMA CallInitially == Init => CallInv
<1> SUFFICES ASSUME Init PROVE CallInv
  OBVIOUS
<1> QED BY TypeInitially DEF Init, CallInv, AdaptersFollowCall, StaysActive, FailureKnown,
             FailuresAttributed, TryPcs, HandlerPcs

LEMMA CallPreserved == CallInv /\ [Next]_vars => CallInv'
<1> SUFFICES ASSUME CallInv, [Next]_vars PROVE CallInv'
  OBVIOUS
<1> USE DEF TryPcs, HandlerPcs
<1>t. TypeOK'
  BY TypePreserved DEF CallInv
<1>1. CASE Begin
  <2>1. /\ pc' = "reset_policy" /\ blame' = "none" /\ policyActive' = FALSE
        /\ failureDomain' = "policy" /\ policy' = policy /\ benchmark' = benchmark
        /\ entry' = [policy |-> policy, benchmark |-> benchmark]
    BY <1>1 DEF Begin
  <2> QED BY <1>t, <2>1 DEF CallInv, AdaptersFollowCall, StaysActive, FailureKnown,
                            FailuresAttributed
<1>2. CASE ResetPolicy \/ MarkPolicyActive \/ ResetBenchmark
  <2>1. /\ pc' \in {"policy_reset", "reset_benchmark", "loop"}
        /\ UNCHANGED <<blame, entry>>
        /\ pc \in {"reset_policy", "policy_reset", "reset_benchmark"}
        /\ entry.policy = "ready"
        /\ pc' = "loop" => entry.benchmark = "ready"
        /\ pc' # "loop" => benchmark' = benchmark
    BY <1>2 DEF ResetPolicy, MarkPolicyActive, ResetBenchmark, locals, run, CallInv,
                AdaptersFollowCall
  <2> QED BY <1>t, <2>1 DEF CallInv, AdaptersFollowCall, StaysActive, FailureKnown,
                            FailuresAttributed
<1>3. CASE ResetPolicyFails \/ ResetBenchmarkFails \/ PredictFails \/ StepFails
           \/ StepOverrunsMaximum \/ EndEpisodeFails
  <2>1. /\ pc' = "safe_end" /\ exc' = "exception"
        /\ UNCHANGED <<policy, policyActive, entry>>
        /\ pc \in TryPcs
        /\ blame' = "policy" => failureDomain' \in {"policy", "runner"}
        /\ failureDomain' = "benchmark" => blame' = "benchmark"
        /\ pc = "reset_policy" => failureDomain' = "policy"
    BY <1>3 DEF ResetPolicyFails, ResetBenchmarkFails, PredictFails, StepFails,
                StepOverrunsMaximum, EndEpisodeFails, Raise, RaiseFrom, Caught, run
  <2>2. entry.policy = "episode_active" => pc = "reset_policy"
    BY <2>1 DEF CallInv, AdaptersFollowCall
  <2> QED BY <1>t, <2>1, <2>2 DEF CallInv, AdaptersFollowCall, StaysActive, FailureKnown,
                                  FailuresAttributed
<1>4. CASE Predict
  <2>1. /\ pc = "loop" /\ UNCHANGED <<policy, policyActive, entry>>
        /\ \/ pc' = "loop" /\ UNCHANGED blame
           \/ pc' = "safe_end" /\ exc' = "exception" /\ failureDomain' = "runner" /\ blame' = "plan"
    BY <1>4 DEF Predict, RaiseFrom, Caught, run
  <2>2. entry.policy = "ready" /\ entry.benchmark = "ready"
    BY <2>1 DEF CallInv, AdaptersFollowCall
  <2> QED BY <1>t, <2>1, <2>2 DEF CallInv, AdaptersFollowCall, StaysActive, FailureKnown,
                                  FailuresAttributed
<1>5. CASE Step \/ StepEndsEpisode \/ EndEpisode
  <2>1. /\ pc \in {"loop", "ending"} /\ pc' \in {"loop", "ending", "ended"}
        /\ UNCHANGED <<blame, entry>>
        /\ pc' # "loop" => benchmark' = "ready" /\ terminal' \in {"success", "failure", "time_limit"}
        /\ pc' = "ended" => policy' = "ready"
    <3>1. CASE Step
      BY <3>1 DEF Step, run
    <3>2. CASE StepEndsEpisode
      BY <3>2 DEF StepEndsEpisode, run
    <3>3. CASE EndEpisode
      BY <3>3 DEF EndEpisode, locals, run, CallInv, AdaptersFollowCall
    <3> QED BY <1>5, <3>1, <3>2, <3>3
  <2>2. entry.policy = "ready" /\ entry.benchmark = "ready"
    BY <2>1 DEF CallInv, AdaptersFollowCall
  <2> QED BY <1>t, <2>1, <2>2 DEF CallInv, AdaptersFollowCall, StaysActive, FailureKnown,
                                  FailuresAttributed
<1>6. CASE SafeEnd \/ SafeAbort
  <2>1. /\ pc \in HandlerPcs /\ pc' \in HandlerPcs
        /\ UNCHANGED <<blame, entry, exc, failureDomain, policyActive>>
        /\ ~policyActive => UNCHANGED policy
    BY <1>6 DEF SafeEnd, SafeAbort, locals, run
  <2> QED BY <1>t, <2>1 DEF CallInv, AdaptersFollowCall, StaysActive, FailureKnown,
                            FailuresAttributed
<1>7. CASE Interrupt
  <2>1. /\ pc \in TryPcs /\ pc' = "safe_end" /\ exc' = "interrupt"
        /\ UNCHANGED <<blame, entry, failureDomain, policyActive, policy>>
    BY <1>7 DEF Interrupt, Caught
  <2> QED BY <1>t, <2>1 DEF CallInv, AdaptersFollowCall, StaysActive, FailureKnown,
                            FailuresAttributed
<1>8. CASE ReturnClean \/ InterruptHandler
  <2>1. pc' = "idle" /\ outcome'.error # "exception"
    BY <1>8 DEF ReturnClean, InterruptHandler
  <2> QED BY <1>t, <2>1 DEF CallInv, AdaptersFollowCall, StaysActive, FailureKnown,
                            FailuresAttributed
<1>9. CASE ReturnFailed
  <2>1. /\ pc \in HandlerPcs /\ pc' = "idle" /\ UNCHANGED blame
        /\ outcome' = [status |-> ErrorStatus, error |-> exc]
    BY <1>9 DEF ReturnFailed, locals
  <2>2. FailuresAttributed'
    BY <2>1 DEF CallInv, TypeOK, FailureKnown, FailuresAttributed, ErrorStatus
  <2> QED BY <1>t, <2>1, <2>2 DEF CallInv, AdaptersFollowCall, StaysActive, FailureKnown
<1>10. CASE UNCHANGED vars
  BY <1>10, <1>t DEF vars, locals, run, CallInv, AdaptersFollowCall, StaysActive, FailureKnown,
                     FailuresAttributed
<1> QED BY <1>1, <1>2, <1>3, <1>4, <1>5, <1>6, <1>7, <1>8, <1>9, <1>10
        DEF Next, TryBlock, Handlers

(* A policy failure is never charged to the benchmark (execution.py:145-153). *)
THEOREM FailuresAreAttributed == Spec => []FailuresAttributed
<1>1. CallInv => FailuresAttributed
  BY DEF CallInv
<1> QED BY <1>1, CallInitially, CallPreserved, PTL DEF Spec

(* The adapters and the outcome a call returns are admitted by the contract. *)
LEMMA ReturnMeetsContract ==
  ASSUME CallInv, TypeOK', ReturnClean \/ ReturnFailed \/ InterruptHandler
  PROVE  Contract!ContractEnd
<1>1. /\ pc # "idle" /\ pc' = "idle"
      /\ UNCHANGED <<policy, benchmark, entry>>
  BY DEF ReturnClean, ReturnFailed, InterruptHandler, HandlerPcs, locals
<1>2. policy' \in AdapterState /\ benchmark' \in AdapterState
  BY DEF TypeOK
<1>3. outcome' \in Contract!Outcomes
  <2>1. CASE ReturnClean
    BY <2>1 DEF ReturnClean, CallInv, AdaptersFollowCall, Contract!Outcomes, Contract!Clean,
                Contract!CleanStatus
  <2>2. CASE InterruptHandler
    BY <2>2 DEF InterruptHandler, Contract!Outcomes, Contract!Escaped
  <2>3. CASE ReturnFailed
    <3>1. exc \in {"exception", "interrupt"}
      BY <2>3 DEF ReturnFailed, CallInv, TypeOK, FailureKnown, HandlerPcs
    <3>2. CASE exc = "interrupt"
      BY <2>3, <3>2 DEF ReturnFailed, ErrorStatus, Contract!Outcomes, Contract!Aborted
    <3>3. CASE exc = "exception"
      BY <2>3, <3>3 DEF ReturnFailed, ErrorStatus, Contract!Outcomes, Contract!Failed
    <3> QED BY <3>1, <3>2, <3>3
  <2> QED BY <2>1, <2>2, <2>3
<1>4. outcome' \in Contract!Clean =>
        entry.policy = "ready" /\ entry.benchmark = "ready"
          /\ policy' = "ready" /\ benchmark' = "ready"
  <2>1. CASE ReturnClean
    BY <2>1 DEF ReturnClean, CallInv, AdaptersFollowCall
  <2>2. CASE InterruptHandler
    BY <2>2 DEF InterruptHandler, Contract!Clean
  <2>3. CASE ReturnFailed
    BY <2>3 DEF ReturnFailed, CallInv, FailureKnown, HandlerPcs, Contract!Clean
  <2> QED BY <2>1, <2>2, <2>3
<1>5. entry.policy = "episode_active" =>
        policy' = "episode_active" /\ outcome'.status # "benchmark_error"
  <2>1. CASE ReturnClean
    BY <2>1 DEF ReturnClean, CallInv, AdaptersFollowCall
  <2>2. CASE InterruptHandler
    BY <1>1, <2>2 DEF InterruptHandler, CallInv, StaysActive
  <2>3. CASE ReturnFailed
    <3>1. exc \in {"exception", "interrupt"}
      BY <2>3 DEF ReturnFailed, CallInv, TypeOK, FailureKnown, HandlerPcs
    <3>2. entry.policy = "episode_active" => ErrorStatus # "benchmark_error"
      BY <1>1, <3>1 DEF ErrorStatus, CallInv, StaysActive
    <3>3. outcome'.status = ErrorStatus
      BY <2>3 DEF ReturnFailed
    <3> QED BY <1>1, <3>2, <3>3 DEF CallInv, StaysActive
  <2> QED BY <2>1, <2>2, <2>3
<1> DEFINE r == [outcome |-> outcome', policy |-> policy', benchmark |-> benchmark']
<1>6. r \in Contract!Results(entry.policy, entry.benchmark)
  BY <1>2, <1>3, <1>4, <1>5 DEF Contract!Results, Contract!AdapterStates, AdapterState
<1> QED BY <1>1, <1>6 DEF Contract!ContractEnd

(* The detailed loop implements what the runner relies on: a step of the     *)
(* loop is a stutter of EpisodeContract, a call begins with ContractBegin    *)
(* and ends with ContractEnd.                                                *)
THEOREM ExecutionImplementsContract == Spec => ImplementsContract
<1>1. Init => Contract!ContractInit
  BY DEF Init, Contract!ContractInit, Contract!NoOutcome
<1>2. CallInv /\ [Next]_vars => [Contract!ContractNext]_(Contract!contractVars)
  <2> SUFFICES ASSUME CallInv, [Next]_vars
      PROVE  [Contract!ContractNext]_(Contract!contractVars)
    OBVIOUS
  <2>1. TypeOK'
    BY TypePreserved DEF CallInv
  <2>2. CASE Begin
    <3>1. /\ pc = "idle" /\ pc' = "reset_policy" /\ outcome.error # "interrupt"
          /\ UNCHANGED <<outcome, policy, benchmark>>
          /\ entry'.policy = policy /\ entry'.benchmark = benchmark
      BY <2>2 DEF Begin
    <3>2. Contract!ContractBegin
      BY <3>1 DEF Contract!ContractBegin
    <3> QED BY <3>2 DEF Contract!ContractNext
  <2>3. CASE ReturnClean \/ ReturnFailed \/ InterruptHandler
    BY <2>1, <2>3, ReturnMeetsContract DEF Contract!ContractNext
  <2>4. CASE \/ TryBlock /\ ~ReturnClean
             \/ SafeEnd \/ SafeAbort \/ Interrupt \/ UNCHANGED vars
    <3>1. /\ pc' = "idle" <=> pc = "idle"
          /\ UNCHANGED <<outcome, entry>>
          /\ pc = "idle" => UNCHANGED <<policy, benchmark>>
      <4>1. CASE SafeEnd \/ SafeAbort \/ Interrupt \/ UNCHANGED vars
        BY <4>1 DEF SafeEnd, SafeAbort, Interrupt, Caught, vars, locals, run, TryPcs
      <4>2. CASE ResetPolicy \/ ResetPolicyFails \/ MarkPolicyActive \/ ResetBenchmark
                   \/ ResetBenchmarkFails \/ PredictFails
        BY <4>2 DEF ResetPolicy, ResetPolicyFails, MarkPolicyActive, ResetBenchmark,
                    ResetBenchmarkFails, PredictFails, Raise, RaiseFrom, Caught, locals, run
      <4>3. CASE Step \/ StepOverrunsMaximum \/ StepEndsEpisode \/ StepFails \/ EndEpisode
                   \/ EndEpisodeFails
        BY <4>3 DEF Step, StepOverrunsMaximum, StepEndsEpisode, StepFails, EndEpisode,
                    EndEpisodeFails, Raise, RaiseFrom, Caught, locals, run
      <4>4. CASE Predict
        BY <4>4 DEF Predict, RaiseFrom, Caught, run
      <4> QED BY <2>4, <4>1, <4>2, <4>3, <4>4 DEF TryBlock
    <3> QED BY <3>1 DEF Contract!contractVars
  <2> QED BY <2>2, <2>3, <2>4 DEF Next, Handlers
<1> QED BY <1>1, <1>2, CallInitially, CallPreserved, PTL
        DEF Spec, ImplementsContract, Contract!ContractSpec
=============================================================================
