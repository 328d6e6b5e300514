--------------------- MODULE WhisperTranscriberProofs ----------------------
(***************************************************************************)
(* Proofs about the pipeline of WhisperTranscriber, for every value of the *)
(* constants that satisfies ConstantsAssumption.                           *)
(***************************************************************************)
EXTENDS WhisperTranscriber, SequenceTheorems, TLAPS

USE ConstantsAssumption

\* A write attempt of n bytes, with handleOverflow on failure, keeps the
\* types of the ring buffer, the overflow counter and the history.
LEMMA WriteSegmentTypeOK ==
    ASSUME TypeOK, NEW n \in Nat, WriteSegment(n)
    PROVE  /\ ringUsed' \in Nat /\ ringCapacity' \in Nat
           /\ overflowCount' \in 0..kOverflowLimit /\ written' \in Nat
<1>1. CASE RBCanWrite(n)
  BY <1>1 DEF WriteSegment, RBWrite, TypeOK
<1>2. CASE ~RBCanWrite(n)
  <2>1. handleOverflow /\ written' = written
    BY <1>2 DEF WriteSegment
  <2>2. CASE overflowCount + 1 > kOverflowLimit
    BY <2>1, <2>2 DEF handleOverflow, RBIncreaseWith, TypeOK, kOverflowLimit
  <2>3. CASE ~(overflowCount + 1 > kOverflowLimit)
    BY <2>1, <2>3 DEF handleOverflow, ringVars, TypeOK, kOverflowLimit
  <2>4. QED
    BY <2>2, <2>3
<1>3. QED
  BY <1>1, <1>2

\* The producer's step keeps the types.
LEMMA ProducerTypeOK ==
    ASSUME TypeOK, NEW amp \in Amplitudes, ProcessAudioBuffer(amp)
    PROVE  TypeOK'
<1> DEFINE acc == accumulated + BlockBytes
           silent == silentSamplesCount + BlockBytes
<1>1. acc \in Nat /\ silent \in Nat
  BY DEF TypeOK
<1>2. lastAmplitude' \in Amplitudes
  BY DEF ProcessAudioBuffer
<1>3. UNCHANGED <<whisperContext, running, consumer, snapshot, owner,
                  processingActive, tasks, tasked>>
  BY DEF ProcessAudioBuffer
<1>4. CASE VoicePresent(amp, inVoiceSegment) /\ acc >= kTargetSamples
  <2>1. Flush(kTargetSamples, acc) /\ inVoiceSegment' = TRUE
        /\ silentSamplesCount' = 0
    BY <1>4 DEF ProcessAudioBuffer
  <2>2. /\ ringUsed' \in Nat /\ ringCapacity' \in Nat
        /\ overflowCount' \in 0..kOverflowLimit /\ written' \in Nat
    BY <2>1, WriteSegmentTypeOK DEF Flush
  <2>3. accumulated' \in Nat /\ samplesSinceStart' \in Nat
    BY <2>1, <1>1 DEF Flush
  <2>4. QED
    BY <1>2, <1>3, <2>1, <2>2, <2>3 DEF TypeOK
<1>5. CASE VoicePresent(amp, inVoiceSegment) /\ ~(acc >= kTargetSamples)
  BY <1>1, <1>2, <1>3, <1>5 DEF ProcessAudioBuffer, TypeOK, ringVars
<1>6. CASE ~VoicePresent(amp, inVoiceSegment)
           /\ inVoiceSegment /\ silent >= kSilenceSamples
           /\ SegmentWorthKeeping(accumulated)
  <2> DEFINE n == IF accumulated < kTargetSamples
                  THEN accumulated ELSE kTargetSamples
  <2>1. Flush(n, accumulated) /\ inVoiceSegment' = FALSE
        /\ silentSamplesCount' = 0
    BY <1>6 DEF ProcessAudioBuffer
  <2>2. n \in Nat
    BY DEF TypeOK
  <2>3. /\ ringUsed' \in Nat /\ ringCapacity' \in Nat
        /\ overflowCount' \in 0..kOverflowLimit /\ written' \in Nat
    BY <2>1, <2>2, WriteSegmentTypeOK DEF Flush
  <2>4. accumulated' \in Nat /\ samplesSinceStart' \in Nat
    BY <2>1, <2>2 DEF Flush, TypeOK
  <2>5. QED
    BY <1>2, <1>3, <2>1, <2>3, <2>4 DEF TypeOK
<1>7. CASE ~VoicePresent(amp, inVoiceSegment)
           /\ inVoiceSegment /\ silent >= kSilenceSamples
           /\ ~SegmentWorthKeeping(accumulated)
  BY <1>2, <1>3, <1>7 DEF ProcessAudioBuffer, TypeOK, ringVars
<1>8. CASE ~VoicePresent(amp, inVoiceSegment)
           /\ ~(inVoiceSegment /\ silent >= kSilenceSamples)
  BY <1>1, <1>2, <1>3, <1>8 DEF ProcessAudioBuffer, TypeOK, ringVars
<1>9. QED
  BY <1>4, <1>5, <1>6, <1>7, <1>8

\* A task step keeps the types.
LEMMA TaskTypeOK ==
    ASSUME TypeOK, NEW t \in DOMAIN tasks,
           TaskEnter(t) \/ TaskValidate(t) \/ TaskInfer(t)
    PROVE  TypeOK'
<1>1. t \in 1..Len(tasks) /\ tasks[t] \in Task
  BY DEF TypeOK
<1>2. ASSUME NEW pc \in TaskPhase
      PROVE  [tasks EXCEPT ![t].pc = pc] \in Seq(Task)
  <2>1. [tasks[t] EXCEPT !.pc = pc] \in Task
    BY <1>1 DEF Task
  <2>2. [tasks EXCEPT ![t].pc = pc] = [tasks EXCEPT ![t] = [tasks[t] EXCEPT !.pc = pc]]
    OBVIOUS
  <2>3. QED
    BY <1>1, <2>1, <2>2, ExceptSeq DEF TypeOK
<1>3. UNCHANGED <<whisperContext, producerVars, ringVars, running, consumer,
                  snapshot, owner, tasked>>
  BY DEF TaskEnter, TaskValidate, TaskInfer
<1>4. processingActive' \in BOOLEAN
  BY DEF TaskEnter, TaskValidate, TaskInfer, TypeOK
<1>5. \E pc \in TaskPhase : tasks' = [tasks EXCEPT ![t].pc = pc]
  BY DEF TaskEnter, TaskValidate, TaskInfer, SetTask, TaskPhase
<1>6. QED
  BY <1>2, <1>3, <1>4, <1>5 DEF TypeOK, producerVars, ringVars

\* The initial state is well typed.
LEMMA InitTypeOK == Init => TypeOK
<1> SUFFICES ASSUME Init PROVE TypeOK
  OBVIOUS
<1>1. tasks \in Seq(Task)
  BY EmptySeq DEF Init
<1>2. overflowCount \in 0..kOverflowLimit /\ lastAmplitude \in Amplitudes
  BY DEF Init, kOverflowLimit
<1>3. ringUsed \in Nat /\ ringCapacity \in Nat
  BY DEF Init, RBInit
<1>4. QED
  BY <1>1, <1>2, <1>3 DEF Init, TypeOK

\* Every step, stuttering included, keeps the types.
LEMMA NextTypeOK == TypeOK /\ [Next]_vars => TypeOK'
<1> SUFFICES ASSUME TypeOK, [Next]_vars PROVE TypeOK'
  OBVIOUS
<1>1. CASE \E amp \in Amplitudes : ProcessAudioBuffer(amp)
  BY <1>1, ProducerTypeOK
<1>2. CASE ConsumerCheck
  BY <1>2 DEF ConsumerCheck, TypeOK, ringVars, producerVars
<1>3. CASE ConsumerRead
  <2>1. PICK q \in TaskQueues :
          tasks' = Append(tasks, [len |-> snapshot, pc |-> "queued", q |-> q])
    BY <1>3 DEF ConsumerRead
  <2>2. [len |-> snapshot, pc |-> "queued", q |-> q] \in Task
    BY DEF TypeOK, Task, TaskPhase
  <2>3. tasks' \in Seq(Task)
    BY <2>1, <2>2, AppendProperties DEF TypeOK
  <2>4. QED
    BY <1>3, <2>3 DEF ConsumerRead, RBRead, TypeOK, producerVars
<1>4. CASE \E t \in DOMAIN tasks : TaskEnter(t) \/ TaskValidate(t) \/ TaskInfer(t)
  BY <1>4, TaskTypeOK
<1>5. CASE Start
  BY <1>5 DEF Start, TypeOK, ringVars, producerVars
<1>6. CASE Stop
  BY <1>6 DEF Stop, TypeOK, ringVars, producerVars
<1>7. CASE UNCHANGED vars
  BY <1>7 DEF vars, producerVars, ringVars, TypeOK
<1>8. CASE Destroy
  BY <1>8 DEF Destroy, TypeOK, ringVars, producerVars
<1>9. CASE ConsumerReturn
  BY <1>9 DEF ConsumerReturn, TypeOK, ringVars, producerVars
<1>10. QED
  BY <1>1, <1>2, <1>3, <1>4, <1>5, <1>6, <1>7, <1>8, <1>9 DEF Next

(***************************************************************************)
(* Type correctness: every reachable state gives each variable the type    *)
(* the code's declarations give it; in particular _overflowCount never     *)
(* exceeds 10, because the growing step of handleOverflow resets it.       *)
(***************************************************************************)
THEOREM TypeCorrect == Spec => []TypeOK
BY InitTypeOK, NextTypeOK, PTL DEF Spec

-----------------------------------------------------------------------------
(***************************************************************************)
(* The single-flight guard.  GuardInv is inductive once the types are      *)
(* known: the exchange admits a closure only when no closure is in the     *)
(* engine, and every exit of TranscribeAudioNonBlocking clears the guard   *)
(* as the only closure inside leaves.                                      *)
(***************************************************************************)
GuardInv == TypeOK /\ SingleFlight /\ GuardReflectsEngine

\* What SetTask(t, pc) changes in the sequence of tasks.
LEMMA SetTaskFacts ==
    ASSUME TypeOK, NEW t \in DOMAIN tasks, NEW pc, SetTask(t, pc)
    PROVE  /\ DOMAIN tasks' = DOMAIN tasks
           /\ tasks'[t].pc = pc
           /\ \A u \in DOMAIN tasks : u # t => tasks'[u] = tasks[u]
<1>1. tasks \in [1..Len(tasks) -> Task] /\ DOMAIN tasks = 1..Len(tasks)
  BY LenProperties DEF TypeOK
<1>2. tasks[t] \in Task
  BY <1>1
<1>3. QED
  BY <1>2 DEF SetTask, Task

\* ConsumerRead appends a queued task and leaves the others alone.
LEMMA AppendFacts ==
    ASSUME TypeOK, ConsumerRead
    PROVE  /\ DOMAIN tasks' = DOMAIN tasks \cup {Len(tasks) + 1}
           /\ tasks'[Len(tasks) + 1].pc = "queued"
           /\ \A u \in DOMAIN tasks : tasks'[u] = tasks[u]
           /\ Len(tasks) + 1 \notin DOMAIN tasks
           /\ UNCHANGED processingActive
<1>0. PICK q \in TaskQueues :
        tasks' = Append(tasks, [len |-> snapshot, pc |-> "queued", q |-> q])
  BY DEF ConsumerRead
<1> DEFINE elt == [len |-> snapshot, pc |-> "queued", q |-> q]
<1>1. tasks \in Seq(Task) /\ elt \in Task
  BY DEF TypeOK, Task, TaskPhase
<1>2. tasks' = Append(tasks, elt) /\ UNCHANGED processingActive
  BY <1>0 DEF ConsumerRead
<1>3. /\ Append(tasks, elt) \in Seq(Task)
      /\ Len(Append(tasks, elt)) = Len(tasks) + 1
      /\ \A i \in 1..Len(tasks) : Append(tasks, elt)[i] = tasks[i]
      /\ Append(tasks, elt)[Len(tasks) + 1] = elt
  BY <1>1, AppendProperties
<1>4. DOMAIN tasks = 1..Len(tasks) /\ Len(tasks) \in Nat
  BY <1>1, LenProperties
<1>5. DOMAIN Append(tasks, elt) = 1..(Len(tasks) + 1)
  BY <1>3, LenProperties
<1>6. QED
  BY <1>2, <1>3, <1>4, <1>5

\* A task step keeps the guard invariant.
LEMMA TaskGuardInv ==
    ASSUME GuardInv, NEW t \in DOMAIN tasks,
           TaskEnter(t) \/ TaskValidate(t) \/ TaskInfer(t)
    PROVE  (SingleFlight /\ GuardReflectsEngine)'
<1> USE DEF GuardInv
<1>1. CASE TaskEnter(t) /\ (~whisperContext \/ tasks[t].len % 2 # 0
                            \/ processingActive)
  <2>1. SetTask(t, "done") /\ UNCHANGED processingActive
        /\ tasks[t].pc = "queued"
    BY <1>1 DEF TaskEnter
  <2>2. \A u \in DOMAIN tasks : InEngine(u)' <=> InEngine(u)
    BY <2>1, SetTaskFacts DEF InEngine
  <2>3. QED
    BY <2>1, <2>2, SetTaskFacts DEF SingleFlight, GuardReflectsEngine
<1>2. CASE TaskEnter(t) /\ ~(~whisperContext \/ tasks[t].len % 2 # 0
                             \/ processingActive)
  <2>1. SetTask(t, "validate") /\ processingActive' = TRUE
        /\ ~processingActive
    BY <1>2 DEF TaskEnter
  <2>2. \A u \in DOMAIN tasks : ~InEngine(u)
    BY <2>1 DEF GuardReflectsEngine
  <2>3. \A u \in DOMAIN tasks : InEngine(u)' <=> u = t
    BY <2>1, <2>2, SetTaskFacts DEF InEngine
  <2>4. QED
    BY <2>1, <2>3, SetTaskFacts DEF SingleFlight, GuardReflectsEngine
<1>3. CASE TaskValidate(t) \/ TaskInfer(t)
  <2>1. InEngine(t)
    BY <1>3 DEF TaskValidate, TaskInfer, InEngine
  <2>2. \A u \in DOMAIN tasks : u # t => ~InEngine(u)
    BY <2>1 DEF SingleFlight
  <2>3. \E pc \in {"infer", "done"} :
          /\ SetTask(t, pc)
          /\ processingActive' = (pc = "infer")
    <3>1. processingActive
      BY <2>1 DEF GuardReflectsEngine
    <3>2. QED
      BY <1>3, <3>1 DEF TaskValidate, TaskInfer
  <2>4. PICK pc \in {"infer", "done"} :
          SetTask(t, pc) /\ processingActive' = (pc = "infer")
    BY <2>3
  <2>5. \A u \in DOMAIN tasks : InEngine(u)' <=> (u = t /\ pc = "infer")
    BY <2>2, <2>4, SetTaskFacts DEF InEngine
  <2>6. DOMAIN tasks' = DOMAIN tasks
    BY <2>4, SetTaskFacts
  <2>7. SingleFlight'
    BY <2>5, <2>6 DEF SingleFlight
  <2>8. GuardReflectsEngine'
    BY <2>4, <2>5, <2>6 DEF GuardReflectsEngine
  <2>9. QED
    BY <2>7, <2>8
<1>4. QED
  BY <1>1, <1>2, <1>3

\* The initial state satisfies the guard invariant: no task exists.
LEMMA GuardInit == Init => GuardInv
<1> SUFFICES ASSUME Init PROVE GuardInv
  OBVIOUS
<1>1. TypeOK
  BY InitTypeOK
<1>2. DOMAIN tasks = {}
  BY DEF Init
<1>3. QED
  BY <1>1, <1>2 DEF Init, GuardInv, SingleFlight, GuardReflectsEngine

\* Every step keeps the guard invariant.
LEMMA GuardStep == GuardInv /\ [Next]_vars => GuardInv'
<1> SUFFICES ASSUME GuardInv, [Next]_vars PROVE GuardInv'
  OBVIOUS
<1>1. TypeOK'
  BY NextTypeOK DEF GuardInv
<1>2. CASE \E t \in DOMAIN tasks : TaskEnter(t) \/ TaskValidate(t) \/ TaskInfer(t)
  BY <1>1, <1>2, TaskGuardInv DEF GuardInv
<1>3. CASE ConsumerRead
  <2>1. \A u \in DOMAIN tasks' : InEngine(u)' <=> (u \in DOMAIN tasks /\ InEngine(u))
    BY <1>3, AppendFacts DEF GuardInv, InEngine
  <2>2. QED
    BY <1>1, <1>3, <2>1, AppendFacts DEF GuardInv, SingleFlight, GuardReflectsEngine
<1>4. CASE \/ \E amp \in Amplitudes : ProcessAudioBuffer(amp)
           \/ ConsumerCheck \/ ConsumerReturn \/ Start \/ Stop \/ Destroy
           \/ UNCHANGED vars
  <2>1. UNCHANGED <<tasks, processingActive>>
    BY <1>4 DEF ProcessAudioBuffer, ConsumerCheck, ConsumerReturn, Start, Stop,
                Destroy, vars
  <2>2. QED
    BY <1>1, <2>1 DEF GuardInv, SingleFlight, GuardReflectsEngine, InEngine
<1>5. QED
  BY <1>2, <1>3, <1>4 DEF Next

(***************************************************************************)
(* Single flight, for every pool size and every bound: at most one closure *)
(* is ever past _processingActive.exchange(true), and the guard is set     *)
(* exactly while one is.                                                   *)
(***************************************************************************)
THEOREM SingleFlightGuard == Spec => [](SingleFlight /\ GuardReflectsEngine)
BY GuardInit, GuardStep, PTL DEF Spec, GuardInv

(***************************************************************************)
(* The guard is never stuck: no exit of TranscribeAudioNonBlocking leaves  *)
(* _processingActive set once its closure has left the engine, so later    *)
(* segments are not all dropped; and no exit clears it under a running     *)
(* transcription.                                                          *)
(***************************************************************************)
THEOREM GuardNeverStuck == Spec => []GuardReflectsEngine
BY SingleFlightGuard, PTL

=============================================================================
