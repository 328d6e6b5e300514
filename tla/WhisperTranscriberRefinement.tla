-------------------- MODULE WhisperTranscriberRefinement --------------------
(***************************************************************************)
(* Byte conservation, and the proof that the pipeline of                   *)
(* WhisperTranscriber implements TranscriptionChannel under the mapping    *)
(* Channel of module WhisperTranscriber.                                   *)
(***************************************************************************)
EXTENDS WhisperTranscriberProofs

USE ConstantsAssumption

\* A write attempt of a non-empty segment either stores all of it, within
\* the capacity, or stores nothing and leaves the ring's capacity as it was
\* or one increment larger.
LEMMA WriteSegmentEffect ==
    ASSUME TypeOK, NEW n \in Nat \ {0}, WriteSegment(n)
    PROVE  \/ /\ ringUsed' = ringUsed + n /\ ringUsed' <= ringCapacity
              /\ ringCapacity' = ringCapacity /\ written' = written + n
           \/ /\ ringUsed' = ringUsed /\ written' = written
              /\ ringCapacity' \in {ringCapacity,
                                    ringCapacity + kRingBufferSizeIncrement}
<1>1. CASE RBCanWrite(n)
  BY <1>1 DEF WriteSegment, RBWrite, RBCanWrite
<1>2. CASE ~RBCanWrite(n)
  BY <1>2 DEF WriteSegment, handleOverflow, RBIncreaseWith, ringVars
<1>3. QED
  BY <1>1, <1>2

\* ProcessAudioBuffer either attempts one write of a non-empty segment or
\* leaves the ring buffer and the written count alone; it never touches
\* the consumer's or the tasks' state.
LEMMA ProducerWrites ==
    ASSUME TypeOK, NEW amp \in Amplitudes, ProcessAudioBuffer(amp)
    PROVE  /\ \/ \E n \in Nat \ {0} : WriteSegment(n)
              \/ UNCHANGED <<ringVars, written>>
           /\ UNCHANGED <<consumer, snapshot, processingActive, tasks, tasked>>
<1> DEFINE acc == accumulated + BlockBytes
           silent == silentSamplesCount + BlockBytes
<1>1. UNCHANGED <<consumer, snapshot, processingActive, tasks, tasked>>
  BY DEF ProcessAudioBuffer
<1>2. kTargetSamples \in Nat \ {0}
  OBVIOUS
<1>3. CASE VoicePresent(amp, inVoiceSegment) /\ acc >= kTargetSamples
  BY <1>1, <1>2, <1>3 DEF ProcessAudioBuffer, Flush
<1>4. CASE VoicePresent(amp, inVoiceSegment) /\ ~(acc >= kTargetSamples)
  BY <1>1, <1>4 DEF ProcessAudioBuffer
<1>5. CASE ~VoicePresent(amp, inVoiceSegment)
           /\ inVoiceSegment /\ silent >= kSilenceSamples
           /\ SegmentWorthKeeping(accumulated)
  <2> DEFINE n == IF accumulated < kTargetSamples
                  THEN accumulated ELSE kTargetSamples
  <2>1. Flush(n, accumulated)
    BY <1>5 DEF ProcessAudioBuffer
  <2>2. n \in Nat \ {0}
    BY <1>2, <1>5 DEF TypeOK, SegmentWorthKeeping
  <2>3. QED
    BY <1>1, <2>1, <2>2 DEF Flush
<1>6. CASE ~VoicePresent(amp, inVoiceSegment)
           /\ inVoiceSegment /\ silent >= kSilenceSamples
           /\ ~SegmentWorthKeeping(accumulated)
  BY <1>1, <1>6 DEF ProcessAudioBuffer
<1>7. CASE ~VoicePresent(amp, inVoiceSegment)
           /\ ~(inVoiceSegment /\ silent >= kSilenceSamples)
  BY <1>1, <1>7 DEF ProcessAudioBuffer
<1>8. QED
  BY <1>3, <1>4, <1>5, <1>6, <1>7

-----------------------------------------------------------------------------
(***************************************************************************)
(* ByteConservation is inductive once the types are known: a write adds    *)
(* to the ring and to the written count alike, a failed write changes      *)
(* neither, and the consumer's read moves its snapshot from the ring to    *)
(* the tasked count; the snapshot stays available because only the        *)
(* consumer removes bytes from the ring.                                   *)
(***************************************************************************)
BytesInv == TypeOK /\ ByteConservation

\* The initial state conserves bytes.
LEMMA BytesInit == Init => BytesInv
BY InitTypeOK DEF Init, RBInit, BytesInv, ByteConservation

\* Every step conserves bytes.
LEMMA BytesStep == BytesInv /\ [Next]_vars => BytesInv'
<1> SUFFICES ASSUME BytesInv, [Next]_vars PROVE BytesInv'
  OBVIOUS
<1> USE DEF BytesInv, ByteConservation
<1>1. TypeOK'
  BY NextTypeOK
<1>2. CASE \E amp \in Amplitudes : ProcessAudioBuffer(amp)
  <2>1. PICK amp \in Amplitudes : ProcessAudioBuffer(amp)
    BY <1>2
  <2>2. UNCHANGED <<consumer, snapshot, tasked>>
    BY <2>1, ProducerWrites
  <2>3. CASE \E n \in Nat \ {0} : WriteSegment(n)
    <3>1. PICK n \in Nat \ {0} : WriteSegment(n)
      BY <2>3
    <3>2. CASE ringUsed' = ringUsed + n /\ ringUsed' <= ringCapacity
               /\ ringCapacity' = ringCapacity /\ written' = written + n
      BY <1>1, <2>2, <3>2 DEF TypeOK
    <3>3. CASE ringUsed' = ringUsed /\ written' = written
               /\ ringCapacity' \in {ringCapacity,
                                     ringCapacity + kRingBufferSizeIncrement}
      BY <1>1, <2>2, <3>3 DEF TypeOK
    <3>4. QED
      BY <3>1, <3>2, <3>3, WriteSegmentEffect
  <2>4. CASE UNCHANGED <<ringVars, written>>
    BY <1>1, <2>2, <2>4 DEF ringVars
  <2>5. QED
    BY <2>1, <2>3, <2>4, ProducerWrites
<1>3. CASE ConsumerCheck
  BY <1>1, <1>3 DEF ConsumerCheck, producerVars, ringVars, TypeOK
<1>4. CASE ConsumerRead
  BY <1>1, <1>4 DEF ConsumerRead, RBRead, producerVars, TypeOK
<1>5. CASE \E t \in DOMAIN tasks : TaskEnter(t) \/ TaskValidate(t) \/ TaskInfer(t)
  BY <1>1, <1>5 DEF TaskEnter, TaskValidate, TaskInfer, producerVars, ringVars
<1>6. CASE ConsumerReturn \/ Start \/ Stop \/ Destroy \/ UNCHANGED vars
  BY <1>1, <1>6 DEF ConsumerReturn, Start, Stop, Destroy, vars, producerVars,
                    ringVars
<1>7. QED
  BY <1>2, <1>3, <1>4, <1>5, <1>6 DEF Next

(***************************************************************************)
(* No audio is created, lost or duplicated between ProcessAudioBuffer's    *)
(* writes and the closures RunProcessingThread enqueues, and the size the  *)
(* consumer took from availableToRead() is still available when it reads. *)
(***************************************************************************)
THEOREM ByteConservationHolds == Spec => []ByteConservation
BY BytesInit, BytesStep, PTL DEF Spec, BytesInv

-----------------------------------------------------------------------------
(***************************************************************************)
(* The refinement.  Its step needs both invariants: ByteConservation for   *)
(* the consumer's read (the snapshot is positive and still in the ring)   *)
(* and GuardReflectsEngine for the exits of TranscribeAudioNonBlocking     *)
(* (the guard they clear was set).                                         *)
(***************************************************************************)
RefInv == GuardInv /\ ByteConservation

\* Every state of the pipeline satisfies RefInv.
LEMMA RefInvHolds == Spec => []RefInv
<1>1. Init => RefInv
  BY GuardInit, BytesInit DEF RefInv, BytesInv
<1>2. RefInv /\ [Next]_vars => RefInv'
  BY GuardStep, BytesStep DEF RefInv, BytesInv, GuardInv
<1>3. QED
  BY <1>1, <1>2, PTL DEF Spec

\* A task step changes a phase and leaves every closure's length alone.
LEMMA TaskLensSetTask ==
    ASSUME TypeOK, NEW t \in DOMAIN tasks, NEW pc, SetTask(t, pc)
    PROVE  TaskLens' = TaskLens
<1>1. DOMAIN tasks' = DOMAIN tasks
  BY SetTaskFacts
<1>2. \A u \in DOMAIN tasks : tasks'[u].len = tasks[u].len
  <2>1. tasks[t] \in Task
    BY LenProperties DEF TypeOK
  <2>2. QED
    BY <2>1 DEF SetTask, Task
<1>3. QED
  BY <1>1, <1>2 DEF TaskLens

\* ConsumerRead appends the snapshot to the closures' lengths.
LEMMA TaskLensAppend ==
    ASSUME TypeOK, ConsumerRead
    PROVE  TaskLens' = Append(TaskLens, snapshot)
<1> DEFINE L == Len(tasks)
<1>1. L \in Nat /\ DOMAIN tasks = 1..L
  BY LenProperties DEF TypeOK
<1>2. TaskLens \in Seq(Nat) /\ Len(TaskLens) = L
  <2>0. tasks \in [1..L -> Task]
    BY LenProperties DEF TypeOK
  <2>1. \A i \in 1..L : tasks[i].len \in Nat
    BY <2>0 DEF Task
  <2>2. TaskLens \in [1..L -> Nat]
    BY <1>1, <2>1 DEF TaskLens
  <2>3. QED
    BY <1>1, <2>2, LenProperties
<1>3. /\ DOMAIN Append(TaskLens, snapshot) = 1..(L + 1)
      /\ \A i \in 1..L : Append(TaskLens, snapshot)[i] = TaskLens[i]
      /\ Append(TaskLens, snapshot)[L + 1] = snapshot
  <2>1. snapshot \in Nat
    BY DEF TypeOK
  <2>2. QED
    BY <1>2, <2>1, AppendProperties, LenProperties
<1>4. /\ DOMAIN tasks' = 1..(L + 1)
      /\ \A i \in 1..L : tasks'[i] = tasks[i]
      /\ tasks'[L + 1].len = snapshot
  <2>1. PICK q \in TaskQueues :
          tasks' = Append(tasks, [len |-> snapshot, pc |-> "queued", q |-> q])
    BY DEF ConsumerRead
  <2>2. QED
    BY <1>1, <2>1, AppendFacts, AppendProperties DEF TypeOK
<1>5. QED
  BY <1>3, <1>4 DEF TaskLens

\* Every step of the pipeline is a step of TranscriptionChannel or leaves
\* the mapped state alone.
LEMMA RefStep ==
    RefInv /\ [Next]_vars => [Channel!ChannelNext]_Channel!cvars
<1> SUFFICES ASSUME RefInv, [Next]_vars
             PROVE  [Channel!ChannelNext]_Channel!cvars
  OBVIOUS
<1> USE DEF RefInv, GuardInv
<1> DEFINE Stutter == UNCHANGED <<ringUsed, ringCapacity, TaskLens,
                                  processingActive>>
<1>0. Stutter => [Channel!ChannelNext]_Channel!cvars
  BY DEF Channel!cvars
<1>1. CASE \E amp \in Amplitudes : ProcessAudioBuffer(amp)
  <2>1. PICK amp \in Amplitudes : ProcessAudioBuffer(amp)
    BY <1>1
  <2>2. UNCHANGED <<processingActive, tasks>>
    BY <2>1, ProducerWrites
  <2>3. UNCHANGED TaskLens
    BY <2>2 DEF TaskLens
  <2>4. CASE \E n \in Nat \ {0} : WriteSegment(n)
    <3>1. PICK n \in Nat \ {0} : WriteSegment(n)
      BY <2>4
    <3>2. CASE ringUsed' = ringUsed + n /\ ringUsed' <= ringCapacity
               /\ ringCapacity' = ringCapacity
      <4>1. Channel!Accept
        BY <2>2, <2>3, <3>1, <3>2 DEF Channel!Accept, TypeOK
      <4>2. QED
        BY <4>1 DEF Channel!ChannelNext
    <3>3. CASE ringUsed' = ringUsed /\ ringCapacity' = ringCapacity
      BY <1>0, <2>2, <2>3, <3>3
    <3>4. CASE ringUsed' = ringUsed
               /\ ringCapacity' = ringCapacity + kRingBufferSizeIncrement
      <4>1. Channel!Grow
        BY <2>2, <2>3, <3>4 DEF Channel!Grow
      <4>2. QED
        BY <4>1 DEF Channel!ChannelNext
    <3>5. QED
      BY <3>1, <3>2, <3>3, <3>4, WriteSegmentEffect
  <2>5. CASE UNCHANGED <<ringVars, written>>
    BY <1>0, <2>2, <2>3, <2>5 DEF ringVars
  <2>6. QED
    BY <2>1, <2>4, <2>5, ProducerWrites
<1>2. CASE ConsumerCheck
  <2>1. UNCHANGED <<ringVars, tasks, processingActive>>
    BY <1>2 DEF ConsumerCheck
  <2>2. QED
    BY <1>0, <2>1 DEF ringVars, TaskLens
<1>3. CASE ConsumerRead
  <2>1. /\ ringUsed' = ringUsed - snapshot /\ 0 < snapshot
        /\ snapshot <= ringUsed
        /\ UNCHANGED <<ringCapacity, processingActive>>
    BY <1>3 DEF ConsumerRead, RBRead, ByteConservation
  <2>2. TaskLens' = Append(TaskLens, snapshot)
    BY <1>3, TaskLensAppend
  <2>3. ringUsed - ringUsed' = snapshot /\ ringUsed' < ringUsed
    BY <2>1 DEF TypeOK
  <2>4. Channel!Deliver
    BY <2>1, <2>2, <2>3 DEF Channel!Deliver
  <2>5. QED
    BY <2>4 DEF Channel!ChannelNext
<1>4. CASE \E t \in DOMAIN tasks : TaskEnter(t) \/ TaskValidate(t) \/ TaskInfer(t)
  <2>1. PICK t \in DOMAIN tasks : TaskEnter(t) \/ TaskValidate(t) \/ TaskInfer(t)
    BY <1>4
  <2>2. UNCHANGED <<ringUsed, ringCapacity>>
    BY <2>1 DEF TaskEnter, TaskValidate, TaskInfer, ringVars
  <2>3. UNCHANGED TaskLens
    <3>1. \E pc : SetTask(t, pc)
      BY <2>1 DEF TaskEnter, TaskValidate, TaskInfer
    <3>2. QED
      BY <3>1, TaskLensSetTask
  <2>4. CASE UNCHANGED processingActive
    BY <1>0, <2>2, <2>3, <2>4
  <2>5. CASE processingActive' # processingActive
    <3>1. CASE TaskEnter(t)
      <4>1. ~processingActive /\ processingActive'
        BY <2>5, <3>1 DEF TaskEnter
      <4>2. Channel!Acquire
        BY <2>2, <2>3, <4>1 DEF Channel!Acquire
      <4>3. QED
        BY <4>2 DEF Channel!ChannelNext
    <3>2. CASE TaskValidate(t) \/ TaskInfer(t)
      <4>1. InEngine(t)
        BY <3>2 DEF TaskValidate, TaskInfer, InEngine
      <4>2. processingActive
        BY <4>1 DEF GuardReflectsEngine
      <4>3. ~processingActive'
        BY <2>5, <3>2, <4>2 DEF TaskValidate, TaskInfer
      <4>4. Channel!Release
        BY <2>2, <2>3, <4>2, <4>3 DEF Channel!Release
      <4>5. QED
        BY <4>4 DEF Channel!ChannelNext
    <3>3. QED
      BY <2>1, <3>1, <3>2
  <2>6. QED
    BY <2>4, <2>5
<1>5. CASE ConsumerReturn \/ Start \/ Stop \/ Destroy \/ UNCHANGED vars
  <2>1. UNCHANGED <<ringVars, tasks, processingActive>>
    BY <1>5 DEF ConsumerReturn, Start, Stop, Destroy, vars
  <2>2. QED
    BY <1>0, <2>1 DEF ringVars, TaskLens
<1>6. QED
  BY <1>1, <1>2, <1>3, <1>4, <1>5 DEF Next

(***************************************************************************)
(* The pipeline implements TranscriptionChannel, for every value of the    *)
(* constants: whole writes within the capacity, growth by one increment,   *)
(* each closure carrying exactly the bytes one read of                     *)
(* RunProcessingThread took out of the ring, and an engine guard taken     *)
(* only when free.                                                         *)
(***************************************************************************)
THEOREM Refinement == Spec => ChannelRefinement
<1>1. Init => Channel!ChannelInit
  <2> SUFFICES ASSUME Init PROVE Channel!ChannelInit
    OBVIOUS
  <2>1. TaskLens = << >>
    BY DEF Init, TaskLens
  <2>2. QED
    BY <2>1 DEF Init, RBInit, Channel!ChannelInit
<1>2. QED
  BY <1>1, RefInvHolds, RefStep, PTL
     DEF Spec, ChannelRefinement, Channel!ChannelSpec

=============================================================================
