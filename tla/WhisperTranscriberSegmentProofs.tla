------------------- MODULE WhisperTranscriberSegmentProofs -------------------
(***************************************************************************)
(* What the closures carry.  ProcessAudioBuffer writes to the ring only    *)
(* segments of whole samples and of one second or more; the ring's        *)
(* content, and the part of it the consumer snapshots, is then always a    *)
(* concatenation of such segments, and so is every closure.  Second, the   *)
(* accumulator holds less than one segment between calls.                  *)
(***************************************************************************)
EXTENDS WhisperTranscriberRefinement

USE ConstantsAssumption

\* A byte count made of whole writes of ProcessAudioBuffer: whole PCM16
\* samples, and either nothing or at least one second of audio.
WholeSegments(x) == x % 2 = 0 /\ (x = 0 \/ x >= 2 * kSampleRate)

\* The sum of two such counts is one.
LEMMA WholeSegmentsAdd ==
    ASSUME NEW x \in Nat, NEW y \in Nat, WholeSegments(x), WholeSegments(y)
    PROVE  WholeSegments(x + y)
BY DEF WholeSegments

(***************************************************************************)
(* The producer's write sizes: every segment ProcessAudioBuffer writes has *)
(* an even length between one second (2 * kSampleRate bytes) and          *)
(* kTargetSamples, and the accumulator stays even.                        *)
(***************************************************************************)
SegmentSize(n) == n \in Nat /\ n % 2 = 0 /\ 2 * kSampleRate <= n
                  /\ n <= kTargetSamples

LEMMA ProducerSegments ==
    ASSUME TypeOK, accumulated % 2 = 0,
           NEW amp \in Amplitudes, ProcessAudioBuffer(amp)
    PROVE  /\ accumulated' % 2 = 0
           /\ \/ \E n \in Nat \ {0} : SegmentSize(n) /\ WriteSegment(n)
              \/ UNCHANGED <<ringVars, written>>
<1> DEFINE acc == accumulated + BlockBytes
           silent == silentSamplesCount + BlockBytes
<1>1. acc \in Nat /\ acc % 2 = 0
  BY DEF TypeOK
<1>2. SegmentSize(kTargetSamples) /\ kTargetSamples \in Nat \ {0}
  BY DEF SegmentSize
<1>3. CASE VoicePresent(amp, inVoiceSegment) /\ acc >= kTargetSamples
  <2>1. Flush(kTargetSamples, acc)
    BY <1>3 DEF ProcessAudioBuffer
  <2>2. accumulated' % 2 = 0
    BY <1>1, <2>1 DEF Flush
  <2>3. QED
    BY <1>2, <2>1, <2>2 DEF Flush
<1>4. CASE VoicePresent(amp, inVoiceSegment) /\ ~(acc >= kTargetSamples)
  BY <1>1, <1>4 DEF ProcessAudioBuffer
<1>5. CASE ~VoicePresent(amp, inVoiceSegment)
           /\ inVoiceSegment /\ silent >= kSilenceSamples
           /\ SegmentWorthKeeping(accumulated)
  <2> DEFINE n == IF accumulated < kTargetSamples
                  THEN accumulated ELSE kTargetSamples
  <2>1. Flush(n, accumulated)
    BY <1>5 DEF ProcessAudioBuffer
  <2>2. SegmentSize(n) /\ n \in Nat \ {0}
    BY <1>5 DEF TypeOK, SegmentWorthKeeping, SegmentSize
  <2>3. accumulated' % 2 = 0
    BY <2>1, <2>2 DEF Flush, TypeOK, SegmentSize
  <2>4. QED
    BY <2>1, <2>2, <2>3 DEF Flush
<1>6. CASE ~VoicePresent(amp, inVoiceSegment)
           /\ inVoiceSegment /\ silent >= kSilenceSamples
           /\ ~SegmentWorthKeeping(accumulated)
  BY <1>6 DEF ProcessAudioBuffer
<1>7. CASE ~VoicePresent(amp, inVoiceSegment)
           /\ ~(inVoiceSegment /\ silent >= kSilenceSamples)
  BY <1>7 DEF ProcessAudioBuffer
<1>8. QED
  BY <1>3, <1>4, <1>5, <1>6, <1>7

-----------------------------------------------------------------------------
(***************************************************************************)
(* The inductive invariant.  ClosuresPassEntryChecks alone is not          *)
(* inductive: a closure's length is the consumer's snapshot, which is the  *)
(* ring's content at an earlier moment.  So the ring's content, and while  *)
(* the consumer is between its check and its read also the snapshot and  *)
(* what the producer wrote after it, are stated to be whole segments; the  *)
(* accumulator must stay even for the end-of-speech flush to be even; and  *)
(* ByteConservation gives that the snapshot is positive and in the ring.   *)
(***************************************************************************)
SegInv ==
    /\ BytesInv
    /\ accumulated % 2 = 0
    /\ WholeSegments(ringUsed)
    /\ consumer = "read" => WholeSegments(snapshot)
                            /\ WholeSegments(ringUsed - snapshot)
    /\ ClosuresPassEntryChecks

\* The initial state.
LEMMA SegInit == Init => SegInv
BY BytesInit DEF Init, RBInit, SegInv, WholeSegments, ClosuresPassEntryChecks

\* The producer's step.
LEMMA SegProducer ==
    ASSUME SegInv, NEW amp \in Amplitudes, ProcessAudioBuffer(amp), BytesInv'
    PROVE  SegInv'
<1> USE DEF SegInv, BytesInv, ByteConservation
<1>1. UNCHANGED <<consumer, snapshot, tasks, tasked>>
  BY ProducerWrites
<1>2. accumulated' % 2 = 0
  BY ProducerSegments
<1>3. ClosuresPassEntryChecks'
  BY <1>1 DEF ClosuresPassEntryChecks
<1>4. CASE \E n \in Nat \ {0} : SegmentSize(n) /\ WriteSegment(n)
  <2>1. PICK n \in Nat \ {0} : SegmentSize(n) /\ WriteSegment(n)
    BY <1>4
  <2>2. WholeSegments(n)
    BY <2>1 DEF SegmentSize, WholeSegments
  <2>3. CASE ringUsed' = ringUsed + n
    <3>1. WholeSegments(ringUsed')
      BY <2>2, <2>3, WholeSegmentsAdd DEF TypeOK
    <3>2. consumer = "read" => WholeSegments(ringUsed' - snapshot)
      <4>1. SUFFICES ASSUME consumer = "read" PROVE WholeSegments(ringUsed' - snapshot)
        OBVIOUS
      <4>2. ringUsed - snapshot \in Nat /\ ringUsed' - snapshot = (ringUsed - snapshot) + n
        BY <2>3, <4>1 DEF TypeOK
      <4>3. QED
        BY <2>2, <4>1, <4>2, WholeSegmentsAdd
    <3>3. QED
      BY <1>1, <1>2, <1>3, <3>1, <3>2
  <2>4. CASE ringUsed' = ringUsed
    BY <1>1, <1>2, <1>3, <2>4
  <2>5. QED
    BY <2>1, <2>3, <2>4, WriteSegmentEffect
<1>5. CASE UNCHANGED <<ringVars, written>>
  BY <1>1, <1>2, <1>3, <1>5 DEF ringVars
<1>6. QED
  BY <1>4, <1>5, ProducerSegments

\* The consumer's read hands a positive snapshot of whole segments to a
\* new closure and leaves whole segments in the ring.
LEMMA SegConsumerRead ==
    ASSUME SegInv, ConsumerRead, BytesInv'
    PROVE  SegInv'
<1> USE DEF SegInv, BytesInv, ByteConservation
<1> DEFINE L == Len(tasks)
<1>1. WholeSegments(snapshot) /\ snapshot > 0
  BY DEF ConsumerRead
<1>2. /\ DOMAIN tasks' = 1..(L + 1)
      /\ \A i \in 1..L : tasks'[i] = tasks[i]
      /\ tasks'[L + 1].len = snapshot
  <2>1. L \in Nat /\ DOMAIN tasks = 1..L
    BY LenProperties DEF TypeOK
  <2>2. PICK q \in TaskQueues :
          tasks' = Append(tasks, [len |-> snapshot, pc |-> "queued", q |-> q])
    BY DEF ConsumerRead
  <2>3. QED
    BY <2>1, <2>2, AppendFacts, AppendProperties DEF TypeOK
<1>3. ClosuresPassEntryChecks'
  BY <1>1, <1>2 DEF ClosuresPassEntryChecks, WholeSegments
<1>4. WholeSegments(ringUsed')
  BY DEF ConsumerRead, RBRead
<1>5. QED
  BY <1>3, <1>4 DEF ConsumerRead, producerVars

\* A task step changes a phase and no closure's length.
LEMMA SegTask ==
    ASSUME SegInv, NEW t \in DOMAIN tasks, NEW pc, SetTask(t, pc),
           UNCHANGED <<producerVars, ringVars, consumer, snapshot>>, BytesInv'
    PROVE  SegInv'
<1> USE DEF SegInv, BytesInv
<1>1. TaskLens' = TaskLens
  BY TaskLensSetTask
<1>2. DOMAIN tasks' = DOMAIN tasks
  BY SetTaskFacts
<1>3. \A u \in DOMAIN tasks : tasks'[u].len = tasks[u].len
  BY <1>1, <1>2 DEF TaskLens
<1>4. ClosuresPassEntryChecks'
  BY <1>2, <1>3 DEF ClosuresPassEntryChecks
<1>5. QED
  BY <1>4 DEF producerVars, ringVars

\* Every step keeps SegInv.
LEMMA SegStep == SegInv /\ [Next]_vars => SegInv'
<1> SUFFICES ASSUME SegInv, [Next]_vars PROVE SegInv'
  OBVIOUS
<1>1. BytesInv'
  BY BytesStep DEF SegInv
<1>2. CASE \E amp \in Amplitudes : ProcessAudioBuffer(amp)
  BY <1>1, <1>2, SegProducer
<1>3. CASE ConsumerCheck
  BY <1>1, <1>3 DEF ConsumerCheck, SegInv, BytesInv, ByteConservation,
                    WholeSegments, ClosuresPassEntryChecks, producerVars,
                    ringVars, TypeOK
<1>4. CASE ConsumerRead
  BY <1>1, <1>4, SegConsumerRead
<1>5. CASE \E t \in DOMAIN tasks : TaskEnter(t) \/ TaskValidate(t) \/ TaskInfer(t)
  <2>1. PICK t \in DOMAIN tasks : TaskEnter(t) \/ TaskValidate(t) \/ TaskInfer(t)
    BY <1>5
  <2>2. \E pc : SetTask(t, pc)
    BY <2>1 DEF TaskEnter, TaskValidate, TaskInfer
  <2>3. UNCHANGED <<producerVars, ringVars, consumer, snapshot>>
    BY <2>1 DEF TaskEnter, TaskValidate, TaskInfer
  <2>4. QED
    BY <1>1, <2>2, <2>3, SegTask
<1>6. CASE ConsumerReturn \/ Start \/ Stop \/ Destroy \/ UNCHANGED vars
  BY <1>1, <1>6 DEF ConsumerReturn, Start, Stop, Destroy, vars, producerVars,
                    ringVars, SegInv, ClosuresPassEntryChecks
<1>7. QED
  BY <1>2, <1>3, <1>4, <1>5, <1>6 DEF Next

(***************************************************************************)
(* Every closure RunProcessingThread enqueues holds whole PCM16 samples    *)
(* and at least one second of audio, so TranscribeAudioNonBlocking's       *)
(* odd-length drop and its too-short rejection never fire.                 *)
(***************************************************************************)
THEOREM ClosuresPassEntryChecksHold == Spec => []ClosuresPassEntryChecks
BY SegInit, SegStep, PTL DEF Spec, SegInv

-----------------------------------------------------------------------------
(***************************************************************************)
(* The accumulator bound.  It needs a playout block no larger than one     *)
(* segment (a 10 ms block against 12 s): with a larger block each call     *)
(* adds more than the one segment the flush takes out, and the            *)
(* accumulator grows without bound.  The code does not check the block     *)
(* size, so the bound is a hypothesis of the theorem, not an assumption   *)
(* on the constants.  AccumulatorBelowTarget with the types is inductive.  *)
(***************************************************************************)
AccInv == TypeOK /\ AccumulatorBelowTarget

\* The producer's step keeps the accumulator below a segment.
LEMMA AccProducer ==
    ASSUME BlockBytes <= kTargetSamples, AccInv,
           NEW amp \in Amplitudes, ProcessAudioBuffer(amp)
    PROVE  AccumulatorBelowTarget'
<1> USE DEF AccInv, AccumulatorBelowTarget
<1> DEFINE acc == accumulated + BlockBytes
           silent == silentSamplesCount + BlockBytes
<1>1. CASE VoicePresent(amp, inVoiceSegment) /\ acc >= kTargetSamples
  \* acc < 2 * kTargetSamples, so the remainder is below a segment
  BY <1>1 DEF ProcessAudioBuffer, Flush, TypeOK
<1>2. CASE VoicePresent(amp, inVoiceSegment) /\ ~(acc >= kTargetSamples)
  <2>1. accumulated' = acc
    BY <1>2 DEF ProcessAudioBuffer
  <2>2. acc \in Nat /\ kTargetSamples \in Nat
    BY DEF TypeOK
  <2>3. QED
    BY <1>2, <2>1, <2>2
<1>3. CASE ~VoicePresent(amp, inVoiceSegment)
           /\ inVoiceSegment /\ silent >= kSilenceSamples
           /\ SegmentWorthKeeping(accumulated)
  \* the whole accumulator is written: nothing remains
  BY <1>3 DEF ProcessAudioBuffer, Flush, TypeOK
<1>4. CASE ~VoicePresent(amp, inVoiceSegment)
           /\ inVoiceSegment /\ silent >= kSilenceSamples
           /\ ~SegmentWorthKeeping(accumulated)
  BY <1>4 DEF ProcessAudioBuffer
<1>5. CASE ~VoicePresent(amp, inVoiceSegment)
           /\ ~(inVoiceSegment /\ silent >= kSilenceSamples)
  BY <1>5 DEF ProcessAudioBuffer
<1>6. QED
  BY <1>1, <1>2, <1>3, <1>4, <1>5

\* Every step keeps AccInv.
LEMMA AccStep ==
    ASSUME BlockBytes <= kTargetSamples
    PROVE  AccInv /\ [Next]_vars => AccInv'
<1> SUFFICES ASSUME AccInv, [Next]_vars PROVE AccInv'
  OBVIOUS
<1>1. TypeOK'
  BY NextTypeOK DEF AccInv
<1>2. CASE \E amp \in Amplitudes : ProcessAudioBuffer(amp)
  BY <1>1, <1>2, AccProducer DEF AccInv
<1>3. CASE ~\E amp \in Amplitudes : ProcessAudioBuffer(amp)
  BY <1>1, <1>3 DEF AccInv, AccumulatorBelowTarget, Next, vars, producerVars,
                    ConsumerCheck, ConsumerRead, ConsumerReturn, TaskEnter,
                    TaskValidate, TaskInfer, Start, Stop, Destroy
<1>4. QED
  BY <1>2, <1>3

(***************************************************************************)
(* When a playout block is no larger than one segment, the accumulator     *)
(* holds less than kTargetSamples bytes between calls of                   *)
(* ProcessAudioBuffer: the continuous-speech flush keeps up.               *)
(***************************************************************************)
THEOREM AccumulatorBounded ==
    ASSUME BlockBytes <= kTargetSamples
    PROVE  Spec => []AccumulatorBelowTarget
<1>1. Init => AccInv
  BY InitTypeOK DEF Init, AccInv, AccumulatorBelowTarget
<1>2. AccInv /\ [Next]_vars => AccInv'
  BY AccStep
<1>3. QED
  BY <1>1, <1>2, PTL DEF Spec, AccInv

=============================================================================
