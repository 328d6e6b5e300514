------------------------- MODULE WhisperTranscriber -------------------------
(***************************************************************************)
(* The audio pipeline of WhisperTranscriber (whisper_transcriber.cc and    *)
(* its header): the real-time producer ProcessAudioBuffer (voice activity  *)
(* segmenter, accumulator, ring-buffer write and handleOverflow), the      *)
(* consumer thread RunProcessingThread, the worker-pool tasks it enqueues  *)
(* with their single-flight guard TranscribeAudioNonBlocking, and the      *)
(* owner's Start and Stop.                                                 *)
(*                                                                         *)
(* Audio is abstracted to byte counts and a block to its average          *)
(* amplitude; transcription text to whether it is empty.                  *)
(***************************************************************************)
EXTENDS Naturals, Sequences, AudioRingBuffer

CONSTANTS
    kSampleRate,               \* samples per second (16000)
    kTargetSamples,            \* segment size in bytes (kSampleRate * 12 * 2)
    kRingBufferSizeIncrement,  \* ring size and growth step (kSampleRate * 3 * 2 * 10)
    BlockBytes,                \* bytes of one playout block handed to ProcessAudioBuffer
    Amplitudes,                \* the average amplitudes a block may have
    PoolSize,                  \* pool queues: min(16, hardware_concurrency())
    MaxCapacity,               \* bound: ring capacity growth may reach
    MaxSilentBytes,            \* bound: _silentSamplesCount while no segment is open
    MaxTasks                   \* bound: closures the consumer enqueues

\* kSilenceSamples is the literal 16000 in the header, the value of kSampleRate.
kSilenceSamples == kSampleRate

\* The literal in handleOverflow: growth on the 11th overflow.
kOverflowLimit == 10

ASSUME ConstantsAssumption ==
    /\ kSampleRate \in Nat \ {0}
    /\ BlockBytes \in Nat \ {0} /\ BlockBytes % 2 = 0
    /\ kTargetSamples \in Nat /\ kTargetSamples % 2 = 0
    /\ kRingBufferSizeIncrement \in Nat
    /\ kSampleRate * 2 <= kTargetSamples
    /\ kTargetSamples <= kRingBufferSizeIncrement
    /\ Amplitudes \subseteq Nat /\ 0 \in Amplitudes
    /\ PoolSize \in Nat
    /\ MaxCapacity \in Nat /\ MaxSilentBytes \in Nat /\ MaxTasks \in Nat

VARIABLES
    whisperContext,      \* _whisperContext # nullptr (fixed by the constructor)
    inVoiceSegment,      \* _inVoiceSegment
    silentSamplesCount,  \* _silentSamplesCount (incremented by bytes)
    samplesSinceStart,   \* _samplesSinceVoiceStart (bytes)
    accumulated,         \* _accumulatedByteBuffer.size()
    overflowCount,       \* _overflowCount
    running,             \* _running
    consumer,            \* the processing thread: "none", "loop" or "read"
    snapshot,            \* audioBuffer.size() taken from availableToRead()
    owner,               \* the caller of Start/Stop: "idle", "joining", "destroyed"
    processingActive,    \* _processingActive, the single-flight guard
    tasks,               \* the closures enqueued on the TaskQueuePool
    lastAmplitude,       \* average amplitude of the last block (history)
    written,             \* bytes the producer wrote successfully (history)
    tasked               \* bytes the consumer handed to tasks (history)

producerVars == <<inVoiceSegment, silentSamplesCount, samplesSinceStart,
                  accumulated, overflowCount, lastAmplitude, written>>
vars == <<whisperContext, producerVars, ringVars, running, consumer, snapshot,
          owner, processingActive, tasks, tasked>>

TaskPhase == {"queued", "validate", "infer", "done"}

\* The queues of the TaskQueuePool: one webrtc task queue per worker.
TaskQueues == 1..PoolSize

\* A closure: the bytes it captured, its progress, the queue it was given.
Task == [len : Nat, pc : TaskPhase, q : TaskQueues]

\* The threshold tests of ProcessAudioBuffer, relative to the block's own
\* average amplitude (relativeThreshold 0.1, start 1.2x, end 0.8x, in percent).
VoicePresent(amp, inVoice) ==
    /\ amp # 0
    /\ IF ~inVoice THEN amp * 100 > 12 * amp
                   ELSE amp * 100 > 8 * amp

\* Mutant of handleOverflow: grows without resetting _overflowCount.
handleOverflowNoReset ==
    IF overflowCount + 1 > kOverflowLimit
    THEN /\ RBIncreaseWith(kRingBufferSizeIncrement)
         /\ overflowCount' = overflowCount + 1
    ELSE /\ overflowCount' = overflowCount + 1
         /\ UNCHANGED ringVars

\* _audioBuffer.write(_accumulatedByteBuffer.data(), n), and handleOverflow()
\* when it fails.
handleOverflow ==
    IF overflowCount + 1 > kOverflowLimit
    THEN /\ RBIncreaseWith(kRingBufferSizeIncrement)
         /\ overflowCount' = 0
    ELSE /\ overflowCount' = overflowCount + 1
         /\ UNCHANGED ringVars

\* Mutant of WriteSegment: a failing write stores the bytes that fit.
WriteSegmentPartial(n) ==
    IF RBCanWrite(n)
    THEN /\ RBWrite(n)
         /\ written' = written + n
         /\ UNCHANGED overflowCount
    ELSE /\ ringUsed' = ringCapacity
         /\ IF overflowCount + 1 > kOverflowLimit
            THEN /\ ringCapacity' = ringCapacity + kRingBufferSizeIncrement
                 /\ overflowCount' = 0
            ELSE /\ overflowCount' = overflowCount + 1
                 /\ UNCHANGED ringCapacity
         /\ UNCHANGED written

WriteSegment(n) ==
    IF RBCanWrite(n)
    THEN /\ RBWrite(n)
         /\ written' = written + n
         /\ UNCHANGED overflowCount
    ELSE /\ handleOverflow
         /\ UNCHANGED written

\* Mutant of Flush: the written bytes are not erased from the accumulator.
FlushNoErase(n, a) ==
    /\ WriteSegment(n)
    /\ accumulated' = a
    /\ samplesSinceStart' = accumulated'

\* Write n bytes of an accumulation of a bytes, then keep the remainder.
Flush(n, a) ==
    /\ WriteSegment(n)
    /\ accumulated' = IF a > n THEN a - n ELSE 0
    /\ samplesSinceStart' = accumulated'

\* Mutant of SegmentWorthKeeping: "at least 1 second" taken as kSampleRate
\* bytes, the samples-for-bytes slip the silence counter makes.
SegmentWorthKeepingInSamples(a) == a >= kTargetSamples \/ a >= kSampleRate

\* The end-of-speech test: a full segment, or at least one second of speech.
SegmentWorthKeeping(a) == a >= kTargetSamples \/ a >= kSampleRate * 2

\* ProcessAudioBuffer(playoutBuffer, BlockBytes) for a block of amplitude amp.
ProcessAudioBuffer(amp) ==
    /\ lastAmplitude' = amp
    /\ IF VoicePresent(amp, inVoiceSegment)
       THEN LET acc   == accumulated + BlockBytes
                since == (IF inVoiceSegment THEN samplesSinceStart ELSE 0)
                         + BlockBytes
            IN /\ inVoiceSegment' = TRUE
               /\ silentSamplesCount' = 0
               /\ IF acc >= kTargetSamples
                  THEN Flush(kTargetSamples, acc)
                  ELSE /\ accumulated' = acc
                       /\ samplesSinceStart' = since
                       /\ UNCHANGED <<ringVars, overflowCount, written>>
       ELSE LET silent == silentSamplesCount + BlockBytes
            IN IF inVoiceSegment /\ silent >= kSilenceSamples
               THEN /\ inVoiceSegment' = FALSE
                    /\ silentSamplesCount' = 0
                    /\ IF SegmentWorthKeeping(accumulated)
                       THEN Flush(IF accumulated < kTargetSamples
                                  THEN accumulated ELSE kTargetSamples,
                                  accumulated)
                       ELSE UNCHANGED <<accumulated, samplesSinceStart,
                                        ringVars, overflowCount, written>>
               ELSE /\ silent <= MaxSilentBytes
                    /\ silentSamplesCount' = silent
                    /\ UNCHANGED <<inVoiceSegment, samplesSinceStart,
                                   accumulated, ringVars, overflowCount,
                                   written>>
    /\ ringCapacity' <= MaxCapacity
    /\ UNCHANGED <<whisperContext, running, consumer, snapshot, owner,
                   processingActive, tasks, tasked>>

-----------------------------------------------------------------------------
(* The processing thread.  RunProcessingThread returns true on every path, *)
(* so the thread's outer loop never ends; a pass that finds running false  *)
(* or an empty buffer returns to that loop and changes nothing else.       *)

\* Mutant of RunProcessingThreadReturns: the function returns false once the
\* inner loop ends, so the thread leaves its outer loop on an empty buffer.
RunProcessingThreadReturnsFalse == FALSE

\* The value RunProcessingThread returns after its inner loop.
RunProcessingThreadReturns == TRUE

\* The inner loop's test fails (_running is false or nothing is available),
\* RunProcessingThread returns, and the thread's `while (RunProcessingThread())`
\* goes round again or ends on the value returned.
ConsumerReturn ==
    /\ consumer = "loop"
    /\ ~(running /\ ringUsed > 0)
    /\ consumer' = IF RunProcessingThreadReturns THEN "loop" ELSE "none"
    /\ UNCHANGED <<whisperContext, producerVars, ringVars, running, snapshot,
                   owner, processingActive, tasks, tasked>>

\* Loop test (_running, availableToRead() > 0) and audioBuffer.resize.
ConsumerCheck ==
    /\ consumer = "loop"
    /\ running
    /\ ringUsed > 0
    /\ Len(tasks) < MaxTasks
    /\ snapshot' = ringUsed
    /\ consumer' = "read"
    /\ UNCHANGED <<whisperContext, producerVars, ringVars, running, owner,
                   processingActive, tasks, tasked>>

\* Mutant of ConsumerRead: the closure is sized by a second call of
\* availableToRead() instead of the buffer that was read.
ConsumerReadStale ==
    /\ consumer = "read"
    /\ RBRead(snapshot)
    /\ \E q \in TaskQueues :
          tasks' = Append(tasks, [len |-> ringUsed, pc |-> "queued", q |-> q])
    /\ tasked' = tasked + snapshot
    /\ consumer' = "loop"
    /\ UNCHANGED <<whisperContext, producerVars, running, snapshot, owner,
                   processingActive>>

\* _audioBuffer.read of the snapshot, and enqueue of the closure on one of
\* the pool's queues (the choice is TaskQueuePool's, not in the sources).
ConsumerRead ==
    /\ consumer = "read"
    /\ RBRead(snapshot)
    /\ \E q \in TaskQueues :
          tasks' = Append(tasks, [len |-> snapshot, pc |-> "queued", q |-> q])
    /\ tasked' = tasked + snapshot
    /\ consumer' = "loop"
    /\ UNCHANGED <<whisperContext, producerVars, running, snapshot, owner,
                   processingActive>>

-----------------------------------------------------------------------------
(* Worker-pool tasks.  Each closure is posted to one queue of the pool;   *)
(* a queue runs its closures one at a time in posting order, so a task   *)
(* starts only when every earlier task on its queue is done.             *)

InEngine(t) == tasks[t].pc \in {"validate", "infer"}

\* A webrtc task queue runs its closures one at a time, in order: a closure
\* starts once every closure enqueued before it on its queue is done.
QueueHead(t) ==
    \A u \in 1..(t - 1) : tasks[u].q = tasks[t].q => tasks[u].pc = "done"

SetTask(t, pc) == tasks' = [tasks EXCEPT ![t].pc = pc]

\* Mutant of TaskEnter: a load of the guard instead of exchange(true).
TaskEnterWithoutGuard(t) ==
    /\ tasks[t].pc = "queued"
    /\ QueueHead(t)
    /\ IF ~whisperContext \/ tasks[t].len % 2 # 0
       THEN SetTask(t, "done") /\ UNCHANGED processingActive
       ELSE SetTask(t, "validate") /\ processingActive' = TRUE
    /\ UNCHANGED <<whisperContext, producerVars, ringVars, running, consumer,
                   snapshot, owner, tasked>>

\* Mutant of TaskEnter: waits for the guard instead of dropping the task.
TaskEnterWaits(t) ==
    /\ tasks[t].pc = "queued"
    /\ QueueHead(t)
    /\ ~processingActive
    /\ IF ~whisperContext \/ tasks[t].len % 2 # 0
       THEN SetTask(t, "done") /\ UNCHANGED processingActive
       ELSE SetTask(t, "validate") /\ processingActive' = TRUE
    /\ UNCHANGED <<whisperContext, producerVars, ringVars, running, consumer,
                   snapshot, owner, tasked>>

\* The closure up to _processingActive.exchange(true): the context and
\* parity checks, the PCM16-to-float conversion, the test-and-set.
TaskEnter(t) ==
    /\ tasks[t].pc = "queued"
    /\ QueueHead(t)
    /\ IF ~whisperContext \/ tasks[t].len % 2 # 0 \/ processingActive
       THEN SetTask(t, "done") /\ UNCHANGED processingActive
       ELSE SetTask(t, "validate") /\ processingActive' = TRUE
    /\ UNCHANGED <<whisperContext, producerVars, ringVars, running, consumer,
                   snapshot, owner, tasked>>

\* The size validation.  Samples converted from PCM16 lie in [-1, 1) and are
\* finite, so the per-sample check never rejects.
TaskValidate(t) ==
    /\ tasks[t].pc = "validate"
    /\ LET samples == tasks[t].len \div 2
       IN IF samples = 0 \/ samples < kSampleRate \/ samples > kTargetSamples
          THEN SetTask(t, "done") /\ processingActive' = FALSE
          ELSE SetTask(t, "infer") /\ UNCHANGED processingActive
    /\ UNCHANGED <<whisperContext, producerVars, ringVars, running, consumer,
                   snapshot, owner, tasked>>

\* Mutant of TaskInfer: the guard is not reset after the engine call.
TaskInferKeepsGuard(t) ==
    /\ tasks[t].pc = "infer"
    /\ SetTask(t, "done")
    /\ UNCHANGED <<whisperContext, producerVars, ringVars, running, consumer,
                   snapshot, owner, tasked, processingActive>>

\* whisper_full returns; on success non-empty cleaned text is routed to the
\* speech device (askLlama or speakText); on either result the guard is
\* cleared.  A hung engine call is a task that never takes this step.
TaskInfer(t) ==
    /\ tasks[t].pc = "infer"
    /\ SetTask(t, "done")
    /\ processingActive' = FALSE
    /\ UNCHANGED <<whisperContext, producerVars, ringVars, running, consumer,
                   snapshot, owner, tasked>>

-----------------------------------------------------------------------------
(* The owner's calls.  Stop() clears _running and joins the processing     *)
(* thread.  The join returns only once the thread's lambda has left its    *)
(* loop (consumer = "none"), which ConsumerReturn never lets happen: the   *)
(* owner stays "joining" and the accumulator clear after it is unreached.  *)

Start ==
    /\ owner = "idle"
    /\ ~running
    /\ running' = TRUE
    /\ consumer' = "loop"
    /\ UNCHANGED <<whisperContext, producerVars, ringVars, snapshot, owner,
                   processingActive, tasks, tasked>>

Stop ==
    /\ owner = "idle"
    /\ running
    /\ running' = FALSE
    /\ owner' = "joining"
    /\ UNCHANGED <<whisperContext, producerVars, ringVars, consumer, snapshot,
                   processingActive, tasks, tasked>>

\* ~WhisperTranscriber: Stop(), which does nothing unless running (when
\* running, the destructor is the Stop action and never gets further), then
\* whisper_free of the context.
Destroy ==
    /\ owner = "idle"
    /\ ~running
    /\ owner' = "destroyed"
    /\ whisperContext' = FALSE
    /\ UNCHANGED <<producerVars, ringVars, running, consumer, snapshot,
                   processingActive, tasks, tasked>>

-----------------------------------------------------------------------------
Init ==
    /\ whisperContext \in BOOLEAN
    /\ inVoiceSegment = FALSE
    /\ silentSamplesCount = 0
    /\ samplesSinceStart = 0
    /\ accumulated = 0
    /\ overflowCount = 0
    /\ RBInit(kRingBufferSizeIncrement)
    /\ running = FALSE
    /\ consumer = "none"
    /\ snapshot = 0
    /\ owner = "idle"
    /\ processingActive = FALSE
    /\ tasks = << >>
    /\ lastAmplitude = 0
    /\ written = 0
    /\ tasked = 0

Next ==
    \/ \E amp \in Amplitudes : ProcessAudioBuffer(amp)
    \/ ConsumerCheck
    \/ ConsumerRead
    \/ ConsumerReturn
    \/ \E t \in DOMAIN tasks : TaskEnter(t) \/ TaskValidate(t) \/ TaskInfer(t)
    \/ Start
    \/ Stop
    \/ Destroy

Spec == Init /\ [][Next]_vars

(***************************************************************************)
(* Fairness the threads justify: the processing thread spins without       *)
(* blocking (RunProcessingThread and the lambda's loop around it), and a   *)
(* worker thread runs the closure at the head of its queue and its         *)
(* validation up to the engine call.  The engine call itself (whisper_full *)
(* may hang) and the producer (driven by the audio device) get none.       *)
(***************************************************************************)
FairSpec ==
    /\ Spec
    /\ WF_vars(ConsumerCheck)
    /\ WF_vars(ConsumerRead)
    /\ WF_vars(ConsumerReturn)
    /\ \A t \in 1..MaxTasks :
          /\ WF_vars(t \in DOMAIN tasks /\ TaskEnter(t))
          /\ WF_vars(t \in DOMAIN tasks /\ TaskValidate(t))

-----------------------------------------------------------------------------
\* Every variable has the type the code gives it.
TypeOK ==
    /\ whisperContext \in BOOLEAN
    /\ inVoiceSegment \in BOOLEAN
    /\ silentSamplesCount \in Nat
    /\ samplesSinceStart \in Nat
    /\ accumulated \in Nat
    /\ overflowCount \in 0..kOverflowLimit
    /\ ringUsed \in Nat /\ ringCapacity \in Nat
    /\ running \in BOOLEAN
    /\ consumer \in {"none", "loop", "read"}
    /\ snapshot \in Nat
    /\ owner \in {"idle", "joining", "destroyed"}
    /\ processingActive \in BOOLEAN
    /\ tasks \in Seq(Task)
    /\ lastAmplitude \in Amplitudes
    /\ written \in Nat /\ tasked \in Nat


(***************************************************************************)
(* Single flight: _processingActive.exchange(true) lets at most one        *)
(* closure at a time past the guard into validation and whisper_full,      *)
(* however many queues run TranscribeAudioNonBlocking at once.            *)
(***************************************************************************)
SingleFlight ==
    \A t, u \in DOMAIN tasks : InEngine(t) /\ InEngine(u) => t = u

(***************************************************************************)
(* The guard is set exactly while some closure is between its exchange and *)
(* the reset on one of TranscribeAudioNonBlocking's exits: no exit leaves  *)
(* it set (which would drop every later segment) and none clears it under  *)
(* a running transcription.                                                *)
(***************************************************************************)
GuardReflectsEngine ==
    processingActive <=> \E t \in DOMAIN tasks : InEngine(t)

(***************************************************************************)
(* No audio is created, lost or duplicated between ProcessAudioBuffer's    *)
(* successful writes and the closures RunProcessingThread enqueues: the    *)
(* bytes written are those still unread plus those handed to tasks, and    *)
(* the consumer's snapshot of availableToRead() is still available when it *)
(* reads it, though the producer runs in between.                          *)
(***************************************************************************)
ByteConservation ==
    /\ written = ringUsed + tasked
    /\ consumer = "read" => 0 < snapshot /\ snapshot <= ringUsed
    /\ ringUsed <= ringCapacity

(***************************************************************************)
(* Every closure RunProcessingThread enqueues holds whole PCM16 samples    *)
(* and at least one second of audio, although the consumer reads whatever *)
(* availableToRead() reports at an arbitrary moment between the           *)
(* producer's writes: ProcessAudioBuffer writes only full segments or      *)
(* end-of-speech segments of one second or more, and the consumer takes    *)
(* whole writes.  So TranscribeAudioNonBlocking's odd-length drop and its  *)
(* too-short rejection never fire.                                         *)
(***************************************************************************)
ClosuresPassEntryChecks ==
    \A t \in DOMAIN tasks :
        /\ tasks[t].len % 2 = 0
        /\ tasks[t].len >= 2 * kSampleRate

(***************************************************************************)
(* Between two calls of ProcessAudioBuffer the accumulator holds less than *)
(* one segment: the continuous-speech flush keeps up with the blocks, so   *)
(* _accumulatedByteBuffer never exceeds kTargetSamples plus one block.     *)
(* (It needs a block no larger than a segment; see the theorem.)           *)
(***************************************************************************)
AccumulatorBelowTarget == accumulated < kTargetSamples

(***************************************************************************)
(* A closure RunProcessingThread enqueues waits forever only behind an     *)
(* engine call that never returns on its own queue: a closure that finds   *)
(* the single-flight guard taken, by a transcription on another queue, is  *)
(* dropped instead of waiting for it.  spec.md 7 accepts that a hung       *)
(* whisper_full blocks its worker.                                         *)
(***************************************************************************)
HungAhead(t) ==
    /\ t \in DOMAIN tasks
    /\ \E u \in 1..(t - 1) : tasks[u].q = tasks[t].q /\ tasks[u].pc = "infer"

QueuedTaskRuns ==
    \A t \in 1..MaxTasks :
        []<>~HungAhead(t) =>
            ((t \in DOMAIN tasks /\ tasks[t].pc = "queued")
                ~> (t \in DOMAIN tasks /\ tasks[t].pc # "queued"))

(***************************************************************************)
(* Every byte ProcessAudioBuffer writes while the pipeline runs is handed  *)
(* to a closure: the processing thread keeps polling an empty buffer       *)
(* instead of leaving its loop, so audio written after a quiet spell is    *)
(* still dispatched.  The exceptions are Stop (spec.md 4.4: remaining      *)
(* bytes are not drained) and the model's bound on enqueued closures.      *)
(***************************************************************************)
WrittenBytesDispatched ==
    \A k \in 1..MaxCapacity :
        (running /\ written >= k)
            ~> (tasked >= k \/ ~running \/ Len(tasks) = MaxTasks)

(***************************************************************************)
(* The refinement mapping onto TranscriptionChannel: the ring's unread     *)
(* bytes and capacity are the store, the lengths of the enqueued closures  *)
(* are the chunks, _processingActive is the engine's busy flag.            *)
(***************************************************************************)
TaskLens == [i \in DOMAIN tasks |-> tasks[i].len]

Channel == INSTANCE TranscriptionChannel
               WITH buffered <- ringUsed, capacity <- ringCapacity,
                    chunks <- TaskLens, busy <- processingActive,
                    Increment <- kRingBufferSizeIncrement

(***************************************************************************)
(* The pipeline implements TranscriptionChannel: writes are whole and fit  *)
(* the ring, the ring only grows by kRingBufferSizeIncrement, each closure *)
(* carries exactly the bytes RunProcessingThread took out of the ring in   *)
(* one read, although availableToRead() is sampled before the read and    *)
(* the producer writes in between, and the guard is taken only when free.  *)
(***************************************************************************)
ChannelRefinement == Channel!ChannelSpec

-----------------------------------------------------------------------------
(* Properties spec.md states of the pipeline that the code does not keep.  *)

(***************************************************************************)
(* spec.md 4.4: the processing loop terminates promptly when the running   *)
(* flag is cleared, and stop() joins it.  RunProcessingThread returns true *)
(* on every path (line 250), so the thread's outer loop calls it again     *)
(* forever and Stop()'s join, and the destructor, never return.            *)
(***************************************************************************)
ThreadEndsWhenStopped == (~running /\ consumer # "none") ~> (consumer = "none")

(***************************************************************************)
(* spec.md 4.3(b): when a voice segment ends, a trailing fragment shorter  *)
(* than one second is discarded, so the accumulator is empty afterwards.   *)
(* ProcessAudioBuffer's end-of-speech branch leaves such a fragment in     *)
(* _accumulatedByteBuffer, to be prepended to the next segment.            *)
(***************************************************************************)
SegmentEndEmptiesAccumulator ==
    [][inVoiceSegment /\ ~inVoiceSegment' => accumulated' = 0]_vars

(***************************************************************************)
(* spec.md 4.2: a block of average amplitude exactly zero makes no voice   *)
(* decision, so the segmenter keeps its state.  ProcessAudioBuffer takes   *)
(* such a block as silence and may close the segment on it.               *)
(***************************************************************************)
ZeroAmplitudeKeepsState ==
    [][lastAmplitude' = 0 => inVoiceSegment' = inVoiceSegment]_vars

(***************************************************************************)
(* spec.md 8: a voice segment ends only after one second of silence        *)
(* (16000 samples, 2 * kSampleRate bytes).  ProcessAudioBuffer adds bytes  *)
(* to _silentSamplesCount and compares them with kSilenceSamples, which is *)
(* a sample count: the segment ends after half a second.                   *)
(***************************************************************************)
SilenceDebounceOneSecond ==
    [][inVoiceSegment /\ ~inVoiceSegment' =>
         silentSamplesCount + BlockBytes >= 2 * kSampleRate]_vars

=============================================================================
