# TLA+ verification of the WhisperTranscriber audio pipeline

This directory models `src/modules/audio_device/speech/whisper_transcriber.cc`
and its header (`src/unnamed/part_000`, `whisper_transcriber.h`). The modules
are checked with TLC on small instances, and the core invariants are proved
with TLAPS.

## 1. Inventory

| Component | Code | State it keeps | Operations |
|---|---|---|---|
| Ring buffer | `AudioRingBuffer` (in `whisper_helpers.h`, not in the sources; modelled from spec.md 4.1) | unread bytes, capacity | `write` (all or nothing), `read`, `availableToRead`, `increaseWith` |
| Voice activity segmenter | `ProcessAudioBuffer` lines 362-401 | `_inVoiceSegment`, `_silentSamplesCount`, `_samplesSinceVoiceStart` | one call per playout block |
| Accumulator | `ProcessAudioBuffer` lines 403-463 | `_accumulatedByteBuffer` | append, flush at `kTargetSamples`, flush at end of speech, keep the remainder |
| Overflow policy | `handleOverflow` 466-473 | `_overflowCount` | count failures; grow by `kRingBufferSizeIncrement` on the 11th |
| Processing loop | `RunProcessingThread` 199-251, the thread lambda in `Start` | `_running` | drain everything available, enqueue one closure, return `true` to the lambda's loop |
| Worker pool | `TaskQueuePool` (in `whisper_helpers.h`, not in the sources) | `min(16, hardware_concurrency())` webrtc task queues, each running its closures in order | `enqueue` |
| Transcription adapter | the closure 208-240, `TranscribeAudioNonBlocking` 64-197 | `_processingActive` (the single-flight guard) | parity check, PCM16 to float, exchange, validation, `whisper_full`, post-processing, guard reset |
| Lifecycle | constructor 22-55, `Start` 474-487, `Stop` 489-497, destructor 57-62 | `_whisperContext`, `_processingThread` | start the thread, stop and join it, free the context |
| Model loading | 253-360 | `_whisperContext` | file checks and `whisper_init_*` (not modelled: I/O) |

How the parts interact:
- The audio device's real-time thread calls `ProcessAudioBuffer`. It classifies each block, accumulates it, and writes segments to the ring buffer. On a failed write it calls `handleOverflow`.
- The processing thread reads everything available and enqueues a closure on the pool. It sends no messages and gets no results back.
- Closures run concurrently on the pool's queues, one at a time per queue. The atomic `_processingActive` lets one at a time into `whisper_full`, and the others are dropped.
- The transcription text goes to `SpeechAudioDevice` by a direct call.
- Shared state is the ring buffer (producer and consumer threads), the atomics `_running` and `_processingActive`, and `_whisperContext`.

What is hard:
- Three kinds of threads interleave: producer, consumer and workers.
- Closures contend for the guard.
- The consumer's size snapshot goes stale while the producer writes.
- Overflow has two outcomes: lost data and growth.
- An engine call can hang with no timeout.
- The thread lifecycle at `Stop`.

Properties that make each part correct:
- Ring buffer: no partial write; no byte lost or duplicated; unread bytes never exceed the capacity.
- Segmenter: the debounce length; what a zero-amplitude block does.
- Accumulator: what is left after a flush or at the end of a segment.
- Overflow policy: growth by one increment on the 11th failure, with the counter reset.
- Processing loop: every written byte reaches exactly one closure; the thread ends once `_running` is cleared, so `Stop` returns.
- Pool and adapter: one transcription at a time; the guard never stuck; no closure waits forever except behind a hung engine call on its own queue.

## 2. Modules

- `AudioRingBuffer.tla`: the ring buffer as operators on `ringUsed` and `ringCapacity`.
  - Audio is abstracted to a byte count.
  - Every definition is `spec_modelled`, because its code is not in the sources.
- `WhisperTranscriber.tla` EXTENDS `AudioRingBuffer` and has one action per operation:
  - `ProcessAudioBuffer(amp)` is the whole producer call, including the ring write and `handleOverflow`. A block is abstracted to its average amplitude and `BlockBytes` bytes.
  - `ConsumerCheck` is the loop test with the `availableToRead()` snapshot. `ConsumerRead` is `read` plus `enqueue` on a queue of the pool, chosen nondeterministically. They are two steps because the producer can run between them.
  - `ConsumerReturn` is the inner loop's exit (`_running` false or nothing to read) and the `return true` (line 250) to the lambda's `while (RunProcessingThread())`: the thread goes round again, or would end if the value were `false` (`RunProcessingThreadReturns`).
  - A closure is a record `[len, pc, q]`: the bytes it captured, its progress and its queue. `QueueHead(t)` holds when every earlier closure on its queue is done; a webrtc task queue runs its closures one at a time in order.
  - `TaskEnter(t)` is the closure up to the `exchange`, taken only at the head of its queue. `TaskValidate(t)` is the size validation. `TaskInfer(t)` is `whisper_full`, output and guard reset.
  - `Start` and `Stop` are the owner's calls.
  - `Init` is the constructor. `whisperContext` is either loaded or null.
  - History variables `written`, `tasked` and `lastAmplitude` exist for the properties only.
  - `Destroy` is the destructor: `Stop()` (a no-op unless running), then `whisper_free`. Once the pipeline has started, the destructor is the `Stop` action. `Stop` leaves the owner `joining`: the join returns only when the thread has left its loop (`consumer = "none"`), which `ConsumerReturn` never does, so the model has no action after the join.
- `TranscriptionChannel.tla`: the abstract specification of what the pipeline promises (spec.md 2, 3 and 5):
  - a byte store that accepts only whole writes that fit, and grows by one increment at a time (`Accept`, `Grow`);
  - an atomic hand-off of buffered bytes as one chunk appended to the chunks dispatched (`Deliver`);
  - an engine taken only when free (`Acquire`, `Release`).
- `WhisperTranscriber.tla` maps itself onto the abstract spec (`Channel == INSTANCE TranscriptionChannel WITH ...`):
  - the ring's unread bytes and capacity are the store;
  - the lengths of the enqueued closures (`TaskLens`) are the chunks;
  - `_processingActive` is the engine's busy flag.
  `ChannelRefinement == Channel!ChannelSpec` is checked as a PROPERTY and proved.
- `MCWhisperTranscriber.tla` and the `MC*.cfg` files: the TLC instances.
- `WhisperTranscriberProofs.tla`: the TLAPS proofs of the types and the guard.
- `WhisperTranscriberRefinement.tla`: the TLAPS proofs of byte conservation and the refinement.
- `WhisperTranscriberSegmentProofs.tla`: the TLAPS proofs that every closure holds whole samples and at least one second of audio, and that the accumulator stays below a segment.

Code facts the model makes visible:
- The "hysteresis" compares the block's amplitude with 0.12 or 0.08 times itself. `VoicePresent` is therefore exactly `amp > 0`, and the two thresholds never matter.
- Converted samples lie in [-1, 1), so the per-sample check (lines 97-116) never rejects.
- Every flush is even-sized and at least one second long, and a closure is a sum of whole flushes, so the odd-length check (line 211) and the too-short rejection (line 86) never fire (checked by the segments run and proved as `ClosuresPassEntryChecksHold`).
- The accumulator's reserve (line 36: 3 s) is a quarter of a segment (12 s), so continuous speech makes the accumulator reallocate on the audio thread; it stays below one segment (`AccumulatorBounded`).
- The end-of-speech test is the named operator `SegmentWorthKeeping` (lines 439-440).
- `_samplesSinceVoiceStart` is written but never read.

## 3. Runs

All runs use kSampleRate = 2, BlockBytes = 2 (one sample), kTargetSamples = 4 and kRingBufferSizeIncrement = 10. These keep the code's orderings:
- a block is at most the silence threshold;
- the end-of-speech floor (`kSampleRate * 2`) is at most the target;
- the increment is 2.5 segments, so two segments fit and a third overflows.

Other bounds:
- Amplitudes {0, 1}: zero and non-zero are the only classes the code distinguishes.
- PoolSize = 2 queues (1 in the segments run): two queues let one closure be dropped at the guard while another runs, and let a closure wait behind a hung call on its own queue.
- `MaxSilentBytes` = 4: silence outside a segment is only counted, and the count is reset when voice starts.

| Run | cfg | Checks | Shows |
|---|---|---|---|
| pipeline | MCWhisperTranscriber.cfg (MaxTasks 2, MaxCapacity 10) | SingleFlight, GuardReflectsEngine, ByteConservation, QueuedTaskRuns, ChannelRefinement | with two closures on two queues, the guard admits one transcription and is set exactly while it runs; written bytes = unread + handed to closures, and the consumer's snapshot is never stale; a closure that finds the guard taken by a call on another queue is dropped, so it waits forever only when a hung `whisper_full` is ahead of it on its own queue; every step is a step of TranscriptionChannel, and each closure carries exactly the bytes of one read |
| segments | MCSegments.cfg (kTargetSamples 6 = 3 s of the model's rate, PoolSize 1, MaxTasks 2) | ClosuresPassEntryChecks, AccumulatorBelowTarget | with segments longer than one second, end-of-speech flushes shorter than a segment happen; every closure, taken at any point between writes, still holds whole samples and at least one second, so the parity drop (line 211) and the too-short rejection (line 86) never fire; the accumulator stays below one segment |
| dispatch | MCDispatch.cfg (MaxTasks 2) | WrittenBytesDispatched | every byte written while running reaches a closure, including bytes written after the ring was empty for a while. The exceptions are Stop and the model's bound on closures. |
| growth | MCGrowth.cfg (MaxTasks 1, MaxCapacity 30) | TypeOK, ByteConservation | the ring fills while the consumer lags, through two growths; the counter stays in 0..10 because it is reset on growth, and no failed write stores bytes |
| stop_hangs | MCThreadEndsWhenStopped.cfg | ThreadEndsWhenStopped (violated) | after `Stop()` clears `_running` the thread keeps calling `RunProcessingThread`, which returns `true` (line 250), so the join never returns |
| fragment_kept | MCSegmentEndEmptiesAccumulator.cfg | SegmentEndEmptiesAccumulator (violated) | a sub-second fragment survives the end of a segment |
| zero_amplitude | MCZeroAmplitudeKeepsState.cfg | ZeroAmplitudeKeepsState (violated) | a zero-amplitude block ends a segment |
| half_second_debounce | MCSilenceDebounceOneSecond.cfg | SilenceDebounceOneSecond (violated) | the segment ends after half a second of silence |

Each property of a passing run has a mutant in PROJECT.json, and TLC finds each mutant violated:
- a guard without `exchange`;
- a guard kept after the engine call;
- a partial write;
- a closure that waits for the guard;
- growth without a counter reset;
- a closure sized by a second `availableToRead()` instead of by what was read. `ByteConservation` misses this one, because `tasked` counts what was read, but the refinement catches it;
- a `RunProcessingThread` that returns `false` after its inner loop, so the thread ends on a momentarily empty ring.

The runs set `CHECK_DEADLOCK FALSE`. In the code the producer is called forever and the processing thread spins forever. In the model, the producer stops only when a bound (`MaxCapacity`, `MaxTasks`, `MaxSilentBytes`) disables it. A spinning pass of the consumer is `ConsumerReturn`, which changes no variable the properties read.

### Fairness

`FairSpec` is weakly fair to `ConsumerCheck`, `ConsumerRead` and `ConsumerReturn`: the processing thread never blocks (it sleeps 1 or 10 ms, never waits on a lock or a condition). It is also weakly fair to each closure's `TaskEnter` and `TaskValidate`: a queue's thread runs the closure at its head, and nothing in the closure blocks before `whisper_full`.

There is no fairness for `TaskInfer`: `whisper_full` has no timeout and may hang (spec.md 7 accepts that a hung call blocks its worker). `QueuedTaskRuns` is therefore stated for a closure that has, infinitely often, no hung call ahead of it on its queue. There is none for the producer, which is driven by the audio device, or for the owner.

## 4. Findings

1. **Stop never returns** (code bug, line 250). `RunProcessingThread` returns `true` on every path, also when `_running` is false. The lambda's `while (RunProcessingThread()) {}` (line 479) never ends, so `Finalize()` in `Stop` (line 493) joins forever. The destructor therefore hangs, and the accumulator is never cleared. spec.md 4.4 says the loop ends promptly once the flag is cleared.
2. **Short fragments are kept** (line 439). The code keeps a fragment under one second in the accumulator. spec.md 4.3(b) says it is discarded.
3. **Zero amplitude is silence** (line 383). A block with zero amplitude can end a segment. spec.md says it decides nothing.
4. **Half-second debounce** (line 433). Bytes are counted against a sample constant.

## 5. Proofs (`WhisperTranscriberProofs.tla`, `WhisperTranscriberRefinement.tla`, `WhisperTranscriberSegmentProofs.tla`)

The proofs assume only `ConstantsAssumption`:
- sizes are naturals;
- blocks and segments are even;
- the floor ≤ the target ≤ the increment;
- `0 \in Amplitudes \subseteq Nat`;
- `PoolSize \in Nat` (any pool size; the runs use 1 or 2).

The bounds are naturals and play no role in the proofs.

- `TypeCorrect`: `Spec => []TypeOK`. Its lemmas:
  - `InitTypeOK`;
  - `NextTypeOK`, with one case per action;
  - `ProducerTypeOK`, split by the producer's four branches;
  - `WriteSegmentTypeOK`, which covers `handleOverflow`'s reset that keeps `_overflowCount` in 0..10;
  - `TaskTypeOK`.
- `SingleFlightGuard`: `Spec => [](SingleFlight /\ GuardReflectsEngine)`, for any pool size.
  - `SingleFlight` alone is not inductive. A closure can pass the exchange only because the guard is clear, so the proof needs the fact that the guard is clear when no closure is inside. The inductive invariant is `GuardInv == TypeOK /\ SingleFlight /\ GuardReflectsEngine`.
  - `TaskGuardInv` covers the three task actions. The exchange case uses `GuardReflectsEngine`, and the exit cases use `SingleFlight`: the leaving closure was the only one inside.
  - `AppendFacts` covers the consumer's enqueue.
  - The init and step parts are the lemmas `GuardInit` and `GuardStep`.
- `GuardNeverStuck`: `Spec => []GuardReflectsEngine`, a corollary of `SingleFlightGuard`.
- `ByteConservationHolds` (in `WhisperTranscriberRefinement`): `Spec => []ByteConservation`.
  - The inductive invariant is `TypeOK /\ ByteConservation`.
  - `WriteSegmentEffect` says a write of n > 0 bytes stores all of them within the capacity, or stores nothing.
  - `ProducerWrites` says the producer attempts at most one such write. Flushes are non-empty because the floor and the target are positive.
- `Refinement`: `Spec => ChannelRefinement`.
  - The initial state maps to `ChannelInit`.
  - `RefStep` shows every step maps to an abstract step or a stutter, under `RefInv == GuardInv /\ ByteConservation`:
    - a successful write is `Accept`;
    - a growing overflow is `Grow`;
    - `ConsumerRead` is `Deliver`;
    - the exchange is `Acquire`;
    - each guard reset is `Release`.
  - `Deliver` needs `ByteConservation`: the snapshot is positive and still in the ring. `TaskLensAppend` proves that the closures' lengths grow by exactly the snapshot.
  - `Release` needs `GuardReflectsEngine`: the guard being cleared was set.

- `ClosuresPassEntryChecksHold` (in `WhisperTranscriberSegmentProofs`): `Spec => []ClosuresPassEntryChecks`.
  - `ProducerSegments` says every write is an even number of bytes between `2 * kSampleRate` and `kTargetSamples`, and the accumulator stays even. The end-of-speech flush `min(size, kTargetSamples)` is at least one second because `SegmentWorthKeeping` demands it and the target is at least one second.
  - The property is not inductive: a closure's length is a snapshot of the ring taken earlier. The inductive `SegInv` adds `BytesInv`, an even accumulator, and `WholeSegments` (even, and 0 or at least one second) for the ring's content and, between the consumer's check and read, for the snapshot and for what was written after it. `WholeSegmentsAdd` closes it under writes.
- `AccumulatorBounded`: under the hypothesis `BlockBytes <= kTargetSamples`, `Spec => []AccumulatorBelowTarget`. The hypothesis is in the theorem, not in `ConstantsAssumption`, because nothing in the code bounds the playout block. With a block larger than a segment, each call adds more than one flush removes. `AccInv == TypeOK /\ AccumulatorBelowTarget` is inductive: `AccProducer` covers the producer's branches.

Only model-checked, and outside TLAPS's reach: the liveness properties `QueuedTaskRuns`, `WrittenBytesDispatched` and `ThreadEndsWhenStopped`. Their proofs would reason about weak fairness and `ENABLED`, which the installed provers cannot handle. Every invariant and action property that a passing run checks has a theorem.

## 6. Not modelled

- Model loading (file I/O; its only effect is whether the context is null).
- The text post-processing (a regex and a mode switch, with no effect on pipeline state).
- The `TaskQueuePool` policy for choosing a queue (not in the sources): `ConsumerRead` picks any queue.
- A pool of zero queues (`hardware_concurrency()` may return 0, line 54): what `TaskQueuePool` does then is not in the sources.
- Whether `AudioRingBuffer` locks around `increaseWith`: its code is not in the sources, and its operations are modelled as atomic.
- CPU spinning.
- Out-of-bounds reads for odd block sizes.

## 7. Plan for further work

1. Write a segmenter-only module, `VoiceSegmenter`, over sequences of block amplitudes. It would check the end-of-speech flushes against a reference definition that says which blocks form each segment.
2. Track segment identities through the ring, to state FIFO order of segments as well as of byte counts. This needs a sequence-valued ring, and the state space grows accordingly.
3. A liveness property for the segments run's single queue, where a hung engine call stalls every later closure.
