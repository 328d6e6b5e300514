------------------------ MODULE TranscriptionChannel ------------------------
(***************************************************************************)
(* What the transcription pipeline promises, with the threads, the         *)
(* accumulator and the worker queues abstracted away (spec.md 2, 3 and 5): *)
(*                                                                         *)
(*  - a bounded byte store that accepts whole writes only while they fit,  *)
(*    and whose capacity only grows, by one fixed increment at a time;     *)
(*  - an atomic hand-off of buffered bytes, in write order, as one chunk   *)
(*    appended to the sequence of chunks dispatched for transcription;     *)
(*  - a single-flight engine: it is acquired only when free.               *)
(*                                                                         *)
(* Actions are stated on the change they make, so that no step needs to    *)
(* name the number of bytes it moves.                                      *)
(***************************************************************************)
EXTENDS Naturals, Sequences

CONSTANT Increment     \* the fixed growth step of the store

VARIABLES
    buffered,    \* bytes accepted and not yet handed off
    capacity,    \* current size of the store
    chunks,      \* lengths of the chunks handed off, in order
    busy         \* an engine call is in progress

cvars == <<buffered, capacity, chunks, busy>>

ChannelInit ==
    /\ buffered = 0
    /\ capacity = Increment
    /\ chunks = << >>
    /\ busy = FALSE

\* A whole write that fits is accepted.
Accept ==
    /\ buffered < buffered'
    /\ buffered' <= capacity
    /\ UNCHANGED <<capacity, chunks, busy>>

\* The store grows by exactly one increment and keeps what it holds.
Grow ==
    /\ capacity' = capacity + Increment
    /\ UNCHANGED <<buffered, chunks, busy>>

\* Some buffered bytes leave the store as one chunk.
Deliver ==
    /\ buffered' < buffered
    /\ chunks' = Append(chunks, buffered - buffered')
    /\ UNCHANGED <<capacity, busy>>

\* The engine is taken only when it is free, and released only when taken.
Acquire ==
    /\ ~busy /\ busy'
    /\ UNCHANGED <<buffered, capacity, chunks>>

Release ==
    /\ busy /\ ~busy'
    /\ UNCHANGED <<buffered, capacity, chunks>>

ChannelNext == Accept \/ Grow \/ Deliver \/ Acquire \/ Release

ChannelSpec == ChannelInit /\ [][ChannelNext]_cvars

=============================================================================
