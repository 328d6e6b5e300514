-------------------------- MODULE AudioRingBuffer --------------------------
(***************************************************************************)
(* The AudioRingBuffer the transcriber owns (whisper_helpers.h, not part   *)
(* of this repository's sources: modelled from spec.md section 4.1).       *)
(*                                                                         *)
(* The audio is abstracted to its length: the buffer holds ringUsed unread *)
(* bytes out of ringCapacity.  write(n) is all-or-nothing, read(n)         *)
(* consumes n of the available bytes in FIFO order, increaseWith(n)        *)
(* enlarges the capacity and keeps the unread bytes.  The operators are    *)
(* the buffer's operations; the transcriber's actions use them.            *)
(***************************************************************************)
EXTENDS Naturals

VARIABLES
    ringUsed,      \* availableToRead(): bytes written and not yet read
    ringCapacity   \* current size of the byte arena

ringVars == <<ringUsed, ringCapacity>>

\* AudioRingBuffer(size): an empty buffer of the given size.
RBInit(size) ==
    /\ ringUsed = 0
    /\ ringCapacity = size

\* write(data, n) succeeds only when all n bytes fit; there is no partial write.
RBCanWrite(n) == ringUsed + n <= ringCapacity

\* The successful branch of write(data, n).
RBWrite(n) ==
    /\ RBCanWrite(n)
    /\ ringUsed' = ringUsed + n
    /\ UNCHANGED ringCapacity

\* read(dst, n): consumes n bytes that are available.
RBRead(n) ==
    /\ 0 < n /\ n <= ringUsed
    /\ ringUsed' = ringUsed - n
    /\ UNCHANGED ringCapacity

\* increaseWith(n): reallocates to the current size plus n, unread bytes kept.
RBIncreaseWith(n) ==
    /\ ringCapacity' = ringCapacity + n
    /\ UNCHANGED ringUsed

=============================================================================
