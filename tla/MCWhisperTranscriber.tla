------------------------ MODULE MCWhisperTranscriber ------------------------
(***************************************************************************)
(* A scaled instance of the pipeline for TLC.  The byte sizes keep the     *)
(* code's ratios (silence threshold = one block, end-of-speech floor = two *)
(* blocks, ring increment = 2.5 segments) at kSampleRate = 2: a block is   *)
(* one sample, a segment four samples.                                     *)
(***************************************************************************)
EXTENDS WhisperTranscriber

MCAmplitudes == {0, 1}

=============================================================================
