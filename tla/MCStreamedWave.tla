---------------------------- MODULE MCStreamedWave ----------------------------
(***************************************************************************)
(* Instances of StreamedWave for TLC: a track of a few chunks, on a source *)
(* with two buffers where the code has four.                               *)
(***************************************************************************)
EXTENDS StreamedWave

\* Tracks whose decoder delivers what the header says, or one chunk less.
WholeOrNot == {{}, {NumChunks - 1}}
===============================================================================
