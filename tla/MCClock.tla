------------------------------ MODULE MCClock ------------------------------
(***************************************************************************)
(* Clock for TLC, with four milliseconds to the second, three nanoseconds  *)
(* to the millisecond and an unsigned int of 32 values: every combination  *)
(* of the nanoseconds of two readings, and ages that wrap.                 *)
(***************************************************************************)
EXTENDS Clock

MCSteps == 1 .. 13

=============================================================================
