----------------------------- MODULE MCRefClock -----------------------------
(* RefClock for TLC.  Times are written from the private time the clock     *)
(* starts with.                                                             *)
EXTENDS RefClock

CONSTANTS Offsets   \* how far ahead clients ask to be notified

OffsetTimes == {2 * Start + o : o \in Offsets}
BackAndForth == {-2, 1, 2}
=============================================================================
