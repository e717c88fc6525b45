------------------------------- MODULE Clock -------------------------------
(***************************************************************************)
(* Time as the handlers see it.  The main loop reads the clock and passes  *)
(* the time to the tick of one handler after the other.  Time stamps are   *)
(* taken from the clock itself, so a stamp can be younger than the time a  *)
(* tick works with.                                                        *)
(*                                                                         *)
(* A stamp is kept as its age.  The loop's time has an age too, lag; the   *)
(* loop comes round at least every MaxLag milliseconds.                    *)
(***************************************************************************)
EXTENDS Integers

CONSTANTS
    MaxLag,         \* longest time between two readings of the clock
    ClockSize       \* 2^64, or 2^32 where JDKSAVDECC_TIMESTAMP_TYPE is uint32_t

ASSUME ClockAssumption == MaxLag \in Nat \ {0} /\ ClockSize \in Nat \ {0}

\* Mutant: the difference is taken the wrong way round.
WasTimeOutHit_Swapped(age, lag, timeout) == (lag - age) % ClockSize > timeout

\* cur_time - last_time_done in unsigned arithmetic: what both are counted
\* from cancels out.
WasTimeOutHit(age, lag, timeout) == (age - lag) % ClockSize > timeout

\* One millisecond more, cut off at a bound.
Older(age, bound) == IF age < bound THEN age + 1 ELSE age
=============================================================================
