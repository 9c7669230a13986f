------------------------------ MODULE TextTime ------------------------------
(***************************************************************************)
(* Times in the database are texts that time.RFC3339Nano wrote, and SQL     *)
(* compares the texts.  Texts of different seconds are in the order of      *)
(* their times.  The format leaves the zeros at the end of a fraction out,  *)
(* and "." and the digits come before "Z": "...05.3Z" is before "...05Z",   *)
(* and "...05.31Z" before "...05.3Z".  A time is a number of ticks.  What   *)
(* is parsed and compared by Go is compared as a number; what a statement   *)
(* compares, with TextAfter.                                               *)
(***************************************************************************)
EXTENDS Integers

CONSTANTS
    Second,          \* ticks of a second
    Text             \* the place of each fraction among the texts of its second

ASSUME TextAssumption ==
    /\ Second \in Nat \ {0}
    /\ Text \in [0..Second - 1 -> Nat]

SecondOf(t) == t \div Second

\* The text of the time s is after that of t.
TextAfter(s, t) ==
    \/ SecondOf(s) > SecondOf(t)
    \/ SecondOf(s) = SecondOf(t) /\ Text[s % Second] > Text[t % Second]

\* By how much at most a time is later than one whose text its own is not after.
TextSlack == Second - 1
=============================================================================
