------------------------ MODULE MCLeadershipManager -------------------------
(* Two processes; the clock of the second runs ahead.  A second has two     *)
(* ticks: the text of a whole second is after that of its fraction.        *)
EXTENDS LeadershipManager, TLC
MCText == (0 :> 1) @@ (1 :> 0)
CONSTANTS h1, h2
MCHolder == {h1, h2}
MCSkew == (h1 :> 0) @@ (h2 :> MaxSkew)
=============================================================================
