--------------------------- MODULE MCBrowserSessions ---------------------------
(* A small instance of BrowserSessions: sessions and requests are only      *)
(* compared, so states that differ by their names are the same.  A second   *)
(* has two ticks: the text of a whole second is after that of its fraction. *)
EXTENDS BrowserSessions, TLC

MCText == (0 :> 1) @@ (1 :> 0)

Symmetry == Permutations(Session) \cup Permutations(Request)
================================================================================
