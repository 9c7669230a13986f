---------------------------- MODULE FencingToken ----------------------------
(***************************************************************************)
(* What reconciliation leadership promises, without leases, clocks or a    *)
(* database: a service hands out numbers 1, 2, 3, ..., each to exactly one *)
(* holder, and a holder only ever acts under a number that was handed to   *)
(* it.  A holder may go on acting under an old number: that is why every   *)
(* durable write is conditional on the newest one.                         *)
(***************************************************************************)
EXTENDS Naturals, Sequences

CONSTANT Holder        \* processes that compete for leadership

VARIABLES
    grants,            \* grants[g] is the holder that token g was handed to
    belief             \* belief[h] is the token h acts under, 0 for none

vars == <<grants, belief>>

Init ==
    /\ grants = <<>>
    /\ belief = [h \in Holder |-> 0]

\* The service hands out the next token.
Grant(h) ==
    /\ grants' = Append(grants, h)
    /\ UNCHANGED belief

\* A holder takes up a token that was handed to it, or gives its token up.
Adopt(h, g) ==
    /\ g = 0 \/ (g \in 1..Len(grants) /\ grants[g] = h)
    /\ belief' = [belief EXCEPT ![h] = g]
    /\ UNCHANGED grants

Next == \E h \in Holder : Grant(h) \/ \E g \in 0..Len(grants) : Adopt(h, g)

Spec == Init /\ [][Next]_vars

-----------------------------------------------------------------------------
(* Two holders never act under the same token.                             *)
OneHolderPerToken ==
    \A h, k \in Holder : belief[h] = belief[k] /\ belief[h] # 0 => h = k
=============================================================================
