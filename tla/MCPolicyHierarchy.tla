-------------------------- MODULE MCPolicyHierarchy --------------------------
(* Two projects and two administrators, with rules that are wide but for     *)
(* their images, small with any image, and open but for other images.        *)
EXTENDS PolicyHierarchy, TLC

CONSTANTS x, y   \* image registries

Wide == [limit |-> {2}, priority |-> {[min |-> 1, max |-> 2, default |-> 1]},
         registries |-> {{x}}]
Small == [limit |-> {1}, priority |-> {[min |-> 1, max |-> 1, default |-> 1]},
          registries |-> {}]
Open == [NoRules EXCEPT !.registries = {{y}}]
Three == {Wide, Small, Open}

Symmetry == Permutations(Project) \cup Permutations(Request)
=============================================================================
