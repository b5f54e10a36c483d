----------------------------- MODULE MCBindings -----------------------------
(* A small instance of Bindings: two records of two customers. *)
EXTENDS Bindings, TLC

CONSTANTS x1, x2, v1, v2, n1, n2, b1, b2, alice, bob

CustomerOf == x1 :> alice @@ x2 :> bob

Interchangeable ==
    Permutations(Vmids) \cup Permutations(Nodes) \cup Permutations(Binders)
        \cup {x1 :> x2 @@ x2 :> x1 @@ alice :> bob @@ bob :> alice}


=============================================================================
