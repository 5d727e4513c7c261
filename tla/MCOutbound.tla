----------------------------- MODULE MCOutbound -----------------------------
(* Constants for the model-checking runs of Outbound.                      *)
EXTENDS Outbound, TLC

CONSTANTS c1, c2, m1, m2

\* Generated Message-Ids: one per command.
FreshIds == (c1 :> m1) @@ (c2 :> m2)

\* The two commands, each with its id, are interchangeable.
Swap == { (c1 :> c2) @@ (c2 :> c1) @@ (m1 :> m2) @@ (m2 :> m1) }

\* So are the generations.
SwapGens == Permutations(Gens)
SwapBoth == { p @@ q : p \in Swap \cup Permutations({c1}), q \in SwapGens }
=============================================================================
