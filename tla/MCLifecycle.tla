---------------------------- MODULE MCLifecycle ----------------------------
(* Constants for the model-checking runs of Lifecycle.                     *)
EXTENDS Lifecycle, TLC

CONSTANTS alice, bob

\* An account in three versions: the second differs in something
\* accounts_equal compares, the third in bootstrap_limit only.
V1 == [ends |-> "e1", limit |-> 0]
V2 == [ends |-> "e2", limit |-> 0]
V3 == [ends |-> "e1", limit |-> 1]

TwoBoots == { <<>>, alice :> V1, (alice :> V1) @@ (bob :> V1) }

\* Reloads that remove, change, add, and mix the three.
SomeConfigs == { bob :> V2, (alice :> V2) @@ (bob :> V1), (alice :> V3) @@ (bob :> V2) }

\* With the secret of bob, or without.
WithOrWithout == { {alice, bob}, {alice} }
=============================================================================
