------------------------------ MODULE MCStores ------------------------------
(* Constants for the model-checking run of Stores.                         *)
EXTENDS Stores, TLC

CONSTANTS s1, s2

\* Two ways to write the one address.
Lower == ("bob" :> "bob") @@ ("Bob " :> "bob")

\* The hashes are interchangeable.
Hashes == Permutations(Shas)
=============================================================================
