----------------------------- MODULE MCInbound -----------------------------
(* Constants for the model-checking runs of Inbound.                       *)
EXTENDS Inbound, TLC

CONSTANTS m1, m2, m3

\* A mail, a delivery report and a suppressed auto-reply.
OneOfEach == (m1 :> "mail") @@ (m2 :> "dsn") @@ (m3 :> "loop")

\* Only mails, which are then interchangeable.
AllMail == (m1 :> "mail") @@ (m2 :> "mail") @@ (m3 :> "mail")

SwapMail == Permutations({m1, m2, m3})

\* So are the generations.
SwapBoth == { p @@ q : p \in SwapMail, q \in Permutations(Gens) }
=============================================================================
