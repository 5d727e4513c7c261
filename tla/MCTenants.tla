----------------------------- MODULE MCTenants -----------------------------
(* Constants for the model-checking run of Tenants.                        *)
EXTENDS Tenants, TLC

CONSTANTS alice, bob

\* Two spellings of one label, another label, and one that is refused.
CanonOf == ("ACME" :> "acme") @@ ("acme" :> "acme") @@ ("beta" :> "beta")
             @@ ("no way" :> Nil)

T(l, acc) == [label |-> l, accounts |-> acc]

SomePayloads ==
  { [kind |-> "bad", cfgs |-> <<>>],
    [kind |-> "single", cfgs |-> <<T(Nil, {alice})>>],
    [kind |-> "many", cfgs |-> <<>>],
    [kind |-> "many", cfgs |-> <<T("beta", {bob})>>],
    [kind |-> "many", cfgs |-> <<T(Nil, {alice}), T("ACME", {bob})>>],
    [kind |-> "many", cfgs |-> <<T("acme", {alice}), T("beta", {bob})>>],
    [kind |-> "many", cfgs |-> <<T("beta", {bob}), T("ACME", {alice}), T("acme", {bob})>>],
    [kind |-> "many", cfgs |-> <<T("acme", {alice}), T("no way", {bob})>>] }
=============================================================================
