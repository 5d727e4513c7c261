------------------------------ MODULE Tenants ------------------------------
(***************************************************************************)
(* The tenants a process is told about: plugin.configure, the registry of  *)
(* declared tenants, the configured_state cell, the boot file, and the     *)
(* handlers that answer from them (src/src/boot.rs, instance_registry.rs,  *)
(* configured_state.rs, env_config.rs, main.rs, auto_discovery.rs).        *)
(*                                                                         *)
(* apply_configure serves a host that embeds the crate; the subprocess     *)
(* main.rs installs its own on_configure.  The handlers run at any moment, *)
(* also between two steps of apply_configure.                              *)
(***************************************************************************)
EXTENDS Naturals, Sequences, FiniteSets, Functions

CONSTANTS
  Raw,         \* labels as the operator writes them; Nil for none
  Canon,       \* [Raw -> Labels \cup {Nil}]: trimmed and lowercased, Nil if
               \* empty, too long or with a forbidden character
  Labels, Default,
  Accounts,
  Payloads,    \* what plugin.configure may bring: the set of shapes
  Nil,
  MaxConfigures   \* bound

\* EmailPluginConfig: its instance label and its accounts.
Tenant == [label : Raw \cup Labels \cup {Nil}, accounts : SUBSET Accounts]

\* EmailPluginShape, untagged: a map, a sequence, or neither.
IsShape(p) == p.kind \in {"single", "many", "bad"} /\ p.cfgs \in Seq(Tenant)
                /\ (p.kind = "single" => Len(p.cfgs) = 1)
                /\ \A k \in DOMAIN p.cfgs : p.cfgs[k].label \in Raw \cup {Nil}

ASSUME TenantsAssumption ==
  /\ Canon \in [Raw -> Labels \cup {Nil}] /\ Default \in Labels
  /\ Nil \notin Labels /\ Nil \notin Raw /\ Nil \notin Seq(Tenant)
  /\ \A p \in Payloads : IsShape(p)
  /\ MaxConfigures \in Nat

VARIABLES
  embedded,    \* the host calls apply_configure; else it is the subprocess
  registry,    \* REGISTRY: per label the configure that built its plugin, or 0
  configured,  \* CONFIGURED: Nil or the sequence of tenants
  call,        \* the configure call in progress
  configures,  \* configure calls so far: number k built the plugins marked k
  boot,        \* the tenant the subprocess booted with, Nil before
  \* history
  before,      \* registry and configured when the call began
  result       \* of the last call

vars == <<embedded, registry, configured, call, configures, boot, before, result>>

Registered == { l \in Labels : registry[l] # 0 }

NoCall == [pc |-> "idle", cfgs |-> <<>>, stale |-> {}, next |-> 0]

Results == {"none", "ok", "badShape", "badLabel", "duplicate", "factory"}

TypeOK ==
  /\ embedded \in BOOLEAN /\ registry \in [Labels -> 0..MaxConfigures]
  /\ configured = Nil \/ configured \in Seq(Tenant)
  /\ call.pc \in {"idle", "drop", "diff", "unregister", "register", "publish"}
  /\ call.cfgs \in Seq(Tenant) /\ call.stale \subseteq Labels
  /\ call.next \in 0..(Len(call.cfgs) + 1)
  /\ configures \in 0..MaxConfigures
  /\ boot = Nil \/ boot \in Tenant
  /\ result \in Results

Init ==
  /\ embedded \in BOOLEAN
  /\ registry = [l \in Labels |-> 0] /\ configured = Nil
  /\ call = NoCall /\ configures = 0 /\ boot = Nil
  /\ before = <<registry, configured>> /\ result = "none"

-----------------------------------------------------------------------------
(* Helpers.                                                                *)

\* sanitize_tenant_label of the label, or of "default" when there is none.
\* Nil when it is refused.
Label(t) == IF t.label = Nil THEN Default ELSE Canon[t.label]

LabelsOf(cfgs) == { Label(cfgs[k]) : k \in DOMAIN cfgs }

\* Mutant: labels are compared as they were written.
FirstBadRaw(cfgs) ==
  LET bad == { k \in DOMAIN cfgs :
                 \/ Label(cfgs[k]) = Nil
                 \/ \E j \in 1..(k - 1) : cfgs[j].label = cfgs[k].label }
  IN IF bad = {} THEN 0 ELSE CHOOSE k \in bad : \A j \in bad : k <= j

\* The first entry apply_configure refuses, 0 for none: each entry is
\* sanitised, then compared with the labels before it.
FirstBad(cfgs) ==
  LET bad == { k \in DOMAIN cfgs :
                 \/ Label(cfgs[k]) = Nil
                 \/ \E j \in 1..(k - 1) : Label(cfgs[j]) = Label(cfgs[k]) }
  IN IF bad = {} THEN 0 ELSE CHOOSE k \in bad : \A j \in bad : k <= j

\* The label is written back into the config.
Resolved(cfgs) ==
  [k \in DOMAIN cfgs |-> [cfgs[k] EXCEPT !.label = Label(cfgs[k])]]

\* Every account of every tenant, in order: EmailPluginShape::into_vec and the
\* flat_map of the handlers.
AccountsOf(cfgs) == UNION { cfgs[k].accounts : k \in DOMAIN cfgs }

-----------------------------------------------------------------------------
(* The subprocess.                                                         *)

\* email_config_from_env: only the first tenant of the file is booted; an
\* empty sequence, or an account without secret, fails the boot.
EnvBoot(p) ==
  /\ ~embedded /\ boot = Nil /\ p.kind # "bad" /\ p.cfgs # <<>>
  /\ boot' = Head(p.cfgs)
  /\ UNCHANGED <<embedded, registry, configured, call, configures, before, result>>

\* main.rs on_configure: the cell is replaced, the plugin is not told.
OnConfigure(p) ==
  /\ ~embedded /\ configures < MaxConfigures
  /\ configures' = configures + 1
  /\ before' = <<registry, configured>>
  /\ IF p.kind = "bad"
     THEN result' = "badShape" /\ UNCHANGED configured
     ELSE result' = "ok" /\ configured' = p.cfgs
  /\ UNCHANGED <<embedded, registry, call, boot>>

-----------------------------------------------------------------------------
(* apply_configure.                                                        *)

\* Mutant: the sequence is checked while it is being applied.
ApplyConfigureUnchecked(p) ==
  /\ embedded /\ call.pc = "idle" /\ configures < MaxConfigures
  /\ configures' = configures + 1 /\ before' = <<registry, configured>>
  /\ IF p.kind = "many" /\ FirstBad(p.cfgs) > 1
     THEN /\ registry' = [registry EXCEPT ![Label(p.cfgs[1])] = configures + 1]
          /\ result' = "badLabel" /\ UNCHANGED call
     ELSE /\ call' = [NoCall EXCEPT !.pc = "diff", !.cfgs = p.cfgs]
          /\ FirstBad(p.cfgs) = 0 /\ UNCHANGED <<registry, result>>
  /\ UNCHANGED <<embedded, configured, boot>>

\* The payload is parsed; a sequence is checked label by label before the
\* registry is touched.
ApplyConfigure(p) ==
  /\ embedded /\ call.pc = "idle" /\ configures < MaxConfigures
  /\ configures' = configures + 1 /\ before' = <<registry, configured>>
  /\ LET bad == FirstBad(p.cfgs) IN
     CASE p.kind = "bad" -> result' = "badShape" /\ UNCHANGED call
       [] p.kind = "single" ->
            /\ call' = [NoCall EXCEPT !.pc = "drop", !.cfgs = p.cfgs]
            /\ UNCHANGED result
       [] p.kind = "many" /\ bad # 0 ->
            /\ result' = IF Label(p.cfgs[bad]) = Nil THEN "badLabel"
                                                     ELSE "duplicate"
            /\ UNCHANGED call
       [] OTHER ->
            /\ call' = [NoCall EXCEPT !.pc = "diff", !.cfgs = p.cfgs]
            /\ UNCHANGED result
  /\ UNCHANGED <<embedded, registry, configured, boot>>

\* shutdown_all_registered: the entries are dropped, the plugins not stopped.
DropAll ==
  /\ call.pc = "drop"
  /\ \/ \E l \in Registered : registry' = [registry EXCEPT ![l] = 0] /\ UNCHANGED call
     \/ /\ Registered = {} /\ call' = [call EXCEPT !.pc = "publish"]
        /\ UNCHANGED registry
  /\ UNCHANGED <<embedded, configured, configures, boot, before, result>>

\* Mutant: everything registered counts as stale.
DiffAll ==
  /\ call.pc = "diff"
  /\ call' = [call EXCEPT !.pc = "unregister", !.stale = Registered, !.next = 1]
  /\ UNCHANGED <<embedded, registry, configured, configures, boot, before, result>>

\* The labels registered now and not declared any more.
Diff ==
  /\ call.pc = "diff"
  /\ call' = [call EXCEPT !.pc = "unregister",
                          !.stale = Registered \ LabelsOf(call.cfgs), !.next = 1]
  /\ UNCHANGED <<embedded, registry, configured, configures, boot, before, result>>

Unregister ==
  /\ call.pc = "unregister"
  /\ \/ \E l \in call.stale :
          /\ registry' = [registry EXCEPT ![l] = 0]
          /\ call' = [call EXCEPT !.stale = @ \ {l}]
     \/ /\ call.stale = {} /\ call' = [call EXCEPT !.pc = "register"]
        /\ UNCHANGED registry
  /\ UNCHANGED <<embedded, configured, configures, boot, before, result>>

\* One tenant: its plugin is built and put in the registry over the old one.
\* An error of the factory returns with the tenants before it in place.
Register ==
  /\ call.pc = "register" /\ call.next <= Len(call.cfgs)
  /\ \/ /\ registry' = [registry EXCEPT ![Label(call.cfgs[call.next])] = configures]
        /\ call' = [call EXCEPT !.next = @ + 1] /\ UNCHANGED result
     \/ /\ call' = NoCall /\ result' = "factory" /\ UNCHANGED registry
  /\ UNCHANGED <<embedded, configured, configures, boot, before>>

\* configured_state is written last.
Publish ==
  /\ \/ call.pc = "publish" /\ configured' = call.cfgs
     \/ /\ call.pc = "register" /\ call.next > Len(call.cfgs)
        /\ configured' = Resolved(call.cfgs)
  /\ call' = NoCall /\ result' = "ok"
  /\ UNCHANGED <<embedded, registry, configures, boot, before>>

-----------------------------------------------------------------------------
Next ==
  \/ \E p \in Payloads : EnvBoot(p) \/ OnConfigure(p) \/ ApplyConfigure(p)
  \/ DropAll \/ Diff \/ Unregister \/ Register \/ Publish

Spec == Init /\ [][Next]_vars

-----------------------------------------------------------------------------
(* What the handlers answer.                                               *)

\* credentials_list, configured_instances.
Issued == IF configured = Nil THEN {} ELSE AccountsOf(configured)

\* credentials_issue.
CredentialsIssue(a) ==
  configured # Nil /\ \E k \in DOMAIN configured : a \in configured[k].accounts

\* credentials_resolve_bytes: the tenant whose account is returned, the first
\* that declares it.
CredentialsResolve(a) ==
  IF ~CredentialsIssue(a) THEN Nil
  ELSE configured[CHOOSE k \in DOMAIN configured :
         /\ a \in configured[k].accounts
         /\ \A j \in 1..(k - 1) : a \notin configured[j].accounts].label

\* admin list_tenants: each configured tenant, by its label as it is in the
\* cell, and whether the registry has it.
ListTenants ==
  LET shown(t) == IF t.label = Nil THEN Default ELSE t.label IN
  IF configured = Nil THEN {}
  ELSE { <<shown(configured[k]), shown(configured[k]) \in Registered>> :
           k \in DOMAIN configured }

-----------------------------------------------------------------------------
(* Properties.                                                             *)

Idle == call.pc = "idle"

\* A payload that is refused for its shape or for a label (also one that equals
\* another only after lowercasing) leaves the registry and the configured
\* state as they were: "a duplicate or invalid label aborts before we touch
\* the registry" (boot.rs:84-85).
RefusedChangesNothing ==
  (Idle /\ result \in {"badShape", "badLabel", "duplicate"}) =>
    before = <<registry, configured>>

\* After a configure that returned Ok, each declared tenant is registered with
\* the plugin that this call built, no other tenant is, list_tenants reports it
\* so, and the credentials that are listed can be resolved, from a registered
\* tenant - after any history of failed and mixed calls before it.
RegistryMatchesConfig ==
  (embedded /\ Idle /\ result = "ok") =>
    \/ Registered = {} /\ Len(configured) = 1
    \/ /\ Cardinality(Registered) = Len(configured)
       /\ ListTenants = { <<l, TRUE>> : l \in Registered }
       /\ \A l \in Registered : registry[l] = configures
       /\ \A a \in Issued : CredentialsResolve(a) \in Registered

\* While a sequence is being applied, and after a factory failed half way, a
\* tenant that is in the old and in the new config is never unregistered: at
\* most its plugin is replaced.
SurvivorsStayRegistered ==
  [][\A l \in Labels :
       (call.pc \in {"diff", "unregister", "register"}
          /\ l \in LabelsOf(call.cfgs) /\ registry[l] # 0) => registry'[l] # 0
     ]_registry
=============================================================================
