--------------------------- MODULE TenantsProofs ---------------------------
(***************************************************************************)
(* What a configure call promises for any payloads, labels and number of   *)
(* calls (src/src/boot.rs): a refused one changes nothing, a tenant that   *)
(* stays is never without a plugin, and one that succeeded is what the     *)
(* registry and the handlers show.                                         *)
(***************************************************************************)
EXTENDS Tenants, FiniteSetTheorems, TLAPS

\* The steps of apply_configure, and the record of a call that is in one.
Steps == {"idle", "drop", "diff", "unregister", "register", "publish"}
Calls == [pc : Steps, cfgs : Seq(Tenant), stale : SUBSET Labels, next : Nat]

\* The call in progress has counted itself; the labels it is about to
\* unregister are not declared.
CallInv ==
  /\ registry \in [Labels -> Nat] /\ configures \in Nat /\ call \in Calls
  /\ call.pc # "idle" => configures > 0
  /\ call.pc = "unregister" => call.stale \cap LabelsOf(call.cfgs) = {}

\* The call of a process that was not configured.
LEMMA NoCallType == NoCall \in Calls /\ NoCall.pc = "idle"
<1>1. <<>> \in Seq(Tenant)
  OBVIOUS
<1> QED BY <1>1 DEF NoCall, Calls, Steps

\* Base case.
LEMMA InitCall == Init => CallInv
BY NoCallType DEF Init, CallInv

\* What a call starts with: nothing yet, or the tenants of its payload.
LEMMA ApplyStarts ==
  ASSUME NEW p \in Payloads, ApplyConfigure(p)
  PROVE  /\ call.pc = "idle" /\ UNCHANGED <<registry, configured>>
         /\ before' = <<registry, configured>> /\ configures' = configures + 1
         /\ \/ call' = call
            \/ call' \in Calls /\ call'.pc \in {"drop", "diff"}
<1>1. p.cfgs \in Seq(Tenant)
  BY TenantsAssumption DEF IsShape
<1>2. /\ [NoCall EXCEPT !.pc = "drop", !.cfgs = p.cfgs] \in Calls
      /\ [NoCall EXCEPT !.pc = "drop", !.cfgs = p.cfgs].pc = "drop"
  BY <1>1 DEF NoCall, Calls, Steps
<1>3. /\ [NoCall EXCEPT !.pc = "diff", !.cfgs = p.cfgs] \in Calls
      /\ [NoCall EXCEPT !.pc = "diff", !.cfgs = p.cfgs].pc = "diff"
  BY <1>1 DEF NoCall, Calls, Steps
<1>4. \/ call' = call
      \/ call' = [NoCall EXCEPT !.pc = "drop", !.cfgs = p.cfgs]
      \/ call' = [NoCall EXCEPT !.pc = "diff", !.cfgs = p.cfgs]
  <2>1. CASE p.kind = "bad"
    BY <2>1, Zenon DEF ApplyConfigure
  <2>2. CASE p.kind = "single"
    BY <2>2 DEF ApplyConfigure
  <2>3. CASE p.kind = "many"
    BY <2>3 DEF ApplyConfigure
  <2> QED BY <2>1, <2>2, <2>3, TenantsAssumption DEF IsShape
<1> QED BY <1>2, <1>3, <1>4 DEF ApplyConfigure

\* One step per operation.
LEMMA NextCall == CallInv /\ [Next]_vars => CallInv'
<1> SUFFICES ASSUME CallInv, [Next]_vars PROVE CallInv'
  OBVIOUS
<1> USE DEF CallInv
<1>1. ASSUME NEW p \in Payloads, EnvBoot(p) PROVE CallInv'
  BY <1>1 DEF EnvBoot
<1>2. ASSUME NEW p \in Payloads, OnConfigure(p) PROVE CallInv'
  <2>1. call' = call /\ registry' = registry /\ configures' = configures + 1
    BY <1>2 DEF OnConfigure
  <2> QED BY <2>1
<1>3. ASSUME NEW p \in Payloads, ApplyConfigure(p) PROVE CallInv'
  BY <1>3, ApplyStarts
<1>4. CASE DropAll
  BY <1>4 DEF DropAll, Calls, Steps, Registered
<1>5. CASE Diff
  <2>1. call' \in Calls /\ call'.pc = "unregister" /\ call'.cfgs = call.cfgs
        /\ call'.stale = Registered \ LabelsOf(call.cfgs)
    BY <1>5 DEF Diff, Calls, Steps, Registered
  <2> QED BY <1>5, <2>1 DEF Diff
<1>6. CASE Unregister
  BY <1>6 DEF Unregister, Calls, Steps
<1>7. CASE Register
  <2>1. registry' \in [Labels -> Nat] /\ configures' = configures
    BY <1>7 DEF Register
  <2>2. call' = NoCall \/ call' = [call EXCEPT !.next = @ + 1]
    BY <1>7 DEF Register
  <2>3. [call EXCEPT !.next = @ + 1] \in Calls
        /\ [call EXCEPT !.next = @ + 1].pc = call.pc
    BY DEF Calls
  <2>4. call' \in Calls /\ call'.pc \in {"idle", "register"}
    BY <1>7, <2>2, <2>3, NoCallType DEF Register
  <2>5. configures > 0
    BY <1>7 DEF Register
  <2> QED BY <2>1, <2>4, <2>5
<1>8. CASE Publish
  BY <1>8, NoCallType DEF Publish
<1>9. CASE UNCHANGED vars
  BY <1>9 DEF vars
<1> QED
  BY <1>1, <1>2, <1>3, <1>4, <1>5, <1>6, <1>7, <1>8, <1>9 DEF Next

\* The invariant of the call in progress holds in every reachable state.
LEMMA CallAlways == Spec => []CallInv
BY InitCall, NextCall, PTL DEF Spec

-----------------------------------------------------------------------------
\* While a refused call is the last one, registry and configured state are
\* those it found.
LEMMA NextRefused ==
  CallInv /\ RefusedChangesNothing /\ [Next]_vars => RefusedChangesNothing'
<1> SUFFICES ASSUME CallInv, RefusedChangesNothing, [Next]_vars
             PROVE  RefusedChangesNothing'
  OBVIOUS
<1> USE DEF RefusedChangesNothing, Idle, CallInv
<1>1. ASSUME NEW p \in Payloads, EnvBoot(p) PROVE RefusedChangesNothing'
  BY <1>1 DEF EnvBoot
<1>2. ASSUME NEW p \in Payloads, OnConfigure(p) PROVE RefusedChangesNothing'
  BY <1>2 DEF OnConfigure
<1>3. ASSUME NEW p \in Payloads, ApplyConfigure(p) PROVE RefusedChangesNothing'
  BY <1>3, ApplyStarts
<1>4. CASE DropAll \/ Diff \/ Unregister
  <2>1. call'.pc # "idle"
    BY <1>4 DEF DropAll, Diff, Unregister, Calls, Steps
  <2> QED BY <2>1
<1>5. CASE Register
  BY <1>5, NoCallType DEF Register, Calls
<1>6. CASE Publish
  BY <1>6, NoCallType DEF Publish
<1>7. CASE UNCHANGED vars
  BY <1>7 DEF vars
<1> QED
  BY <1>1, <1>2, <1>3, <1>4, <1>5, <1>6, <1>7 DEF Next

\* A configure that is refused for its shape or for a label leaves registry
\* and configured state as they were (boot.rs:83-84), for any payloads.
THEOREM RefusedIsHarmless == Spec => []RefusedChangesNothing
<1>1. Init => RefusedChangesNothing
  BY DEF Init, RefusedChangesNothing
<1> QED BY <1>1, CallAlways, NextRefused, PTL DEF Spec

-----------------------------------------------------------------------------
\* A label of the sequence that is being applied keeps its entry in a step.
LEMMA StepKeepsSurvivors ==
  ASSUME CallInv, [Next]_vars, NEW l \in Labels,
         call.pc \in {"diff", "unregister", "register"},
         l \in LabelsOf(call.cfgs), registry[l] # 0
  PROVE  registry'[l] # 0
<1> USE DEF CallInv
<1>1. CASE Unregister
  BY <1>1 DEF Unregister
<1>2. CASE Register
  BY <1>2 DEF Register
<1>3. CASE UNCHANGED registry
  BY <1>3
<1>4. UNCHANGED registry \/ Unregister \/ Register
  <2>1. ASSUME NEW p \in Payloads, EnvBoot(p) \/ OnConfigure(p) PROVE UNCHANGED registry
    BY <2>1 DEF EnvBoot, OnConfigure
  <2>2. ASSUME NEW p \in Payloads, ApplyConfigure(p) PROVE UNCHANGED registry
    BY <2>2 DEF ApplyConfigure
  <2>3. ~DropAll
    BY DEF DropAll
  <2>4. Diff \/ Publish \/ UNCHANGED vars => UNCHANGED registry
    BY DEF Diff, Publish, vars
  <2> QED BY <2>1, <2>2, <2>3, <2>4 DEF Next
<1> QED BY <1>1, <1>2, <1>3, <1>4

\* While a sequence is applied, also when a factory fails in it, a tenant of
\* the old and of the new config keeps a plugin (boot.rs:101-129).
THEOREM SurvivorsStay == Spec => SurvivorsStayRegistered
<1>1. CallInv /\ [Next]_vars =>
        [\A l \in Labels :
           (call.pc \in {"diff", "unregister", "register"}
              /\ l \in LabelsOf(call.cfgs) /\ registry[l] # 0) => registry'[l] # 0
        ]_registry
  BY StepKeepsSurvivors
<1> QED BY <1>1, CallAlways, PTL DEF Spec, SurvivorsStayRegistered

-----------------------------------------------------------------------------
(* Registry and configured state after a configure that succeeded.         *)

\* Every label is usable and none occurs twice.
Sound(cfgs) ==
  /\ \A k \in DOMAIN cfgs : Label(cfgs[k]) \in Labels
  /\ \A j, k \in DOMAIN cfgs : Label(cfgs[j]) = Label(cfgs[k]) => j = k

Settled ==
  \/ Registered = {} /\ Len(configured) = 1
  \/ /\ Cardinality(Registered) = Len(configured)
     /\ ListTenants = { <<l, TRUE>> : l \in Registered }
     /\ \A l \in Registered : registry[l] = configures
     /\ \A a \in Issued : CredentialsResolve(a) \in Registered

\* What is left of the old tenants is stale, and the new ones are in place up
\* to the next.
RegistryInv ==
  /\ RegistryMatchesConfig
  /\ call.pc # "idle" => embedded
  /\ call.pc \in {"drop", "publish"} => Len(call.cfgs) = 1
  /\ call.pc = "publish" => Registered = {}
  /\ call.pc \in {"diff", "unregister", "register"} => Sound(call.cfgs)
  /\ call.pc = "unregister" => /\ Registered \subseteq LabelsOf(call.cfgs) \cup call.stale
                               /\ call.next = 1
  /\ call.pc = "register" =>
       /\ Registered \subseteq LabelsOf(call.cfgs)
       /\ call.next \in 1..(Len(call.cfgs) + 1)
       /\ \A k \in 1..(call.next - 1) : registry[Label(call.cfgs[k])] = configures

\* A set of numbers has a least one.
LEMMA HasLeast ==
  ASSUME NEW S \in SUBSET Nat, S # {}
  PROVE  \E x \in S : \A y \in S : x <= y
<1> DEFINE R == { ss \in Nat \X Nat : ss[1] < ss[2] }
<1>1. R = OpToRel(<, Nat)
  BY Zenon DEF OpToRel
<1>2. IsWellFoundedOn(R, Nat)
  BY <1>1, NatLessThanWellFounded, Zenon
<1>3. PICK x \in S : \A y \in S : <<y, x>> \notin R
  <2> HIDE DEF R
  <2>1. QED BY <1>2, WFMin
<1>4. ASSUME NEW y \in S PROVE x <= y
  <2>1. x \in Nat /\ y \in Nat
    OBVIOUS
  <2>2. <<y, x>> \notin { ss \in Nat \X Nat : ss[1] < ss[2] }
    BY <1>3
  <2>3. ~(y < x)
    BY <2>1, <2>2
  <2>4. QED  BY <2>1, <2>3
<1>5. QED  BY <1>4

\* A sequence in which apply_configure finds nothing to refuse is sound.
LEMMA NothingRefused ==
  ASSUME NEW p \in Payloads, FirstBad(p.cfgs) = 0
  PROVE  Sound(p.cfgs)
<1> DEFINE cfgs == p.cfgs
           bad == { k \in DOMAIN cfgs :
                      \/ Label(cfgs[k]) = Nil
                      \/ \E j \in 1..(k - 1) : Label(cfgs[j]) = Label(cfgs[k]) }
<1>1. /\ cfgs \in Seq(Tenant) /\ DOMAIN cfgs = 1..Len(cfgs) /\ Len(cfgs) \in Nat
      /\ \A k \in DOMAIN cfgs : cfgs[k].label \in Raw \cup {Nil}
  BY TenantsAssumption DEF IsShape
<1>2. 0 = IF bad = {} THEN 0 ELSE CHOOSE k \in bad : \A j \in bad : k <= j
  BY DEF FirstBad
<1>3. bad \in SUBSET Nat /\ 0 \notin bad
  BY <1>1
<1> HIDE DEF cfgs
<1>4. bad = {}
  <2> SUFFICES ASSUME bad # {} PROVE FALSE
    OBVIOUS
  <2> HIDE DEF bad
  <2>1. \E k \in bad : \A j \in bad : k <= j
    BY <1>3, HasLeast
  <2>2. (CHOOSE k \in bad : \A j \in bad : k <= j) \in bad
    BY <2>1
  <2>3. QED  BY <1>2, <1>3, <2>2
<1>5. ASSUME NEW k \in DOMAIN cfgs PROVE Label(cfgs[k]) \in Labels
  BY <1>1, <1>4, TenantsAssumption DEF Label
<1>6. ASSUME NEW j \in DOMAIN cfgs, NEW k \in DOMAIN cfgs, j < k
      PROVE  Label(cfgs[j]) # Label(cfgs[k])
  <2>1. j \in 1..(k - 1)
    BY <1>1, <1>6
  <2>2. QED  BY <1>4, <2>1
<1>7. ASSUME NEW j \in DOMAIN cfgs, NEW k \in DOMAIN cfgs, Label(cfgs[j]) = Label(cfgs[k])
      PROVE  j = k
  BY <1>1, <1>6, <1>7
<1>8. QED  BY <1>5, <1>7 DEF Sound, cfgs

\* apply_configure starts on a payload it has found nothing wrong with.
LEMMA ApplySound ==
  ASSUME NEW p \in Payloads, ApplyConfigure(p)
  PROVE  \/ call' = call /\ result' # "ok"
         \/ call'.pc = "drop" /\ Len(call'.cfgs) = 1
         \/ call'.pc = "diff" /\ Sound(call'.cfgs)
<1>1. CASE p.kind = "bad"
  <2>1. call' = call /\ result' = "badShape"
    BY <1>1, Zenon DEF ApplyConfigure
  <2>2. QED  BY <2>1
<1>2. CASE p.kind = "single"
  <2>1. call' = [NoCall EXCEPT !.pc = "drop", !.cfgs = p.cfgs]
    BY <1>2 DEF ApplyConfigure
  <2>2. Len(p.cfgs) = 1
    BY <1>2, TenantsAssumption DEF IsShape
  <2>3. QED  BY <2>1, <2>2 DEF NoCall
<1>3. CASE p.kind = "many" /\ FirstBad(p.cfgs) # 0
  <2>1. call' = call
        /\ result' = IF Label(p.cfgs[FirstBad(p.cfgs)]) = Nil THEN "badLabel" ELSE "duplicate"
    BY <1>3 DEF ApplyConfigure
  <2>2. QED  BY <2>1
<1>4. CASE p.kind = "many" /\ FirstBad(p.cfgs) = 0
  <2>1. call' = [NoCall EXCEPT !.pc = "diff", !.cfgs = p.cfgs]
    BY <1>4 DEF ApplyConfigure
  <2>2. QED  BY <1>4, <2>1, NothingRefused DEF NoCall
<1>5. QED  BY <1>1, <1>2, <1>3, <1>4, TenantsAssumption DEF IsShape

\* There are as many labels as tenants.
LEMMA LabelsCounted ==
  ASSUME NEW cfgs \in Seq(Tenant), Sound(cfgs)
  PROVE  Cardinality(LabelsOf(cfgs)) = Len(cfgs)
<1> DEFINE n == Len(cfgs)
           f == [k \in 1..n |-> Label(cfgs[k])]
<1>1. DOMAIN cfgs = 1..n /\ n \in Nat
  OBVIOUS
<1>2. f \in [1..n -> LabelsOf(cfgs)]
  BY <1>1 DEF LabelsOf
<1>3. \A j, k \in 1..n : f[j] = f[k] => j = k
  BY <1>1 DEF Sound
<1>4. \A l \in LabelsOf(cfgs) : \E k \in 1..n : f[k] = l
  BY <1>1 DEF LabelsOf
<1> HIDE DEF f
<1>5. f \in Bijection(1..n, LabelsOf(cfgs))
  BY <1>2, <1>3, <1>4 DEF Bijection, Injection, Surjection, IsInjective
<1>6. IsFiniteSet(1..n) /\ Cardinality(1..n) = n
  BY <1>1, FS_Interval
<1>7. ExistsBijection(1..n, LabelsOf(cfgs))
  BY <1>5 DEF ExistsBijection
<1>8. QED  BY <1>6, <1>7, FS_Bijection

\* A function on 1..m is a sequence of length m.
LEMMA IsASeq ==
  ASSUME NEW S, NEW m \in Nat, NEW s \in [1..m -> S]
  PROVE  s \in Seq(S) /\ Len(s) = m
OBVIOUS

\* The last step: the configured state is what the registry holds.
LEMMA PublishSettles ==
  ASSUME NEW cfgs \in Seq(Tenant), Sound(cfgs), Registered \subseteq LabelsOf(cfgs),
         \A k \in DOMAIN cfgs : registry[Label(cfgs[k])] = configures,
         configures \in Nat, configures > 0,
         configured' = Resolved(cfgs), UNCHANGED <<registry, configures>>
  PROVE  Settled'
<1> DEFINE n == Len(cfgs)
           L(k) == Label(cfgs[k])
<1>1. DOMAIN cfgs = 1..n /\ n \in Nat
  OBVIOUS
<1>2. Registered = LabelsOf(cfgs)
  BY DEF LabelsOf, Registered, Sound
<1>3. Registered' = Registered
  BY DEF Registered
<1>4. ASSUME NEW k \in DOMAIN cfgs
      PROVE  /\ L(k) \in Registered /\ L(k) # Nil
             /\ configured'[k].label = L(k) /\ configured'[k].accounts = cfgs[k].accounts
  <2>1. cfgs[k] \in Tenant
    OBVIOUS
  <2>2. configured'[k] = [cfgs[k] EXCEPT !.label = L(k)]
    BY DEF Resolved
  <2>3. L(k) \in Labels /\ L(k) \in LabelsOf(cfgs)
    BY DEF Sound, LabelsOf
  <2>4. QED  BY <1>2, <2>1, <2>2, <2>3, TenantsAssumption DEF Tenant
<1>5. /\ DOMAIN configured' = DOMAIN cfgs /\ Len(configured') = n
      /\ configured' \in Seq(Tenant) /\ configured' # Nil
  <2>1. configured' = [k \in 1..n |-> [cfgs[k] EXCEPT !.label = L(k)]]
    BY <1>1 DEF Resolved
  <2>2. ASSUME NEW k \in 1..n PROVE [cfgs[k] EXCEPT !.label = L(k)] \in Tenant
    <3>1. cfgs[k] \in Tenant /\ L(k) \in Labels
      BY <1>1 DEF Sound
    <3> HIDE DEF L
    <3>2. QED  BY <3>1 DEF Tenant
  <2>3. configured' \in Seq(Tenant) /\ Len(configured') = n
    <3> HIDE DEF L
    <3>1. DOMAIN configured' = 1..n
      BY <2>1
    <3>2. ASSUME NEW k \in 1..n PROVE configured'[k] \in Tenant
      BY <2>1, <2>2, <3>2
    <3>3. configured' \in [1..n -> Tenant]
      <4>1. configured' = [k \in 1..n |-> configured'[k]]
        BY <2>1
      <4> HIDE DEF n
      <4>2. QED  BY <3>2, <4>1
    <3>4. n \in Nat
      BY <1>1
    <3> HIDE DEF n
    <3>5. QED  BY <3>3, <3>4, IsASeq
  <2>4. QED  BY <1>1, <2>1, <2>3, TenantsAssumption
<1>6. Cardinality(Registered') = Len(configured')
  BY <1>2, <1>3, <1>5, LabelsCounted
<1> DEFINE shown(t) == IF t.label = Nil THEN Default ELSE t.label
<1>7. ListTenants' = { <<l, TRUE>> : l \in Registered' }
  <2>1. ListTenants' = { <<shown(configured'[k]), shown(configured'[k]) \in Registered'>> :
                           k \in DOMAIN configured' }
    BY <1>5 DEF ListTenants
  <2>2. ASSUME NEW k \in DOMAIN configured'
        PROVE  <<shown(configured'[k]), shown(configured'[k]) \in Registered'>> = <<L(k), TRUE>>
    <3>1. shown(configured'[k]) = L(k) /\ L(k) \in Registered'
      BY <1>3, <1>4, <1>5
    <3> HIDE DEF L, shown
    <3>2. (L(k) \in Registered') = TRUE
      BY <3>1, Zenon
    <3>3. QED  BY <3>1, <3>2, Zenon
  <2>3. ListTenants' = { <<L(k), TRUE>> : k \in DOMAIN cfgs }
    BY <1>5, <2>1, <2>2, Zenon
  <2>4. Registered' = { L(k) : k \in DOMAIN cfgs }
    BY <1>2, <1>3 DEF LabelsOf
  <2> HIDE DEF L, shown
  <2>5. QED  BY <2>3, <2>4
<1>8. \A l \in Registered' : registry'[l] = configures'
  BY <1>2, <1>3 DEF LabelsOf
<1>9. ASSUME NEW a \in Issued' PROVE CredentialsResolve(a)' \in Registered'
  <2> DEFINE S == { k \in DOMAIN configured' : a \in configured'[k].accounts }
             First(k) == /\ k \in DOMAIN configured' /\ a \in configured'[k].accounts
                         /\ \A j \in 1..(k - 1) : a \notin configured'[j].accounts
  <2>1. \E k \in DOMAIN configured' : a \in configured'[k].accounts
    BY <1>5 DEF Issued, AccountsOf
  <2>2. S \in SUBSET Nat /\ S # {}
    BY <1>1, <1>5, <2>1
  <2>3. PICK x \in S : \A y \in S : x <= y
    <3> HIDE DEF S
    <3>1. QED  BY <2>2, HasLeast
  <2>4. First(x)
    <3>1. x \in 1..n
      BY <1>1, <1>5
    <3>2. ASSUME NEW j \in 1..(x - 1) PROVE a \notin configured'[j].accounts
      <4>1. j \in 1..n /\ j < x
        BY <1>1, <3>1
      <4>2. ~(x <= j)
        BY <3>1, <4>1
      <4>3. QED  BY <1>1, <1>5, <2>3, <4>1, <4>2
    <3>3. QED  BY <3>2
  <2>5. CredentialsIssue(a)'
    BY <1>5, <2>1 DEF CredentialsIssue
  <2> DEFINE c == CHOOSE k \in DOMAIN configured' :
                    /\ a \in configured'[k].accounts
                    /\ \A j \in 1..(k - 1) : a \notin configured'[j].accounts
  <2>6. c \in DOMAIN configured'
    BY <2>4
  <2>7. CredentialsResolve(a)' = configured'[c].label
    BY <2>5 DEF CredentialsResolve
  <2> HIDE DEF c
  <2>8. QED  BY <1>3, <1>4, <1>5, <2>6, <2>7
<1>10. QED  BY <1>6, <1>7, <1>8, <1>9 DEF Settled

\* Base case.
LEMMA RegistryInit == Init => RegistryInv
BY NoCallType DEF Init, RegistryInv, RegistryMatchesConfig

\* One tenant of the sequence is put in the registry.
LEMMA RegistryRegister ==
  ASSUME CallInv, RegistryInv, Register
  PROVE  RegistryInv'
<1> DEFINE l == Label(call.cfgs[call.next])
<1>1. /\ registry \in [Labels -> Nat] /\ call \in Calls /\ configures \in Nat
      /\ Sound(call.cfgs) /\ Registered \subseteq LabelsOf(call.cfgs) /\ embedded
      /\ call.next \in 1..(Len(call.cfgs) + 1) /\ call.cfgs \in Seq(Tenant)
      /\ call.pc = "register"
      /\ \A k \in 1..(call.next - 1) : registry[Label(call.cfgs[k])] = configures
  BY DEF Register, RegistryInv, CallInv, Calls
<1>2. CASE call' = NoCall /\ result' = "factory" /\ UNCHANGED registry
  BY <1>2, NoCallType DEF RegistryInv, RegistryMatchesConfig, Idle
<1>3. CASE /\ registry' = [registry EXCEPT ![l] = configures]
           /\ call' = [call EXCEPT !.next = @ + 1]
  <2>1. /\ call'.pc = "register" /\ call'.cfgs = call.cfgs /\ call'.next = call.next + 1
        /\ UNCHANGED <<embedded, configures>>
    BY <1>1, <1>3 DEF Calls, Register
  <2>2. call.next \in DOMAIN call.cfgs /\ l \in Labels /\ l \in LabelsOf(call.cfgs)
    <3>1. call.next \in DOMAIN call.cfgs
      BY <1>1 DEF Register
    <3>2. QED  BY <1>1, <3>1 DEF Sound, LabelsOf
  <2>3. Registered' \subseteq LabelsOf(call.cfgs)
    BY <1>1, <1>3, <2>2 DEF Registered
  <2>4. ASSUME NEW k \in 1..call.next PROVE registry'[Label(call.cfgs[k])] = configures
    <3>1. k \in DOMAIN call.cfgs /\ Label(call.cfgs[k]) \in Labels
      BY <1>1, <2>2 DEF Sound
    <3>2. CASE k = call.next
      BY <1>1, <1>3, <2>2, <3>2
    <3>3. CASE k # call.next
      <4>1. k \in 1..(call.next - 1)
        BY <1>1, <3>3
      <4>2. QED  BY <1>1, <1>3, <3>1, <4>1
    <3>4. QED  BY <3>2, <3>3
  <2>5. call'.next \in 1..(Len(call.cfgs) + 1) /\ call'.next - 1 = call.next
    BY <1>1, <2>1 DEF Register
  <2>6. QED
    BY <1>1, <2>1, <2>3, <2>4, <2>5
       DEF RegistryInv, RegistryMatchesConfig, Idle, Sound, LabelsOf, Label
<1>4. QED  BY <1>2, <1>3 DEF Register

\* Every action keeps RegistryInv.
LEMMA RegistryNext == CallInv /\ RegistryInv /\ [Next]_vars => RegistryInv'
<1> SUFFICES ASSUME CallInv, RegistryInv, [Next]_vars PROVE RegistryInv'
  OBVIOUS
<1>1. call \in Calls /\ registry \in [Labels -> Nat] /\ configures \in Nat
      /\ call.cfgs \in Seq(Tenant) /\ call.stale \subseteq Labels
  BY DEF CallInv, Calls
<1>2. ASSUME NEW p \in Payloads, EnvBoot(p) \/ OnConfigure(p) PROVE RegistryInv'
  <2>1. ~embedded /\ UNCHANGED <<embedded, call>>
    BY <1>2 DEF EnvBoot, OnConfigure
  <2>2. call.pc = "idle"
    BY <2>1 DEF RegistryInv
  <2>3. QED  BY <2>1, <2>2 DEF RegistryInv, RegistryMatchesConfig
<1>3. ASSUME NEW p \in Payloads, ApplyConfigure(p) PROVE RegistryInv'
  <2>1. embedded' /\ call.pc = "idle"
    BY <1>3 DEF ApplyConfigure
  <2>2. CASE call' = call /\ result' # "ok"
    BY <2>1, <2>2 DEF RegistryInv, RegistryMatchesConfig
  <2>3. CASE call'.pc = "drop" /\ Len(call'.cfgs) = 1
    BY <2>1, <2>3 DEF RegistryInv, RegistryMatchesConfig, Idle
  <2>4. CASE call'.pc = "diff" /\ Sound(call'.cfgs)
    BY <2>1, <2>4 DEF RegistryInv, RegistryMatchesConfig, Idle, Sound, Label
  <2>5. QED  BY <1>3, <2>2, <2>3, <2>4, ApplySound
<1>4. CASE DropAll
  <2>1. /\ call'.pc \in {"drop", "publish"} /\ call'.cfgs = call.cfgs /\ embedded' = embedded
        /\ call.pc = "drop" /\ (call'.pc = "publish" => Registered = {} /\ registry' = registry)
    BY <1>1, <1>4 DEF DropAll, Calls
  <2>2. call'.pc = "publish" => Registered' = {}
    BY <2>1 DEF Registered
  <2>3. QED  BY <2>1, <2>2 DEF RegistryInv, RegistryMatchesConfig, Idle
<1>5. CASE Diff
  <2>1. /\ call'.pc = "unregister" /\ call'.cfgs = call.cfgs /\ call'.next = 1
        /\ call'.stale = Registered \ LabelsOf(call.cfgs)
        /\ UNCHANGED <<embedded, registry>> /\ call.pc = "diff"
    BY <1>1, <1>5 DEF Diff, Calls
  <2>2. Registered' \subseteq LabelsOf(call.cfgs) \cup call'.stale
    BY <2>1 DEF Registered
  <2>3. Sound(call.cfgs) /\ embedded
    BY <2>1 DEF RegistryInv
  <2>4. QED
    BY <2>1, <2>2, <2>3
       DEF RegistryInv, RegistryMatchesConfig, Idle, Sound, LabelsOf, Label
<1>6. CASE Unregister
  <2>1. /\ call.pc = "unregister" /\ Sound(call.cfgs) /\ call.next = 1 /\ embedded
        /\ Registered \subseteq LabelsOf(call.cfgs) \cup call.stale
    BY <1>6 DEF Unregister, RegistryInv
  <2>2. ASSUME NEW l \in call.stale, registry' = [registry EXCEPT ![l] = 0],
               call' = [call EXCEPT !.stale = @ \ {l}]
        PROVE  RegistryInv'
    <3>1. /\ call'.pc = "unregister" /\ call'.cfgs = call.cfgs /\ call'.next = 1
          /\ call'.stale = call.stale \ {l} /\ embedded'
      BY <1>1, <1>6, <2>1, <2>2 DEF Calls, Unregister
    <3>2. Registered' \subseteq LabelsOf(call.cfgs) \cup (call.stale \ {l})
      BY <1>1, <2>1, <2>2 DEF Registered
    <3>3. QED
      BY <2>1, <3>1, <3>2 DEF RegistryInv, RegistryMatchesConfig, Idle, Sound, LabelsOf, Label
  <2>3. CASE call.stale = {} /\ call' = [call EXCEPT !.pc = "register"] /\ UNCHANGED registry
    <3>1. /\ call'.pc = "register" /\ call'.cfgs = call.cfgs /\ call'.next = 1 /\ embedded'
      BY <1>1, <1>6, <2>1, <2>3 DEF Calls, Unregister
    <3>2. Registered' \subseteq LabelsOf(call.cfgs)
      BY <2>1, <2>3 DEF Registered
    <3>3. 1 \in 1..(Len(call.cfgs) + 1) /\ \A k : k \notin 1..(1 - 1)
      BY <1>1
    <3>4. QED
      BY <2>1, <3>1, <3>2, <3>3
         DEF RegistryInv, RegistryMatchesConfig, Idle, Sound, LabelsOf, Label
  <2>4. QED  BY <1>6, <2>2, <2>3 DEF Unregister
<1>7. CASE Publish
  <2>1. /\ call'.pc = "idle" /\ UNCHANGED <<embedded, registry, configures>>
        /\ call' = NoCall
    BY <1>7, NoCallType DEF Publish
  <2>2. CASE call.pc = "publish" /\ configured' = call.cfgs
    <3>1. Registered' = {} /\ Len(configured') = 1
      BY <2>1, <2>2 DEF RegistryInv, Registered
    <3>2. Settled'
      BY <3>1 DEF Settled
    <3>3. QED  BY <2>1, <3>2 DEF RegistryInv, RegistryMatchesConfig, Settled
  <2>3. CASE /\ call.pc = "register" /\ call.next > Len(call.cfgs)
             /\ configured' = Resolved(call.cfgs)
    <3>1. /\ Sound(call.cfgs) /\ Registered \subseteq LabelsOf(call.cfgs)
          /\ call.next - 1 = Len(call.cfgs) /\ configures > 0
      BY <1>1, <2>3 DEF RegistryInv, CallInv
    <3>2. \A k \in DOMAIN call.cfgs : registry[Label(call.cfgs[k])] = configures
      <4>1. DOMAIN call.cfgs = 1..(call.next - 1)
        BY <1>1, <3>1
      <4>2. QED  BY <2>3, <4>1 DEF RegistryInv
    <3>3. Settled'
      BY <1>1, <2>1, <2>3, <3>1, <3>2, PublishSettles
    <3>4. QED  BY <2>1, <3>3 DEF RegistryInv, RegistryMatchesConfig, Settled
  <2>4. QED  BY <1>7, <2>2, <2>3 DEF Publish
<1>8. CASE UNCHANGED vars
  <2>1. UNCHANGED <<embedded, registry, configured, call, configures, result>>
    BY <1>8 DEF vars
  <2>2. UNCHANGED Registered /\ UNCHANGED ListTenants /\ UNCHANGED Issued
        /\ \A a : CredentialsResolve(a)' = CredentialsResolve(a)
    BY <2>1 DEF Registered, ListTenants, Issued, AccountsOf, CredentialsResolve,
                CredentialsIssue
  <2>3. RegistryMatchesConfig'
    BY <2>1, <2>2 DEF RegistryInv, RegistryMatchesConfig, Idle
  <2>4. QED  BY <2>1, <2>2, <2>3 DEF RegistryInv, Sound, LabelsOf, Label
<1>9. QED
  BY <1>2, <1>3, <1>4, <1>5, <1>6, <1>7, <1>8, RegistryRegister DEF Next

\* After a configure that returned Ok, whatever failed before it: the registry
\* holds one plugin per declared tenant, each built by this call,
\* list_tenants says so, and every account listed resolves to a registered
\* tenant (boot.rs:67-137).
THEOREM OkIsSettled == Spec => []RegistryMatchesConfig
<1>1. RegistryInv => RegistryMatchesConfig
  BY DEF RegistryInv
<1>2. QED  BY <1>1, CallAlways, RegistryInit, RegistryNext, PTL DEF Spec
=============================================================================
