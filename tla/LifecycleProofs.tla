-------------------------- MODULE LifecycleProofs --------------------------
(***************************************************************************)
(* Theorems about Lifecycle, for every set of accounts, every config the   *)
(* process may boot with and every config a reload may bring.              *)
(***************************************************************************)
EXTENDS Lifecycle, FiniteSetTheorems, TLAPS

\* The reload in progress, as a record.
Reload == [pc : RlPcs, new : Configs \cup {<<>>}, removed : SUBSET Accounts,
           changed : SUBSET Accounts, added : SUBSET Accounts,
           at : Accounts \cup {Nil}]

\* What is left of the diff is part of it, and the account in work is left.
DiffInv ==
  /\ rl.pc # "idle" =>
       /\ rl.removed \subseteq Removed(cfg, rl.new)
       /\ rl.changed \subseteq Changed(cfg, rl.new)
       /\ rl.added \subseteq Added(cfg, rl.new)
  /\ rl.pc \in {"joinOut", "tearIn", "joinIn"} => rl.at \in rl.removed \cup rl.changed
  /\ rl.pc \in {"cred", "spawnIn", "spawnOut"} => rl.at \in rl.changed \cup rl.added

TypeInv ==
  /\ TypeOK /\ rl \in Reload /\ DiffInv
  /\ phase = "starting" => todo \subseteq DOMAIN cfg

-----------------------------------------------------------------------------
(* Types.                                                                  *)

\* The configs a reload is given are configs, and so is the empty one.
LEMMA ConfigsAre == \A c \in Boots \cup Configs \cup {<<>>} : IsConfig(c)
<1>1. DOMAIN <<>> = {} /\ Range(<<>>) = {}
  BY DEF Range
<1>2. IsConfig(<<>>)
  BY <1>1 DEF IsConfig
<1>3. QED  BY <1>2, LifecycleAssumption

\* A config gives each of its accounts a version.
LEMMA VersionType ==
  ASSUME NEW c, IsConfig(c), NEW a \in DOMAIN c
  PROVE  a \in Accounts /\ c[a] \in AccountCfg
BY DEF IsConfig, Range

\* The three lists of a diff are disjoint sets of accounts.
LEMMA DiffType ==
  ASSUME NEW old, NEW new, IsConfig(old), IsConfig(new)
  PROVE  /\ Removed(old, new) \subseteq DOMAIN old
         /\ Changed(old, new) \subseteq DOMAIN old \cap DOMAIN new
         /\ Added(old, new) \subseteq DOMAIN new
         /\ Removed(old, new) \cup Changed(old, new) \cup Added(old, new) \subseteq Accounts
         /\ Removed(old, new) \cap Changed(old, new) = {}
         /\ Removed(old, new) \cap Added(old, new) = {}
         /\ Changed(old, new) \cap Added(old, new) = {}
BY DEF Removed, Changed, Added, IsConfig

\* There is always an AccountHealth that none of the three holders has.
LEMMA FreshHealthType ==
  ASSUME TypeOK, NEW a \in Accounts
  PROVE  FreshHealth(a) \in 1..4
<1> DEFINE used == {health[a]} \cup { slots[a].health :
                slots \in { s \in {inbound, outbound} : s[a] # Nil } }
<1>1. PICK x, y : used \subseteq {health[a], x, y}
  <2> DEFINE x == IF inbound[a] = Nil THEN health[a] ELSE inbound[a].health
             y == IF outbound[a] = Nil THEN health[a] ELSE outbound[a].health
  <2>1. used \subseteq {health[a], x, y}
    OBVIOUS
  <2>2. QED  BY <2>1
<1> HIDE DEF used
<1>2. \E n \in 1..4 : n \notin used /\ \A k \in 1..(n - 1) : k \in used
  <2>1. CASE 1 \notin used
    BY <2>1
  <2>2. CASE 1 \in used /\ 2 \notin used
    BY <2>2
  <2>3. CASE 1 \in used /\ 2 \in used /\ 3 \notin used
    BY <2>3
  <2>4. CASE 1 \in used /\ 2 \in used /\ 3 \in used
    <3>1. 4 \notin used
      BY <1>1, <2>4
    <3>2. QED  BY <2>4, <3>1
  <2>5. QED  BY <2>1, <2>2, <2>3, <2>4
<1>3. FreshHealth(a) = CHOOSE n \in 1..4 : n \notin used /\ \A k \in 1..(n - 1) : k \in used
  BY DEF FreshHealth, used
<1>4. QED  BY <1>2, <1>3

\* The reload that is not there.
LEMMA NoReloadType ==
  /\ NoReload \in Reload /\ NoReload.pc = "idle" /\ NoReload.new = <<>>
  /\ NoReload.at = Nil
  /\ NoReload.removed \cup NoReload.changed \cup NoReload.added = {}
<1> DEFINE none == <<>>
<1>1. none \in Configs \cup {<<>>}
  OBVIOUS
<1>2. NoReload = [pc |-> "idle", new |-> none, removed |-> {}, changed |-> {},
                  added |-> {}, at |-> Nil]
  BY DEF NoReload
<1> HIDE DEF none
<1>3. /\ NoReload \in Reload /\ NoReload.pc = "idle" /\ NoReload.new = none
      /\ NoReload.at = Nil
      /\ NoReload.removed \cup NoReload.changed \cup NoReload.added = {}
  BY <1>1, <1>2 DEF Reload, RlPcs
<1>4. QED  BY <1>3 DEF none

\* Base case.
LEMMA TypeInit == Init => TypeInv
<1> SUFFICES ASSUME Init PROVE TypeInv
  OBVIOUS
<1>1. /\ rl = NoReload /\ cfg \in Boots /\ enabled \in BOOLEAN /\ creds \in Secrets
      /\ phase = "new" /\ todo = {} /\ latest = <<>>
  BY DEF Init
<1>2. rl.pc = "idle" /\ IsConfig(rl.new) /\ rl.at = Nil /\ IsConfig(latest) /\ IsConfig(cfg)
  BY <1>1, NoReloadType, ConfigsAre
<1>3. /\ inbound \in Slots /\ outbound \in Slots /\ health \in [Accounts -> Nat]
  BY DEF Init, NoTasks, Slots
<1>4. /\ rl.pc \in RlPcs /\ rl.removed \cup rl.changed \cup rl.added \subseteq Accounts
      /\ phase \in Phases /\ creds \subseteq Accounts
  BY <1>1, <1>2, NoReloadType, LifecycleAssumption DEF RlPcs, Phases
<1>5. TypeOK
  <2>1. /\ handle = FALSE /\ hasInbound = FALSE /\ hasOutbound = FALSE /\ core = {}
        /\ leaving = {} /\ stray = {} /\ gc = {} /\ gcCell = "unset"
        /\ starts = 0 /\ reloads = 0 /\ failed = FALSE /\ targets = {}
        /\ outcome = "none"
    BY DEF Init
  <2>2. detached \in [{"in", "out"} \X Accounts -> Nat]
    BY DEF Init
  <2>3. starts \in 0..MaxStarts /\ reloads \in 0..MaxReloads
    BY <2>1, LifecycleAssumption
  <2>4. QED  BY <1>1, <1>2, <1>3, <1>4, <2>1, <2>2, <2>3 DEF TypeOK
<1>6. QED  BY <1>1, <1>2, <1>5, NoReloadType DEF TypeInv, DiffInv

-----------------------------------------------------------------------------
(* What a step does to the reload in progress.                             *)

\* Neither the config nor the rest of the diff changes.
SameDiff(r, s) ==
  /\ r.new = s.new /\ r.removed = s.removed
  /\ r.changed = s.changed /\ r.added = s.added

\* The reload goes on to another await.
LEMMA GoesTo ==
  ASSUME TypeInv, NEW x \in RlPcs, rl' = [rl EXCEPT !.pc = x]
  PROVE  rl' \in Reload /\ rl'.pc = x /\ rl'.at = rl.at /\ SameDiff(rl', rl)
<1>1. rl \in Reload
  BY DEF TypeInv
<1>2. QED  BY <1>1 DEF Reload, SameDiff

\* The reload takes up an account.
LEMMA TakesUp ==
  ASSUME TypeInv, NEW x \in RlPcs, NEW a \in Accounts,
         rl' = [rl EXCEPT !.pc = x, !.at = a]
  PROVE  rl' \in Reload /\ rl'.pc = x /\ rl'.at = a /\ SameDiff(rl', rl)
<1>1. rl \in Reload
  BY DEF TypeInv
<1>2. QED  BY <1>1 DEF Reload, SameDiff

\* The awaits of a reload.
LEMMA ReloadPlaces ==
  /\ "idle" \in RlPcs /\ "next" \in RlPcs /\ "joinOut" \in RlPcs /\ "tearIn" \in RlPcs
  /\ "joinIn" \in RlPcs /\ "cred" \in RlPcs /\ "spawnIn" \in RlPcs /\ "spawnOut" \in RlPcs
BY DEF RlPcs

\* apply_account_diff begins with the whole diff.
LEMMA BeginStep ==
  ASSUME TypeInv, NEW new \in Configs, ReloadBegin(new)
  PROVE  /\ rl.pc = "idle" /\ phase \in {"running", "noop"}
         /\ \/ /\ rl' = rl /\ outcome' = "ok"
               /\ Removed(cfg, new) \cup Changed(cfg, new) \cup Added(cfg, new) = {}
            \/ /\ rl' \in Reload /\ rl'.pc = "next" /\ rl'.new = new /\ rl'.at = Nil
               /\ rl'.removed = Removed(cfg, new) /\ rl'.changed = Changed(cfg, new)
               /\ rl'.added = Added(cfg, new) /\ outcome' = outcome
<1>1. IsConfig(cfg) /\ IsConfig(new)
  BY ConfigsAre DEF TypeInv, TypeOK
<1> DEFINE diff == [pc |-> "next", new |-> new,
                  removed |-> Removed(cfg, new), changed |-> Changed(cfg, new),
                  added |-> Added(cfg, new), at |-> Nil]
<1>2. Removed(cfg, new) \cup Changed(cfg, new) \cup Added(cfg, new) \subseteq Accounts
  BY <1>1, DiffType
<1>3. /\ diff \in Reload /\ diff.pc = "next" /\ diff.new = new /\ diff.at = Nil
      /\ diff.removed = Removed(cfg, new) /\ diff.changed = Changed(cfg, new)
      /\ diff.added = Added(cfg, new)
  BY <1>2 DEF Reload, RlPcs
<1>4. \/ rl' = rl /\ outcome' = "ok" /\ diff.removed \cup diff.changed \cup diff.added = {}
      \/ rl' = diff /\ outcome' = outcome
  BY DEF ReloadBegin
<1>5. QED  BY <1>3, <1>4 DEF ReloadBegin

\* The next account: of a removed or changed one the outbound worker goes first.
LEMMA NextStep ==
  ASSUME TypeInv, NEW a \in Accounts, ReloadNext(a)
  PROVE  /\ rl.pc = "next" /\ rl' \in Reload /\ rl'.at = a /\ SameDiff(rl', rl)
         /\ \/ /\ rl'.pc = "cred" /\ a \in rl.added
               /\ UNCHANGED <<outbound, leaving>>
            \/ /\ rl'.pc = "tearIn" /\ a \in rl.removed \cup rl.changed
               /\ OutboundFree /\ (outbound[a] = Nil \/ ~hasOutbound)
               /\ UNCHANGED <<outbound, leaving>>
            \/ /\ rl'.pc = "joinOut" /\ a \in rl.removed \cup rl.changed
               /\ OutboundFree /\ outbound' = [outbound EXCEPT ![a] = Nil]
               /\ leaving' = leaving \cup {<<"out", a>>}
<1>4. CASE a \in rl.added
  <2>1. rl' = [rl EXCEPT !.pc = "cred", !.at = a] /\ UNCHANGED <<outbound, leaving>>
    BY <1>4 DEF ReloadNext
  <2>2. QED  BY <1>4, <2>1, TakesUp, ReloadPlaces DEF ReloadNext
<1>5. CASE a \notin rl.added
  <2>1. /\ OutboundFree
        /\ \/ /\ outbound[a] = Nil \/ ~hasOutbound
              /\ rl' = [rl EXCEPT !.pc = "tearIn", !.at = a]
              /\ UNCHANGED <<outbound, leaving>>
           \/ /\ rl' = [rl EXCEPT !.pc = "joinOut", !.at = a]
              /\ outbound' = [outbound EXCEPT ![a] = Nil]
              /\ leaving' = leaving \cup {<<"out", a>>}
    BY <1>5 DEF ReloadNext
  <2>2. rl.pc = "next" /\ a \in rl.removed \cup rl.changed
    BY <1>5 DEF ReloadNext
  <2>3. QED  BY <2>1, <2>2, TakesUp, ReloadPlaces
<1>6. QED  BY <1>4, <1>5

\* The outbound worker has ended.
LEMMA JoinOutStep ==
  ASSUME TypeInv, ReloadJoinOut
  PROVE  /\ rl.pc = "joinOut" /\ rl' \in Reload /\ rl'.pc = "tearIn"
         /\ rl'.at = rl.at /\ SameDiff(rl', rl)
BY GoesTo, ReloadPlaces DEF ReloadJoinOut

\* An account that is torn down is done, or spawned again.
LEMMA TornDownStep ==
  ASSUME TypeInv, TornDown
  PROVE  /\ rl' \in Reload /\ rl'.new = rl.new /\ rl'.changed = rl.changed
         /\ rl'.added = rl.added
         /\ \/ /\ rl.at \in rl.removed /\ rl'.pc = "next"
               /\ rl'.removed = rl.removed \ {rl.at} /\ rl'.at = Nil
            \/ /\ rl.at \notin rl.removed /\ rl'.pc = "cred"
               /\ rl'.removed = rl.removed /\ rl'.at = rl.at
<1>1. rl \in Reload
  BY DEF TypeInv
<1>2. CASE rl.at \in rl.removed
  <2>1. rl' = [rl EXCEPT !.pc = "next", !.removed = @ \ {rl.at}, !.at = Nil]
    BY <1>2 DEF TornDown
  <2>2. QED  BY <1>1, <1>2, <2>1 DEF Reload, RlPcs
<1>3. CASE rl.at \notin rl.removed
  <2>1. rl' = [rl EXCEPT !.pc = "cred"]
    BY <1>3 DEF TornDown
  <2>2. QED  BY <1>1, <1>3, <2>1 DEF Reload, RlPcs
<1>4. QED  BY <1>2, <1>3

\* The inbound worker is told to go, or there is none.
LEMMA TearInStep ==
  ASSUME TypeInv, ReloadTearIn
  PROVE  /\ rl.pc = "tearIn" /\ InboundFree
         /\ \/ TornDown /\ inbound[rl.at] = Nil /\ UNCHANGED <<inbound, leaving>>
            \/ /\ rl' \in Reload /\ rl'.pc = "joinIn" /\ rl'.at = rl.at
               /\ SameDiff(rl', rl)
               /\ inbound' = [inbound EXCEPT ![rl.at] = Nil]
               /\ leaving' = leaving \cup {<<"in", rl.at>>}
<1>1. CASE inbound[rl.at] = Nil
  BY <1>1 DEF ReloadTearIn
<1>2. CASE inbound[rl.at] # Nil
  <2>1. /\ rl' = [rl EXCEPT !.pc = "joinIn"]
        /\ inbound' = [inbound EXCEPT ![rl.at] = Nil]
        /\ leaving' = leaving \cup {<<"in", rl.at>>}
    BY <1>2 DEF ReloadTearIn
  <2>2. rl' \in Reload /\ rl'.pc = "joinIn" /\ rl'.at = rl.at /\ SameDiff(rl', rl)
    BY <2>1, GoesTo, ReloadPlaces
  <2>3. QED  BY <2>1, <2>2 DEF ReloadTearIn
<1>3. QED  BY <1>1, <1>2

\* The secret of the account is there, or the reload ends.
LEMMA CheckCredStep ==
  ASSUME TypeInv, ReloadCheckCred
  PROVE  /\ rl.pc = "cred"
         /\ \/ Abandon
            \/ /\ rl' \in Reload /\ rl'.pc = "spawnIn" /\ rl'.at = rl.at
               /\ SameDiff(rl', rl) /\ outcome' = outcome
<1>1. rl.pc = "cred"
  BY DEF ReloadCheckCred
<1>2. CASE rl.at \in creds
  <2>1. rl' = [rl EXCEPT !.pc = "spawnIn"] /\ outcome' = outcome
    BY <1>2 DEF ReloadCheckCred
  <2>2. QED  BY <1>1, <2>1, GoesTo, ReloadPlaces
<1>3. CASE rl.at \notin creds
  BY <1>1, <1>3 DEF ReloadCheckCred
<1>4. QED  BY <1>2, <1>3

\* add_account of the inbound manager: the reload ends, or there is a worker, or
\* one is spawned.
LEMMA SpawnInStep ==
  ASSUME TypeInv, ReloadSpawnIn
  PROVE  /\ rl.pc = "spawnIn" /\ InboundFree
         /\ \/ Abandon /\ ~hasInbound /\ UNCHANGED <<inbound, health>>
            \/ /\ hasInbound /\ outcome' = outcome
               /\ rl' \in Reload /\ rl'.pc = "spawnOut" /\ rl'.at = rl.at
               /\ SameDiff(rl', rl)
               /\ \/ inbound[rl.at] # Nil /\ UNCHANGED <<inbound, health>>
                  \/ /\ inbound[rl.at] = Nil
                     /\ inbound' = [inbound EXCEPT ![rl.at] =
                          [cfg |-> rl.new[rl.at], health |-> FreshHealth(rl.at)]]
                     /\ health' = [health EXCEPT ![rl.at] = FreshHealth(rl.at)]
<1>1. rl.pc = "spawnIn" /\ InboundFree
  BY DEF ReloadSpawnIn
<1>2. CASE ~hasInbound
  BY <1>1, <1>2 DEF ReloadSpawnIn
<1>3. CASE hasInbound
  <2>1. rl' = [rl EXCEPT !.pc = "spawnOut"] /\ outcome' = outcome
    BY <1>3 DEF ReloadSpawnIn
  <2>2. rl' \in Reload /\ rl'.pc = "spawnOut" /\ rl'.at = rl.at /\ SameDiff(rl', rl)
    BY <2>1, GoesTo, ReloadPlaces
  <2>3. \/ inbound[rl.at] # Nil /\ UNCHANGED <<inbound, health>>
        \/ /\ inbound[rl.at] = Nil
           /\ inbound' = [inbound EXCEPT ![rl.at] =
                [cfg |-> rl.new[rl.at], health |-> FreshHealth(rl.at)]]
           /\ health' = [health EXCEPT ![rl.at] = FreshHealth(rl.at)]
    BY <1>3 DEF ReloadSpawnIn
  <2>4. QED  BY <1>1, <1>3, <2>1, <2>2, <2>3
<1>4. QED  BY <1>2, <1>3

\* add_account of the dispatcher: the account is done, or the reload ends.
LEMMA SpawnOutStep ==
  ASSUME TypeInv, ReloadSpawnOut
  PROVE  /\ rl.pc = "spawnOut" /\ OutboundFree
         /\ \/ Abandon /\ UNCHANGED <<outbound, core, health>>
            \/ /\ hasOutbound /\ outcome' = outcome
               /\ rl' \in Reload /\ rl'.pc = "next" /\ rl'.at = Nil
               /\ rl'.new = rl.new /\ rl'.removed = rl.removed
               /\ rl'.changed = rl.changed \ {rl.at} /\ rl'.added = rl.added \ {rl.at}
               /\ \/ outbound[rl.at] # Nil /\ UNCHANGED <<outbound, core, health>>
                  \/ /\ outbound[rl.at] = Nil
                     /\ \E h \in Nat :
                          /\ h = IF health[rl.at] = 0 THEN FreshHealth(rl.at)
                                                      ELSE health[rl.at]
                          /\ outbound' = [outbound EXCEPT ![rl.at] =
                               [cfg |-> rl.new[rl.at], health |-> h]]
                          /\ health' = [health EXCEPT ![rl.at] = h]
                     /\ core' = core \cup {rl.at}
<1> DEFINE a == rl.at
           h == IF health[a] = 0 THEN FreshHealth(a) ELSE health[a]
           rest == [rl EXCEPT !.pc = "next", !.at = Nil,
                         !.changed = @ \ {a}, !.added = @ \ {a}]
<1>1. rl.pc = "spawnOut" /\ OutboundFree
  BY DEF ReloadSpawnOut
<1>2. /\ rest \in Reload /\ rest.pc = "next" /\ rest.at = Nil
      /\ rest.new = rl.new /\ rest.removed = rl.removed
      /\ rest.changed = rl.changed \ {a} /\ rest.added = rl.added \ {a}
  BY DEF TypeInv, Reload, RlPcs
<1>3. a \in Accounts
  BY <1>1 DEF TypeInv, DiffInv, Reload
<1>4. h \in Nat
  <2>1. health \in [Accounts -> Nat]
    BY DEF TypeInv, TypeOK
  <2>2. FreshHealth(a) \in Nat
    BY <1>3, FreshHealthType DEF TypeInv
  <2>3. QED  BY <1>3, <2>1, <2>2
<1>5. \/ Abandon /\ UNCHANGED <<outbound, core, health>>
      \/ /\ hasOutbound /\ outcome' = outcome /\ rl' = rest
         /\ \/ outbound[a] # Nil /\ UNCHANGED <<outbound, core, health>>
            \/ /\ outbound[a] = Nil
               /\ outbound' = [outbound EXCEPT ![a] = [cfg |-> rl.new[a], health |-> h]]
               /\ core' = core \cup {a} /\ health' = [health EXCEPT ![a] = h]
  BY DEF ReloadSpawnOut
<1> HIDE DEF rest, h
<1>6. QED  BY <1>1, <1>2, <1>4, <1>5 DEF h

-----------------------------------------------------------------------------
(* Every action keeps the types.                                           *)

\* A worker that is put in a slot is a task.
LEMMA SpawnType ==
  ASSUME NEW slots \in Slots, NEW c, IsConfig(c), NEW a \in DOMAIN c, NEW h \in Nat
  PROVE  /\ [slots EXCEPT ![a] = [cfg |-> c[a], health |-> h]] \in Slots
         /\ [cfg |-> c[a], health |-> h] # Nil
BY VersionType, LifecycleAssumption DEF Slots, Task

\* The tasks a side holds are tasks of that side.
LEMMA HeldType ==
  ASSUME NEW side \in {"in", "out"}, NEW slots
  PROVE  Held(side, slots) \subseteq {"in", "out"} \X Accounts
BY DEF Held

\* DiffInv while the reload goes on with the same diff.
LEMMA DiffMove ==
  ASSUME TypeInv, UNCHANGED cfg, rl.pc # "idle", rl' \in Reload,
         \/ SameDiff(rl', rl)
         \/ /\ rl'.new = rl.new /\ rl'.removed \subseteq rl.removed
            /\ rl'.changed \subseteq rl.changed /\ rl'.added \subseteq rl.added,
         rl'.pc \in {"joinOut", "tearIn", "joinIn"} => rl'.at \in rl'.removed \cup rl'.changed,
         rl'.pc \in {"cred", "spawnIn", "spawnOut"} => rl'.at \in rl'.changed \cup rl'.added
  PROVE  DiffInv'
BY DEF TypeInv, DiffInv, SameDiff, Removed, Changed, Added

\* No reload, no diff.
LEMMA AbandonStep ==
  ASSUME Abandon
  PROVE  rl' \in Reload /\ rl'.pc = "idle" /\ DiffInv' /\ outcome' = "err"
BY NoReloadType DEF Abandon, DiffInv

\* What a reload step does to the reload record.
LEMMA ReloadKeepsDiff ==
  ASSUME TypeInv, ReloadStep
  PROVE  rl' \in Reload /\ DiffInv' /\ outcome' \in {"none", "ok", "err"}
<1>1. /\ DiffInv /\ rl \in Reload /\ IsConfig(cfg) /\ IsConfig(rl.new)
      /\ outcome \in {"none", "ok", "err"}
  BY DEF TypeInv, TypeOK
<1>2. cfg' = cfg
  BY DEF ReloadStep, ReloadNext, ReloadJoinOut, ReloadTearIn, ReloadJoinIn,
         ReloadCheckCred, ReloadSpawnIn, ReloadSpawnOut, ReloadReturns, coreVars
<1>3. ASSUME NEW a \in Accounts, ReloadNext(a)
      PROVE  rl' \in Reload /\ DiffInv' /\ outcome' = outcome
  <2>1. outcome' = outcome
    BY <1>3 DEF ReloadNext
  <2>2. QED  BY <1>2, <1>3, <2>1, NextStep, DiffMove DEF SameDiff
<1>4. CASE ReloadJoinOut
  <2>1. outcome' = outcome
    BY <1>4 DEF ReloadJoinOut
  <2>2. rl.at \in rl.removed \cup rl.changed
    BY <1>1, <1>4 DEF ReloadJoinOut, DiffInv
  <2>3. QED  BY <1>1, <1>2, <1>4, <2>1, <2>2, JoinOutStep, DiffMove DEF SameDiff
<1>5. ASSUME TornDown, rl.pc \in {"tearIn", "joinIn"}
      PROVE  rl' \in Reload /\ DiffInv'
  <2>1. rl.at \in rl.removed \cup rl.changed
    BY <1>1, <1>5 DEF DiffInv
  <2>2. QED  BY <1>2, <1>5, <2>1, TornDownStep, DiffMove
<1>6. CASE ReloadTearIn
  <2>1. outcome' = outcome
    BY <1>6 DEF ReloadTearIn
  <2>2. rl.at \in rl.removed \cup rl.changed
    BY <1>1, <1>6, TearInStep DEF DiffInv
  <2>3. QED  BY <1>1, <1>2, <1>5, <1>6, <2>1, <2>2, TearInStep, DiffMove DEF SameDiff
<1>7. CASE ReloadJoinIn
  <2>1. outcome' = outcome /\ TornDown /\ rl.pc = "joinIn"
    BY <1>7 DEF ReloadJoinIn
  <2>2. QED  BY <1>1, <1>5, <2>1
<1>8. CASE ReloadCheckCred
  <2>1. rl.at \in rl.changed \cup rl.added
    BY <1>1, <1>8 DEF ReloadCheckCred, DiffInv
  <2>2. QED  BY <1>1, <1>2, <1>8, <2>1, CheckCredStep, AbandonStep, DiffMove DEF SameDiff
<1>9. CASE ReloadSpawnIn
  <2>1. rl.at \in rl.changed \cup rl.added
    BY <1>1, <1>9 DEF ReloadSpawnIn, DiffInv
  <2>2. QED  BY <1>1, <1>2, <1>9, <2>1, SpawnInStep, AbandonStep, DiffMove DEF SameDiff
<1>10. CASE ReloadSpawnOut
  BY <1>1, <1>2, <1>10, SpawnOutStep, AbandonStep, DiffMove
<1>11. CASE ReloadReturns
  BY <1>11, NoReloadType DEF ReloadReturns, DiffInv
<1>12. QED
  BY <1>1, <1>3, <1>4, <1>6, <1>7, <1>8, <1>9, <1>10, <1>11 DEF ReloadStep

\* Types that only a few actions touch: slots, health, tasks.
SlotsOK ==
  /\ inbound \in Slots /\ outbound \in Slots /\ core \subseteq Accounts
  /\ health \in [Accounts -> Nat]
  /\ leaving \subseteq {"in", "out"} \X Accounts
  /\ detached \in [{"in", "out"} \X Accounts -> Nat]
  /\ stray \subseteq {"in", "out"} \X Accounts

\* A reload step keeps them.
LEMMA ReloadKeepsSlots ==
  ASSUME TypeInv, ReloadStep
  PROVE  SlotsOK'
<1>1. /\ inbound \in Slots /\ outbound \in Slots /\ core \subseteq Accounts
      /\ health \in [Accounts -> Nat]
      /\ leaving \subseteq {"in", "out"} \X Accounts
      /\ detached \in [{"in", "out"} \X Accounts -> Nat]
      /\ stray \subseteq {"in", "out"} \X Accounts
      /\ DiffInv /\ rl \in Reload /\ IsConfig(cfg) /\ IsConfig(rl.new)
  BY DEF TypeInv, TypeOK
<1>2. rl.pc \in {"spawnIn", "spawnOut"} => rl.at \in DOMAIN rl.new /\ rl.at \in Accounts
  BY <1>1, DiffType, VersionType DEF DiffInv
<1>3. rl.pc \in {"joinOut", "tearIn", "joinIn"} => rl.at \in Accounts
  BY <1>1 DEF DiffInv, Reload
<1>4. ASSUME NEW a \in Accounts, ReloadNext(a) PROVE SlotsOK'
  <2>1. UNCHANGED <<inbound, core, health, detached, stray>>
    BY <1>4 DEF ReloadNext, inVars
  <2>2. outbound' \in Slots /\ leaving' \subseteq {"in", "out"} \X Accounts
    BY <1>1, <1>4, NextStep DEF Slots
  <2>3. QED  BY <1>1, <2>1, <2>2 DEF SlotsOK
<1>5. CASE ReloadJoinOut
  <2>1. /\ UNCHANGED <<inbound, outbound, health, leaving, detached, stray>>
        /\ core' \subseteq Accounts
    BY <1>1, <1>5 DEF ReloadJoinOut, inVars, taskVars
  <2>2. QED  BY <1>1, <2>1 DEF SlotsOK
<1>6. CASE ReloadTearIn
  <2>1. UNCHANGED <<outbound, core, health, detached, stray>>
    BY <1>6 DEF ReloadTearIn, outVars
  <2>2. inbound' \in Slots /\ leaving' \subseteq {"in", "out"} \X Accounts
    BY <1>1, <1>3, <1>6, TearInStep DEF Slots
  <2>3. QED  BY <1>1, <2>1, <2>2 DEF SlotsOK
<1>7. CASE ReloadJoinIn
  <2>1. UNCHANGED <<inbound, outbound, core, leaving, detached, stray>>
        /\ health' \in [Accounts -> Nat]
    BY <1>1, <1>7 DEF ReloadJoinIn, inVars, outVars, taskVars
  <2>2. QED  BY <1>1, <2>1 DEF SlotsOK
<1>8. CASE ReloadCheckCred \/ ReloadReturns
  BY <1>1, <1>8 DEF ReloadCheckCred, ReloadReturns, inVars, outVars, taskVars, SlotsOK
<1>9. CASE ReloadSpawnIn
  <2>1. UNCHANGED <<outbound, core, leaving, detached, stray>>
    BY <1>9 DEF ReloadSpawnIn, outVars, taskVars
  <2>2. FreshHealth(rl.at) \in Nat
    BY <1>2, <1>9, FreshHealthType DEF TypeInv, ReloadSpawnIn
  <2>3. inbound' \in Slots /\ health' \in [Accounts -> Nat]
    <3>1. [inbound EXCEPT ![rl.at] =
             [cfg |-> rl.new[rl.at], health |-> FreshHealth(rl.at)]] \in Slots
      BY <1>1, <1>2, <1>9, <2>2, SpawnType DEF ReloadSpawnIn
    <3>2. QED  BY <1>1, <1>9, <2>2, <3>1, SpawnInStep
  <2>4. QED  BY <1>1, <2>1, <2>3 DEF SlotsOK
<1>10. CASE ReloadSpawnOut
  <2>1. UNCHANGED <<inbound, leaving, detached, stray>> /\ rl.pc = "spawnOut"
    BY <1>10 DEF ReloadSpawnOut, inVars, taskVars
  <2>2. ASSUME NEW h \in Nat
        PROVE  /\ [outbound EXCEPT ![rl.at] = [cfg |-> rl.new[rl.at], health |-> h]] \in Slots
               /\ [health EXCEPT ![rl.at] = h] \in [Accounts -> Nat]
    BY <1>1, <1>2, <2>1, SpawnType
  <2>3. outbound' \in Slots /\ health' \in [Accounts -> Nat] /\ core' \subseteq Accounts
    <3>1. \/ UNCHANGED <<outbound, core, health>>
          \/ \E h \in Nat :
               /\ outbound' = [outbound EXCEPT ![rl.at] =
                    [cfg |-> rl.new[rl.at], health |-> h]]
               /\ health' = [health EXCEPT ![rl.at] = h]
               /\ core' = core \cup {rl.at}
      BY <1>10, SpawnOutStep
    <3>2. CASE UNCHANGED <<outbound, core, health>>
      BY <1>1, <3>2
    <3>3. ASSUME NEW h \in Nat,
                 outbound' = [outbound EXCEPT ![rl.at] =
                    [cfg |-> rl.new[rl.at], health |-> h]],
                 health' = [health EXCEPT ![rl.at] = h],
                 core' = core \cup {rl.at}
          PROVE  outbound' \in Slots /\ health' \in [Accounts -> Nat] /\ core' \subseteq Accounts
      BY <1>1, <1>2, <2>1, <2>2, <3>3
    <3>4. QED  BY <3>1, <3>2, <3>3
  <2>4. QED  BY <1>1, <2>1, <2>3 DEF SlotsOK
<1>11. QED
  BY <1>4, <1>5, <1>6, <1>7, <1>8, <1>9, <1>10 DEF ReloadStep

\* What a reload step leaves alone.
LEMMA ReloadFrame ==
  ASSUME ReloadStep
  PROVE  UNCHANGED <<coreVars, hasInbound, hasOutbound, detached, stray, gcVars, lifeVars,
                     goalVars>>
BY DEF ReloadStep, ReloadNext, ReloadJoinOut, ReloadTearIn, ReloadJoinIn,
       ReloadCheckCred, ReloadSpawnIn, ReloadSpawnOut, ReloadReturns,
       coreVars, inVars, outVars, taskVars, gcVars, lifeVars, goalVars

\* What an end of a worker, or of a join, leaves alone: all but the tasks.
LEMMA WorkerFrame ==
  ASSUME NEW t, WorkerStep(t)
  PROVE  /\ UNCHANGED <<coreVars, inVars, outVars, health, stray, gcVars, lifeVars, rlVars>>
         /\ leaving' \subseteq leaving
<1> USE DEF coreVars, inVars, outVars, gcVars, lifeVars, rlVars, goalVars
<1>1. CASE WorkerEnds(t)
  BY <1>1 DEF WorkerEnds
<1>2. CASE JoinExpires(t)
  BY <1>2 DEF JoinExpires
<1>3. CASE DetachedEnds(t)
  BY <1>3 DEF DetachedEnds
<1>4. QED  BY <1>1, <1>2, <1>3 DEF WorkerStep

\* How many tasks have outlived their join stays a number.
LEMMA DetachedType ==
  ASSUME NEW t \in {"in", "out"} \X Accounts, WorkerStep(t),
         detached \in [{"in", "out"} \X Accounts -> Nat]
  PROVE  detached' \in [{"in", "out"} \X Accounts -> Nat]
<1>1. CASE WorkerEnds(t)
  BY <1>1 DEF WorkerEnds
<1>2. CASE JoinExpires(t)
  BY <1>2 DEF JoinExpires
<1>3. CASE DetachedEnds(t)
  <2>1. detached[t] \in Nat /\ detached[t] > 0
    BY <1>3 DEF DetachedEnds
  <2>2. detached[t] - 1 \in Nat
    BY <2>1
  <2>3. QED  BY <1>3, <2>2 DEF DetachedEnds
<1>4. QED  BY <1>1, <1>2, <1>3 DEF WorkerStep

\* Every action keeps the types.
LEMMA TypeNext == TypeInv /\ [Next]_vars => TypeInv'
<1> SUFFICES ASSUME TypeInv, [Next]_vars PROVE TypeInv'
  OBVIOUS
<1> USE DEF coreVars, inVars, outVars, taskVars, gcVars, lifeVars, goalVars, rlVars
<1>1. /\ TypeOK /\ rl \in Reload /\ DiffInv /\ SlotsOK
      /\ phase = "starting" => todo \subseteq DOMAIN cfg
  BY DEF TypeInv, TypeOK, SlotsOK
<1>2. UNCHANGED <<cfg, rl>> => DiffInv' /\ rl' \in Reload
  BY <1>1 DEF DiffInv
<1>3. CASE ReloadStep
  <2>1. rl' \in Reload /\ DiffInv' /\ outcome' \in {"none", "ok", "err"} /\ SlotsOK'
    BY <1>3, ReloadKeepsDiff, ReloadKeepsSlots
  <2>2. /\ rl'.pc \in RlPcs /\ IsConfig(rl'.new) /\ rl'.at \in Accounts \cup {Nil}
        /\ rl'.removed \cup rl'.changed \cup rl'.added \subseteq Accounts
    BY <2>1, ConfigsAre DEF Reload
  <2>3. QED  BY <1>1, <1>3, <2>1, <2>2, ReloadFrame DEF TypeInv, TypeOK, SlotsOK
<1>4. ASSUME NEW new \in Configs, ReloadBegin(new) PROVE TypeInv'
  <2>1. rl' \in Reload /\ DiffInv' /\ outcome' \in {"none", "ok", "err"}
    <3>1. cfg' = cfg
      BY <1>4 DEF ReloadBegin
    <3>2. QED  BY <1>1, <1>4, <3>1, BeginStep DEF DiffInv, TypeOK
  <2>2. /\ rl'.pc \in RlPcs /\ IsConfig(rl'.new) /\ rl'.at \in Accounts \cup {Nil}
        /\ rl'.removed \cup rl'.changed \cup rl'.added \subseteq Accounts
    BY <2>1, ConfigsAre DEF Reload
  <2>3. /\ reloads' \in 0..MaxReloads /\ targets' \subseteq Configs /\ IsConfig(latest')
    BY <1>1, <1>4, ConfigsAre, LifecycleAssumption DEF ReloadBegin, TypeOK
  <2>4. UNCHANGED <<coreVars, inVars, outVars, health, taskVars, gcVars, lifeVars>>
    BY <1>4 DEF ReloadBegin
  <2>5. QED  BY <1>1, <2>1, <2>2, <2>3, <2>4 DEF TypeInv, TypeOK
<1>5. CASE BootFails \/ StartNoop \/ StartDone \/ SetRuntimeHandle \/ StopBegin \/ StopJoined
  <2>1. (phase' \in Phases /\ phase' # "starting") \/ phase' = phase
    BY <1>1, <1>5
       DEF TypeOK, BootFails, StartNoop, StartDone, SetRuntimeHandle, StopBegin,
           StopJoined, Phases
  <2>2. /\ handle' \in BOOLEAN /\ hasOutbound' \in BOOLEAN /\ failed' \in BOOLEAN
        /\ gc' \subseteq {"own", "other"} /\ gcCell' \in {"unset", "armed", "cancelled"}
    BY <1>1, <1>5
       DEF TypeOK, BootFails, StartNoop, StartDone, SetRuntimeHandle, StopBegin, StopJoined
  <2>3. starts' \in 0..MaxStarts
    <3>1. starts' = starts \/ (starts < MaxStarts /\ starts' = starts + 1)
      BY <1>5 DEF BootFails, StartNoop, StartDone, SetRuntimeHandle, StopBegin, StopJoined
    <3>2. QED  BY <1>1, <3>1, LifecycleAssumption DEF TypeOK
  <2>4. UNCHANGED <<cfg, enabled, creds, inVars, outbound, core, health, taskVars, todo,
                    rl, reloads, targets, latest, outcome>>
    BY <1>5 DEF BootFails, StartNoop, StartDone, SetRuntimeHandle, StopBegin, StopJoined
  <2>5. QED  BY <1>1, <1>2, <2>1, <2>2, <2>3, <2>4 DEF TypeInv, TypeOK
<1>6. ASSUME NEW withGc \in BOOLEAN, StartInbound(withGc) PROVE TypeInv'
  <2>1. /\ phase' \in Phases /\ starts' \in 0..MaxStarts /\ phase' = "starting"
        /\ gc' \subseteq {"own", "other"} /\ gcCell' \in {"unset", "armed", "cancelled"}
        /\ todo' = DOMAIN cfg /\ core' = {} /\ targets' = {} /\ hasInbound' = TRUE
        /\ outcome' = "none"
    BY <1>1, <1>6, LifecycleAssumption DEF TypeOK, StartInbound, Phases
  <2>2. inbound' \in Slots /\ health' \in [Accounts -> Nat]
    BY <1>1, <1>6, VersionType DEF StartInbound, TypeOK, Slots, Task
  <2>3. IsConfig(latest') /\ todo' \subseteq Accounts
    BY <1>1, <1>6, ConfigsAre DEF StartInbound, TypeOK, IsConfig
  <2>4. UNCHANGED <<coreVars, outbound, hasOutbound, taskVars, handle, failed, rl, reloads>>
    BY <1>6 DEF StartInbound
  <2>5. QED  BY <1>1, <1>2, <2>1, <2>2, <2>3, <2>4 DEF TypeInv, TypeOK
<1>7. ASSUME NEW a \in Accounts, StartOutbound(a) PROVE TypeInv'
  <2>1. a \in DOMAIN cfg /\ health[a] \in Nat /\ IsConfig(cfg)
    BY <1>1, <1>7 DEF StartOutbound, TypeOK
  <2>2. [outbound EXCEPT ![a] = [cfg |-> cfg[a], health |-> health[a]]] \in Slots
    BY <1>1, <2>1, SpawnType DEF SlotsOK
  <2>3. NoTasks \in Slots
    BY DEF NoTasks, Slots
  <2>4. /\ outbound' \in Slots /\ core' \subseteq Accounts
        /\ stray' \subseteq {"in", "out"} \X Accounts
        /\ todo' \subseteq todo /\ phase' \in {"starting", "failed"} /\ failed' \in BOOLEAN
    BY <1>1, <1>7, <2>2, <2>3, HeldType DEF StartOutbound, TypeOK
  <2>5. UNCHANGED <<coreVars, inVars, hasOutbound, health, leaving, detached, gcVars,
                    handle, starts, rlVars>>
    BY <1>7 DEF StartOutbound
  <2>6. phase = "starting" /\ phase' \in Phases
    BY <1>7, <2>4 DEF StartOutbound, Phases
  <2>7. QED  BY <1>1, <1>2, <2>4, <2>5, <2>6 DEF TypeInv, TypeOK
<1>8. CASE StopOutbound
  <2>1. /\ outbound' \in Slots /\ leaving' \subseteq {"in", "out"} \X Accounts
        /\ hasOutbound' = FALSE /\ core' = {} /\ phase' = "stopJoinOut" /\ phase' \in Phases
    BY <1>1, <1>8, HeldType DEF StopOutbound, TypeOK, NoTasks, Slots, Phases
  <2>2. UNCHANGED <<coreVars, inVars, health, detached, stray, gcVars, todo,
                    handle, starts, failed, rlVars>>
    BY <1>8 DEF StopOutbound
  <2>3. QED  BY <1>1, <1>2, <2>1, <2>2 DEF TypeInv, TypeOK
<1>9. CASE StopInbound
  <2>1. /\ inbound' \in Slots /\ leaving' \subseteq {"in", "out"} \X Accounts
        /\ hasInbound' = FALSE /\ health' \in [Accounts -> Nat]
        /\ phase' = "stopJoinIn" /\ phase' \in Phases
    BY <1>1, <1>9, HeldType DEF StopInbound, TypeOK, NoTasks, Slots, Phases
  <2>2. UNCHANGED <<coreVars, outVars, detached, stray, gcVars, todo, handle, starts,
                    failed, rlVars>>
    BY <1>9 DEF StopInbound
  <2>3. QED  BY <1>1, <1>2, <2>1, <2>2 DEF TypeInv, TypeOK
<1>10. ASSUME NEW t \in {"in", "out"} \X Accounts, WorkerStep(t) PROVE TypeInv'
  <2>1. leaving' \subseteq leaving /\ detached' \in [{"in", "out"} \X Accounts -> Nat]
    BY <1>1, <1>10, WorkerFrame, DetachedType DEF SlotsOK
  <2>2. UNCHANGED <<coreVars, inVars, outVars, health, stray, gcVars, lifeVars, rlVars>>
    BY <1>10, WorkerFrame
  <2>3. QED  BY <1>1, <1>2, <2>1, <2>2 DEF TypeInv, TypeOK
<1>11. CASE UNCHANGED vars
  BY <1>1, <1>2, <1>11 DEF vars, TypeInv, TypeOK
<1>12. QED
  BY <1>3, <1>4, <1>5, <1>6, <1>7, <1>8, <1>9, <1>10, <1>11
     DEF Next, StartStep, StopStep

\* Every variable keeps its type, for any accounts and configs.
THEOREM TypeCorrect == Spec => []TypeOK
<1>1. TypeInv => TypeOK
  BY DEF TypeInv
<1>2. QED  BY <1>1, TypeInit, TypeNext, PTL DEF Spec

-----------------------------------------------------------------------------
(* The order of locks and joins.                                           *)

\* Who waits for the tasks that are leaving.
LeaveInv ==
  /\ \A a \in Accounts :
       /\ <<"out", a>> \in leaving =>
            (rl.pc = "joinOut" /\ rl.at = a) \/ phase = "stopJoinOut"
       /\ <<"in", a>> \in leaving =>
            (rl.pc = "joinIn" /\ rl.at = a) \/ phase = "stopJoinIn"
  /\ phase \in {"new", "starting", "failed"} => rl.pc = "idle"

\* What an action may do to the tasks of an account: nothing, or as below.
LEMMA LeaveNext == TypeInv /\ LeaveInv /\ [Next]_vars => LeaveInv'
<1> SUFFICES ASSUME TypeInv, LeaveInv, [Next]_vars PROVE LeaveInv'
  OBVIOUS
<1> USE DEF coreVars, inVars, outVars, taskVars, gcVars, lifeVars, goalVars, rlVars
<1>1. /\ \A a \in Accounts :
           /\ <<"out", a>> \in leaving =>
                (rl.pc = "joinOut" /\ rl.at = a) \/ phase = "stopJoinOut"
           /\ <<"in", a>> \in leaving =>
                (rl.pc = "joinIn" /\ rl.at = a) \/ phase = "stopJoinIn"
      /\ phase \in {"new", "starting", "failed"} => rl.pc = "idle"
  BY DEF LeaveInv
\* Calls that take no task away.
<1>2. ASSUME UNCHANGED <<leaving, rl>>, phase \notin {"stopJoinOut", "stopJoinIn"},
             phase' \in {"new", "starting", "failed"} => rl.pc = "idle"
      PROVE  LeaveInv'
  BY <1>1, <1>2 DEF LeaveInv
<1>3. CASE BootFails \/ StartNoop \/ StartDone \/ SetRuntimeHandle \/ StopBegin
  BY <1>1, <1>2, <1>3 DEF BootFails, StartNoop, StartDone, SetRuntimeHandle, StopBegin
<1>4. ASSUME NEW withGc \in BOOLEAN, StartInbound(withGc) PROVE LeaveInv'
  BY <1>1, <1>2, <1>4 DEF StartInbound
<1>5. ASSUME NEW a \in Accounts, StartOutbound(a) PROVE LeaveInv'
  BY <1>1, <1>2, <1>5 DEF StartOutbound
<1>6. CASE StopJoined
  BY <1>1, <1>6 DEF StopJoined, LeaveInv
<1>7. CASE StopOutbound
  BY <1>1, <1>7 DEF StopOutbound, LeaveInv, Held
<1>8. CASE StopInbound
  BY <1>1, <1>8 DEF StopInbound, LeaveInv, Held
<1>9. ASSUME NEW t \in {"in", "out"} \X Accounts, WorkerStep(t) PROVE LeaveInv'
  BY <1>1, <1>9, WorkerFrame DEF LeaveInv
<1>10. ASSUME NEW new \in Configs, ReloadBegin(new) PROVE LeaveInv'
  <2>1. UNCHANGED <<leaving, phase>>
    BY <1>10 DEF ReloadBegin
  <2>2. QED  BY <1>1, <1>10, <2>1, BeginStep DEF LeaveInv
<1>11. CASE ReloadStep
  <2>1. phase' = phase /\ rl.pc # "idle"
    BY <1>11, ReloadFrame
       DEF ReloadStep, ReloadNext, ReloadJoinOut, ReloadTearIn, ReloadJoinIn,
           ReloadCheckCred, ReloadSpawnIn, ReloadSpawnOut, ReloadReturns
  <2>2. ASSUME NEW a \in Accounts, ReloadNext(a) PROVE LeaveInv'
    BY <1>1, <2>1, <2>2, NextStep DEF LeaveInv, OutboundFree
  <2>3. CASE ReloadJoinOut
    <3>1. UNCHANGED leaving /\ <<"out", rl.at>> \notin leaving
      BY <2>3 DEF ReloadJoinOut
    <3>2. QED  BY <1>1, <2>1, <2>3, <3>1, JoinOutStep DEF LeaveInv
  <2>4. CASE ReloadTearIn
    BY <1>1, <2>1, <2>4, TearInStep, TornDownStep DEF LeaveInv, InboundFree
  <2>5. CASE ReloadJoinIn
    <3>1. UNCHANGED leaving /\ <<"in", rl.at>> \notin leaving /\ TornDown /\ rl.pc = "joinIn"
      BY <2>5 DEF ReloadJoinIn
    <3>2. QED  BY <1>1, <2>1, <3>1, TornDownStep DEF LeaveInv
  <2>6. ASSUME UNCHANGED leaving, rl.pc \notin {"joinOut", "joinIn"} PROVE LeaveInv'
    BY <1>1, <2>1, <2>6 DEF LeaveInv
  <2>7. CASE ReloadCheckCred \/ ReloadSpawnIn \/ ReloadSpawnOut \/ ReloadReturns
    BY <2>6, <2>7 DEF ReloadCheckCred, ReloadSpawnIn, ReloadSpawnOut, ReloadReturns
  <2>8. QED  BY <1>11, <2>2, <2>3, <2>4, <2>5, <2>7 DEF ReloadStep
<1>12. CASE UNCHANGED vars
  BY <1>1, <1>12 DEF vars, LeaveInv
<1>13. QED
  BY <1>3, <1>4, <1>5, <1>6, <1>7, <1>8, <1>9, <1>10, <1>11, <1>12
     DEF Next, StartStep, StopStep

\* Base case.
LEMMA LeaveInit == Init => LeaveInv
BY NoReloadType DEF Init, LeaveInv

\* OneWorkerPerSide, without the sum.
Apart ==
  \A a \in Accounts, side \in {"in", "out"} :
    /\ ~(Slotted(side)[a] # Nil /\ <<side, a>> \in leaving)
    /\ <<side, a>> \in stray => failed

\* Apart says the same.
LEMMA ApartIsOne == Apart <=> OneWorkerPerSide
<1>1. ASSUME NEW a \in Accounts, NEW side \in {"in", "out"}
      PROVE  Workers(side, a) <= 1 <=> ~(Slotted(side)[a] # Nil /\ <<side, a>> \in leaving)
  BY DEF Workers
<1>2. QED  BY <1>1 DEF Apart, OneWorkerPerSide

\* Apart in one step: a slot is filled only when no task of that side
\* is on its way out.
LEMMA OneWorkerNext ==
  TypeInv /\ LeaveInv /\ Apart /\ [Next]_vars => Apart'
<1> SUFFICES ASSUME TypeInv, LeaveInv, Apart, [Next]_vars
             PROVE  Apart'
  OBVIOUS
<1> USE DEF coreVars, inVars, outVars, taskVars, gcVars, lifeVars, goalVars, rlVars
<1>1. /\ \A a \in Accounts :
           /\ ~(inbound[a] # Nil /\ <<"in", a>> \in leaving)
           /\ ~(outbound[a] # Nil /\ <<"out", a>> \in leaving)
           /\ \A side \in {"in", "out"} : <<side, a>> \in stray => failed
      /\ inbound \in Slots /\ outbound \in Slots /\ rl \in Reload /\ DiffInv
  BY DEF Apart, Slotted, TypeInv, TypeOK
<1>2. ASSUME \A a \in Accounts :
               /\ ~(inbound'[a] # Nil /\ <<"in", a>> \in leaving')
               /\ ~(outbound'[a] # Nil /\ <<"out", a>> \in leaving'),
             \/ UNCHANGED <<stray, failed>>
             \/ failed'
      PROVE  Apart'
  <2>1. SUFFICES ASSUME NEW a \in Accounts, NEW side \in {"in", "out"}
                 PROVE  /\ ~(Slotted(side)[a] # Nil /\ <<side, a>> \in leaving)'
                        /\ (<<side, a>> \in stray => failed)'
    BY DEF Apart
  <2>2. ~(Slotted(side)[a] # Nil /\ <<side, a>> \in leaving)'
    <3>1. CASE side = "in"
      BY <1>2, <3>1 DEF Slotted
    <3>2. CASE side = "out"
      BY <1>2, <3>2 DEF Slotted
    <3>3. QED  BY <3>1, <3>2
  <2>3. (<<side, a>> \in stray => failed)'
    <3>1. CASE UNCHANGED <<stray, failed>>
      BY <1>1, <3>1
    <3>2. CASE failed'
      BY <3>2
    <3>3. QED  BY <1>2, <3>1, <3>2
  <2>4. QED  BY <2>2, <2>3
<1>3. CASE BootFails
  BY <1>1, <1>2, <1>3 DEF BootFails
<1>4. CASE StartNoop \/ StartDone \/ SetRuntimeHandle \/ StopBegin \/ StopJoined
  BY <1>1, <1>2, <1>4 DEF StartNoop, StartDone, SetRuntimeHandle, StopBegin, StopJoined
<1>5. ASSUME NEW withGc \in BOOLEAN, StartInbound(withGc) PROVE Apart'
  <2>1. \A a \in Accounts : <<"in", a>> \notin leaving
    BY <1>5 DEF StartInbound, LeaveInv
  <2>2. UNCHANGED <<leaving, outbound, stray, failed>>
    BY <1>5 DEF StartInbound
  <2>3. QED  BY <1>1, <1>2, <2>1, <2>2
<1>6. ASSUME NEW a \in Accounts, StartOutbound(a) PROVE Apart'
  <2>1. <<"out", a>> \notin leaving
    BY <1>6 DEF StartOutbound, LeaveInv
  <2>2. /\ UNCHANGED <<leaving, inbound>>
        /\ \A b \in Accounts : b # a => outbound'[b] = Nil \/ outbound'[b] = outbound[b]
        /\ UNCHANGED <<stray, failed>> \/ failed'
    BY <1>1, <1>6 DEF StartOutbound, NoTasks, Slots
  <2>3. QED  BY <1>1, <1>2, <2>1, <2>2
<1>7. CASE StopOutbound
  <2>1. /\ UNCHANGED <<inbound, stray, failed>> /\ \A a \in Accounts : outbound'[a] = Nil
        /\ \A a \in Accounts : <<"in", a>> \in leaving' => <<"in", a>> \in leaving
    BY <1>7 DEF StopOutbound, NoTasks, Held
  <2>2. QED  BY <1>1, <1>2, <2>1
<1>8. CASE StopInbound
  <2>1. /\ UNCHANGED <<outbound, stray, failed>> /\ \A a \in Accounts : inbound'[a] = Nil
        /\ \A a \in Accounts : <<"out", a>> \in leaving' => <<"out", a>> \in leaving
    BY <1>8 DEF StopInbound, NoTasks, Held
  <2>2. QED  BY <1>1, <1>2, <2>1
<1>9. ASSUME NEW t \in {"in", "out"} \X Accounts, WorkerStep(t) PROVE Apart'
  <2>1. UNCHANGED <<inbound, outbound, stray, failed>> /\ leaving' \subseteq leaving
    BY <1>9, WorkerFrame
  <2>2. QED  BY <1>1, <1>2, <2>1
<1>10. ASSUME NEW new \in Configs, ReloadBegin(new) PROVE Apart'
  <2>1. UNCHANGED <<inbound, outbound, stray, failed, leaving>>
    BY <1>10 DEF ReloadBegin
  <2>2. QED  BY <1>1, <1>2, <2>1
<1>11. CASE ReloadStep
  <2>1. UNCHANGED <<stray, failed>>
    BY <1>11, ReloadFrame
  <2>2. ASSUME NEW a \in Accounts, ReloadNext(a) PROVE Apart'
    <3>1. inbound' = inbound
      BY <2>2 DEF ReloadNext
    <3>2. /\ \A b \in Accounts : outbound'[b] = outbound[b] \/ (b = a /\ outbound'[b] = Nil)
          /\ \A b \in Accounts : <<"in", b>> \in leaving' => <<"in", b>> \in leaving
          /\ \A b \in Accounts : <<"out", b>> \in leaving' =>
               <<"out", b>> \in leaving \/ (b = a /\ outbound'[b] = Nil)
      BY <1>1, <2>2, NextStep DEF Slots
    <3>3. QED  BY <1>1, <1>2, <2>1, <3>1, <3>2
  <2>3. CASE ReloadJoinOut \/ ReloadJoinIn \/ ReloadCheckCred \/ ReloadReturns
    BY <1>1, <1>2, <2>1, <2>3 DEF ReloadJoinOut, ReloadJoinIn, ReloadCheckCred, ReloadReturns
  <2>4. CASE ReloadTearIn
    <3>1. outbound' = outbound
      BY <2>4 DEF ReloadTearIn
    <3>2. rl.at \in Accounts
      BY <1>1, <2>4, TearInStep DEF DiffInv, Reload
    <3>3. /\ \A b \in Accounts : inbound'[b] = inbound[b] \/ (b = rl.at /\ inbound'[b] = Nil)
          /\ \A b \in Accounts : <<"out", b>> \in leaving' => <<"out", b>> \in leaving
          /\ \A b \in Accounts : <<"in", b>> \in leaving' =>
               <<"in", b>> \in leaving \/ (b = rl.at /\ inbound'[b] = Nil)
      BY <1>1, <2>4, <3>2, TearInStep DEF Slots
    <3>4. QED  BY <1>1, <1>2, <2>1, <3>1, <3>3
  <2>5. CASE ReloadSpawnIn
    <3>1. UNCHANGED <<outbound, leaving>>
      BY <2>5 DEF ReloadSpawnIn
    <3>2. <<"in", rl.at>> \notin leaving
      BY <1>1, <2>5, SpawnInStep DEF LeaveInv, InboundFree, DiffInv, Reload
    <3>3. \A b \in Accounts : b # rl.at => inbound'[b] = inbound[b]
      BY <1>1, <2>5, SpawnInStep DEF Slots
    <3>4. QED  BY <1>1, <1>2, <2>1, <3>1, <3>2, <3>3
  <2>6. CASE ReloadSpawnOut
    <3>1. UNCHANGED <<inbound, leaving>>
      BY <2>6 DEF ReloadSpawnOut
    <3>2. <<"out", rl.at>> \notin leaving
      BY <1>1, <2>6, SpawnOutStep DEF LeaveInv, OutboundFree, DiffInv, Reload
    <3>3. \A b \in Accounts : b # rl.at => outbound'[b] = outbound[b]
      BY <1>1, <2>6, SpawnOutStep DEF Slots
    <3>4. QED  BY <1>1, <1>2, <2>1, <3>1, <3>2, <3>3
  <2>7. QED  BY <1>11, <2>2, <2>3, <2>4, <2>5, <2>6 DEF ReloadStep
<1>12. CASE UNCHANGED vars
  BY <1>1, <1>2, <1>12 DEF vars
<1>13. QED
  BY <1>3, <1>4, <1>5, <1>6, <1>7, <1>8, <1>9, <1>10, <1>11, <1>12
     DEF Next, StartStep, StopStep

\* A reload, a failed start and a stop never let a worker of an account start
\* while the old one of its side is still waited for (plugin.rs:200-205,
\* outbound.rs:276, inbound.rs:105), whether or not workers outlive their joins.
THEOREM OneWorkerEach == Spec => []OneWorkerPerSide
<1>1. Init => TypeInv /\ LeaveInv /\ Apart
  <2>1. Init => Apart
    BY DEF Init, Apart, Slotted
  <2>2. QED  BY <2>1, TypeInit, LeaveInit
<1>2. TypeInv /\ LeaveInv /\ Apart /\ [Next]_vars => (TypeInv /\ LeaveInv /\ Apart)'
  BY TypeNext, LeaveNext, OneWorkerNext
<1>3. QED  BY <1>1, <1>2, ApartIsOne, PTL DEF Spec

\* No worker has outlived its join.
NoneDetached == \A t \in {"in", "out"} \X Accounts : detached[t] = 0

\* Only the timer of a join detaches a worker.
LEMMA DetachedNext ==
  ASSUME ~JoinTimesOut
  PROVE  NoneDetached /\ [Next]_vars => NoneDetached'
<1> SUFFICES ASSUME NoneDetached, [Next]_vars PROVE NoneDetached'
  OBVIOUS
<1> USE DEF coreVars, inVars, outVars, taskVars, gcVars, lifeVars, goalVars, rlVars
<1>1. ASSUME NEW t \in {"in", "out"} \X Accounts, WorkerStep(t) PROVE UNCHANGED detached
  <2>1. ~JoinExpires(t) /\ ~DetachedEnds(t)
    BY DEF JoinExpires, DetachedEnds, NoneDetached
  <2>2. QED  BY <1>1, <2>1 DEF WorkerStep, WorkerEnds
<1>2. ASSUME BootFails \/ StartNoop \/ SetRuntimeHandle \/ StartStep PROVE UNCHANGED detached
  BY <1>2 DEF BootFails, StartNoop, SetRuntimeHandle, StartStep, StartOutbound, StartDone
<1>3. ASSUME NEW withGc \in BOOLEAN, StartInbound(withGc) PROVE UNCHANGED detached
  BY <1>3 DEF StartInbound
<1>4. ASSUME StopBegin \/ StopStep PROVE UNCHANGED detached
  BY <1>4 DEF StopBegin, StopStep, StopOutbound, StopInbound, StopJoined
<1>5. ASSUME NEW new \in Configs, ReloadBegin(new) PROVE UNCHANGED detached
  BY <1>5 DEF ReloadBegin
<1>6. ASSUME ReloadStep PROVE UNCHANGED detached
  BY <1>6, ReloadFrame
<1>7. ASSUME UNCHANGED vars PROVE UNCHANGED detached
  BY <1>7 DEF vars
<1>8. UNCHANGED detached
  BY <1>1, <1>2, <1>3, <1>4, <1>5, <1>6, <1>7 DEF Next
<1>9. QED  BY <1>8 DEF NoneDetached

\* What plugin.rs:200-205 promises, on the condition it leaves out: if every
\* cancelled worker ends within the 5 s of its join, no worker of an account
\* starts while an old one of its side runs.
THEOREM NoTwoWorkers ==
  ASSUME ~JoinTimesOut
  PROVE  Spec => []NoCollision
<1>1. Init => NoneDetached
  BY DEF Init, NoneDetached
<1>2. NoneDetached /\ [Next]_vars => NoneDetached'
  BY DetachedNext
<1>3. OneWorkerPerSide /\ NoneDetached => NoCollision
  <2>1. ASSUME OneWorkerPerSide, NoneDetached,
               NEW a \in Accounts, NEW side \in {"in", "out"}
        PROVE  Workers(side, a) + detached[<<side, a>>] <= 1
    <3>1. detached[<<side, a>>] = 0 /\ Workers(side, a) <= 1
      BY <2>1 DEF NoneDetached, OneWorkerPerSide
    <3>2. Workers(side, a) \in 0..2
      BY DEF Workers
    <3>3. QED  BY <3>1, <3>2
  <2>2. QED  BY <2>1 DEF NoCollision
<1>4. QED  BY <1>1, <1>2, <1>3, OneWorkerEach, PTL DEF Spec

-----------------------------------------------------------------------------
(* What stop leaves behind.                                                *)

\* Without a manager there are no workers.
ManagerInv ==
  /\ ~hasInbound => inbound = NoTasks
  /\ ~hasOutbound => phase = "starting" \/ outbound = NoTasks
  /\ phase \in {"new", "noop", "stopJoinIn", "stopped"} => ~hasInbound
  /\ phase \in {"new", "noop", "starting", "failed", "stopJoinOut", "stopIn",
                "stopJoinIn", "stopped"} => ~hasOutbound
  /\ phase \in {"starting", "running"} => hasInbound
  /\ phase = "running" => hasOutbound
  /\ stray # {} => failed

\* Of the GC task: a start arms the cell that stop cancels, once.
GcInv ==
  /\ starts = 0 => gc = {} /\ gcCell = "unset"
  /\ starts = 1 => gc \subseteq {"own"}
  /\ starts = 1 /\ gcCell # "armed" => gc = {}
  /\ phase \in {"stopOut", "stopJoinOut", "stopIn", "stopJoinIn", "stopped"} =>
       gcCell # "armed"

\* Base case.
LEMMA StopInit == Init => ManagerInv /\ GcInv
BY DEF Init, ManagerInv, GcInv

\* The slots of a manager that is not there stay empty.
LEMMA ManagerNext == TypeInv /\ LeaveInv /\ ManagerInv /\ [Next]_vars => ManagerInv'
<1> SUFFICES ASSUME TypeInv, LeaveInv, ManagerInv, [Next]_vars PROVE ManagerInv'
  OBVIOUS
<1> USE DEF coreVars, inVars, outVars, taskVars, gcVars, lifeVars, goalVars, rlVars
<1>1. /\ inbound \in Slots /\ outbound \in Slots /\ rl \in Reload /\ DiffInv
      /\ rl.pc # "idle" => phase \notin {"new", "starting", "failed"}
  BY DEF TypeInv, TypeOK, LeaveInv
<1>2. /\ ~hasInbound => inbound = NoTasks
      /\ ~hasOutbound => phase = "starting" \/ outbound = NoTasks
      /\ phase \in {"new", "noop", "stopJoinIn", "stopped"} => ~hasInbound
      /\ phase \in {"new", "noop", "starting", "failed", "stopJoinOut", "stopIn",
                    "stopJoinIn", "stopped"} => ~hasOutbound
      /\ phase \in {"starting", "running"} => hasInbound
      /\ phase = "running" => hasOutbound
      /\ stray # {} => failed
  BY DEF ManagerInv
<1>3. CASE BootFails
  BY <1>2, <1>3 DEF BootFails, ManagerInv
<1>4. CASE StartNoop \/ SetRuntimeHandle
  BY <1>2, <1>4 DEF StartNoop, SetRuntimeHandle, ManagerInv
<1>5. CASE StartDone
  BY <1>2, <1>5 DEF StartDone, ManagerInv
<1>6. CASE StopBegin
  BY <1>2, <1>6 DEF StopBegin, ManagerInv
<1>7. CASE StopJoined
  BY <1>2, <1>7 DEF StopJoined, ManagerInv
<1>8. ASSUME NEW withGc \in BOOLEAN, StartInbound(withGc) PROVE ManagerInv'
  BY <1>2, <1>8 DEF StartInbound, ManagerInv
<1>9. ASSUME NEW a \in Accounts, StartOutbound(a) PROVE ManagerInv'
  BY <1>2, <1>9 DEF StartOutbound, ManagerInv
<1>10. CASE StopOutbound
  BY <1>2, <1>10 DEF StopOutbound, ManagerInv
<1>11. CASE StopInbound
  BY <1>2, <1>11 DEF StopInbound, ManagerInv
<1>12. ASSUME NEW t \in {"in", "out"} \X Accounts, WorkerStep(t) PROVE ManagerInv'
  BY <1>2, <1>12, WorkerFrame DEF ManagerInv
<1>13. ASSUME NEW new \in Configs, ReloadBegin(new) PROVE ManagerInv'
  BY <1>2, <1>13 DEF ReloadBegin, ManagerInv
<1>14. CASE ReloadStep
  <2>1. UNCHANGED <<hasInbound, hasOutbound, stray, failed, phase>>
    BY <1>14, ReloadFrame
  <2>2. rl.pc # "idle"
    BY <1>14 DEF ReloadStep, ReloadNext, ReloadJoinOut, ReloadTearIn, ReloadJoinIn,
         ReloadCheckCred, ReloadSpawnIn, ReloadSpawnOut, ReloadReturns
  <2>3. ASSUME inbound = NoTasks, ~hasInbound PROVE inbound' = NoTasks
    <3>1. ASSUME NEW a \in Accounts, ReloadNext(a) PROVE inbound' = inbound
      BY <3>1 DEF ReloadNext
    <3>2. CASE ReloadJoinOut \/ ReloadJoinIn \/ ReloadCheckCred \/ ReloadSpawnOut
                 \/ ReloadReturns
      BY <2>3, <3>2 DEF ReloadJoinOut, ReloadJoinIn, ReloadCheckCred, ReloadSpawnOut,
           ReloadReturns
    <3>3. CASE ReloadTearIn
      BY <1>1, <2>3, <3>3, TearInStep DEF NoTasks, DiffInv, Reload
    <3>4. CASE ReloadSpawnIn
      BY <2>3, <3>4, SpawnInStep
    <3>5. QED  BY <1>14, <2>3, <3>1, <3>2, <3>3, <3>4 DEF ReloadStep
  <2>4. ASSUME outbound = NoTasks, ~hasOutbound PROVE outbound' = NoTasks
    <3>1. ASSUME NEW a \in Accounts, ReloadNext(a) PROVE outbound' = NoTasks
      BY <2>4, <3>1, NextStep DEF NoTasks
    <3>2. CASE ReloadJoinOut \/ ReloadTearIn \/ ReloadJoinIn \/ ReloadCheckCred
                 \/ ReloadSpawnIn \/ ReloadReturns
      BY <2>4, <3>2 DEF ReloadJoinOut, ReloadTearIn, ReloadJoinIn, ReloadCheckCred,
           ReloadSpawnIn, ReloadReturns
    <3>3. CASE ReloadSpawnOut
      BY <2>4, <3>3, SpawnOutStep
    <3>4. QED  BY <1>14, <3>1, <3>2, <3>3 DEF ReloadStep
  <2>5. QED  BY <1>1, <1>2, <2>1, <2>2, <2>3, <2>4 DEF ManagerInv
<1>15. CASE UNCHANGED vars
  BY <1>2, <1>15 DEF vars, ManagerInv
<1>16. QED
  BY <1>3, <1>4, <1>5, <1>6, <1>7, <1>8, <1>9, <1>10, <1>11, <1>12, <1>13, <1>14,
     <1>15 DEF Next, StartStep, StopStep

\* The first start's GC task is the one stop cancels.
LEMMA GcNext == TypeInv /\ GcInv /\ [Next]_vars => GcInv'
<1> SUFFICES ASSUME TypeInv, GcInv, [Next]_vars PROVE GcInv'
  OBVIOUS
<1> USE DEF coreVars, inVars, outVars, taskVars, gcVars, lifeVars, goalVars, rlVars
<1>1. /\ starts \in Nat /\ gc \subseteq {"own", "other"}
      /\ gcCell \in {"unset", "armed", "cancelled"} /\ phase \in Phases
  BY LifecycleAssumption DEF TypeInv, TypeOK
<1>2. ASSUME NEW withGc \in BOOLEAN, StartInbound(withGc) PROVE GcInv'
  BY <1>1, <1>2 DEF StartInbound, GcInv
<1>3. CASE StopBegin
  BY <1>1, <1>3 DEF StopBegin, GcInv
<1>4. CASE BootFails \/ StartNoop
  <2>1. UNCHANGED <<gc, gcCell>> /\ phase' \in {"failed", "noop"}
    BY <1>4 DEF BootFails, StartNoop
  <2>2. starts' = starts \/ starts' = starts + 1
    BY <1>4 DEF BootFails, StartNoop
  <2>3. CASE starts' = starts
    BY <2>1, <2>3 DEF GcInv
  <2>4. CASE starts' = starts + 1
    BY <1>1, <2>1, <2>4 DEF GcInv
  <2>5. QED  BY <2>2, <2>3, <2>4
<1>5. ASSUME UNCHANGED <<gcVars, starts>>,
             phase' \in {"stopOut", "stopJoinOut", "stopIn", "stopJoinIn", "stopped"} =>
               phase \in {"stopOut", "stopJoinOut", "stopIn", "stopJoinIn", "stopped"}
      PROVE  GcInv'
  BY <1>5 DEF GcInv
<1>6. CASE StartDone \/ SetRuntimeHandle \/ StopJoined \/ StopOutbound \/ StopInbound
  BY <1>5, <1>6 DEF StartDone, SetRuntimeHandle, StopJoined, StopOutbound, StopInbound
<1>7. ASSUME NEW a \in Accounts, StartOutbound(a) PROVE GcInv'
  BY <1>5, <1>7 DEF StartOutbound
<1>8. ASSUME NEW t \in {"in", "out"} \X Accounts, WorkerStep(t) PROVE GcInv'
  BY <1>5, <1>8, WorkerFrame
<1>9. ASSUME NEW new \in Configs, ReloadBegin(new) PROVE GcInv'
  BY <1>5, <1>9 DEF ReloadBegin
<1>10. CASE ReloadStep
  BY <1>5, <1>10, ReloadFrame
<1>11. CASE UNCHANGED vars
  BY <1>5, <1>11 DEF vars
<1>12. QED
  BY <1>2, <1>3, <1>4, <1>6, <1>7, <1>8, <1>9, <1>10, <1>11
     DEF Next, StartStep, StopStep

\* A reload waits for no worker of a manager that stop has taken out.
WaitInv ==
  /\ phase \in {"stopJoinOut", "stopIn", "stopJoinIn", "stopped"} => rl.pc # "joinOut"
  /\ phase \in {"stopJoinIn", "stopped"} => rl.pc # "joinIn"

\* stop takes a manager out only while no removal holds its mutex, and after
\* that a removal finds no worker to wait for.
LEMMA WaitNext == TypeInv /\ ManagerInv /\ WaitInv /\ [Next]_vars => WaitInv'
<1> SUFFICES ASSUME TypeInv, ManagerInv, WaitInv, [Next]_vars PROVE WaitInv'
  OBVIOUS
<1> USE DEF coreVars, inVars, outVars, taskVars, gcVars, lifeVars, goalVars, rlVars
<1>1. /\ phase \in {"stopJoinOut", "stopIn", "stopJoinIn", "stopped"} =>
           rl.pc # "joinOut" /\ ~hasOutbound
      /\ phase \in {"stopJoinIn", "stopped"} => rl.pc # "joinIn" /\ inbound = NoTasks
  BY DEF WaitInv, ManagerInv
<1>2. ASSUME rl' = rl, phase' = phase \/ phase' \in {"failed", "noop", "starting", "running",
                                                    "stopOut"}
      PROVE  WaitInv'
  BY <1>2 DEF WaitInv
<1>3. CASE BootFails \/ StartNoop \/ SetRuntimeHandle \/ StopBegin \/ StartDone
  BY <1>2, <1>3 DEF BootFails, StartNoop, SetRuntimeHandle, StopBegin, StartDone
<1>4. ASSUME NEW withGc \in BOOLEAN, StartInbound(withGc) PROVE WaitInv'
  BY <1>2, <1>4 DEF StartInbound
<1>5. ASSUME NEW a \in Accounts, StartOutbound(a) PROVE WaitInv'
  BY <1>2, <1>5 DEF StartOutbound
<1>6. CASE StopOutbound
  BY <1>6 DEF StopOutbound, OutboundFree, WaitInv
<1>7. CASE StopInbound
  BY <1>7, <1>1 DEF StopInbound, InboundFree, WaitInv
<1>8. CASE StopJoined
  BY <1>8, <1>1 DEF StopJoined, WaitInv
<1>9. ASSUME NEW t \in {"in", "out"} \X Accounts, WorkerStep(t) PROVE WaitInv'
  BY <1>2, <1>9, WorkerFrame
<1>10. ASSUME NEW new \in Configs, ReloadBegin(new) PROVE WaitInv'
  BY <1>10 DEF ReloadBegin, WaitInv
<1>11. CASE ReloadStep
  <2>1. phase' = phase
    BY <1>11, ReloadFrame
  <2>2. ASSUME NEW a \in Accounts, ReloadNext(a) PROVE WaitInv'
    <3>1. rl'.pc # "joinIn" /\ (rl'.pc = "joinOut" => hasOutbound)
      <4>1. CASE a \in rl.added
        <5>1. rl' = [rl EXCEPT !.pc = "cred", !.at = a]
          BY <2>2, <4>1 DEF ReloadNext
        <5>2. QED  BY <5>1, TakesUp, ReloadPlaces
      <4>2. CASE a \notin rl.added /\ (outbound[a] = Nil \/ ~hasOutbound)
        <5>1. rl' = [rl EXCEPT !.pc = "tearIn", !.at = a]
          BY <2>2, <4>2 DEF ReloadNext
        <5>2. QED  BY <5>1, TakesUp, ReloadPlaces
      <4>3. CASE hasOutbound
        BY <2>2, <4>3, NextStep
      <4>4. QED  BY <4>1, <4>2, <4>3
    <3>2. QED  BY <1>1, <2>1, <3>1 DEF WaitInv
  <2>3. CASE ReloadTearIn
    <3>1. rl.at \in Accounts
      BY <2>3 DEF ReloadTearIn, TypeInv, DiffInv, Reload
    <3>2. rl'.pc # "joinOut" /\ (rl'.pc = "joinIn" => inbound # NoTasks)
      <4>1. CASE inbound[rl.at] = Nil
        <5>1. TornDown
          BY <2>3, <4>1 DEF ReloadTearIn
        <5>2. QED  BY <5>1, TornDownStep
      <4>2. CASE inbound[rl.at] # Nil
        BY <2>3, <3>1, <4>2, TearInStep DEF NoTasks
      <4>3. QED  BY <4>1, <4>2
    <3>3. QED  BY <1>1, <2>1, <3>2 DEF WaitInv
  <2>4. CASE ReloadJoinIn
    BY <1>1, <2>1, <2>4, TornDownStep DEF ReloadJoinIn, WaitInv
  <2>5. CASE ReloadJoinOut
    BY <1>1, <2>1, <2>5, JoinOutStep DEF WaitInv
  <2>6. CASE ReloadCheckCred \/ ReloadSpawnIn \/ ReloadSpawnOut \/ ReloadReturns
    <3>1. rl'.pc \notin {"joinOut", "joinIn"}
      BY <2>6, SpawnInStep, SpawnOutStep, AbandonStep, GoesTo, ReloadPlaces, NoReloadType
         DEF ReloadCheckCred, ReloadReturns
    <3>2. QED  BY <2>1, <3>1 DEF WaitInv
  <2>7. QED  BY <1>11, <2>2, <2>3, <2>4, <2>5, <2>6 DEF ReloadStep
<1>12. CASE UNCHANGED vars
  BY <1>2, <1>12 DEF vars
<1>13. QED
  BY <1>3, <1>4, <1>5, <1>6, <1>7, <1>8, <1>9, <1>10, <1>11, <1>12
     DEF Next, StartStep, StopStep

\* EmailPlugin::stop: whatever a reload was doing when it began, nothing is left
\* but workers that were cancelled and have outlived their join: no other worker,
\* no GC task and no reload that can still spawn a worker.
THEOREM NothingIsLeft == Spec => []StopLeavesNothing
<1> DEFINE I == TypeInv /\ LeaveInv /\ ManagerInv /\ GcInv /\ WaitInv
<1>1. I => StopLeavesNothing
  <2> SUFFICES ASSUME I, phase = "stopped" PROVE StopLeavesNothing
    BY DEF StopLeavesNothing
  <2>1. ASSUME NEW a \in Accounts, NEW side \in {"in", "out"} PROVE Workers(side, a) = 0
    <3>1. inbound[a] = Nil /\ outbound[a] = Nil
      BY DEF ManagerInv, NoTasks
    <3>2. <<"in", a>> \notin leaving /\ <<"out", a>> \notin leaving
      BY DEF LeaveInv, WaitInv
    <3>3. Slotted(side)[a] = Nil /\ <<side, a>> \notin leaving
      BY <3>1, <3>2 DEF Slotted
    <3>4. QED  BY <3>3 DEF Workers
  <2>2. (~failed => stray = {}) /\ (starts = 1 => gc = {})
    BY DEF ManagerInv, GcInv
  <2>3. QED  BY <2>1, <2>2 DEF StopLeavesNothing
<1>2. Init => I
  <2>1. Init => WaitInv
    BY DEF Init, WaitInv
  <2>2. QED  BY <2>1, TypeInit, LeaveInit, StopInit
<1>3. I /\ [Next]_vars => I'
  BY TypeNext, LeaveNext, ManagerNext, GcNext, WaitNext
<1>4. QED  BY <1>1, <1>2, <1>3, PTL DEF Spec

-----------------------------------------------------------------------------
(* Siblings.                                                               *)

\* The account a step works on is of the diff, so it is no sibling.
LEMMA SiblingStep ==
  ASSUME TypeInv, LeaveInv, [Next]_vars, NEW a \in Accounts,
         rl.pc # "idle", phase' = phase,
         a \in DOMAIN cfg \cap DOMAIN rl.new, AccountsEqual(cfg[a], rl.new[a])
  PROVE  inbound'[a] = inbound[a] /\ outbound'[a] = outbound[a]
<1> USE DEF coreVars, inVars, outVars, taskVars, gcVars, lifeVars, goalVars, rlVars
<1>1. /\ inbound \in Slots /\ outbound \in Slots /\ rl \in Reload /\ DiffInv
      /\ phase \notin {"new", "starting", "failed"}
  BY DEF TypeInv, TypeOK, LeaveInv
<1>2. a \notin Removed(cfg, rl.new) \cup Changed(cfg, rl.new) \cup Added(cfg, rl.new)
  BY DEF Removed, Changed, Added
<1>3. a \notin rl.removed \cup rl.changed \cup rl.added
  BY <1>1, <1>2 DEF DiffInv
<1>4. rl.pc \in {"tearIn", "spawnIn", "spawnOut"} => rl.at # a
  BY <1>1, <1>3 DEF DiffInv
<1>5. ASSUME NEW b \in Accounts, ReloadNext(b)
      PROVE  inbound'[a] = inbound[a] /\ outbound'[a] = outbound[a]
  <2>1. b # a
    BY <1>3, <1>5 DEF ReloadNext
  <2>2. QED  BY <1>1, <1>5, <2>1, NextStep DEF ReloadNext, Slots
<1>6. CASE ReloadTearIn
  <2>1. outbound' = outbound
    BY <1>6 DEF ReloadTearIn
  <2>2. QED  BY <1>1, <1>4, <1>6, <2>1, TearInStep DEF Slots
<1>7. CASE ReloadSpawnIn
  <2>1. outbound' = outbound
    BY <1>7 DEF ReloadSpawnIn
  <2>2. QED  BY <1>1, <1>4, <1>7, <2>1, SpawnInStep DEF Slots
<1>8. CASE ReloadSpawnOut
  <2>1. inbound' = inbound
    BY <1>8 DEF ReloadSpawnOut
  <2>2. QED  BY <1>1, <1>4, <1>8, <2>1, SpawnOutStep DEF Slots
<1>9. CASE ReloadJoinOut \/ ReloadJoinIn \/ ReloadCheckCred \/ ReloadReturns
  BY <1>9 DEF ReloadJoinOut, ReloadJoinIn, ReloadCheckCred, ReloadReturns
<1>10. ASSUME ~ReloadStep PROVE UNCHANGED <<inbound, outbound>>
  <2>1. ~(\E withGc \in BOOLEAN : StartInbound(withGc)) /\ ~StartStep
    BY <1>1 DEF StartInbound, StartStep, StartOutbound, StartDone
  <2>2. ~StopOutbound /\ ~StopInbound
    BY DEF StopOutbound, StopInbound
  <2>3. \/ BootFails \/ StartNoop \/ SetRuntimeHandle \/ StopBegin \/ StopJoined
        \/ \E t \in {"in", "out"} \X Accounts : WorkerStep(t)
        \/ \E new \in Configs : ReloadBegin(new)
        \/ UNCHANGED vars
    BY <1>10, <2>1, <2>2 DEF Next, StopStep
  <2>4. QED
    BY <2>3, WorkerFrame
       DEF BootFails, StartNoop, SetRuntimeHandle, StopBegin, StopJoined, ReloadBegin, vars
<1>11. QED  BY <1>5, <1>6, <1>7, <1>8, <1>9, <1>10 DEF ReloadStep

\* A reload leaves the workers of an account that did not change alone, however
\* the rest of the diff goes and wherever it fails (plugin.rs:197).
THEOREM SiblingsStay == Spec => SiblingsUntouched
<1>1. TypeInv /\ LeaveInv /\ [Next]_vars =>
        [\A a \in Accounts :
           /\ rl.pc # "idle" /\ phase' = phase
           /\ a \in DOMAIN cfg \cap DOMAIN rl.new
           /\ AccountsEqual(cfg[a], rl.new[a])
           => inbound'[a] = inbound[a] /\ outbound'[a] = outbound[a]
        ]_<<inbound, outbound>>
  BY SiblingStep
<1>2. Init => TypeInv /\ LeaveInv
  BY TypeInit, LeaveInit
<1>3. TypeInv /\ LeaveInv /\ [Next]_vars => (TypeInv /\ LeaveInv)'
  BY TypeNext, LeaveNext
<1>4. QED  BY <1>1, <1>2, <1>3, PTL DEF Spec, SiblingsUntouched

-----------------------------------------------------------------------------
(* One AccountHealth per account.                                          *)

\* A plugin that is being started or runs.
Alive == phase \in {"starting", "running"}

\* The map holds the AccountHealth of the workers of a, except while the reload
\* has taken its inbound worker out and waits for it; the tools reach a while it
\* has an outbound worker, except while the reload waits for that one.
Shares(a) ==
  /\ inbound[a] # Nil => inbound[a].health = health[a] /\ health[a] # 0
  /\ inbound[a] = Nil => health[a] = 0 \/ (rl.pc = "joinIn" /\ rl.at = a)
  /\ outbound[a] # Nil => inbound[a] # Nil /\ outbound[a].health = health[a]
  /\ (a \in core <=> outbound[a] # Nil) \/ (rl.pc = "joinOut" /\ rl.at = a)

\* What the reload knows of the account it is at.
InWork ==
  /\ rl.pc \in {"joinOut", "tearIn", "joinIn"} => outbound[rl.at] = Nil
  /\ rl.pc = "joinIn" => inbound[rl.at] = Nil
  /\ rl.pc = "spawnOut" => inbound[rl.at] # Nil

SharedInv ==
  /\ Alive => InWork /\ \A a \in Accounts : Shares(a)
  /\ phase = "starting" => \A a \in DOMAIN cfg : inbound[a] # Nil

\* Base case: the plugin is not alive.
LEMMA SharedInit == Init => SharedInv
BY DEF Init, SharedInv, Alive

\* A step that touches no task and no reload.
LEMMA SharedFrame ==
  ASSUME SharedInv, UNCHANGED <<cfg, inbound, outbound, core, health, rl>>,
         Alive' => Alive, phase' = "starting" => phase = "starting"
  PROVE  SharedInv'
BY DEF SharedInv, InWork, Shares, Alive

\* The account at work changes, and what InWork says of it.
LEMMA SharedMove ==
  ASSUME SharedInv, Alive, NEW a \in Accounts,
         phase' = "running" \/ UNCHANGED <<cfg, phase, inbound>>,
         rl.pc \in {"joinOut", "joinIn"} => rl.at = a,
         \A b \in Accounts : b # a =>
           /\ inbound'[b] = inbound[b] /\ outbound'[b] = outbound[b]
           /\ health'[b] = health[b] /\ (b \in core' <=> b \in core),
         Shares(a)', InWork'
  PROVE  SharedInv'
<1>1. ASSUME NEW b \in Accounts, b # a PROVE Shares(b)'
  BY <1>1 DEF SharedInv, Shares
<1>2. QED  BY <1>1 DEF SharedInv

\* A start fills the slots of both sides with the health of the map.
LEMMA SharedStart ==
  ASSUME TypeInv, LeaveInv, ManagerInv, SharedInv,
         \/ \E withGc \in BOOLEAN : StartInbound(withGc)
         \/ \E a \in Accounts : StartOutbound(a)
  PROVE  SharedInv'
<1>1. inbound \in Slots /\ outbound \in Slots /\ core \subseteq Accounts
      /\ health \in [Accounts -> Nat] /\ IsConfig(cfg)
  BY DEF TypeInv, TypeOK
<1>2. ASSUME NEW withGc \in BOOLEAN, StartInbound(withGc) PROVE SharedInv'
  <2>1. rl.pc = "idle" /\ rl' = rl /\ core' = {} /\ outbound' = outbound
    BY <1>2 DEF StartInbound
  <2>2. outbound = NoTasks
    BY <1>2 DEF StartInbound, ManagerInv
  <2>3. \A a \in Accounts :
          /\ inbound'[a] # Nil => inbound'[a].health = health'[a] /\ health'[a] # 0
          /\ inbound'[a] = Nil => health'[a] = 0
    <3>1. ASSUME NEW a \in DOMAIN cfg PROVE [cfg |-> cfg[a], health |-> 1] # Nil
      <4>1. 1 \in Nat
        OBVIOUS
      <4>2. QED  BY <1>1, <4>1, SpawnType
    <3>2. ASSUME NEW a \in Accounts, a \in DOMAIN cfg
          PROVE  inbound'[a] = [cfg |-> cfg[a], health |-> 1] /\ health'[a] = 1
      BY <1>2, <3>2 DEF StartInbound
    <3>3. ASSUME NEW a \in Accounts, a \notin DOMAIN cfg
          PROVE  inbound'[a] = Nil /\ health'[a] = 0
      BY <1>2, <3>3 DEF StartInbound
    <3>4. ASSUME NEW a \in Accounts, a \in DOMAIN cfg
          PROVE  inbound'[a] # Nil /\ inbound'[a].health = health'[a] /\ health'[a] # 0
      <4>1. [cfg |-> cfg[a], health |-> 1].health = 1
        OBVIOUS
      <4>2. inbound'[a] = [cfg |-> cfg[a], health |-> 1] /\ health'[a] = 1
        BY <3>2, <3>4
      <4>3. inbound'[a] # Nil
        BY <3>1, <3>4, <4>2
      <4>4. inbound'[a].health = 1
        BY <4>1, <4>2
      <4>5. QED  BY <4>2, <4>3, <4>4
    <3>5. ASSUME NEW a \in Accounts, inbound'[a] = Nil PROVE health'[a] = 0
      BY <3>3, <3>4, <3>5
    <3>6. ASSUME NEW a \in Accounts, inbound'[a] # Nil
          PROVE  inbound'[a].health = health'[a] /\ health'[a] # 0
      BY <3>3, <3>4, <3>6
    <3>7. QED  BY <3>5, <3>6
  <2>4. ASSUME NEW a \in Accounts PROVE outbound'[a] = Nil /\ a \notin core'
    BY <2>1, <2>2 DEF NoTasks
  <2>5. \A a \in Accounts : Shares(a)'
    BY <2>3, <2>4 DEF Shares
  <2>6. InWork'
    BY <2>1 DEF InWork
  <2>7. \A a \in DOMAIN cfg' : inbound'[a] # Nil
    <3>1. cfg' = cfg
      BY <1>2 DEF StartInbound, coreVars
    <3>2. ASSUME NEW a \in DOMAIN cfg PROVE inbound'[a] # Nil
      <4>1. a \in Accounts /\ [cfg |-> cfg[a], health |-> 1] # Nil
        <5>1. 1 \in Nat
          OBVIOUS
        <5>2. QED  BY <1>1, <5>1, SpawnType DEF IsConfig
      <4>2. inbound'[a] = [cfg |-> cfg[a], health |-> 1]
        BY <1>2, <4>1 DEF StartInbound
      <4>3. QED  BY <4>1, <4>2
    <3>3. QED  BY <3>1, <3>2
  <2>8. QED  BY <2>5, <2>6, <2>7 DEF SharedInv
<1>3. ASSUME NEW a \in Accounts, StartOutbound(a) PROVE SharedInv'
  <2>1. /\ rl.pc = "idle" /\ Alive /\ rl' = rl /\ inbound' = inbound /\ health' = health
        /\ a \in DOMAIN cfg
    BY <1>3 DEF StartOutbound, LeaveInv, Alive, rlVars, inVars, TypeInv
  <2>2. CASE phase' = "failed"
    BY <2>2 DEF SharedInv, Alive
  <2>3. CASE phase' # "failed"
    <3>1. /\ outbound' = [outbound EXCEPT ![a] = [cfg |-> cfg[a], health |-> health[a]]]
          /\ core' = core \cup {a}
      BY <1>3, <2>3 DEF StartOutbound
    <3>2. ASSUME inbound[a] # Nil PROVE SharedInv'
      <4>1. outbound'[a] # Nil /\ outbound'[a].health = health[a]
        BY <1>1, <2>1, <3>1, SpawnType DEF Slots
      <4>2. \A b \in Accounts : b # a => outbound'[b] = outbound[b]
        BY <1>1, <3>1 DEF Slots
      <4>3. InWork /\ Shares(a)
        BY <2>1 DEF SharedInv
      <4>4. Shares(a)' /\ InWork'
        BY <2>1, <3>1, <3>2, <4>1, <4>3 DEF Shares, InWork
      <4>5. phase = "starting" /\ phase' = "starting" /\ cfg' = cfg
        BY <1>3, <2>3 DEF StartOutbound, coreVars
      <4>6. QED  BY <2>1, <3>1, <4>2, <4>4, <4>5, SharedMove
    <3>3. inbound[a] # Nil
      BY <1>3, <2>1 DEF SharedInv, StartOutbound
    <3>4. QED  BY <3>2, <3>3
  <2>4. QED  BY <2>2, <2>3
<1>4. QED  BY <1>2, <1>3

\* A reload moves both workers of an account to one new AccountHealth.
LEMMA SharedReload ==
  ASSUME TypeInv, LeaveInv, ManagerInv, SharedInv, ReloadStep
  PROVE  SharedInv'
<1> USE DEF coreVars, inVars, outVars, taskVars, gcVars, lifeVars, goalVars, rlVars
<1>1. /\ inbound \in Slots /\ outbound \in Slots /\ core \subseteq Accounts
      /\ health \in [Accounts -> Nat] /\ rl \in Reload /\ DiffInv
      /\ IsConfig(cfg) /\ IsConfig(rl.new)
  BY DEF TypeInv, TypeOK
<1>2. rl.pc # "idle"
  BY DEF ReloadStep, ReloadNext, ReloadJoinOut, ReloadTearIn, ReloadJoinIn,
         ReloadCheckCred, ReloadSpawnIn, ReloadSpawnOut, ReloadReturns
<1>3. phase' = phase /\ UNCHANGED <<hasInbound, hasOutbound>> /\ phase # "starting"
  BY <1>2, ReloadFrame DEF LeaveInv
<1> SUFFICES ASSUME phase = "running" PROVE SharedInv'
  BY <1>3 DEF SharedInv, Alive
<1>4. hasOutbound /\ hasInbound /\ Alive /\ InWork /\ \A a \in Accounts : Shares(a)
  BY DEF ManagerInv, SharedInv, Alive
<1>5. rl.pc \in {"joinOut", "tearIn", "joinIn", "cred", "spawnIn", "spawnOut"} =>
        rl.at \in Accounts
  BY <1>1 DEF DiffInv, Reload
<1>6. ASSUME NEW a \in Accounts, ReloadNext(a) PROVE SharedInv'
  <2>1. /\ UNCHANGED <<inbound, core, health>> /\ rl.pc = "next" /\ rl'.at = a
        /\ \/ outbound' = outbound /\ rl'.pc = "cred"
           \/ outbound' = outbound /\ rl'.pc = "tearIn" /\ outbound[a] = Nil
           \/ outbound' = [outbound EXCEPT ![a] = Nil] /\ rl'.pc = "joinOut"
    BY <1>4, <1>6, NextStep DEF ReloadNext
  <2>2. /\ outbound'[a] = outbound[a] \/ (outbound'[a] = Nil /\ rl'.pc = "joinOut")
        /\ \A b \in Accounts : b # a => outbound'[b] = outbound[b]
        /\ rl'.pc \in {"joinOut", "tearIn"} => outbound'[a] = Nil
        /\ rl'.pc \in {"cred", "tearIn", "joinOut"}
    BY <1>1, <2>1 DEF Slots
  <2>3. Shares(a)' /\ InWork'
    BY <1>4, <2>1, <2>2 DEF Shares, InWork
  <2>4. QED  BY <1>3, <1>4, <2>1, <2>2, <2>3, SharedMove
<1>7. CASE ReloadJoinOut
  <2>1. /\ UNCHANGED <<inbound, outbound, health>> /\ core' = core \ {rl.at}
        /\ rl.pc = "joinOut"
    BY <1>7 DEF ReloadJoinOut
  <2>2. rl'.pc = "tearIn" /\ rl'.at = rl.at /\ outbound[rl.at] = Nil /\ rl.at \in Accounts
    BY <1>4, <1>5, <1>7, <2>1, JoinOutStep DEF InWork
  <2>3. Shares(rl.at)' /\ InWork'
    BY <1>4, <2>1, <2>2 DEF Shares, InWork
  <2>4. QED
    <3>1. PICK a \in Accounts : a = rl.at
      BY <2>2
    <3>2. Shares(a)'
      BY <1>4, <2>1, <2>2, <3>1 DEF Shares
    <3>3. QED  BY <1>3, <1>4, <2>1, <2>3, <3>1, <3>2, SharedMove
<1>8. CASE ReloadTearIn
  <2>1. UNCHANGED <<outbound, core, health>> /\ rl.pc = "tearIn"
    BY <1>8 DEF ReloadTearIn
  <2>2. PICK a \in Accounts : a = rl.at
    BY <1>5, <2>1
  <2>3. outbound[a] = Nil
    BY <1>4, <2>1, <2>2 DEF InWork
  <2>4. \/ /\ inbound' = inbound /\ inbound[a] = Nil /\ rl'.pc \in {"next", "cred"}
        \/ /\ inbound' = [inbound EXCEPT ![a] = Nil] /\ rl'.pc = "joinIn" /\ rl'.at = a
    BY <1>8, <2>2, TearInStep, TornDownStep
  <2>5. \/ /\ inbound'[a] = Nil /\ inbound[a] = Nil /\ rl'.pc \in {"next", "cred"}
        \/ /\ inbound'[a] = Nil /\ rl'.pc = "joinIn" /\ rl'.at = a
    BY <1>1, <2>4 DEF Slots
  <2>6. \A b \in Accounts : b # a => inbound'[b] = inbound[b]
    BY <1>1, <2>4 DEF Slots
  <2>7. Shares(a)' /\ InWork'
    BY <1>4, <2>1, <2>3, <2>5 DEF Shares, InWork
  <2>8. QED  BY <1>3, <1>4, <2>1, <2>2, <2>6, <2>7, SharedMove
<1>9. CASE ReloadJoinIn
  <2>1. /\ UNCHANGED <<inbound, outbound, core>> /\ rl.pc = "joinIn" /\ TornDown
        /\ health' = [health EXCEPT ![rl.at] = 0]
    BY <1>9 DEF ReloadJoinIn
  <2>2. PICK a \in Accounts : a = rl.at
    BY <1>5, <2>1
  <2>3. outbound[a] = Nil /\ inbound[a] = Nil /\ health'[a] = 0
    BY <1>1, <1>4, <2>1, <2>2 DEF InWork
  <2>4. rl'.pc \in {"next", "cred"}
    BY <2>1, TornDownStep
  <2>5. Shares(a)' /\ InWork'
    BY <1>4, <2>1, <2>3, <2>4 DEF Shares, InWork
  <2>6. \A b \in Accounts : b # a => health'[b] = health[b]
    BY <1>1, <2>1, <2>2
  <2>7. QED  BY <1>3, <1>4, <2>1, <2>2, <2>5, <2>6, SharedMove
<1>10. ASSUME UNCHANGED <<inbound, outbound, core, health>>,
              rl.pc \notin {"joinOut", "joinIn"}, rl'.pc \in {"idle", "next", "spawnIn"}
       PROVE  SharedInv'
  BY <1>3, <1>4, <1>10 DEF SharedInv, Shares, InWork
<1>11. CASE ReloadCheckCred \/ ReloadReturns
  <2>1. UNCHANGED <<inbound, outbound, core, health>> /\ rl.pc \in {"cred", "next"}
    BY <1>11 DEF ReloadCheckCred, ReloadReturns
  <2>2. rl'.pc \in {"idle", "next", "spawnIn"}
    BY <1>11, CheckCredStep, AbandonStep, NoReloadType DEF ReloadReturns
  <2>3. QED  BY <1>10, <2>1, <2>2
<1>12. CASE ReloadSpawnIn
  <2>1. UNCHANGED <<outbound, core>> /\ rl.pc = "spawnIn"
    BY <1>12 DEF ReloadSpawnIn
  <2>2. PICK a \in Accounts : a = rl.at
    BY <1>5, <2>1
  <2>3. /\ rl'.pc = "spawnOut" /\ rl'.at = a
        /\ \/ inbound[a] # Nil /\ UNCHANGED <<inbound, health>>
           \/ /\ inbound[a] = Nil
              /\ inbound' = [inbound EXCEPT ![a] =
                   [cfg |-> rl.new[a], health |-> FreshHealth(a)]]
              /\ health' = [health EXCEPT ![a] = FreshHealth(a)]
    BY <1>4, <1>12, <2>2, SpawnInStep
  <2>4. FreshHealth(a) \in 1..4 /\ a \in DOMAIN rl.new
    BY <1>1, <2>1, <2>2, FreshHealthType, DiffType DEF TypeInv, DiffInv
  <2>5. /\ inbound'[a] # Nil
        /\ \/ inbound[a] # Nil /\ UNCHANGED <<inbound, health>>
           \/ /\ inbound[a] = Nil /\ inbound'[a].health = FreshHealth(a)
              /\ health'[a] = FreshHealth(a)
    <3>1. [cfg |-> rl.new[a], health |-> FreshHealth(a)] # Nil
      <4>1. FreshHealth(a) \in Nat
        BY <2>4
      <4>2. QED  BY <1>1, <2>4, <4>1, SpawnType
    <3>2. QED  BY <1>1, <2>3, <3>1 DEF Slots
  <2>6. \A b \in Accounts : b # a => inbound'[b] = inbound[b] /\ health'[b] = health[b]
    BY <1>1, <2>3 DEF Slots
  <2>7. Shares(a)' /\ InWork'
    BY <1>4, <2>1, <2>3, <2>4, <2>5 DEF Shares, InWork
  <2>8. QED  BY <1>3, <1>4, <2>1, <2>2, <2>6, <2>7, SharedMove
<1>13. CASE ReloadSpawnOut
  <2>1. inbound' = inbound /\ rl.pc = "spawnOut"
    BY <1>13 DEF ReloadSpawnOut
  <2>2. PICK a \in Accounts : a = rl.at
    BY <1>5, <2>1
  <2>3. inbound[a] # Nil /\ health[a] # 0
    BY <1>4, <2>1, <2>2 DEF InWork, Shares
  <2>4. \/ UNCHANGED <<outbound, core, health>>
        \/ /\ outbound' = [outbound EXCEPT ![a] = [cfg |-> rl.new[a], health |-> health[a]]]
           /\ health' = [health EXCEPT ![a] = health[a]]
           /\ core' = core \cup {a}
    BY <1>13, <2>2, <2>3, SpawnOutStep
  <2>5. rl'.pc \in {"idle", "next"}
    BY <1>13, SpawnOutStep, AbandonStep
  <2>6. CASE UNCHANGED <<outbound, core, health>>
    BY <1>10, <2>1, <2>5, <2>6
  <2>7. CASE /\ outbound' = [outbound EXCEPT ![a] = [cfg |-> rl.new[a], health |-> health[a]]]
             /\ health' = [health EXCEPT ![a] = health[a]]
             /\ core' = core \cup {a}
    <3>1. a \in DOMAIN rl.new /\ health[a] \in Nat
      BY <1>1, <2>1, <2>2, DiffType DEF DiffInv
    <3>2. outbound'[a] # Nil /\ outbound'[a].health = health[a] /\ health' = health
      BY <1>1, <2>7, <3>1, SpawnType DEF Slots
    <3>3. \A b \in Accounts : b # a => outbound'[b] = outbound[b]
      BY <1>1, <2>7 DEF Slots
    <3>4. Shares(a)' /\ InWork'
      BY <1>4, <2>1, <2>3, <2>5, <2>7, <3>2 DEF Shares, InWork
    <3>5. QED  BY <1>3, <1>4, <2>1, <2>2, <2>7, <3>2, <3>3, <3>4, SharedMove
  <2>8. QED  BY <2>4, <2>6, <2>7
<1>14. QED
  BY <1>6, <1>7, <1>8, <1>9, <1>11, <1>12, <1>13 DEF ReloadStep

\* Every action keeps SharedInv.
LEMMA SharedNext ==
  TypeInv /\ LeaveInv /\ ManagerInv /\ SharedInv /\ [Next]_vars => SharedInv'
<1> SUFFICES ASSUME TypeInv, LeaveInv, ManagerInv, SharedInv, [Next]_vars
             PROVE  SharedInv'
  OBVIOUS
<1> USE DEF coreVars, inVars, outVars, taskVars, gcVars, lifeVars, goalVars, rlVars
<1>1. CASE \/ BootFails \/ StartNoop \/ StartDone \/ SetRuntimeHandle \/ StopBegin
           \/ StopJoined \/ UNCHANGED vars
  BY <1>1, SharedFrame
     DEF BootFails, StartNoop, StartDone, SetRuntimeHandle, StopBegin, StopJoined,
         vars, Alive
<1>2. CASE StopOutbound \/ StopInbound
  BY <1>2 DEF StopOutbound, StopInbound, SharedInv, Alive
<1>3. ASSUME NEW t \in {"in", "out"} \X Accounts, WorkerStep(t) PROVE SharedInv'
  BY <1>3, SharedFrame, WorkerFrame DEF Alive
<1>4. ASSUME NEW new \in Configs, ReloadBegin(new) PROVE SharedInv'
  <2>1. UNCHANGED <<cfg, phase, inbound, outbound, core, health>>
    BY <1>4 DEF ReloadBegin
  <2>2. rl.pc = "idle" /\ (rl' = rl \/ rl'.pc = "next")
    BY <1>4, BeginStep
  <2>3. QED  BY <2>1, <2>2 DEF SharedInv, Shares, InWork, Alive
<1>5. QED
  BY <1>1, <1>2, <1>3, <1>4, SharedStart, SharedReload DEF Next, StartStep, StopStep

\* add_account and remove_account of both managers: the counters an outbound
\* worker moves are those the endpoints show, and the tools list an account as
\* live exactly when it has an outbound worker, after any reloads.
THEOREM HealthStaysShared == Spec => []HealthIsShared
<1> DEFINE I == TypeInv /\ LeaveInv /\ ManagerInv /\ SharedInv
<1>1. I => HealthIsShared
  <2> SUFFICES ASSUME I, Quiet, handle PROVE
        /\ Reported = { a \in Accounts : inbound[a] # Nil } /\ EmailHealth = Reported
        /\ \A a \in Accounts, side \in {"in", "out"} :
             Slotted(side)[a] # Nil => Slotted(side)[a].health = health[a]
        /\ \A a \in DOMAIN InstancesList : InstancesList[a] <=> outbound[a] # Nil
    BY DEF HealthIsShared
  <2>1. /\ hasInbound /\ hasOutbound /\ rl.pc = "idle" /\ IsConfig(cfg)
        /\ \A a \in Accounts : Shares(a)
    BY DEF Quiet, ManagerInv, SharedInv, Alive, TypeInv, TypeOK
  <2>2. Reported = { a \in Accounts : inbound[a] # Nil } /\ EmailHealth = Reported
    BY <2>1 DEF Reported, EmailHealth, Serves, Shares
  <2>3. ASSUME NEW a \in Accounts, NEW side \in {"in", "out"}, Slotted(side)[a] # Nil
        PROVE  Slotted(side)[a].health = health[a]
    BY <2>1, <2>3 DEF Slotted, Shares
  <2>4. InstancesList = [a \in DOMAIN cfg |-> a \in core]
    BY <2>1 DEF InstancesList, Serves, ToolContext
  <2>5. ASSUME NEW a \in DOMAIN InstancesList
        PROVE  InstancesList[a] <=> outbound[a] # Nil
    <3>1. a \in DOMAIN cfg /\ a \in Accounts
      BY <2>1, <2>4 DEF IsConfig
    <3>2. InstancesList[a] = (a \in core)
      BY <2>4, <3>1
    <3>3. QED  BY <2>1, <3>1, <3>2 DEF Shares
  <2>6. QED  BY <2>2, <2>3, <2>5
<1>2. Init => I
  BY TypeInit, LeaveInit, StopInit, SharedInit
<1>3. I /\ [Next]_vars => I'
  BY TypeNext, LeaveNext, ManagerNext, SharedNext
<1>4. QED  BY <1>1, <1>2, <1>3, PTL DEF Spec


-----------------------------------------------------------------------------
(* What repeated reloads come to.                                          *)

\* A task that runs with the config wanted.
Fits(task, want) == task # Nil /\ AccountsEqual(task.cfg, want)

\* The config last asked for.
Goal == IF targets = {} THEN cfg ELSE latest

\* The account runs as that config says.
Reached(a) ==
  IF a \in DOMAIN Goal THEN Fits(inbound[a], Goal[a]) /\ Fits(outbound[a], Goal[a])
                       ELSE inbound[a] = Nil /\ outbound[a] = Nil

\* What a reload has to do, and what is left of it.
InDiff(a) == a \in Removed(cfg, Goal) \cup Changed(cfg, Goal) \cup Added(cfg, Goal)
Left(a)   == a \in rl.removed \cup rl.changed \cup rl.added

\* Accounts the diff does not name are right all along, those it has done are
\* right, and those it adds are right or not there.
Aims(a) ==
  /\ ~InDiff(a) => Reached(a)
  /\ a \in Added(cfg, Goal) =>
       /\ inbound[a] = Nil \/ Fits(inbound[a], Goal[a])
       /\ outbound[a] = Nil \/ Fits(outbound[a], Goal[a])
  /\ rl.pc # "idle" /\ ~Left(a) => Reached(a)
  /\ rl.pc = "idle" /\ outcome = "ok" => Reached(a)

\* The account the reload is at: a changed one is torn down before it is spawned.
AtWork ==
  /\ rl.pc # "idle" => rl.new = Goal
  /\ rl.pc \in {"cred", "spawnIn"} /\ rl.at \in rl.changed =>
       inbound[rl.at] = Nil /\ outbound[rl.at] = Nil
  /\ rl.pc = "spawnOut" =>
       /\ Fits(inbound[rl.at], Goal[rl.at])
       /\ rl.at \in rl.changed => outbound[rl.at] = Nil

\* What start has spawned so far.
Spawned(a) ==
  IF a \in DOMAIN cfg
  THEN /\ Fits(inbound[a], cfg[a])
       /\ IF a \in todo THEN outbound[a] = Nil ELSE Fits(outbound[a], cfg[a])
  ELSE inbound[a] = Nil /\ outbound[a] = Nil

GoalInv ==
  /\ IsFiniteSet(targets) /\ (targets # {} => latest \in targets)
  /\ Alive /\ rl.pc = "idle" /\ outcome = "none" => targets = {}
  /\ phase = "starting" => targets = {} /\ \A a \in Accounts : Spawned(a)
  /\ phase = "running" /\ targets \subseteq {latest} =>
       AtWork /\ \A a \in Accounts : Aims(a)

\* Base case: the plugin is not alive.
LEMMA GoalInit == Init => GoalInv
BY FS_EmptySet DEF Init, GoalInv, Alive

\* What is left of a reload is to be done, each account for one reason.
LEMMA LeftFacts ==
  ASSUME TypeInv, rl.pc # "idle", rl.new = Goal, NEW a
  PROVE  /\ a \in rl.removed => /\ a \notin DOMAIN Goal /\ a \notin Added(cfg, Goal)
                                /\ a \notin rl.changed /\ a \notin rl.added
         /\ a \in rl.changed => /\ a \in DOMAIN Goal /\ a \notin Added(cfg, Goal)
                                /\ a \notin rl.added
         /\ a \in rl.added => a \in DOMAIN Goal /\ a \in Added(cfg, Goal)
         /\ Left(a) => InDiff(a)
BY DEF TypeInv, DiffInv, Removed, Changed, Added, Left, InDiff

\* The account at work changes, and the reload goes on.
LEMMA AimMove ==
  ASSUME \A b \in Accounts : Aims(b), UNCHANGED <<cfg, targets, latest>>,
         NEW a \in Accounts, rl.pc # "idle", rl'.pc # "idle",
         \A b \in Accounts : b # a =>
           inbound'[b] = inbound[b] /\ outbound'[b] = outbound[b] /\ (Left(b)' <=> Left(b)),
         Aims(a)'
  PROVE  \A b \in Accounts : Aims(b)'
<1>1. Goal' = Goal /\ Added(cfg, Goal)' = Added(cfg, Goal)
  BY DEF Goal, Added
<1>2. \A b : InDiff(b)' <=> InDiff(b)
  BY <1>1 DEF InDiff, Removed, Changed, Added
<1>3. ASSUME NEW b \in Accounts, b # a PROVE Aims(b)'
  <2>1. Reached(b)' <=> Reached(b)
    BY <1>1, <1>3 DEF Reached, Fits
  <2>2. (a \in Added(cfg, Goal))' <=> a \in Added(cfg, Goal)
    BY <1>1
  <2>3. Aims(b)
    OBVIOUS
  <2>4. QED  BY <1>1, <1>2, <1>3, <2>1, <2>3 DEF Aims, Fits
<1>4. QED  BY <1>3

\* The reload ends half way: what it was at is still in the diff.
LEMMA AimAbandon ==
  ASSUME TypeInv, \A b \in Accounts : Aims(b),
         UNCHANGED <<cfg, targets, latest, inbound, outbound>>,
         Abandon
  PROVE  AtWork' /\ \A b \in Accounts : Aims(b)'
<1>1. Goal' = Goal /\ Added(cfg, Goal)' = Added(cfg, Goal)
  BY DEF Goal, Added
<1>2. \A b : InDiff(b)' <=> InDiff(b)
  BY <1>1 DEF InDiff, Removed, Changed, Added
<1>3. rl'.pc = "idle" /\ outcome' = "err"
  BY AbandonStep
<1>4. ASSUME NEW b \in Accounts PROVE Aims(b)'
  <2>1. Reached(b)' <=> Reached(b)
    BY <1>1 DEF Reached, Fits
  <2>2. QED  BY <1>1, <1>2, <1>3, <2>1 DEF Aims, Fits
<1>5. QED  BY <1>3, <1>4 DEF AtWork

\* A spawned task has the config it was given.
LEMMA SpawnFits ==
  ASSUME NEW c, IsConfig(c), NEW a \in DOMAIN c, NEW h \in Nat
  PROVE  Fits([cfg |-> c[a], health |-> h], c[a])
<1>1. [cfg |-> c[a], health |-> h] # Nil
  BY SpawnType, VersionType, LifecycleAssumption DEF Task
<1>2. QED  BY <1>1 DEF Fits, AccountsEqual

\* A reload step brings the account at work nearer to the config asked for.
LEMMA AimReload ==
  ASSUME TypeInv, LeaveInv, ManagerInv, SharedInv, phase = "running",
         AtWork, \A a \in Accounts : Aims(a), ReloadStep
  PROVE  AtWork' /\ \A a \in Accounts : Aims(a)'
<1> USE DEF coreVars, inVars, outVars, taskVars, gcVars, lifeVars, goalVars, rlVars
<1>1. /\ inbound \in Slots /\ outbound \in Slots /\ rl \in Reload /\ DiffInv
      /\ IsConfig(cfg) /\ IsConfig(rl.new)
  BY DEF TypeInv, TypeOK
<1>2. rl.pc # "idle"
  BY DEF ReloadStep, ReloadNext, ReloadJoinOut, ReloadTearIn, ReloadJoinIn,
         ReloadCheckCred, ReloadSpawnIn, ReloadSpawnOut, ReloadReturns
<1>3. UNCHANGED <<cfg, targets, latest>>
  BY ReloadFrame
<1>4. hasOutbound /\ hasInbound /\ InWork
  BY DEF ManagerInv, SharedInv, Alive
<1>5. Goal' = Goal /\ Added(cfg, Goal)' = Added(cfg, Goal) /\ rl.new = Goal
  BY <1>2, <1>3 DEF Goal, Added, AtWork
<1>6. \A a : InDiff(a)' <=> InDiff(a)
  BY <1>3, <1>5 DEF InDiff, Removed, Changed, Added
<1>7. ASSUME NEW a \in Accounts, ReloadNext(a) PROVE AtWork' /\ \A b \in Accounts : Aims(b)'
  <2>1. /\ inbound' = inbound /\ rl.pc = "next" /\ rl'.at = a /\ SameDiff(rl', rl)
        /\ \/ outbound' = outbound /\ rl'.pc = "cred" /\ a \in rl.added
           \/ /\ outbound' = outbound /\ rl'.pc = "tearIn"
              /\ a \in rl.removed \cup rl.changed
           \/ /\ outbound' = [outbound EXCEPT ![a] = Nil] /\ rl'.pc = "joinOut"
              /\ a \in rl.removed \cup rl.changed
    BY <1>4, <1>7, NextStep DEF ReloadNext
  <2>2. \A b : Left(b)' <=> Left(b)
    BY <2>1 DEF Left, SameDiff
  <2>3. Left(a) /\ InDiff(a) /\ (a \in rl.added => a \notin rl.changed)
    BY <1>2, <1>5, <2>1, LeftFacts DEF Left
  <2>4. a \in Added(cfg, Goal) => outbound' = outbound
    BY <1>2, <1>5, <2>1, LeftFacts
  <2>5. Aims(a)'
    <3>1. Aims(a)
      OBVIOUS
    <3>2. QED  BY <1>5, <1>6, <2>1, <2>2, <2>3, <2>4, <3>1 DEF Aims, Fits
  <2>6. \A b \in Accounts : b # a => outbound'[b] = outbound[b]
    BY <1>1, <2>1 DEF Slots
  <2>7. AtWork'
    BY <1>5, <2>1, <2>3 DEF AtWork, SameDiff
  <2>8. \A b \in Accounts : Aims(b)'
    BY <1>2, <1>3, <2>1, <2>2, <2>5, <2>6, AimMove
  <2>9. QED  BY <2>7, <2>8
<1>8. CASE ReloadJoinOut
  <2>1. UNCHANGED <<inbound, outbound>> /\ rl.pc = "joinOut" /\ rl'.pc = "tearIn"
        /\ rl'.at = rl.at /\ SameDiff(rl', rl)
    BY <1>8, JoinOutStep DEF ReloadJoinOut
  <2>2. \A b : Left(b)' <=> Left(b)
    BY <2>1 DEF Left, SameDiff
  <2>3. ASSUME NEW b \in Accounts PROVE Aims(b)'
    <3>1. Reached(b)' <=> Reached(b)
      BY <1>5, <2>1 DEF Reached, Fits
    <3>2. QED  BY <1>2, <1>5, <1>6, <2>1, <2>2, <3>1 DEF Aims, Fits
  <2>4. AtWork'
    BY <1>5, <2>1 DEF AtWork, SameDiff
  <2>5. QED  BY <2>3, <2>4
<1>9. ASSUME NEW a \in Accounts, a = rl.at, rl.pc \in {"tearIn", "joinIn"}, TornDown,
             inbound[a] = Nil, UNCHANGED <<inbound, outbound>>
      PROVE  AtWork' /\ \A b \in Accounts : Aims(b)'
  <2>1. outbound[a] = Nil /\ a \in rl.removed \cup rl.changed
    BY <1>1, <1>4, <1>9 DEF InWork, DiffInv
  <2>2. /\ rl'.new = rl.new /\ rl'.changed = rl.changed /\ rl'.added = rl.added
        /\ \/ /\ a \in rl.removed /\ rl'.pc = "next" /\ rl'.removed = rl.removed \ {a}
           \/ /\ a \in rl.changed /\ rl'.pc = "cred" /\ rl'.removed = rl.removed
              /\ rl'.at = a
    BY <1>9, <2>1, TornDownStep
  <2>3. /\ InDiff(a) /\ a \notin Added(cfg, Goal)
        /\ a \in rl.removed => a \notin DOMAIN Goal
    BY <1>2, <1>5, <2>1, LeftFacts DEF Left
  <2>4. a \in rl.removed => Reached(a)'
    BY <1>5, <1>9, <2>1, <2>3 DEF Reached
  <2>5. a \notin rl.removed => Left(a)'
    BY <2>1, <2>2 DEF Left
  <2>6. Aims(a)'
    BY <1>5, <1>6, <2>2, <2>3, <2>4, <2>5 DEF Aims
  <2>7. \A b \in Accounts : b # a => (Left(b)' <=> Left(b))
    BY <2>2 DEF Left
  <2>8. AtWork'
    BY <1>5, <1>9, <2>1, <2>2 DEF AtWork
  <2>9. rl'.pc # "idle"
    BY <2>2
  <2>10. \A b \in Accounts : Aims(b)'
    BY <1>2, <1>3, <1>9, <2>6, <2>7, <2>9, AimMove
  <2>11. QED  BY <2>8, <2>10
<1>10. CASE ReloadTearIn
  <2>1. outbound' = outbound /\ rl.pc = "tearIn"
    BY <1>10 DEF ReloadTearIn
  <2>2. PICK a \in Accounts : a = rl.at
    BY <1>1, <2>1 DEF DiffInv, Reload
  <2>3. \/ TornDown /\ inbound[a] = Nil /\ inbound' = inbound
        \/ /\ rl'.pc = "joinIn" /\ rl'.at = a /\ SameDiff(rl', rl)
           /\ inbound' = [inbound EXCEPT ![a] = Nil]
    BY <1>10, <2>2, TearInStep
  <2>4. CASE TornDown /\ inbound[a] = Nil /\ inbound' = inbound
    BY <1>9, <2>1, <2>2, <2>4
  <2>5. CASE /\ rl'.pc = "joinIn" /\ rl'.at = a /\ SameDiff(rl', rl)
             /\ inbound' = [inbound EXCEPT ![a] = Nil]
    <3>1. \A b : Left(b)' <=> Left(b)
      BY <2>5 DEF Left, SameDiff
    <3>2. Left(a) /\ InDiff(a) /\ a \notin Added(cfg, Goal)
      BY <1>1, <1>2, <1>5, <2>1, <2>2, LeftFacts DEF Left, DiffInv
    <3>3. Aims(a)'
      BY <1>5, <1>6, <2>5, <3>1, <3>2 DEF Aims
    <3>4. \A b \in Accounts : b # a => inbound'[b] = inbound[b]
      BY <1>1, <2>5 DEF Slots
    <3>5. AtWork'
      BY <1>5, <2>5 DEF AtWork, SameDiff
    <3>6. rl'.pc # "idle"
      BY <2>5
    <3>7. \A b \in Accounts : Aims(b)'
      BY <1>2, <1>3, <2>1, <3>1, <3>3, <3>4, <3>6, AimMove
    <3>8. QED  BY <3>5, <3>7
  <2>6. QED  BY <2>3, <2>4, <2>5
<1>11. CASE ReloadJoinIn
  <2>1. UNCHANGED <<inbound, outbound>> /\ rl.pc = "joinIn" /\ TornDown
    BY <1>11 DEF ReloadJoinIn
  <2>2. PICK a \in Accounts : a = rl.at
    BY <1>1, <2>1 DEF DiffInv, Reload
  <2>3. inbound[a] = Nil
    BY <1>4, <2>1, <2>2 DEF InWork
  <2>4. QED  BY <1>9, <2>1, <2>2, <2>3
<1>12. CASE ReloadCheckCred
  <2>1. UNCHANGED <<inbound, outbound>> /\ rl.pc = "cred"
    BY <1>12 DEF ReloadCheckCred
  <2>2. CASE Abandon
    BY <1>3, <2>1, <2>2, AimAbandon
  <2>3. CASE rl'.pc = "spawnIn" /\ rl'.at = rl.at /\ SameDiff(rl', rl)
    <3>1. \A b : Left(b)' <=> Left(b)
      BY <2>3 DEF Left, SameDiff
    <3>2. ASSUME NEW b \in Accounts PROVE Aims(b)'
      <4>1. Reached(b)' <=> Reached(b)
        BY <1>5, <2>1 DEF Reached, Fits
      <4>2. QED  BY <1>2, <1>5, <1>6, <2>1, <2>3, <3>1, <4>1 DEF Aims, Fits
    <3>3. AtWork'
      BY <1>5, <2>1, <2>3 DEF AtWork, SameDiff
    <3>4. QED  BY <3>2, <3>3
  <2>4. QED  BY <1>12, <2>2, <2>3, CheckCredStep
<1>13. CASE ReloadSpawnIn
  <2>1. outbound' = outbound /\ rl.pc = "spawnIn"
    BY <1>13 DEF ReloadSpawnIn
  <2>2. PICK a \in Accounts : a = rl.at
    BY <1>1, <2>1 DEF DiffInv, Reload
  <2>3. /\ rl'.pc = "spawnOut" /\ rl'.at = a /\ SameDiff(rl', rl)
        /\ \/ inbound[a] # Nil /\ inbound' = inbound
           \/ inbound' = [inbound EXCEPT ![a] =
                [cfg |-> rl.new[a], health |-> FreshHealth(a)]]
    BY <1>4, <1>13, <2>2, SpawnInStep
  <2>4. /\ a \in rl.changed \cup rl.added /\ Left(a) /\ InDiff(a) /\ a \in DOMAIN Goal
        /\ a \in rl.changed => a \notin Added(cfg, Goal)
        /\ a \in rl.added => a \in Added(cfg, Goal)
    BY <1>1, <1>2, <1>5, <2>1, <2>2, LeftFacts DEF Left, DiffInv
  <2>5. a \in rl.changed => inbound[a] = Nil /\ outbound[a] = Nil
    BY <2>1, <2>2 DEF AtWork
  <2>6. Fits(inbound'[a], Goal[a])
    <3>1. CASE inbound[a] # Nil /\ inbound' = inbound
      <4>1. a \in Added(cfg, Goal)
        BY <2>4, <2>5, <3>1
      <4>2. Aims(a)
        OBVIOUS
      <4>3. QED  BY <3>1, <4>1, <4>2 DEF Aims
    <3>2. CASE inbound' = [inbound EXCEPT ![a] =
                [cfg |-> rl.new[a], health |-> FreshHealth(a)]]
      <4>1. FreshHealth(a) \in Nat
        BY FreshHealthType DEF TypeInv
      <4>2. inbound'[a] = [cfg |-> Goal[a], health |-> FreshHealth(a)]
        BY <1>1, <1>5, <3>2 DEF Slots
      <4>3. QED  BY <1>1, <1>5, <2>4, <4>1, <4>2, SpawnFits
    <3>3. QED  BY <2>3, <3>1, <3>2
  <2>7. \A b : Left(b)' <=> Left(b)
    BY <2>3 DEF Left, SameDiff
  <2>8. Aims(a)'
    <3>1. Aims(a)
      OBVIOUS
    <3>2. QED  BY <1>5, <1>6, <2>1, <2>3, <2>4, <2>6, <2>7, <3>1 DEF Aims
  <2>9. \A b \in Accounts : b # a => inbound'[b] = inbound[b]
    BY <1>1, <2>3 DEF Slots
  <2>10. AtWork'
    BY <1>5, <2>1, <2>3, <2>5, <2>6 DEF AtWork, SameDiff
  <2>11. rl'.pc # "idle"
    BY <2>3
  <2>12. \A b \in Accounts : Aims(b)'
    BY <1>2, <1>3, <2>1, <2>7, <2>8, <2>9, <2>11, AimMove
  <2>13. QED  BY <2>10, <2>12
<1>14. CASE ReloadSpawnOut
  <2>1. inbound' = inbound /\ rl.pc = "spawnOut"
    BY <1>14 DEF ReloadSpawnOut
  <2>2. PICK a \in Accounts : a = rl.at
    BY <1>1, <2>1 DEF DiffInv, Reload
  <2>3. /\ a \in rl.changed \cup rl.added /\ a \in DOMAIN Goal /\ a \notin rl.removed
        /\ a \in rl.added => a \in Added(cfg, Goal)
    BY <1>1, <1>2, <1>5, <2>1, <2>2, LeftFacts DEF DiffInv
  <2>4. Fits(inbound[a], Goal[a]) /\ (a \in rl.changed => outbound[a] = Nil)
    BY <2>1, <2>2 DEF AtWork
  <2>5. CASE Abandon /\ outbound' = outbound
    BY <1>3, <2>1, <2>5, AimAbandon
  <2>6. ASSUME rl'.pc = "next", rl'.new = rl.new, rl'.removed = rl.removed,
               rl'.changed = rl.changed \ {a}, rl'.added = rl.added \ {a},
               Fits(outbound'[a], Goal[a]),
               \A b \in Accounts : b # a => outbound'[b] = outbound[b]
        PROVE  AtWork' /\ \A b \in Accounts : Aims(b)'
    <3>1. Reached(a)'
      BY <1>5, <2>1, <2>3, <2>4, <2>6 DEF Reached
    <3>2. Aims(a)'
      BY <1>5, <2>1, <2>4, <2>6, <3>1 DEF Aims
    <3>3. \A b \in Accounts : b # a => (Left(b)' <=> Left(b))
      BY <2>6 DEF Left
    <3>4. AtWork'
      BY <1>5, <2>6 DEF AtWork
    <3>5. rl'.pc # "idle"
      BY <2>6
    <3>6. \A b \in Accounts : Aims(b)'
      BY <1>2, <1>3, <2>1, <2>6, <3>2, <3>3, <3>5, AimMove
    <3>7. QED  BY <3>4, <3>6
  <2>7. CASE outbound[a] # Nil /\ outbound' = outbound /\ ~Abandon
    <3>1. Aims(a) /\ a \in Added(cfg, Goal)
      BY <2>3, <2>4, <2>7
    <3>2. Fits(outbound'[a], Goal[a])
      BY <2>7, <3>1 DEF Aims
    <3>3. QED  BY <1>14, <2>2, <2>6, <2>7, <3>2, SpawnOutStep
  <2>8. ASSUME NEW h \in Nat, ~Abandon, outbound[a] = Nil,
               outbound' = [outbound EXCEPT ![a] = [cfg |-> rl.new[a], health |-> h]]
        PROVE  AtWork' /\ \A b \in Accounts : Aims(b)'
    <3>1. outbound'[a] = [cfg |-> Goal[a], health |-> h]
      BY <1>1, <1>5, <2>8 DEF Slots
    <3>2. Fits(outbound'[a], Goal[a])
      BY <1>1, <1>5, <2>3, <2>8, <3>1, SpawnFits
    <3>3. \A b \in Accounts : b # a => outbound'[b] = outbound[b]
      BY <1>1, <2>8 DEF Slots
    <3>4. /\ rl'.pc = "next" /\ rl'.new = rl.new /\ rl'.removed = rl.removed
          /\ rl'.changed = rl.changed \ {a} /\ rl'.added = rl.added \ {a}
      BY <1>14, <2>2, <2>8, SpawnOutStep
    <3>5. QED  BY <2>6, <3>2, <3>3, <3>4
  <2>9. \/ Abandon /\ outbound' = outbound
        \/ outbound[a] # Nil /\ outbound' = outbound
        \/ /\ outbound[a] = Nil
           /\ \E h \in Nat :
                outbound' = [outbound EXCEPT ![a] = [cfg |-> rl.new[a], health |-> h]]
    BY <1>14, <2>2, SpawnOutStep
  <2>10. CASE /\ outbound[a] = Nil /\ ~Abandon
              /\ \E h \in Nat :
                   outbound' = [outbound EXCEPT ![a] = [cfg |-> rl.new[a], health |-> h]]
    BY <2>8, <2>10
  <2>11. CASE Abandon /\ outbound' # outbound
    BY <1>14, <2>2, <2>11, AbandonStep, SpawnOutStep
  <2>12. QED  BY <2>5, <2>7, <2>9, <2>10, <2>11
<1>15. CASE ReloadReturns
  <2>1. UNCHANGED <<inbound, outbound>> /\ rl' = NoReload /\ \A b : ~Left(b)
    BY <1>15 DEF ReloadReturns, Left
  <2>2. rl'.pc = "idle"
    BY <2>1, NoReloadType
  <2>3. ASSUME NEW b \in Accounts PROVE Aims(b)'
    <3>1. Reached(b)
      BY <1>2, <2>1 DEF Aims
    <3>2. Reached(b)' <=> Reached(b)
      BY <1>5, <2>1 DEF Reached, Fits
    <3>3. QED  BY <1>5, <1>6, <2>1, <2>2, <3>1, <3>2 DEF Aims, Fits
  <2>4. QED  BY <2>2, <2>3 DEF AtWork
<1>16. QED
  BY <1>7, <1>8, <1>10, <1>11, <1>12, <1>13, <1>14, <1>15 DEF ReloadStep

\* A reload that ends says how.
LEMMA ReloadEnds ==
  ASSUME TypeInv, ReloadStep, rl'.pc = "idle"
  PROVE  outcome' # "none"
<1>1. ASSUME NEW a \in Accounts, ReloadNext(a) PROVE FALSE
  BY <1>1, NextStep
<1>2. CASE ReloadJoinOut
  BY <1>2, JoinOutStep
<1>3. CASE ReloadTearIn
  BY <1>3, TearInStep, TornDownStep
<1>4. CASE ReloadJoinIn
  BY <1>4, TornDownStep DEF ReloadJoinIn
<1>5. CASE ReloadCheckCred
  BY <1>5, CheckCredStep, AbandonStep
<1>6. CASE ReloadSpawnIn
  BY <1>6, SpawnInStep, AbandonStep
<1>7. CASE ReloadSpawnOut
  BY <1>7, SpawnOutStep, AbandonStep
<1>8. CASE ReloadReturns
  BY <1>8 DEF ReloadReturns
<1>9. QED
  BY <1>1, <1>2, <1>3, <1>4, <1>5, <1>6, <1>7, <1>8 DEF ReloadStep

\* A reload begins with everything in the diff to do.
LEMMA AimBegin ==
  ASSUME TypeInv, GoalInv, phase = "running", NEW new \in Configs, ReloadBegin(new),
         targets' \subseteq {latest'}
  PROVE  AtWork' /\ \A a \in Accounts : Aims(a)'
<1>1. /\ rl.pc = "idle" /\ UNCHANGED <<cfg, inbound, outbound>>
      /\ targets' = targets \cup {new} /\ latest' = new
      /\ IsConfig(cfg) /\ IsConfig(new)
  BY BeginStep, ConfigsAre
     DEF ReloadBegin, TypeInv, TypeOK, coreVars, inVars, outVars
<1>2. Goal' = new /\ Added(cfg, Goal)' = Added(cfg, new)
  BY <1>1 DEF Goal, Added
<1>3. targets = {} \/ latest = new
  BY <1>1 DEF GoalInv
<1>4. \A a \in Accounts : Aims(a)
  BY <1>1, <1>3 DEF GoalInv
<1>5. \A a : InDiff(a)' <=> a \in Removed(cfg, new) \cup Changed(cfg, new) \cup Added(cfg, new)
  BY <1>1, <1>2 DEF InDiff, Removed, Changed, Added
<1>6. ASSUME NEW a \in Accounts
      PROVE  /\ ~InDiff(a)' => Reached(a)'
             /\ a \in Added(cfg, new) =>
                  /\ inbound[a] = Nil \/ Fits(inbound[a], new[a])
                  /\ outbound[a] = Nil \/ Fits(outbound[a], new[a])
  <2>1. CASE targets = {}
    <3>1. Goal = cfg /\ ~InDiff(a)
      BY <2>1 DEF Goal, InDiff, Removed, Changed, Added, AccountsEqual
    <3>2. Reached(a)
      BY <1>4, <3>1 DEF Aims
    <3>3. a \in Added(cfg, new) => inbound[a] = Nil /\ outbound[a] = Nil
      BY <3>1, <3>2 DEF Added, Reached
    <3>4. ASSUME ~InDiff(a)' PROVE Reached(a)'
      <4>1. \/ a \notin DOMAIN cfg /\ a \notin DOMAIN new
            \/ /\ a \in DOMAIN cfg /\ a \in DOMAIN new
               /\ AccountsEqual(cfg[a], new[a])
        BY <1>5, <3>4 DEF Removed, Changed, Added
      <4>2. QED  BY <1>1, <1>2, <3>1, <3>2, <4>1 DEF Reached, Fits, AccountsEqual
    <3>5. QED  BY <3>3, <3>4
  <2>2. CASE targets # {}
    <3>1. Goal = new
      BY <1>3, <2>2 DEF Goal
    <3>2. (InDiff(a)' <=> InDiff(a)) /\ (Reached(a)' <=> Reached(a))
      BY <1>1, <1>2, <1>5, <3>1 DEF InDiff, Reached, Fits
    <3>3. QED  BY <1>4, <3>1, <3>2 DEF Aims
  <2>3. QED  BY <2>1, <2>2
<1>7. CASE /\ rl' = rl
           /\ Removed(cfg, new) \cup Changed(cfg, new) \cup Added(cfg, new) = {}
  <2>1. ASSUME NEW a \in Accounts PROVE Aims(a)'
    <3>1. ~InDiff(a)' /\ a \notin Added(cfg, new)
      BY <1>5, <1>7
    <3>2. QED  BY <1>2, <1>6, <3>1 DEF Aims
  <2>2. QED  BY <1>1, <1>7, <2>1 DEF AtWork
<1>8. CASE /\ rl'.pc = "next" /\ rl'.new = new /\ rl'.removed = Removed(cfg, new)
           /\ rl'.changed = Changed(cfg, new) /\ rl'.added = Added(cfg, new)
  <2>1. ASSUME NEW a \in Accounts PROVE Aims(a)'
    <3>1. Left(a)' <=> InDiff(a)'
      BY <1>5, <1>8 DEF Left
    <3>2. QED  BY <1>1, <1>2, <1>6, <1>8, <3>1 DEF Aims, Fits
  <2>2. QED  BY <1>2, <1>8, <2>1 DEF AtWork
<1>9. QED  BY <1>7, <1>8, BeginStep

\* A step that touches no task, no reload and no config.
LEMMA GoalFrame ==
  ASSUME GoalInv, UNCHANGED <<cfg, todo, inbound, outbound, rl, targets, latest, outcome>>,
         phase' = phase \/ phase' \notin {"starting", "running"}
  PROVE  GoalInv'
<1>1. CASE phase' = phase
  <2>1. Goal' = Goal
    BY DEF Goal
  <2>2. AtWork' <=> AtWork
    BY <2>1 DEF AtWork, Fits
  <2>3. ASSUME NEW a \in Accounts PROVE (Aims(a)' <=> Aims(a)) /\ (Spawned(a)' <=> Spawned(a))
    <3>1. (Reached(a)' <=> Reached(a)) /\ (InDiff(a)' <=> InDiff(a)) /\ (Left(a)' <=> Left(a))
      BY <2>1 DEF Reached, Fits, InDiff, Left, Removed, Changed, Added
    <3>2. Added(cfg, Goal)' = Added(cfg, Goal)
      BY <2>1 DEF Added
    <3>3. Aims(a)' <=> Aims(a)
      BY <2>1, <3>1, <3>2 DEF Aims, Fits
    <3>4. Spawned(a)' <=> Spawned(a)
      BY DEF Spawned, Fits
    <3>5. QED  BY <3>3, <3>4
  <2>4. QED  BY <1>1, <2>2, <2>3 DEF GoalInv, Alive
<1>2. CASE phase' \notin {"starting", "running"}
  BY <1>2 DEF GoalInv, Alive
<1>3. QED  BY <1>1, <1>2

\* A start spawns what the config says.
LEMMA GoalStart ==
  ASSUME TypeInv, LeaveInv, ManagerInv, GoalInv,
         \/ \E withGc \in BOOLEAN : StartInbound(withGc)
         \/ \E a \in Accounts : StartOutbound(a)
         \/ StartDone
  PROVE  GoalInv'
<1> USE DEF coreVars, inVars, outVars, taskVars, gcVars, lifeVars, goalVars, rlVars
<1>1. inbound \in Slots /\ outbound \in Slots /\ IsConfig(cfg) /\ health \in [Accounts -> Nat]
  BY DEF TypeInv, TypeOK
<1>2. ASSUME NEW withGc \in BOOLEAN, StartInbound(withGc) PROVE GoalInv'
  <2>1. /\ targets' = {} /\ phase' = "starting" /\ cfg' = cfg /\ todo' = DOMAIN cfg
        /\ outbound' = NoTasks
    BY <1>2 DEF StartInbound, ManagerInv
  <2>2. ASSUME NEW a \in Accounts PROVE Spawned(a)'
    <3>1. outbound'[a] = Nil
      BY <2>1 DEF NoTasks
    <3>2. CASE a \in DOMAIN cfg
      <4>1. inbound'[a] = [cfg |-> cfg[a], health |-> 1]
        BY <1>2, <3>2 DEF StartInbound
      <4>2. 1 \in Nat
        OBVIOUS
      <4>3. Fits(inbound'[a], cfg[a])
        BY <1>1, <3>2, <4>1, <4>2, SpawnFits
      <4>4. QED  BY <2>1, <3>1, <3>2, <4>3 DEF Spawned
    <3>3. CASE a \notin DOMAIN cfg
      BY <1>2, <2>1, <3>1, <3>3 DEF Spawned, StartInbound
    <3>4. QED  BY <3>2, <3>3
  <2>3. QED  BY <2>1, <2>2, FS_EmptySet DEF GoalInv
<1>3. ASSUME NEW a \in Accounts, StartOutbound(a) PROVE GoalInv'
  <2>1. /\ phase = "starting" /\ a \in todo /\ a \in DOMAIN cfg
        /\ UNCHANGED <<cfg, inbound, rl, targets, latest, outcome>>
    BY <1>3 DEF StartOutbound, TypeInv
  <2>2. CASE phase' = "failed"
    BY <2>1, <2>2 DEF GoalInv, Alive
  <2>3. CASE phase' # "failed"
    <3>1. /\ outbound' = [outbound EXCEPT ![a] = [cfg |-> cfg[a], health |-> health[a]]]
          /\ todo' = todo \ {a} /\ phase' = "starting"
      BY <1>3, <2>1, <2>3 DEF StartOutbound
    <3>2. Fits(outbound'[a], cfg[a])
      <4>1. outbound'[a] = [cfg |-> cfg[a], health |-> health[a]] /\ health[a] \in Nat
        BY <1>1, <3>1 DEF Slots
      <4>2. QED  BY <1>1, <2>1, <4>1, SpawnFits
    <3>3. ASSUME NEW b \in Accounts PROVE Spawned(b)'
      <4>1. Spawned(b)
        BY <2>1 DEF GoalInv
      <4>2. b # a => outbound'[b] = outbound[b] /\ (b \in todo' <=> b \in todo)
        BY <1>1, <3>1 DEF Slots
      <4>3. CASE b = a
        BY <2>1, <3>1, <3>2, <4>1, <4>3 DEF Spawned, Fits
      <4>4. CASE b # a
        BY <2>1, <4>1, <4>2, <4>4 DEF Spawned, Fits
      <4>5. QED  BY <4>3, <4>4
    <3>4. QED  BY <2>1, <3>1, <3>3 DEF GoalInv
  <2>4. QED  BY <2>2, <2>3
<1>4. CASE StartDone
  <2>1. /\ phase = "starting" /\ todo = {} /\ phase' = "running"
        /\ UNCHANGED <<cfg, inbound, outbound, rl, targets, latest, outcome>>
    BY <1>4 DEF StartDone
  <2>2. targets = {} /\ rl.pc = "idle" /\ \A a \in Accounts : Spawned(a)
    BY <2>1 DEF GoalInv, LeaveInv
  <2>3. Goal' = cfg
    BY <2>1, <2>2 DEF Goal
  <2>4. ASSUME NEW a \in Accounts PROVE Aims(a)'
    <3>1. Reached(a)'
      <4>1. Spawned(a)
        BY <2>2
      <4>2. QED  BY <2>1, <2>3, <4>1 DEF Spawned, Reached, Fits
    <3>2. a \notin Added(cfg, Goal)'
      BY <2>1, <2>3 DEF Added
    <3>3. QED  BY <3>1, <3>2 DEF Aims
  <2>5. AtWork'
    BY <2>1, <2>2 DEF AtWork
  <2>6. QED  BY <2>1, <2>2, <2>4, <2>5, FS_EmptySet DEF GoalInv
<1>5. QED  BY <1>2, <1>3, <1>4

\* Every action keeps GoalInv.
LEMMA GoalNext ==
  TypeInv /\ LeaveInv /\ ManagerInv /\ SharedInv /\ GoalInv /\ [Next]_vars => GoalInv'
<1> SUFFICES ASSUME TypeInv, LeaveInv, ManagerInv, SharedInv, GoalInv, [Next]_vars
             PROVE  GoalInv'
  OBVIOUS
<1> USE DEF coreVars, inVars, outVars, taskVars, gcVars, lifeVars, goalVars, rlVars
<1>1. CASE BootFails \/ StartNoop \/ SetRuntimeHandle \/ StopBegin \/ StopJoined
           \/ UNCHANGED vars
  BY <1>1, GoalFrame
     DEF BootFails, StartNoop, SetRuntimeHandle, StopBegin, StopJoined, vars
<1>2. CASE StopOutbound \/ StopInbound
  BY <1>2 DEF StopOutbound, StopInbound, GoalInv, Alive
<1>3. ASSUME NEW t \in {"in", "out"} \X Accounts, WorkerStep(t) PROVE GoalInv'
  BY <1>3, GoalFrame, WorkerFrame
<1>4. ASSUME NEW new \in Configs, ReloadBegin(new) PROVE GoalInv'
  <2>1. /\ targets' = targets \cup {new} /\ latest' = new /\ phase' = phase
        /\ phase \in {"running", "noop"}
    BY <1>4 DEF ReloadBegin
  <2>2. IsFiniteSet(targets')
    BY <2>1, FS_AddElement DEF GoalInv
  <2>3. rl'.pc = "idle" => outcome' # "none"
    BY <1>4, BeginStep
  <2>4. CASE phase = "running" /\ targets' \subseteq {latest'}
    BY <1>4, <2>1, <2>2, <2>3, <2>4, AimBegin DEF GoalInv
  <2>5. CASE ~(phase = "running" /\ targets' \subseteq {latest'})
    BY <2>1, <2>2, <2>3, <2>5 DEF GoalInv
  <2>6. QED  BY <2>4, <2>5
<1>5. CASE ReloadStep
  <2>1. UNCHANGED <<cfg, phase, todo, targets, latest>> /\ phase # "starting"
    <3>1. rl.pc # "idle"
      BY <1>5 DEF ReloadStep, ReloadNext, ReloadJoinOut, ReloadTearIn, ReloadJoinIn,
                  ReloadCheckCred, ReloadSpawnIn, ReloadSpawnOut, ReloadReturns
    <3>2. QED  BY <1>5, <3>1, ReloadFrame DEF LeaveInv
  <2>2. rl'.pc = "idle" => outcome' # "none"
    BY <1>5, ReloadEnds
  <2>3. CASE phase = "running" /\ targets \subseteq {latest}
    <3>1. AtWork' /\ \A a \in Accounts : Aims(a)'
      BY <1>5, <2>3, AimReload DEF GoalInv
    <3>2. QED  BY <2>1, <2>2, <3>1 DEF GoalInv
  <2>4. CASE ~(phase = "running" /\ targets \subseteq {latest})
    BY <2>1, <2>2, <2>4 DEF GoalInv
  <2>5. QED  BY <2>3, <2>4
<1>6. QED
  BY <1>1, <1>2, <1>3, <1>4, <1>5, GoalStart DEF Next, StartStep, StopStep

\* apply_account_diff, against the config of the boot each time: when every
\* reload since the start asked for one config and the last one returned Ok, the
\* plugin runs that config and nothing else, however many of them failed half way.
THEOREM ReloadsConverge == Spec => []RepeatedReloadConverges
<1> DEFINE I == TypeInv /\ LeaveInv /\ ManagerInv /\ SharedInv /\ GoalInv
<1>1. I => RepeatedReloadConverges
  <2> SUFFICES ASSUME I, Quiet, Cardinality(targets) <= 1, outcome # "err"
               PROVE  /\ core = DOMAIN Goal
                      /\ \A a \in Accounts, side \in {"in", "out"} :
                           /\ Slotted(side)[a] # Nil <=> a \in DOMAIN Goal
                           /\ a \in DOMAIN Goal =>
                                AccountsEqual(Slotted(side)[a].cfg, Goal[a])
    BY DEF RepeatedReloadConverges, Goal
  <2>1. targets \subseteq {latest}
    <3>1. CASE targets = {}
      BY <3>1
    <3>2. CASE targets # {}
      <4>1. PICK c : targets = {c}
        <5>1. IsFiniteSet(targets) /\ Cardinality(targets) \in Nat
          BY FS_CardinalityType DEF GoalInv
        <5>2. Cardinality(targets) # 0
          BY <3>2, <5>1, FS_EmptySet
        <5>3. Cardinality(targets) = 1
          BY <5>1, <5>2
        <5>4. QED  BY <5>1, <5>3, FS_Singleton
      <4>2. QED  BY <3>2, <4>1 DEF GoalInv
    <3>3. QED  BY <3>1, <3>2
  <2>2. phase = "running" /\ rl.pc = "idle" /\ \A a \in Accounts : Aims(a)
    BY <2>1 DEF Quiet, GoalInv
  <2>3. ASSUME NEW a \in Accounts PROVE Reached(a)
    <3>1. CASE outcome = "ok"
      BY <2>2, <3>1 DEF Aims
    <3>2. CASE outcome = "none"
      <4>1. Goal = cfg
        BY <2>2, <3>2 DEF Goal, GoalInv, Alive
      <4>2. ~InDiff(a)
        BY <4>1 DEF InDiff, Removed, Changed, Added, AccountsEqual
      <4>3. QED  BY <2>2, <4>2 DEF Aims
    <3>3. QED  BY <3>1, <3>2 DEF TypeInv, TypeOK
  <2>4. IsConfig(Goal)
    BY DEF Goal, TypeInv, TypeOK
  <2>5. ASSUME NEW a \in Accounts, NEW side \in {"in", "out"}
        PROVE  /\ Slotted(side)[a] # Nil <=> a \in DOMAIN Goal
               /\ a \in DOMAIN Goal => AccountsEqual(Slotted(side)[a].cfg, Goal[a])
    BY <2>3 DEF Reached, Fits, Slotted
  <2>6. ASSUME NEW a \in Accounts PROVE a \in core <=> a \in DOMAIN Goal
    <3>1. a \in core <=> outbound[a] # Nil
      BY <2>2 DEF SharedInv, Shares, Alive
    <3>2. outbound[a] # Nil <=> a \in DOMAIN Goal
      BY <2>3 DEF Reached, Fits
    <3>3. QED  BY <3>1, <3>2
  <2>7. core = DOMAIN Goal
    <3>1. core \subseteq Accounts /\ DOMAIN Goal \subseteq Accounts
      BY <2>4 DEF TypeInv, TypeOK, IsConfig
    <3>2. QED  BY <2>6, <3>1
  <2>8. QED  BY <2>5, <2>7
<1>2. Init => I
  BY TypeInit, LeaveInit, StopInit, SharedInit, GoalInit
<1>3. I /\ [Next]_vars => I'
  BY TypeNext, LeaveNext, ManagerNext, SharedNext, GoalNext
<1>4. QED  BY <1>1, <1>2, <1>3, PTL DEF Spec

=============================================================================
