----------------------------- MODULE Lifecycle -----------------------------
(***************************************************************************)
(* One EmailPlugin from boot to stop (src/src/plugin.rs, reload.rs,        *)
(* main.rs, runtime_handle.rs, subprocess_dispatch.rs): start, the surgical*)
(* hot reload, stop, and what the tools and the health endpoint see in     *)
(* between.  What a worker does is the business of Inbound and Outbound;   *)
(* here it is a task that runs for a version of its account's config until *)
(* it is cancelled.                                                        *)
(*                                                                         *)
(* The managers are behind one mutex each.  The guard of                   *)
(* `if let Some(m) = self.x.lock().await` lives to the end of the block,   *)
(* so a removal holds its mutex while it waits for the worker.             *)
(***************************************************************************)
EXTENDS Naturals, FiniteSets, Functions

CONSTANTS
  Accounts,     \* instance ids
  Ends,         \* what accounts_equal compares: address, endpoints, folders...
  Limits,       \* bootstrap_limit, which it does not
  Boots,        \* the configs the process may boot with
  Configs,      \* the configs a reload may bring
  Secrets,      \* the sets of accounts whose secret may be present
  Nil,
  JoinTimesOut,           \* may a cancelled worker outlive the 5 s join?
  MaxStarts, MaxReloads   \* bounds

AccountCfg == [ends : Ends, limit : Limits]

\* A config is a function from the accounts it declares.
IsConfig(c) == DOMAIN c \subseteq Accounts /\ Range(c) \subseteq AccountCfg

ASSUME LifecycleAssumption ==
  /\ \A c \in Boots \cup Configs : IsConfig(c)
  /\ Secrets \subseteq SUBSET Accounts
  /\ Nil \notin [cfg : AccountCfg, health : Nat]
  /\ JoinTimesOut \in BOOLEAN
  /\ MaxStarts \in Nat /\ MaxReloads \in Nat

VARIABLES
  cfg,        \* EmailPlugin.cfg
  enabled,    \* cfg.enabled
  creds,      \* the accounts EmailCredentialStore knows
  phase,      \* the life of the plugin
  todo,       \* accounts OutboundDispatcher::start has still to add
  handle,     \* main.rs published the runtime handle
  inbound,    \* the tasks of InboundManager.workers
  hasInbound, \* EmailPlugin.inbound is Some
  outbound,   \* the tasks of OutboundDispatcher.workers
  hasOutbound,
  core,       \* DispatcherCore.instances
  health,     \* HealthMap: which AccountHealth an instance has, 0 for none
  leaving,    \* cancelled tasks that a join waits for
  detached,   \* how many tasks have outlived their join and still run
  stray,      \* tasks that run with no manager to cancel them
  gc,         \* GC tasks: "own" can be cancelled through gc_cancel
  gcCell,     \* OnceCell gc_cancel
  rl,         \* the apply_account_diff in progress
  starts, reloads,
  \* history
  failed,     \* some start returned Err
  targets,    \* configs given to the reloads since the last start
  latest,     \* the last of them
  outcome     \* of the last reload

coreVars == <<cfg, enabled, creds>>
inVars   == <<inbound, hasInbound>>
outVars  == <<outbound, hasOutbound, core>>
taskVars == <<leaving, detached, stray>>
gcVars   == <<gc, gcCell>>
lifeVars == <<phase, todo, handle, starts, failed>>
goalVars == <<reloads, targets, latest>>
rlVars   == <<rl, goalVars, outcome>>
vars == <<coreVars, inVars, outVars, health, taskVars, gcVars, lifeVars, rlVars>>

Task == [cfg : AccountCfg, health : Nat]
Slots == [Accounts -> Task \cup {Nil}]
NoTasks == [a \in Accounts |-> Nil]

Phases == {"new", "noop", "starting", "running", "failed",
           "stopOut", "stopJoinOut", "stopIn", "stopJoinIn", "stopped"}

\* Where apply_account_diff awaits.
RlPcs == {"idle", "next", "joinOut", "tearIn", "joinIn", "cred", "spawnIn",
          "spawnOut"}

NoReload == [pc |-> "idle", new |-> <<>>, removed |-> {}, changed |-> {},
             added |-> {}, at |-> Nil]

TypeOK ==
  /\ IsConfig(cfg) /\ enabled \in BOOLEAN /\ creds \subseteq Accounts
  /\ phase \in Phases /\ todo \subseteq Accounts /\ handle \in BOOLEAN
  /\ inbound \in Slots /\ hasInbound \in BOOLEAN
  /\ outbound \in Slots /\ hasOutbound \in BOOLEAN
  /\ core \subseteq Accounts /\ health \in [Accounts -> Nat]
  /\ leaving \subseteq {"in", "out"} \X Accounts
  /\ detached \in [{"in", "out"} \X Accounts -> Nat]
  /\ stray \subseteq {"in", "out"} \X Accounts
  /\ gc \subseteq {"own", "other"} /\ gcCell \in {"unset", "armed", "cancelled"}
  /\ rl.pc \in RlPcs /\ IsConfig(rl.new) /\ rl.at \in Accounts \cup {Nil}
  /\ rl.removed \cup rl.changed \cup rl.added \subseteq Accounts
  /\ starts \in 0..MaxStarts /\ reloads \in 0..MaxReloads
  /\ failed \in BOOLEAN /\ targets \subseteq Configs /\ IsConfig(latest)
  /\ outcome \in {"none", "ok", "err"}

Init ==
  /\ cfg \in Boots /\ enabled \in BOOLEAN /\ creds \in Secrets
  /\ phase = "new" /\ todo = {} /\ handle = FALSE
  /\ inbound = NoTasks /\ hasInbound = FALSE
  /\ outbound = NoTasks /\ hasOutbound = FALSE /\ core = {}
  /\ health = [a \in Accounts |-> 0]
  /\ leaving = {} /\ detached = [t \in {"in", "out"} \X Accounts |-> 0]
  /\ stray = {}
  /\ gc = {} /\ gcCell = "unset"
  /\ rl = NoReload
  /\ starts = 0 /\ reloads = 0
  /\ failed = FALSE /\ targets = {} /\ latest = <<>> /\ outcome = "none"

-----------------------------------------------------------------------------
(* Helpers.                                                                *)

\* The tasks a side's slots hold.
Held(side, slots) == { <<side, a>> : a \in { x \in Accounts : slots[x] # Nil } }

\* An AccountHealth that neither slot of this account and no map entry has.
FreshHealth(a) ==
  LET used == {health[a]} \cup { slots[a].health :
                slots \in { s \in {inbound, outbound} : s[a] # Nil } }
  IN CHOOSE n \in 1..4 : n \notin used /\ \A k \in 1..(n - 1) : k \in used

\* accounts_equal: field by field, bootstrap_limit left out.
AccountsEqual(x, y) == x.ends = y.ends

\* Mutant: every account in both configs is restarted.
ChangedAlways(old, new) == DOMAIN old \cap DOMAIN new

\* compute_account_diff.
Removed(old, new) == DOMAIN old \ DOMAIN new
Added(old, new)   == DOMAIN new \ DOMAIN old
Changed(old, new) == { a \in DOMAIN old \cap DOMAIN new :
                         ~AccountsEqual(old[a], new[a]) }

\* Mutant: the mutex is taken again while add_account holds it.
OutboundFreeReentrant ==
  rl.pc \notin {"joinOut", "spawnOut"} /\ phase # "stopJoinOut"

InboundFree  == rl.pc # "joinIn" /\ phase # "stopJoinIn"
OutboundFree == rl.pc # "joinOut" /\ phase # "stopJoinOut"

-----------------------------------------------------------------------------
(* boot_plugin and EmailPlugin::start.                                     *)

\* The environment or the broker is missing: nothing was started.
BootFails ==
  /\ phase = "new"
  /\ phase' = "failed" /\ failed' = TRUE
  /\ UNCHANGED <<coreVars, inVars, outVars, health, taskVars, gcVars, todo,
                 handle, starts, rlVars>>

\* Disabled, or no account to serve.
StartNoop ==
  /\ phase = "new" /\ starts < MaxStarts
  /\ ~enabled \/ DOMAIN cfg = {}
  /\ phase' = "noop" /\ starts' = starts + 1
  /\ UNCHANGED <<coreVars, inVars, outVars, health, taskVars, gcVars, todo,
                 handle, failed, rlVars>>

\* InboundManager::start spawns a worker per account without awaiting, the GC
\* task is spawned (if a retention is set), and the manager is put in place.
\* gc_cancel is a OnceCell: a second set fails, and the error is dropped.
StartInbound(withGc) ==
  /\ phase \in {"new", "stopped"} /\ starts < MaxStarts
  /\ enabled /\ DOMAIN cfg # {} /\ rl.pc = "idle"
  /\ phase' = "starting" /\ starts' = starts + 1
  /\ inbound' = [a \in Accounts |->
       IF a \in DOMAIN cfg THEN [cfg |-> cfg[a], health |-> 1] ELSE Nil]
  /\ health' = [a \in Accounts |-> IF a \in DOMAIN cfg THEN 1 ELSE 0]
  /\ hasInbound' = TRUE
  /\ gc' = IF withGc THEN gc \cup {IF gcCell = "unset" THEN "own" ELSE "other"}
                     ELSE gc
  /\ gcCell' = IF withGc /\ gcCell = "unset" THEN "armed" ELSE gcCell
  /\ todo' = DOMAIN cfg /\ core' = {} /\ targets' = {} /\ latest' = <<>>
  /\ outcome' = "none"
  /\ UNCHANGED <<coreVars, outbound, hasOutbound, taskVars, handle, failed, rl,
                 reloads>>

\* OutboundDispatcher::start: add_account opens the queue file.  An error
\* leaves through `?`: the half built dispatcher is dropped, which detaches its
\* workers, and start returns Err with the inbound manager in place.
StartOutbound(a) ==
  /\ phase = "starting" /\ a \in todo
  /\ \/ /\ outbound' = [outbound EXCEPT ![a] = [cfg |-> cfg[a], health |-> health[a]]]
        /\ core' = core \cup {a} /\ todo' = todo \ {a}
        /\ UNCHANGED <<stray, phase, failed>>
     \/ /\ stray' = stray \cup Held("out", outbound)
        /\ outbound' = NoTasks /\ core' = {} /\ todo' = {}
        /\ phase' = "failed" /\ failed' = TRUE
  /\ UNCHANGED <<coreVars, inVars, hasOutbound, health, leaving, detached, gcVars,
                 handle, starts, rlVars>>

StartDone ==
  /\ phase = "starting" /\ todo = {} /\ OutboundFree
  /\ phase' = "running" /\ hasOutbound' = TRUE
  /\ UNCHANGED <<coreVars, inVars, outbound, core, health, taskVars, gcVars,
                 todo, handle, starts, failed, rlVars>>

\* main.rs publishes the plugin after start returned Ok.
SetRuntimeHandle ==
  /\ phase \in {"running", "noop"} /\ ~handle
  /\ handle' = TRUE
  /\ UNCHANGED <<coreVars, inVars, outVars, health, taskVars, gcVars, phase,
                 todo, starts, failed, rlVars>>

-----------------------------------------------------------------------------
(* EmailPlugin::stop.                                                      *)

\* The token, the dispatcher, the manager, in that order.
StopBegin ==
  /\ phase \in {"running", "failed"} /\ starts > 0
  /\ phase' = "stopOut"
  /\ gcCell' = IF gcCell = "unset" THEN "unset" ELSE "cancelled"
  /\ gc' = IF gcCell = "unset" THEN gc ELSE gc \ {"own"}
  /\ UNCHANGED <<coreVars, inVars, outVars, health, taskVars, todo, handle,
                 starts, failed, rlVars>>

StopOutbound ==
  /\ phase = "stopOut" /\ OutboundFree
  /\ phase' = "stopJoinOut"
  /\ leaving' = leaving \cup Held("out", outbound)
  /\ outbound' = NoTasks /\ hasOutbound' = FALSE /\ core' = {}
  /\ UNCHANGED <<coreVars, inVars, health, detached, stray, gcVars, todo,
                 handle, starts, failed, rlVars>>

StopInbound ==
  /\ phase = "stopIn" /\ InboundFree
  /\ phase' = "stopJoinIn"
  /\ leaving' = leaving \cup Held("in", inbound)
  /\ inbound' = NoTasks /\ hasInbound' = FALSE
  /\ health' = [a \in Accounts |-> 0]
  /\ UNCHANGED <<coreVars, outVars, detached, stray, gcVars, todo, handle,
                 starts, failed, rlVars>>

\* join_all returns: every worker has ended, or the 5 s are over.
StopJoined ==
  /\ \/ /\ phase = "stopJoinOut" /\ phase' = "stopIn"
        /\ \A a \in Accounts : <<"out", a>> \notin leaving
     \/ /\ phase = "stopJoinIn" /\ phase' = "stopped"
        /\ \A a \in Accounts : <<"in", a>> \notin leaving
  /\ UNCHANGED <<coreVars, inVars, outVars, health, taskVars, gcVars, todo,
                 handle, starts, failed, rlVars>>

-----------------------------------------------------------------------------
(* How a join ends: timeout(5 s, handle), in remove_account and in stop.   *)

\* A cancelled worker reaches its next select and returns.
WorkerEnds(t) ==
  /\ t \in leaving /\ leaving' = leaving \ {t}
  /\ UNCHANGED <<coreVars, inVars, outVars, health, detached, stray, gcVars,
                 lifeVars, rlVars>>

\* The 5 s are over: the result is ignored and the handle dropped, which does not
\* abort the worker.  It runs on, detached, and whoever waited for it goes on.
JoinExpires(t) ==
  /\ JoinTimesOut
  /\ t \in leaving /\ leaving' = leaving \ {t}
  /\ detached' = [detached EXCEPT ![t] = @ + 1]
  /\ UNCHANGED <<coreVars, inVars, outVars, health, stray, gcVars, lifeVars,
                 rlVars>>

\* A detached worker returns at last.
DetachedEnds(t) ==
  /\ detached[t] > 0 /\ detached' = [detached EXCEPT ![t] = @ - 1]
  /\ UNCHANGED <<coreVars, inVars, outVars, health, leaving, stray, gcVars,
                 lifeVars, rlVars>>

-----------------------------------------------------------------------------
(* apply_account_diff.                                                     *)

\* The diff is taken between the boot config and the new one.
ReloadBegin(new) ==
  /\ rl.pc = "idle" /\ reloads < MaxReloads
  /\ phase \in {"running", "noop"}
  /\ reloads' = reloads + 1 /\ targets' = targets \cup {new} /\ latest' = new
  /\ LET diff == [pc |-> "next", new |-> new,
                  removed |-> Removed(cfg, new), changed |-> Changed(cfg, new),
                  added |-> Added(cfg, new), at |-> Nil]
     IN IF diff.removed \cup diff.changed \cup diff.added = {}
        THEN outcome' = "ok" /\ UNCHANGED rl
        ELSE rl' = diff /\ UNCHANGED outcome
  /\ UNCHANGED <<coreVars, inVars, outVars, health, taskVars, gcVars, lifeVars>>

\* Mutant: a changed account is spawned like an added one.
ReloadNextNoTeardown(a) ==
  /\ rl.pc = "next" /\ rl.removed = {}
  /\ a \in rl.changed \/ (rl.changed = {} /\ a \in rl.added)
  /\ rl' = [rl EXCEPT !.pc = "cred", !.at = a]
  /\ UNCHANGED <<coreVars, inVars, outVars, health, taskVars, gcVars, lifeVars,
                 goalVars, outcome>>

\* Removed accounts first, then changed, then added, each list in the order of
\* the file; a removed or changed account loses its outbound worker first.
ReloadNext(a) ==
  /\ rl.pc = "next"
  /\ \/ a \in rl.removed
     \/ rl.removed = {} /\ a \in rl.changed
     \/ rl.removed = {} /\ rl.changed = {} /\ a \in rl.added
  /\ IF a \in rl.added
     THEN /\ rl' = [rl EXCEPT !.pc = "cred", !.at = a]
          /\ UNCHANGED <<outbound, leaving>>
     ELSE /\ OutboundFree
          /\ IF outbound[a] = Nil \/ ~hasOutbound
             THEN /\ rl' = [rl EXCEPT !.pc = "tearIn", !.at = a]
                  /\ UNCHANGED <<outbound, leaving>>
             ELSE /\ rl' = [rl EXCEPT !.pc = "joinOut", !.at = a]
                  /\ outbound' = [outbound EXCEPT ![a] = Nil]
                  /\ leaving' = leaving \cup {<<"out", a>>}
  /\ UNCHANGED <<coreVars, inVars, hasOutbound, core, health, detached, stray,
                 gcVars, lifeVars, goalVars, outcome>>

\* Mutant: the join is not awaited.
ReloadJoinOutAtOnce ==
  /\ rl.pc = "joinOut"
  /\ core' = core \ {rl.at}
  /\ rl' = [rl EXCEPT !.pc = "tearIn"]
  /\ UNCHANGED <<coreVars, inVars, outbound, hasOutbound, health, taskVars,
                 gcVars, lifeVars, goalVars, outcome>>

\* OutboundDispatcher::remove_account returns.
ReloadJoinOut ==
  /\ rl.pc = "joinOut" /\ <<"out", rl.at>> \notin leaving
  /\ core' = core \ {rl.at}
  /\ rl' = [rl EXCEPT !.pc = "tearIn"]
  /\ UNCHANGED <<coreVars, inVars, outbound, hasOutbound, health, taskVars,
                 gcVars, lifeVars, goalVars, outcome>>

\* The torn down account is dropped for good, or spawned again.
TornDown ==
  rl' = IF rl.at \in rl.removed
        THEN [rl EXCEPT !.pc = "next", !.removed = @ \ {rl.at}, !.at = Nil]
        ELSE [rl EXCEPT !.pc = "cred"]

ReloadTearIn ==
  /\ rl.pc = "tearIn" /\ InboundFree
  /\ IF inbound[rl.at] = Nil
     THEN TornDown /\ UNCHANGED <<inbound, leaving>>
     ELSE /\ inbound' = [inbound EXCEPT ![rl.at] = Nil]
          /\ leaving' = leaving \cup {<<"in", rl.at>>}
          /\ rl' = [rl EXCEPT !.pc = "joinIn"]
  /\ UNCHANGED <<coreVars, hasInbound, outVars, health, detached, stray, gcVars,
                 lifeVars, goalVars, outcome>>

\* Mutant: the health entry is blanked and not removed.
ReloadJoinInBlank ==
  /\ rl.pc = "joinIn" /\ <<"in", rl.at>> \notin leaving
  /\ health' = [health EXCEPT ![rl.at] = Nil]
  /\ TornDown
  /\ UNCHANGED <<coreVars, inVars, outVars, taskVars, gcVars, lifeVars, goalVars,
                 outcome>>

\* InboundManager::remove_account returns.
ReloadJoinIn ==
  /\ rl.pc = "joinIn" /\ <<"in", rl.at>> \notin leaving
  /\ health' = [health EXCEPT ![rl.at] = 0]
  /\ TornDown
  /\ UNCHANGED <<coreVars, inVars, outVars, taskVars, gcVars, lifeVars, goalVars,
                 outcome>>

\* `?`: the rest of the diff is not applied.
Abandon == rl' = NoReload /\ outcome' = "err"

\* spawn_account: the credential is looked up before anything is spawned.
ReloadCheckCred ==
  /\ rl.pc = "cred"
  /\ IF rl.at \in creds
     THEN rl' = [rl EXCEPT !.pc = "spawnIn"] /\ UNCHANGED outcome
     ELSE Abandon
  /\ UNCHANGED <<coreVars, inVars, outVars, health, taskVars, gcVars, lifeVars,
                 goalVars>>

\* Mutant: the manager was looked up when the reload began.
ReloadSpawnInCaptured ==
  LET a == rl.at IN
  /\ rl.pc = "spawnIn" /\ InboundFree
  /\ rl' = [rl EXCEPT !.pc = "spawnOut"]
  /\ IF inbound[a] # Nil
     THEN UNCHANGED <<inbound, health>>
     ELSE /\ inbound' = [inbound EXCEPT ![a] =
               [cfg |-> rl.new[a], health |-> FreshHealth(a)]]
          /\ health' = [health EXCEPT ![a] = FreshHealth(a)]
  /\ UNCHANGED <<coreVars, hasInbound, outVars, taskVars, gcVars, lifeVars,
                 goalVars, outcome>>

\* InboundManager::add_account: a noop for an account that has a worker.
ReloadSpawnIn ==
  LET a == rl.at IN
  /\ rl.pc = "spawnIn" /\ InboundFree
  /\ IF ~hasInbound
     THEN Abandon /\ UNCHANGED <<inbound, health>>
     ELSE /\ rl' = [rl EXCEPT !.pc = "spawnOut"] /\ UNCHANGED outcome
          /\ IF inbound[a] # Nil
             THEN UNCHANGED <<inbound, health>>
             ELSE /\ inbound' = [inbound EXCEPT ![a] =
                       [cfg |-> rl.new[a], health |-> FreshHealth(a)]]
                  /\ health' = [health EXCEPT ![a] = FreshHealth(a)]
  /\ UNCHANGED <<coreVars, hasInbound, outVars, taskVars, gcVars, lifeVars,
                 goalVars>>

\* Mutant: add_account inserts a health entry of its own.
ReloadSpawnOutOwnHealth ==
  LET a == rl.at IN
  /\ rl.pc = "spawnOut" /\ OutboundFree /\ hasOutbound /\ outbound[a] = Nil
  /\ outbound' = [outbound EXCEPT ![a] = [cfg |-> rl.new[a],
                                         health |-> FreshHealth(a)]]
  /\ core' = core \cup {a} /\ health' = [health EXCEPT ![a] = FreshHealth(a)]
  /\ rl' = [rl EXCEPT !.pc = "next", !.at = Nil, !.changed = @ \ {a},
                      !.added = @ \ {a}]
  /\ UNCHANGED <<coreVars, inVars, hasOutbound, taskVars, gcVars, lifeVars,
                 goalVars, outcome>>

\* OutboundDispatcher::add_account, which opens the queue file and takes the
\* account's health entry, or makes one.
ReloadSpawnOut ==
  LET a == rl.at
      h == IF health[a] = 0 THEN FreshHealth(a) ELSE health[a]
      rest == [rl EXCEPT !.pc = "next", !.at = Nil,
                         !.changed = @ \ {a}, !.added = @ \ {a}]
  IN
  /\ rl.pc = "spawnOut" /\ OutboundFree
  /\ \/ /\ hasOutbound /\ outbound[a] # Nil
        /\ rl' = rest /\ UNCHANGED <<outbound, core, health, outcome>>
     \/ /\ hasOutbound /\ outbound[a] = Nil
        /\ outbound' = [outbound EXCEPT ![a] = [cfg |-> rl.new[a], health |-> h]]
        /\ core' = core \cup {a} /\ health' = [health EXCEPT ![a] = h]
        /\ rl' = rest /\ UNCHANGED outcome
     \/ /\ ~hasOutbound \/ outbound[a] = Nil    \* no dispatcher, or I/O error
        /\ Abandon /\ UNCHANGED <<outbound, core, health>>
  /\ UNCHANGED <<coreVars, inVars, hasOutbound, taskVars, gcVars, lifeVars,
                 goalVars>>

ReloadReturns ==
  /\ rl.pc = "next" /\ rl.removed \cup rl.changed \cup rl.added = {}
  /\ rl' = NoReload /\ outcome' = "ok"
  /\ UNCHANGED <<coreVars, inVars, outVars, health, taskVars, gcVars, lifeVars,
                 goalVars>>

-----------------------------------------------------------------------------
ReloadStep ==
  \/ \E a \in Accounts : ReloadNext(a)
  \/ ReloadJoinOut \/ ReloadTearIn \/ ReloadJoinIn
  \/ ReloadCheckCred \/ ReloadSpawnIn \/ ReloadSpawnOut \/ ReloadReturns

StartStep == (\E a \in Accounts : StartOutbound(a)) \/ StartDone
StopStep  == StopOutbound \/ StopInbound \/ StopJoined
WorkerStep(t) == WorkerEnds(t) \/ JoinExpires(t) \/ DetachedEnds(t)

Next ==
  \/ BootFails \/ StartNoop \/ SetRuntimeHandle
  \/ \E withGc \in BOOLEAN : StartInbound(withGc)
  \/ StartStep
  \/ StopBegin \/ StopStep
  \/ \E t \in {"in", "out"} \X Accounts : WorkerStep(t)
  \/ \E new \in Configs : ReloadBegin(new)
  \/ ReloadStep

Spec == Init /\ [][Next]_vars

\* tokio polls the call in progress.  A join that is awaited ends, because the
\* worker returned or because the timer fired; nothing says that a detached worker
\* ever returns.
FairSpec ==
  /\ Spec
  /\ WF_vars(StartStep \/ StopStep) /\ WF_vars(ReloadStep)
  /\ WF_vars(\E t \in leaving : WorkerEnds(t) \/ JoinExpires(t))

-----------------------------------------------------------------------------
(* What the tools and the endpoints see.                                   *)

\* dispatch_email_tool: a tool is answered once main.rs published the plugin
\* and while the dispatcher is there; before and after it is Unavailable.
Serves == handle /\ hasOutbound

\* build_tool_context: the config of the boot and the dispatcher of now.
ToolContext == [config |-> cfg, instances |-> core]

\* email_instances_list: the accounts of the context and their is_live.
InstancesList ==
  IF Serves THEN [a \in DOMAIN ToolContext.config |-> a \in ToolContext.instances]
            ELSE <<>>

\* render_health_snapshot, metrics_scrape: the instances they report.
Reported == IF handle /\ hasInbound THEN { a \in Accounts : health[a] # 0 } ELSE {}

\* email_health: the instances of the context's health map, which is empty
\* while there is no inbound manager.
EmailHealth == IF Serves THEN Reported ELSE {}

-----------------------------------------------------------------------------
(* Properties.                                                             *)

Quiet == rl.pc = "idle" /\ phase = "running"

Slotted(side) == IF side = "in" THEN inbound ELSE outbound

\* An account that is the same in the boot config and in the reloaded one
\* keeps its two workers, whatever the rest of the diff does or how it fails:
\* "sibling accounts keep their IDLE / drain loops untouched"
\* (plugin.rs:197).
SiblingsUntouched ==
  [][\A a \in Accounts :
       /\ rl.pc # "idle" /\ phase' = phase
       /\ a \in DOMAIN cfg \cap DOMAIN rl.new
       /\ AccountsEqual(cfg[a], rl.new[a])
       => inbound'[a] = inbound[a] /\ outbound'[a] = outbound[a]
     ]_<<inbound, outbound>>

\* While the plugin runs and no reload is going on, every account of the
\* config last asked for, and no other, has both workers, an entry the tools
\* can enqueue through, and workers that run with the config (up to what
\* accounts_equal compares) - provided the last reload returned Ok and every
\* reload so far, those that failed half way included, asked for that config.
RepeatedReloadConverges ==
  (Quiet /\ Cardinality(targets) <= 1 /\ outcome # "err") =>
    LET goal == IF targets = {} THEN cfg ELSE latest IN
    /\ core = DOMAIN goal
    /\ \A a \in Accounts, side \in {"in", "out"} :
         /\ Slotted(side)[a] # Nil <=> a \in DOMAIN goal
         /\ a \in DOMAIN goal =>
              AccountsEqual(Slotted(side)[a].cfg, goal[a])

\* The two workers of an account share one AccountHealth, the one in the map:
\* the counters the outbound worker moves are those the endpoints show
\* (outbound.rs:176-178) and email_health answers.  What email_instances_list
\* says of an account it lists is true of its outbound worker, after reloads
\* that failed as well.
HealthIsShared ==
  (Quiet /\ handle) =>
    /\ Reported = { a \in Accounts : inbound[a] # Nil } /\ EmailHealth = Reported
    /\ \A a \in Accounts, side \in {"in", "out"} :
         Slotted(side)[a] # Nil => Slotted(side)[a].health = health[a]
    /\ \A a \in DOMAIN InstancesList : InstancesList[a] <=> outbound[a] # Nil

\* Tasks of one side of an account that somebody still minds: the one in the
\* slot, and the one a join waits for.
Workers(side, a) == (IF Slotted(side)[a] # Nil THEN 1 ELSE 0)
                    + (IF <<side, a>> \in leaving THEN 1 ELSE 0)

\* At most one worker of each side of an account has not outlived its join: a new
\* one is spawned only when the old one has ended or has used up its 5 s,
\* whatever reloads and stop do at the same time.  Only a start that failed
\* leaves a worker nobody minds.
OneWorkerPerSide ==
  \A a \in Accounts, side \in {"in", "out"} :
    /\ Workers(side, a) <= 1
    /\ <<side, a>> \in stray => failed

\* What plugin.rs:200-205 promises of a reload: no worker claims the queue file,
\* or the mailbox, while an old one of the account is still running.  It holds as
\* long as no worker outlives its join.
NoCollision ==
  /\ OneWorkerPerSide
  /\ \A a \in Accounts, side \in {"in", "out"} :
       Workers(side, a) + detached[<<side, a>>] <= 1

\* After stop, whatever a reload was doing when it began, no worker is left that
\* was not cancelled and given its 5 s, no GC task, and no reload that can still
\* start one.  What may run on are the workers that outlived their join; only a
\* start that failed leaves others behind, and only a second start a GC task.
StopLeavesNothing ==
  phase = "stopped" =>
    /\ \A a \in Accounts, side \in {"in", "out"} : Workers(side, a) = 0
    /\ ~failed => stray = {}
    /\ starts = 1 => gc = {}

\* start, stop and apply_account_diff return: no order of their locks and
\* joins blocks them.
CallsReturn ==
  /\ (rl.pc # "idle") ~> (rl.pc = "idle")
  /\ (phase = "starting") ~> (phase \in {"running", "failed"})
  /\ (phase = "stopOut") ~> (phase = "stopped")
=============================================================================
