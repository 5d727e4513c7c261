# Verification of nexo-plugin-email

TLA+ models of the email plugin, TLC runs on small instances, and proofs checked by TLAPS.
Source paths are written `src/...`, relative to the directory that holds the repository; the
Rust code is in `src/src/`, and a bare file name below means a file there.

## 1. The system

The plugin connects mail accounts ("instances") with the Nexo agent framework. One process
serves any number of accounts. Mail comes in over IMAP and is published on broker topics; commands
from tools or from the broker go out over SMTP. Tokio tasks run concurrently and meet in shared
state, JSONL files and SQLite tables.

### Components

| component (source) | state it keeps | operations | modelled in |
|---|---|---|---|
| Outbound queue files (`outbound_queue.rs`) | per account `<instance>.jsonl` with live rows and tombstones, `<instance>.dlq.jsonl`; one mutex per `OutboundQueue` object | `enqueue`, `update`, `mark_done`, `move_to_dlq`, `list_pending`, `compact_if_needed`, `trim_dlq` | `OutboundQueue`, `Outbound`; `OutboundProofs`, `OutboundLedgerProofs` |
| Outbound dispatcher (`outbound.rs`) | `DispatcherCore.instances`, `workers`; per worker a cancel token, an `in_flight` map, a breaker | `enqueue_for_instance` (tools), `enqueue_command` (broker), `run`/`drain_tick`/`send_one`/`handle_outcome`, `add_account`, `remove_account`, `stop` | `Outbound`, `Outbox`; `OutboundProofs`, `OutboundLedgerProofs` |
| Inbound worker and manager (`inbound.rs`) | per worker an IMAP session, `last_uid`, a breaker; `InboundManager.workers` | `run`, `connect_select_and_loop`, `drain_pending`, `idle_loop`, `poll_loop`, `add_account`, `remove_account`, `stop` | `Inbound`, `InboundProofs`; its effects in `Stores`, `Mailbox` |
| UID cursor (`cursor.rs`) | SQLite row (instance, folder) -> (uid_validity, last_uid) | `get`, `set`, `reset_if_validity_changed` | `Inbound`, `InboundProofs` |
| Account health (`health.rs`) | per account worker state, counters, gauges | written by both workers, read by the endpoints | `Lifecycle`, partly `Inbound`, `Outbound` |
| Plugin and hot reload (`plugin.rs`, `reload.rs`, `runtime_handle.rs`) | the two managers, each behind a mutex, the boot config, the GC task, the runtime handle | `start`, `stop`, `apply_account_diff`, `spawn_account`, the daily task | `Lifecycle`, `LifecycleProofs` |
| Attachment store (`attachment_store.rs`, `write_dedup`) | SQLite rows and the files they name | `record`, `last_seen`, `gc` | `Stores`, `StoresProofs` |
| Bounce store (`bounce_store.rs`) | SQLite rows (instance, recipient) | `record`, `get`, `prune`, summaries | `Stores`, `StoresProofs` |
| Threading (`threading.rs`) | none (pure) | thread root, reply headers, `truncate_references` | `Threading`, `Mailbox`; `ThreadingProofs`, `MailboxProofs` |
| DSN, loop prevention (`dsn.rs`, `loop_prevent.rs`) | none (pure) | `parse_bounce`, `should_skip` | `Threading`, `Mailbox`; `MailboxProofs` |
| MIME (`mime_parse.rs`, `mime_build.rs`) | attachment files | `parse_eml`, `build_mime` | partly `Stores`, `Mailbox` |
| Multi-tenant boot (`boot.rs`, `configured_state.rs`, `instance_registry.rs`, `env_config.rs`, `main.rs`) | the configured state, a registry of plugins | `apply_configure`, `on_configure`, credential handlers, `boot_plugin` | `Tenants`, `TenantsProofs`, `Lifecycle` |
| Tools (`tool/*.rs`) | none | twelve tools, each one or two calls on the above | `Outbound`, `Stores`, `Mailbox`, `Lifecycle` |
| Daemon interface (`subprocess_dispatch.rs`, `auto_discovery.rs`, `metrics.rs`, `config.rs`) | none | dispatch, parsing, rendering | what it reports: `Lifecycle`, `Tenants` |

External: IMAP and SMTP clients (nexo-email-probe), the broker (nexo-broker), the circuit breaker
(nexo-resilience), SQLite, tokio. They are modelled by how the code uses them.

### How they interact

- A tool calls `enqueue_for_instance`, which appends to the queue file. The account's outbound worker
  polls that file once a second, sends, and publishes an ack. A broker command is received by
  the same worker, which appends it to the same file.
- The inbound worker fetches, parses, records attachments, then routes: a DSN goes to the bounce
  store and to `email.bounce.<instance>`, a suppressed message goes nowhere, any other one is
  published; then the cursor moves.
- A reload calls `remove_account` and `add_account` of both sides. The two cancel the old worker and
  wait at most 5 s for it; a worker that takes longer is detached, not stopped.
- `email_send` asks the bounce store before it enqueues; the daily task prunes it.
- The agent learns UIDs from events and searches, and names them later to `email_reply`, `email_archive`
  and `email_move_to`, which open IMAP sessions of their own.
- The host sends `plugin.configure`; the credential handlers and `list_tenants` answer from the configured state.

### What is hard here

Interleaving of tools, worker and compaction over a file; kills between two appends of one
logical step; errors whose `?` aborts a batch; a relay whose reply is lost; two workers of one account
around a reload; mutexes held across a join; a reload that fails half way; a cursor row that is read and
written with awaits between; IMAP UID validity; a sweep over rows and files that workers are adding to; three IMAP
commands on UIDs learnt earlier; loops between the agent and other robots. `PROJECT.json` lists each of these under
`hazards` at its line.

What makes each component correct:

- queue and dispatcher: an accepted command is not lost, leaves the queue once, is never both live
  and dead, is retried a bounded number of times, and its ack matches the files;
- inbound and cursor: every message at or below the cursor was handled (at least once), the cursor
  of one mailbox never moves back, duplicates have a cause, a bounce is stored before it is announced;
- plugin and reload: the workers are those of the config last asked for, one per side, sharing one health
  object; accounts that did not change are left alone; nothing survives `stop`; no call hangs;
- attachment and bounce stores: what is listed can be read, what has no row is never left behind without an error,
  a strict send refuses a recipient known to be dead;
- threading, loop prevention, mailbox tools: a conversation stays one session, no machine is ever answered, no
  mail vanishes from the mailbox;
- tenants: a refused configure changes nothing, an accepted one is what the registry holds, a tenant that stays is
  never without its plugin.

## 2. Modules

| module | what it is |
|---|---|
| `OutboundQueue` | pure operators on the two files: append, torn append, tombstone, latest row per id, compaction, trim |
| `Outbound` | the dispatcher of one account over these files: callers, worker, relay, reload, crash |
| `Outbox` | the abstract specification: a command is refused or queued, then sent or given up, once |
| `OutboundProofs` | EXTENDS `Outbound`: the file operators, types, and that no accepted job is lost |
| `OutboundLedgerProofs` | EXTENDS `OutboundProofs`: copies, retries, acks, DLQ, counters, and the refinement of `Outbox` |
| `Inbound` | the IMAP worker of one account with cursor, mailbox, manager, crash |
| `InboundProofs` | theorems about `Inbound` |
| `Lifecycle` | one `EmailPlugin` with several accounts: boot, start, hot reload, stop, what tools and endpoints see |
| `LifecycleProofs` | theorems about `Lifecycle` |
| `Tenants` | `plugin.configure`, the registry, the configured state and the handlers that read them |
| `TenantsProofs` | theorems about `Tenants` |
| `Stores` | the two SQLite stores, the attachment directory, the workers, the daily task and the tools on them |
| `StoresProofs` | theorems about `Stores` |
| `Threading` | pure operators on headers: thread root, reply headers, report or robot |
| `ThreadingProofs` | theorems about `Threading` |
| `Mailbox` | EXTENDS `Threading`: one INBOX shared by worker, tools and another client, and the conversations through it |
| `MailboxProofs` | EXTENDS `Mailbox` and `ThreadingProofs`: theorems about `Mailbox` |
| `MCOutbound`, `MCInbound`, `MCLifecycle`, `MCTenants`, `MCStores`, `MCMailbox` | constants and symmetry sets for TLC |

Operators marked "Mutant:" are plausible bugs. The specifications do not use them; each is put in
the place of a definition to see that a property notices (`mutants` in `PROJECT.json`).

### Outbound: state and actions

`queue` and `dlq` are the two files, each a sequence of lines plus a flag `open` for a last line
without newline. A line is a row or `Nil` (it does not parse). A row keeps the id, the command, the attempts and the
done flag; `resting` stands for "next_attempt_at lies in the future". `slot` is
`OutboundDispatcher.workers[instance]`, `instance` is `DispatcherCore.instances[instance]`. A *generation* is one
run of `add_account`: its own queue object and mutex (`lock`), its own worker (`pc`, `batch`, `job`)
and breaker (`tripped`). `relayed` says that the relay has accepted the message in flight; the code does not see it.

One action is the code between two awaits, or between two takings of the mutex:

- `ToolCall`, `ToolBuildFails`, `ToolAppend`: `enqueue_for_instance` with the await of `build_mime` inside;
- `BrokerCommand`: `enqueue_command`, run inside the worker's `select!`;
- `DrainTick`, `SendStart`, `DrainEnd`: `drain_tick`; with nothing pending `CompactRead`, `CompactWrite`,
  `TrimRead`, `TrimWrite`, which hold the mutex from read to rename;
- `RelayAccepts` (external), then `SmtpSent`, `SmtpPermanent`, `SmtpTransient`, `SmtpNetworkError`: the arms of `handle_outcome`;
- `MarkDone`, `DlqTombstone`, `DlqRow`, `UpdateRow`, `Ack`: its writes, in order. A write may fail
  (`WriteError`), and `AbortTick` is the `?` that ends the tick;
- `AddAccount`, `RemoveAccount`, `RemoveFinish`, `Stop`, `Restart`, `Crash`.

`in_flight` needs no variable: each worker has its own map and handles one job at a time, so the map
holds exactly `job[g].id` while `pc[g] = "sending"`.

History variables (`acks`, `verdict`, `delivered`, `excuse`, `tries`) are read by no guard. `excuse` counts
the cases in which the plugin could not know or record that the relay had the message: a lost reply, a tombstone that
was not written, a crash in between.

### Inbound: state and actions

`box` is the mailbox as the sequence of its UIDs (`Gone` for an expunged one) and `validity` its UIDVALIDITY;
`cursor` is the durable row. `w[g]` is the worker of generation g: where it awaits (`pc`), its cancel token, breaker,
health, and the locals of `connect_select_and_loop` and `drain_pending`.

- `LoopTop`, `BackoffEnds`, `Error`: `run`. Every `?` is an `Error`, after which the session is dropped;
- `Connect`, `Select`, `ResetGet`, `ResetSet`, `Bootstrap`: `connect_select_and_loop`; the reset of
  the cursor is two awaits, and `limit + 1` is u32 arithmetic;
- `Search`, `Fetch`, `Publish`, `BounceStore`, `BouncePublish`, `CursorGet`, `CursorSet`, `DrainDone`: `drain_pending`.
  The cursor is read and written in two steps and keeps the uid_validity it finds in the row;
- `IdleNewMessages`, `IdleTimeout`, `PollTick`, `WaitCancelled`: the two waiting loops;
- `AddAccount`, `RemoveAccount`, `RemoveFinish`, `Crash`: manager and process;
- `Arrive`, `Expunge`, `Rotate`, `SessionLost`, `BreakerCools`: the world.

A message is abstracted to its kind (mail, DSN, or suppressed); `Mailbox` models how the kind is decided, `Stores` what it
leaves in the attachment and bounce tables.

### Lifecycle: state and actions

A config maps accounts to what `accounts_equal` compares (`ends`) and what it does not (`limit`). `inbound` and `outbound` are the
`workers` maps; a task knows the config it was spawned with and which `AccountHealth` it holds (a small number names the object).
`leaving` holds the cancelled tasks that a join waits for, `detached` counts those that have outlived their join and still run, `stray` holds those no
manager can cancel. `rl` is the
`apply_account_diff` in progress: its three lists and the await it stands at. The guard of `if let Some(m) = self.x.lock().await`
lives to the end of the block, so `OutboundFree` and `InboundFree` are false while a join is awaited under the mutex.

- `BootFails`, `StartNoop`, `StartInbound`, `StartOutbound`, `StartDone`, `SetRuntimeHandle`: `boot_plugin` and `start`; an I/O
  error in `OutboundDispatcher::start` drops the half built dispatcher and detaches its workers;
- `ReloadBegin`, `ReloadNext`, `ReloadJoinOut`, `ReloadTearIn`, `ReloadJoinIn`, `ReloadCheckCred`, `ReloadSpawnIn`, `ReloadSpawnOut`,
  `ReloadReturns`: `apply_account_diff` and `spawn_account` in the order of the source, with every `?` (`Abandon`);
- `StopBegin`, `StopOutbound`, `StopInbound`, `StopJoined`: `stop`;
- the ends of `timeout(5 s, handle)`, which reload and stop wait for: `WorkerEnds`, the cancelled worker returns; `JoinExpires` (only with
  `JoinTimesOut`), the timer fires, the result is ignored and the dropped handle detaches the worker; `DetachedEnds`, that worker returns at last;
- `Serves`, `ToolContext`, `InstancesList`, `Reported`: what a tool or endpoint sees in a state.

What a worker does is not here: `Outbound` and `Inbound` model it for one account, with the add and remove that `Lifecycle` calls.
`NoCollision` is what those two modules rely on where a run or a theorem takes the old generation to have ended before the next begins
(`~JoinTimesOut`).

### Tenants: state and actions

`registry` maps a label to the configure call that built its plugin; `configured` is the `CONFIGURED` cell; `call` is the
`apply_configure` in progress. `ApplyConfigure` parses and checks, then `DropAll` (single shape) or `Diff`, `Unregister`, `Register` and
`Publish` (sequence) run one registry operation per step, because handlers run in between; the factory may fail at any
`Register`. `EnvBoot` and `OnConfigure` are the subprocess, which never calls `apply_configure`. `Canon` is `sanitize_tenant_label`. `Issued`,
`CredentialsIssue`, `CredentialsResolve` and `ListTenants` are the handlers.

### Stores: state and actions

`rows`, `bounces` are the tables, `files` the directory the workers write to, `Found` the part of it that readers see under
`data_dir`. A step is one SQL statement or one file operation.

- `Parse`, `Exists`, `Rename`, `Record`, `RecordBounce`: a worker: attachments are hashed and written one by one, recorded after all of them;
- `GcSelect`, `GcRemove`, `GcDelete`, `PruneAge`, `PruneOrphan`: the daily task, which keeps the cutoff and the kept instances it began with;
- `SendCall`, `SendLookup`, `SendDecide`: `email_send` with the strict check; `GetLookup`, `GetRead`: `email_attachment_get`;
- `Tick`, `Crash`; a failing statement or file operation is a disjunct of the action it belongs to (`Fault`).

### Threading and Mailbox: state and actions

A Message-ID stands for its class under `canonicalize_message_id`; `Junk` are those it rejects. `Threading` has the decisions, `Mailbox` the
world they work in: `mails` is every mail so far with its headers, `inbox` maps a UID to a mail and a \Deleted flag, `kept` is the target folder,
`told` what the agent knows from events, `call` the IMAP sessions of the tools.

- `Open`, `Answer`: correspondents; an answer carries References as RFC 5322 says, or none, or only the parent's id;
- `Handle` (with `Route`): `drain_pending`, `parse_bounce` first, then `should_skip`; a parse failure publishes the raw mail unjudged;
- `Reply`: `email_reply`, `enrich_reply_threading` and the two builders of `build_mime`;
- `Search`, `ThreadRows`: `email_search`, `email_thread`;
- `Begin`, then `MoveAll`, or `Copy`, `Store`, `Expunge`, or `CallFails`: `email_archive` and `email_move_to`;
- `OtherFlags`, `OtherExpunges`, `Renumber`: the owner's client and the server.

`Reply` is restricted to mails the agent was told about: the tool accepts any UID, and an agent that answers a UID it found by searching chose to.

## 3. Runs

| run | result | what it shows |
|---|---|---|
| `outbound_safety` | holds | two commands, one crash or one failed append at any await: nothing accepted is lost, settled twice, or acked wrongly; retries stay bounded; the system refines `Outbox` |
| `outbound_torn` | holds | appends that stop half way, with a crash: at most one accepted job is lost per torn write |
| `outbound_reload` | holds | reload and stop while the worker ends in time: no duplicate, the counters match |
| `outbound_live` | holds | every accepted command leaves the queue as sent or given up, although a failed write aborts the batch |
| `inbound_safety` | holds | at-least-once, monotone cursor, duplicates with a cause, bounce stored first, under a crash, an error and a new UIDVALIDITY; every message in the mailbox is eventually handled, provided IDLE announces mail that arrived before it began |
| `inbound_reload` | holds | no gap around a reload, with an error, an expunge and bootstrap_limit, which keeps the recent mail |
| `lifecycle` | holds | boots with no, one or two accounts, two reloads among three configs, a missing secret, an unreadable queue file, stop at any await, workers that end within their 5 s or outlive them: the workers match the config and share a health object; siblings are untouched; all calls return; only a worker that outlived its join runs beside a successor or after stop |
| `tenants` | holds | three configure calls of every shape, colliding and invalid labels, a failing factory: refused calls change nothing, accepted ones are reflected everywhere, survivors stay |
| `stores` | holds | workers, sweep and tools statement by statement with one failure or kill: what is listed can be read, no orphan file without an error, no strict send to a known dead address |
| `mailbox` | holds | conversations, robots, two tool calls and another client: one session per conversation, no answer to a machine, no mail lost, `email_thread` lists what shares a root |
| `outbound_reload_tool` | violated | see 6.1 |
| `stores_two_dirs` | violated | see 6.2 |

### Bounds

- Two commands with their own ids: one is enough for every crash and retry point, the second gives compaction a
  live row to lose, a batch something to abort and a torn line something to swallow.
- `MAX_ATTEMPTS` is 2 instead of 5 (1 in `outbound_torn`): a first attempt, a last attempt, and the comparison between them. The proofs
  hold for every value. `MaxDlqLines = 1` makes the second dead job trigger a trim.
- `outbound_safety` allows one disruption of either kind (`MaxDisruptions = 1`): a tombstone, retry or
  enqueue that fails, or a kill at any await. `outbound_torn` has one of each.
- `outbound_live` has one failed write and no crash: a restart only puts the worker back to its first
  state, with the same files. Its `NoRecipients` makes one of the two commands enter through the broker only.
- Three messages, one of each kind in `inbound_safety`, let a batch be cut before, between and after two messages.
- `U32 = 16` stands for 2^32: the models count to 4 at most, so nothing wraps by accident.
- Two generations where an account is added again, one otherwise.
- `lifecycle`: two accounts (one to change, one sibling), three versions of an account, two reloads (the second meets what the first left), any
  number of overruns that these allow. One start: what a second one adds is a GC task that cannot be cancelled; the theorems hold for any number.
- `tenants`: three labels, three configures: a failed one between two others.
- `stores`: two hashes, two instances of which the daily task knows one, clock 0..3 with retentions of 1 (fresh, at the limit, expired), two mails, one tool call.
- `mailbox`: four scenarios, each with its own bounds: a conversation of five mails with a cap of two on References, which cuts it
  twice; three mails under two moves, a failure and another client; a move with renumbered UIDs and a search; robots with a parse failure.
- Deadlock is checked, except where the modelled program stops for good: after `stop` (`lifecycle`), with all configure calls spent
  (`tenants`), with every bound of a scenario spent (`mailbox`).

Symmetry sets permute commands together with their ids, mails, hashes and generations, and only where the run has no
liveness property.

### Fairness

`FairSpec` of `Outbound` assumes that tokio polls every ready task, that `send_raw` returns or times out
(it has a timeout) and that the breaker's cool-down and every backoff end. `DrainTick` needs strong
fairness: the 1 s interval is polled in the same unbiased `select!` as the broker subscription and the breaker may open again and again, so the
tick is enabled infinitely often rather than always. `WorkerCancelled` needs it for the same reason: a cancelled token stays ready, but
the worker looks at it only when it is back at its `select!`, between ticks. Nothing makes the relay accept a message.
`FairSpec` of `Inbound` is weak fairness of each worker's own next step, of the cool-down and of the manager; errors are
bounded by `MaxFaults`, and no arrival, expunge or rotation is assumed. `AnnouncesLate` says whether IDLE announces mail that arrived before IDLE
began (see 6, last list). `FairSpec` of `Lifecycle` is weak fairness of the call in progress (start, stop, reload) and of
the joins, which end because a worker returned or a timer fired; nothing assumes that a detached worker returns.

### Assumptions

- One reload at a time, and no start while one is pending. No caller of `apply_account_diff` is in the repository; two
  concurrent ones would interleave between their lock takings.
- Where `JoinTimesOut = FALSE`, a cancelled worker ends within the 5 s its join waits. The code does not see to that: a worker inside `send_raw` or
  `drain_pending` looks at its token late. `lifecycle`, and every theorem that does not name `~JoinTimesOut` (or `OneWorker`), are without this
  assumption; the last list of 6 says what happens beyond it. The timer itself is not modelled: with `JoinTimesOut` a join may end at any time.
- `apply_configure` is called once at a time; nobody in the repository calls it either.
- The agent moves only UIDs that an event or a search gave it.

## 4. Proofs

Every theorem holds for every value of the constants that the assumptions of its module admit: any accounts, commands,
messages, configs and bounds. Where a theorem needs more, the hypothesis stands in its statement (`ASSUME ... PROVE Spec => ...`).
Each invariant below was an invariant of the corresponding run before it was proved (`NoCollision` of `lifecycle` with `JoinTimesOut = FALSE`). The shape is the same everywhere: lemmas on what an
action changes, one lemma per group of actions that the invariant depends on, one `...Next` lemma that splits `Next`, and a
temporal step.

### The hypotheses

| name | says | why it is needed and when it holds |
|---|---|---|
| `NoTornWrites` | a failing append leaves the file as it was (`"torn" \notin Faults`) | a torn line swallows the next row (6, last list). It holds unless a write is cut by a full disk or a power loss |
| `UniqueIds` | two commands have two Message-Ids | a second row with the id of the first replaces it. `build_mime` draws a UUID; a broker command may bring its own |
| `OneWorker` | one generation per process, or a cancelled worker ends within the 5 s its join waits (`~JoinTimesOut`) | a detached worker sends, or moves the cursor, next to its successor (6, last list) |
| `~JoinTimesOut` alone | the same, for a plugin with any number of reloads (`NoTwoWorkers`, which states `NoCollision`) | `lifecycle` is run without it, where `NoCollision` fails |
| `OneGeneration` | the process adds the account once | a tool that looked the instance up before a reload appends under the old mutex (6.1): no weaker one is enough |
| `NoWrap` | `Limit + 1 < U32` | `bootstrap_limit = u32::MAX` wraps to 0 (6, last list) |
| `OneDir` | workers and tools mean one attachment directory | otherwise nothing listed is found (6.2) |
| `Rules = Marks \cup {"selfFrom"}` | every rule of `LoopPreventionConfig` is on, which is its default | an operator who turns a rule off asked for these mails |

`Tenants` needs none, nor does `Lifecycle` but for `NoTwoWorkers`, nor do the type theorems.

### Outbound (`OutboundProofs`)

- `TypeCorrect`: `Spec => []TypeOK`. `TypeInv` adds what the worker's locals need: a worker past `drain` holds a job.
- `AcceptedNeverLost`: `Spec => []NoAcceptedJobLost` under `NoTornWrites` and `OneGeneration`.
- `LossIsBounded`: `Spec => []LossBoundedByFaults` under `OneGeneration` alone: appends may stop half way, ids may be shared.
- `CompactionSettles`, about every queue file: compaction keeps exactly the pending rows, and its result needs no further one.

`NoAcceptedJobLost` is not inductive: the compaction writes at `CompactWrite` what it computed at `CompactRead`. `CompactionSafe` says
that while a rewrite is pending its mutex is held and every id live in the queue is live in the rewritten file. `LossInv` adds that the
queue file is not open and that a caller between lookup and append holds a generation. The lemmas about the file operators carry
the weight: what `AppendLine` of a row or a tombstone does to `IsPending` of the same id and of another one, that `Listings` of the
pending rows keeps every pending id, and that a clean failed append changes nothing.

With torn writes `LossInv` fails, and what is live in the file is the wrong thing to count: a row without its newline parses until the next append
is glued to it. `LostInv` therefore counts the accepted jobs that no line *with* a newline holds (`Missing`; `Solid` is the file without its
unterminated line). An unterminated line stands for a failed write that has not cost a job yet: `Cardinality(Missing)`, plus one while the file is
open, is at most `faults`. The next append closes the file and spends that write on at most one job, its own (`SpoiltIsSolid`); a write that
fails in turn costs nothing more while it stays open (`SolidFailure`). `ShownBy` carries the rest: what the terminated lines show is shown by the file and by a
pending rewrite, or has been settled, so a compaction loses nothing.

### Outbound (`OutboundLedgerProofs`)

Under `NoTornWrites`, `UniqueIds` and `OneWorker`, with any number of crashes, failed writes and (`~JoinTimesOut`) reloads:

- `DuplicatesAreExcused`, `RetriesAreBounded`, `AcksAreDurable`, `DeadIsNotLive`: the invariants `DuplicateOnlyIfDisrupted`, `RetriesBounded`,
  `AckIsDurable`, `NotLiveAndDead`;
- `TerminalIsFinal`, `NewestIsKept`: the action properties `TerminalAckIsFinal`, `DlqKeepsNewest`;
- `EachIsCountedOnce`: `CountedOnce`.

They follow from one invariant, `Ledger` (`LedgerHolds`), because none of them is inductive by itself: whether a copy is excused
depends on the row that survives a crash, whether an ack is durable on the tombstone, whether a tombstone is written on the row in the
worker's hand. `Ledger` ties these together per job: a live row is unsettled and its `attempts` pays for the transactions made
(`PendingInv`); a job in hand is one transaction, and perhaps one copy, ahead of its row, and its row is the only one of its id in
the batch (`BatchInv`, `OfferInv`); past the tombstone it is settled and not yet acknowledged (`SettledInv`); a pending rewrite
revives nothing (`RewriteInv`); what is in the DLQ is settled (`DlqInv`); ids without an accepted command occur nowhere
(`KnownIds`); and only the worker in the slot runs (`Steady`). A crash empties the hand and adds one to `Burden`, the allowance of every
job, or, where the relay may have the mail, one to the job's `excuse`. `CountInv` extends the ledger by the counters: the sum of
sent and failed is at most the number of settled jobs, less the one whose worker has yet to count it.

- `OutboxImplemented`: `Spec => ImplementsOutbox` under `NoTornWrites`, `UniqueIds` and `OneGeneration`. The initial states map, and
  each action maps to a step of `Outbox` or to a stutter: accepting is `ToolAppend` or `BrokerCommand`, settling is the
  tombstone, everything else stutters. That no other step changes the mapped state is what `Ledger` and `LossInv` are used for.

### Inbound (`InboundProofs`)

- `TypeCorrect`, and `BouncesAreStoredFirst` (`BounceStoredFirst`; `BounceInv` adds the worker that stands before the publish): no hypothesis;
- `CursorOnlyForward` (`CursorMonotone`) and `CopiesAreExcused` (`DuplicateOnlyIfDisrupted`) under `OneWorker`;
- `NothingBehindTheCursor` (`NoGap`) and `NewestMailIsKept` (`RecentIsKept`) under `OneWorker` and `NoWrap`.

`Core` is the base: no second worker is active (`Steady`), the stored UIDVALIDITY is never ahead of the mailbox's, and each session works on the
cursor it found (`SessionOf`): the row has its validity, its `last` is at or below the local `last_uid`, and what is left to fetch is above that. This is
where get and set of the cursor, two awaits apart, are shown to be harmless. `GapInv` adds that a worker has handled all it has read
(`ReadOf`), so that the cursor it writes has no gap below it; the bootstrap jump is accounted for in `skipped`. `CopyInv` is the argument about copies: a
message in hand is the last UID taken (`HandOf`), and one that can still be read again has no more copies than disruptions (`CountOf`). The
case that needs care is a mailbox that is recreated under a worker that holds one of its messages.

### Lifecycle (`LifecycleProofs`)

`TypeCorrect` (with `DiffInv`: what is left of a reload is part of its diff), `OneWorkerEach` (`OneWorkerPerSide`), `NoTwoWorkers`
(`NoCollision`, under `~JoinTimesOut`), `NothingIsLeft` (`StopLeavesNothing`), `SiblingsStay` (`SiblingsUntouched`), `HealthStaysShared` (`HealthIsShared`), `ReloadsConverge` (`RepeatedReloadConverges`). `LeaveInv`
says who waits for a cancelled task: the reload at its join, under the mutex, or `stop`. From it follows that nothing is spawned for an account whose
old worker is waited for (`Apart`), whether or not joins expire: `OneWorkerEach` and `NothingIsLeft` speak of the workers that have not outlived their
join, and say that no others exist but detached ones. Under `~JoinTimesOut` nothing is ever detached (`NoneDetached`), which makes of `Apart` what
plugin.rs:200-205 promises. `WaitInv` says what `stop` still waits for in each of its phases. `ManagerInv` and `GcInv` say which phases have managers and an armed GC token. `SharedInv` states which `AccountHealth`
each slot, the map and the endpoints hold, and the two awaits of a teardown at which they differ. `GoalInv` is the loop invariant of
`apply_account_diff`, against the config of the boot: an account outside the diff is right all along, one already done is right, one to be added is
right or absent (`Aims`), and the one in work is torn down first if it changed (`AtWork`). That a failed reload leaves the account it stopped at in the
diff of the next one is what makes repetition converge.

### Tenants (`TenantsProofs`)

`RefusedIsHarmless` (`RefusedChangesNothing`), `SurvivorsStay` (`SurvivorsStayRegistered`), `OkIsSettled` (`RegistryMatchesConfig`). `CallInv`: the
call in progress has counted itself, and what it is about to unregister is not declared, so `Unregister` spares the survivors. `ApplyStarts` splits
the outcomes of `ApplyConfigure`; only those that begin no call are refusals. `RegistryInv` follows the call through its steps: the labels are valid and
distinct (`Sound`, from `FirstBad` finding nothing, by the least bad index), then registered is at most declared plus stale, then at most declared, and
the first `next - 1` tenants hold plugins of this call. At `Publish` the labels are in bijection with the tenants (`LabelsCounted`), which gives the count,
and `CredentialsResolve` finds the first tenant with the account (`HasLeast`).

### Stores (`StoresProofs`)

- `TypeCorrect`, and `DeadAreRefused` (`StrictRefusesKnownBounce`): no hypothesis;
- `OrphansHaveAReason` (`OrphanNeedsFault`) and `ListedCanBeRead` (`ListedIsReadable`) under `OneDir`.

`OrphanInv` adds to the property that a file which the sweep is about to take the row of has been removed, or written again by a worker that will record it.
`ReadInv` says of rows, of what workers are about to record and of what the sweep has selected why their files may be missing: expired, or met
by sweep and worker (`raced`). `BounceInv`: a newest permanent bounce stands in the table unless it lapsed, and each address that an
`email_send` was to refuse is still to be looked up, was found, or lapsed in the meantime (`Covered`).

### Threading and Mailbox (`ThreadingProofs`, `MailboxProofs`)

`ThreadingProofs` proves, for References of any length and any cap of at least two, that `truncate_references` stays within
the cap and keeps the root first (`TruncateKeepsRoot`), and that a reply to a mail whose headers name a usable root resolves to the
same root (`ReplyKeepsRoot`). `MailboxProofs` uses them on the whole system:

- `TypeCorrect`; `ConversationsStay` (`OneThread`; `RootInv` adds that such a mail names its root at all): no hypothesis;
- `MachinesGetNoReply` (`RobotsGetNoReply`) with all rules on; `ToldInv` says that a UID the agent was told of still names that mail, or none,
  until UIDs are renumbered, and that the mail was judged, or came raw;
- `MailsAreKept` (`NothingVanishes`); `HeldInv` says that the UIDs anyone holds are of this INBOX, that after COPY every UID of the call has its mail in
  the target folder, and that so has every mail a tool flagged, also while another call expunges it;
- `ThreadsAreListed` (`ThreadListsItsRoot`), from the types and the cardinality of the rows below the limit.

### Only model-checked

- Liveness under fairness is out of the prover's reach: `AcceptedIsDrained`, `EveryMailHandled`, `CallsReturn`.
- That the runs' two violated properties are violated.

## 5. Plan

The modules of section 2 are written, and every invariant and action property that a passing run checks is proved, as is the
refinement of `Outbox`. What is left is to weaken hypotheses: `Ledger` without `UniqueIds`, which needs a notion of which command a tombstone
meant, and with torn writes, where a retried job may fall back to an older row.

## 6. Disagreements between code and text

With a run:

1. `outbound_reload_tool`. `outbound_queue.rs:11` assumes one dispatcher per instance as the single writer. A tool that looked its
   `InstanceState` up before a reload (`outbound.rs:90`) appends through the old object's mutex, between the read and the
   rename of the new worker's compaction: the accepted job is gone.
2. `stores_two_dirs`. `plugin.rs:378-380` says that tools resolve attachments in `data_dir + cfg.attachments_dir`; the daily task does too
   (`plugin.rs:486`). The workers write them to `cfg.attachments_dir` itself (`inbound.rs:150`), which by default is relative to the working
   directory (`config.rs:197`). Unless that is the data directory, `email_attachment_get` fails for every listed hash, and the GC
   deletes the rows and leaves the files. The run `stores` is for the deployment in which the two coincide.

The same models also show the following; the project keeps no run for them:

- A torn append (`outbound_queue.rs:247`) leaves a line without newline and the next accepted row is glued to it and lost, against
  `outbound_queue.rs:3-5`. `outbound_torn` bounds the loss; `NoAcceptedJobLost` fails under its cfg.
- `outbound.rs:421-423` and `events.rs:125-128` promise a `Failed` ack when an attachment is missing. On the broker path the worker logs a
  warning only (`outbound.rs:381`).
- A worker detached inside `send_raw` and the new one send the same message at once: the single-flight guard (`outbound.rs:488-489`) is per generation.
- A broker command without recipients is queued (`outbound.rs:407` has no guard like `outbound.rs:83-84`).
- An exhausted job reaches the DLQ with `MAX_ATTEMPTS - 1` attempts (`outbound.rs:546`), against `outbound_queue.rs:8-9`.
- A worker detached after 5 s (`inbound.rs:105`) writes its old `last_uid` under the UIDVALIDITY that the new worker has stored
  (`inbound.rs:537` keeps whatever the row holds); once the new worker reconnects it skips the mail below, against `inbound.rs:371-373`. `NoGap` fails in
  `inbound_reload` with `JoinTimesOut = TRUE`.
- `bootstrap_limit` is meant for the historical inbox (`inbound.rs:264-268`), but its only sign of a fresh cursor is
  `last_uid == 0`: after a first start with an empty mailbox the next connect jumps over mail that came in between.
- A client that consumes an EXISTS response during a drain waits for the next push: the IDLE timeout searches nothing (`inbound.rs:338`), and
  `poll_loop` runs only without IDLE, against `src/README.md:18`. `EveryMailHandled` fails with `AnnouncesLate = FALSE`.
- `bootstrap_limit = u32::MAX` wraps `limit + 1` to 0 (`inbound.rs:272`) and the cursor passes the next message. `NoGap` fails with `Limit = U32 - 1`.
- Compaction runs at half or more done ids, the comment says more than half (`outbound_queue.rs:19-20`, `:227`).
- `plugin.rs:200-205` says that the order of a reload avoids two workers that claim one queue file. `remove_account` waits at most 5 s, ignores the
  result and drops the handle (`outbound.rs:276`, `inbound.rs:105`), which detaches the worker; the new one is spawned beside it. `stop` does the same
  (`outbound.rs:303`, `inbound.rs:92`): workers that "don't drain in time are dropped", with an "abort" (`inbound.rs:85-87`), while a dropped
  `JoinHandle` aborts nothing. `NoCollision` fails under the cfg of `lifecycle`.
- `apply_account_diff` is documented to compare the "*current* config" (`plugin.rs:194`) and compares that of the boot (`plugin.rs:211`). After two
  reloads to different configs the accounts match neither: an account the first one added is not removed by the second.
  `RepeatedReloadConverges` fails without its condition that all reloads since the start asked for the same config.
- `context.rs:26-28` has tools validate `instance` against the dispatcher's ids; they look it up in the config of the boot (`plugin.rs:184`,
  `tool/send.rs:117`), so an account that a reload added is an unknown instance to every tool.
- `bootstrap_limit` is not compared by `accounts_equal` (`reload.rs:72`): a reload that changes only it changes nothing.
- The bounces of an account that a reload added are pruned daily, because the task keeps the instances of the boot (`plugin.rs:492`). `StrictRefusesKnownBounce`
  excuses such an account.
- A sweep that overlaps a worker on one hash leaves a row without a file: the file is found (`mime_parse.rs:309`), removed (`attachment_store.rs:114`), and
  the row bumped before the delete. `ListedIsReadable` excuses the hash (`raced`).
- In the subprocess `list_tenants` answers `registered: false` for every tenant, since only `apply_configure` registers one; in an embedding host the
  plugins of dropped tenants are not stopped (`boot.rs:107-115`).
- `email_thread` promises "every message in the same RFC 5322 thread" (`tool/thread.rs:56`) but searches Message-ID and References only: a mail tied to
  the thread by In-Reply-To alone is missing.
- `build_text_only` writes the ids of References and In-Reply-To as the parser returned them, without angle brackets.
- `email_archive` without MOVE runs a plain EXPUNGE (`tool/archive.rs:92`), which also removes mail that another client had only marked. The owner may
  still unmark it until then; `NothingVanishes` counts such mail as deleted by the owner (`binned`).
- The tools ignore UIDVALIDITY: after a renumbering a UID names another mail, at worst between COPY and STORE. `NothingVanishes` and
  `RobotsGetNoReply` are stated up to the first renumbering.

## 7. Not modelled

- Byte-level MIME, DSN and header parsing, formatting, metrics rendering, configuration parsing and JSON-RPC frames: no state, and their outcome is a choice
  in the modules that call them. Two slices of a string by byte count (`mime_build.rs:214`, `tool/reply.rs:230`) assume a character boundary there.
- `email_label` (a STORE of flags; its add and remove are two commands), `email_get`, `email_bounces_summary` (two queries, not one snapshot): no
  property of the mailbox or the stores depends on them.
- `verify_accounts_connected`, which polls health with a map guard held over an await (`plugin.rs:399-400`), and the metrics accessors.
- The Google token exchange, SPF/DKIM hints and credentials files: I/O without effect on the modelled state.
- The counts in a bounce row, timestamps and gauges of health, backoff lengths.
