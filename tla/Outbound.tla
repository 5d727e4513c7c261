------------------------------ MODULE Outbound ------------------------------
(***************************************************************************)
(* The outbound dispatcher of one account (src/src/outbound.rs): the tool  *)
(* and broker entry points, the worker loop with its drain tick, the SMTP  *)
(* relay (external), account add/remove on reload, and process crashes.    *)
(*                                                                         *)
(* A generation g is one run of add_account: one OutboundQueue object with *)
(* its own mutex, one InstanceState, one worker task with its own breaker. *)
(* All generations of an account share the two files.                      *)
(***************************************************************************)
EXTENDS OutboundQueue

CONSTANTS
  MsgIdOf,       \* [Cmds -> Ids]: cmd.message_id, or a generated one
  NoRecipients,  \* commands whose to, cc and bcc are all empty
  Gens,          \* generations available between two crashes
  NoGen,
  MAX_ATTEMPTS,  \* 5 in the code
  MaxDlqLines,   \* cfg.max_dlq_lines; 0 disables the cap
  Faults,        \* kinds of write errors: subset of {"clean", "torn"}
  JoinTimesOut,  \* may a cancelled worker outlive the 5 s join?
  MaxOps,        \* bound on remove_account and stop calls
  MaxCrashes,    \* bound on process crashes
  MaxFaults,     \* bound on write errors
  MaxDisruptions \* bound on crashes and write errors together

ASSUME OutboundAssumption ==
  /\ MsgIdOf \in [Cmds -> Ids]
  /\ NoRecipients \subseteq Cmds
  /\ NoGen \notin Gens
  /\ MAX_ATTEMPTS \in Nat \ {0}
  /\ MaxDlqLines \in Nat
  /\ Faults \subseteq {"clean", "torn"}
  /\ JoinTimesOut \in BOOLEAN
  /\ MaxOps \in Nat
  /\ MaxCrashes \in Nat
  /\ MaxFaults \in Nat
  /\ MaxDisruptions \in Nat

VARIABLES
  queue, dlq,    \* the two files; they survive a crash
  resting,       \* ids whose next_attempt_at lies in the future (durable)
  \* the dispatcher
  slot,          \* OutboundDispatcher.workers[instance]
  instance,      \* DispatcherCore.instances[instance]
  mgr,           \* "idle", "removing" (inside remove_account) or "stopped"
  \* one worker per generation
  pc, cancelled, tripped, lock, batch, job, relayed, rewrite,
  \* callers
  call, callGen,
  \* AccountHealth: outbound_sent_total and outbound_failed_total
  sentTotal, failedTotal,
  \* bounds
  ops, crashes, faults,
  \* history
  acks,          \* last status published on the ack topic, per id
  verdict,       \* why the queue holds a tombstone for the id
  delivered,     \* how often the relay accepted the id
  excuse,        \* how often the plugin could not know or record that
  tries          \* SMTP transactions started per id

fileVars == <<queue, dlq, resting>>
mgrVars  == <<slot, instance, mgr>>
ctlVars  == <<cancelled, tripped>>
jobVars  == <<batch, job, relayed>>
mutexVars == <<lock, rewrite>>
workVars == <<pc, ctlVars, jobVars, mutexVars>>
callVars == <<call, callGen>>
healthVars == <<sentTotal, failedTotal>>
boundVars  == <<ops, crashes, faults>>
histVars == <<acks, verdict, delivered, excuse, tries>>
idleVars == <<mgrVars, callVars, healthVars, boundVars>>
vars == <<fileVars, workVars, idleVars, histVars>>

\* The places where a worker awaits.
Pcs == {"off", "select", "compact", "compactWrite", "trim", "trimWrite",
        "drain", "sending", "markDone", "dlqRejected", "dlqExhausted",
        "dlqRow", "update",
        "ackSent", "ackFailed", "ackRetrying", "exited"}

TypeOK ==
  /\ queue \in File /\ dlq \in File /\ resting \subseteq Ids
  /\ slot \in Gens \cup {NoGen} /\ instance \in Gens \cup {NoGen}
  /\ mgr \in {"idle", "removing", "stopped"}
  /\ pc \in [Gens -> Pcs]
  /\ cancelled \in [Gens -> BOOLEAN] /\ tripped \in [Gens -> BOOLEAN]
  /\ lock \in [Gens -> BOOLEAN] /\ relayed \in [Gens -> BOOLEAN]
  /\ batch \in [Gens -> SUBSET Row] /\ job \in [Gens -> Line]
  /\ rewrite \in [Gens -> File]
  /\ call \in [Cmds -> {"idle", "building", "accepted", "refused", "dropped"}]
  /\ callGen \in [Cmds -> Gens \cup {NoGen}]
  /\ sentTotal \in Nat /\ failedTotal \in Nat
  /\ ops \in Nat /\ crashes \in Nat /\ faults \in Nat
  /\ acks \in [Ids -> {"none", "retrying", "sent", "failed"}]
  /\ verdict \in [Ids -> {"none", "sent", "rejected", "exhausted"}]
  /\ delivered \in [Ids -> Nat] /\ excuse \in [Ids -> Nat]
  /\ tries \in [Ids -> Nat]

FreshWorkers ==
  [pc |-> [g \in Gens |-> "off"], flag |-> [g \in Gens |-> FALSE],
   batch |-> [g \in Gens |-> {}], job |-> [g \in Gens |-> Nil],
   rewrite |-> [g \in Gens |-> EmptyFile]]

Init ==
  /\ queue = EmptyFile /\ dlq = EmptyFile /\ resting = {}
  /\ slot = NoGen /\ instance = NoGen /\ mgr = "idle"
  /\ pc = FreshWorkers.pc /\ batch = FreshWorkers.batch
  /\ job = FreshWorkers.job /\ rewrite = FreshWorkers.rewrite
  /\ cancelled = FreshWorkers.flag /\ tripped = FreshWorkers.flag
  /\ lock = FreshWorkers.flag /\ relayed = FreshWorkers.flag
  /\ sentTotal = 0 /\ failedTotal = 0
  /\ call = [c \in Cmds |-> "idle"] /\ callGen = [c \in Cmds |-> NoGen]
  /\ ops = 0 /\ crashes = 0 /\ faults = 0
  /\ acks = [i \in Ids |-> "none"] /\ verdict = [i \in Ids |-> "none"]
  /\ delivered = [i \in Ids |-> 0] /\ excuse = [i \in Ids |-> 0]
  /\ tries = [i \in Ids |-> 0]

-----------------------------------------------------------------------------
(* Helpers.                                                                *)

Goto(g, label) == pc' = [pc EXCEPT ![g] = label]

\* A write error: bounded, and leaves f or a torn f behind.
WriteError(f, r, f2) ==
  /\ faults < MaxFaults /\ crashes + faults < MaxDisruptions
  /\ faults' = faults + 1
  /\ f2 \in FailedAppends(f, r, Faults)

\* Mutant: attempts is left unset.
FreshRowUnset(c) == [id |-> MsgIdOf[c], cmd |-> c, attempts |-> Nil, done |-> FALSE]

\* OutboundJob as enqueue_for_instance and enqueue_command build it.
FreshRow(c) == [id |-> MsgIdOf[c], cmd |-> c, attempts |-> 0, done |-> FALSE]

\* Mutant: one attempt too many.
GivesUpLate(r) == r.attempts >= MAX_ATTEMPTS

\* handle_outcome: next_attempts >= MAX_ATTEMPTS.
GivesUp(r) == r.attempts + 1 >= MAX_ATTEMPTS

\* Mutant: writers do not wait for the mutex.
LockIgnored(g) == TRUE

\* OutboundQueue.lock of generation g can be taken.
LockFree(g) == ~lock[g]

\* Records, for the properties only, that the queue no longer offers id i.
Settle(i, why) ==
  verdict' = IF IsPending(queue', i) THEN verdict ELSE [verdict EXCEPT ![i] = why]

-----------------------------------------------------------------------------
(* Callers: the tools (DispatcherCore) and the broker (OutboundWorker).    *)

\* enqueue_for_instance: the recipient guard and the instance lookup.
ToolCall(c) ==
  /\ call[c] = "idle"
  /\ IF c \in NoRecipients \/ instance = NoGen
     THEN call' = [call EXCEPT ![c] = "refused"] /\ UNCHANGED callGen
     ELSE /\ call' = [call EXCEPT ![c] = "building"]
          /\ callGen' = [callGen EXCEPT ![c] = instance]
  /\ UNCHANGED <<fileVars, mgrVars, workVars, healthVars, boundVars, histVars>>

\* enqueue_for_instance: build_mime fails (an attachment cannot be read).
ToolBuildFails(c) ==
  /\ call[c] = "building"
  /\ call' = [call EXCEPT ![c] = "refused"]
  /\ callGen' = [callGen EXCEPT ![c] = NoGen]
  /\ UNCHANGED <<fileVars, mgrVars, workVars, healthVars, boundVars, histVars>>

\* enqueue_for_instance: queue.enqueue on the InstanceState looked up before.
ToolAppend(c) ==
  /\ call[c] = "building" /\ LockFree(callGen[c])
  /\ \/ /\ queue' = AppendLine(queue, FreshRow(c))
        /\ call' = [call EXCEPT ![c] = "accepted"]
        /\ UNCHANGED faults
     \/ /\ WriteError(queue, FreshRow(c), queue')
        /\ call' = [call EXCEPT ![c] = "refused"]
  /\ callGen' = [callGen EXCEPT ![c] = NoGen]
  /\ resting' = IF queue' = queue THEN resting ELSE resting \ {MsgIdOf[c]}
  /\ UNCHANGED <<dlq, mgrVars, workVars, healthVars, ops, crashes, histVars>>

\* run + enqueue_command: an event on plugin.outbound.email.<instance>.  There
\* is no recipient guard here, and a failure is only logged.
BrokerCommand(g, c) ==
  /\ pc[g] = "select" /\ call[c] = "idle" /\ LockFree(g)
  /\ \/ /\ queue' = AppendLine(queue, FreshRow(c))
        /\ call' = [call EXCEPT ![c] = "accepted"]
        /\ resting' = resting \ {MsgIdOf[c]}
        /\ UNCHANGED faults
     \/ /\ WriteError(queue, FreshRow(c), queue')
        /\ call' = [call EXCEPT ![c] = "dropped"]
        /\ resting' = IF queue' = queue THEN resting ELSE resting \ {MsgIdOf[c]}
     \/ /\ call' = [call EXCEPT ![c] = "dropped"]      \* build_mime failed
        /\ UNCHANGED <<queue, resting, faults>>
  /\ UNCHANGED <<dlq, mgrVars, workVars, callGen, healthVars, ops, crashes,
                 histVars>>

-----------------------------------------------------------------------------
(* The worker loop: OutboundWorker::run and drain_tick.                    *)

\* The select! is not biased: a cancelled worker may also take a tick.
WorkerCancelled(g) ==
  /\ pc[g] = "select" /\ cancelled[g]
  /\ Goto(g, "exited")
  /\ UNCHANGED <<fileVars, idleVars, ctlVars, jobVars, mutexVars, histVars>>

\* External: the breaker's cool-down ends, allow() lets a trial through.  Only
\* drain_tick asks, so the moment between two ticks is the only one that counts.
BreakerCools(g) ==
  /\ pc[g] = "select" /\ tripped[g] /\ tripped' = [tripped EXCEPT ![g] = FALSE]
  /\ UNCHANGED <<fileVars, idleVars, pc, cancelled, jobVars, mutexVars,
                 histVars>>

\* drain_tick: a row whose next_attempt_at is later than now is skipped.
Due(r) == r.id \notin resting

\* drain_tick; with an open breaker it returns at once and changes nothing.
\* list_pending takes no lock; `now` is read once, before it.
DrainTick(g) ==
  /\ pc[g] = "select" /\ ~tripped[g]
  /\ IF ListPending(queue) = {}
     THEN Goto(g, "compact") /\ UNCHANGED batch
     ELSE /\ Goto(g, "drain")
          /\ batch' = [batch EXCEPT ![g] = { r \in ListPending(queue) : Due(r) }]
  /\ UNCHANGED <<fileVars, idleVars, ctlVars, job, relayed, mutexVars,
                 histVars>>

\* compact_if_needed up to the temporary file.
CompactRead(g) ==
  /\ pc[g] = "compact" /\ LockFree(g)
  /\ IF CompactNeeded(queue)
     THEN /\ \E f \in Listings(ListPending(queue)) :
               rewrite' = [rewrite EXCEPT ![g] = f]
          /\ lock' = [lock EXCEPT ![g] = TRUE]
          /\ Goto(g, "compactWrite")
     ELSE Goto(g, "trim") /\ UNCHANGED <<rewrite, lock>>
  /\ UNCHANGED <<fileVars, idleVars, ctlVars, jobVars, histVars>>

\* compact_if_needed: rename(tmp, queue_path), unlock.
CompactWrite(g) ==
  /\ pc[g] = "compactWrite"
  /\ queue' = rewrite[g]
  /\ rewrite' = [rewrite EXCEPT ![g] = EmptyFile]
  /\ lock' = [lock EXCEPT ![g] = FALSE]
  /\ Goto(g, "trim")
  /\ UNCHANGED <<dlq, resting, idleVars, ctlVars, jobVars, histVars>>

\* trim_dlq up to the temporary file.
TrimRead(g) ==
  /\ pc[g] = "trim" /\ LockFree(g)
  /\ IF TrimNeeded(dlq, MaxDlqLines)
     THEN /\ rewrite' = [rewrite EXCEPT ![g] = Trimmed(dlq, MaxDlqLines)]
          /\ lock' = [lock EXCEPT ![g] = TRUE]
          /\ Goto(g, "trimWrite")
     ELSE Goto(g, "select") /\ UNCHANGED <<rewrite, lock>>
  /\ UNCHANGED <<fileVars, idleVars, ctlVars, jobVars, histVars>>

\* trim_dlq: rename(tmp, dlq_path), unlock.
TrimWrite(g) ==
  /\ pc[g] = "trimWrite"
  /\ dlq' = rewrite[g]
  /\ rewrite' = [rewrite EXCEPT ![g] = EmptyFile]
  /\ lock' = [lock EXCEPT ![g] = FALSE]
  /\ Goto(g, "select")
  /\ UNCHANGED <<queue, resting, idleVars, ctlVars, jobVars, histVars>>

\* drain_tick: the next job of the batch.  in_flight is {job[g].id} while
\* pc[g] = "sending" and empty otherwise, so its guard never skips a job: a
\* worker runs one job at a time and each worker has its own map.
SendStart(g) ==
  /\ pc[g] = "drain" /\ ~cancelled[g]
  /\ \E r \in batch[g] :
       /\ job' = [job EXCEPT ![g] = r]
       /\ batch' = [batch EXCEPT ![g] = @ \ {r}]
       /\ tries' = [tries EXCEPT ![r.id] = @ + 1]
  /\ relayed' = [relayed EXCEPT ![g] = FALSE]
  /\ Goto(g, "sending")
  /\ UNCHANGED <<fileVars, idleVars, ctlVars, mutexVars, acks, verdict,
                 delivered, excuse>>

\* drain_tick returns: batch exhausted, or cancelled between two jobs.
DrainEnd(g) ==
  /\ pc[g] = "drain" /\ (batch[g] = {} \/ cancelled[g])
  /\ batch' = [batch EXCEPT ![g] = {}]
  /\ Goto(g, "select")
  /\ UNCHANGED <<fileVars, idleVars, ctlVars, job, relayed, mutexVars,
                 histVars>>

-----------------------------------------------------------------------------
(* The SMTP transaction: send_one, the relay (external) and                *)
(* handle_outcome.                                                         *)

\* External: the relay takes responsibility for the message.  The reply may
\* still be lost, and the process may still die.
RelayAccepts(g) ==
  /\ pc[g] = "sending" /\ ~relayed[g]
  /\ relayed' = [relayed EXCEPT ![g] = TRUE]
  /\ delivered' = [delivered EXCEPT ![job[g].id] = @ + 1]
  /\ UNCHANGED <<fileVars, idleVars, pc, ctlVars, batch, job, mutexVars, acks,
                 verdict, excuse, tries>>

\* Mutant: a send that timed out counts as sent.
SmtpSentEarly(g) ==
  /\ pc[g] = "sending"
  /\ tripped' = [tripped EXCEPT ![g] = FALSE]
  /\ Goto(g, "markDone")
  /\ UNCHANGED <<fileVars, cancelled, jobVars, mutexVars, idleVars, histVars>>

\* handle_outcome, Ok(Sent): breaker.on_success.
SmtpSent(g) ==
  /\ pc[g] = "sending" /\ relayed[g]
  /\ tripped' = [tripped EXCEPT ![g] = FALSE]
  /\ Goto(g, "markDone")
  /\ UNCHANGED <<fileVars, idleVars, cancelled, jobVars, mutexVars, histVars>>

\* handle_outcome, Ok(Permanent): breaker.on_success.
SmtpPermanent(g) ==
  /\ pc[g] = "sending" /\ ~relayed[g]
  /\ tripped' = [tripped EXCEPT ![g] = FALSE]
  /\ Goto(g, "dlqRejected")
  /\ UNCHANGED <<fileVars, idleVars, cancelled, jobVars, mutexVars, histVars>>

\* handle_outcome, Ok(Transient): breaker.on_success.
SmtpTransient(g) ==
  /\ pc[g] = "sending" /\ ~relayed[g]
  /\ tripped' = [tripped EXCEPT ![g] = FALSE]
  /\ Goto(g, IF GivesUp(job[g]) THEN "dlqExhausted" ELSE "update")
  /\ UNCHANGED <<fileVars, idleVars, cancelled, jobVars, mutexVars, histVars>>

\* handle_outcome, Err: breaker.on_failure, which may open it.  The relay may
\* have accepted the message before the connection broke.
SmtpNetworkError(g) ==
  /\ pc[g] = "sending"
  /\ \E b \in BOOLEAN : tripped' = [tripped EXCEPT ![g] = tripped[g] \/ b]
  /\ Goto(g, IF GivesUp(job[g]) THEN "dlqExhausted" ELSE "update")
  /\ excuse' = IF relayed[g] THEN [excuse EXCEPT ![job[g].id] = @ + 1] ELSE excuse
  /\ UNCHANGED <<fileVars, idleVars, cancelled, jobVars, mutexVars, acks,
                 verdict, delivered, tries>>

\* Mutant: the error also ends the worker task.
AbortWorker(g) ==
  /\ Goto(g, "exited")
  /\ batch' = [batch EXCEPT ![g] = {}]
  /\ job' = [job EXCEPT ![g] = Nil] /\ relayed' = [relayed EXCEPT ![g] = FALSE]

\* A `?` in handle_outcome ends the whole tick: no ack, rest of batch skipped.
AbortTick(g) ==
  /\ Goto(g, "select")
  /\ batch' = [batch EXCEPT ![g] = {}]
  /\ job' = [job EXCEPT ![g] = Nil] /\ relayed' = [relayed EXCEPT ![g] = FALSE]

\* Mutant: mark_done looks the row up under another spelling of the id.
LatestRowMissed(i) == { r \in LatestPerId(queue) : r.id = i /\ r.done }

\* mark_done re-reads the file under the lock and appends a tombstone for the
\* row it finds there, if any.
LatestRow(i) == { r \in LatestPerId(queue) : r.id = i }

MarkDone(g) ==
  LET i == job[g].id IN
  /\ pc[g] = "markDone" /\ LockFree(g)
  /\ \/ /\ LatestRow(i) = {} /\ UNCHANGED <<queue, faults, excuse>>
        /\ Goto(g, "ackSent") /\ UNCHANGED <<batch, job, relayed>>
        /\ sentTotal' = sentTotal + 1
     \/ \E r \in LatestRow(i) :
          \/ /\ queue' = AppendLine(queue, Tombstone(r))
             /\ Goto(g, "ackSent") /\ UNCHANGED <<batch, job, relayed>>
             /\ sentTotal' = sentTotal + 1
             /\ UNCHANGED <<faults, excuse>>
          \/ /\ WriteError(queue, Tombstone(r), queue')
             /\ AbortTick(g)
             /\ excuse' = [excuse EXCEPT ![i] = @ + 1]
             /\ UNCHANGED sentTotal
  /\ Settle(i, "sent")
  /\ UNCHANGED <<dlq, resting, mgrVars, ctlVars, mutexVars, callVars,
                 failedTotal, ops, crashes, acks, delivered, tries>>

\* Mutant: the DLQ row is written before the queue tombstone.
DlqRowFirst(g) ==
  /\ pc[g] \in {"dlqRejected", "dlqExhausted"} /\ LockFree(g)
  /\ dlq' = AppendLine(dlq, job[g])
  /\ lock' = [lock EXCEPT ![g] = TRUE]
  /\ Goto(g, "dlqRow")
  /\ UNCHANGED <<queue, resting, idleVars, ctlVars, jobVars, rewrite,
                 histVars>>

\* move_to_dlq: lock, tombstone in the queue file.
DlqTombstone(g) ==
  /\ pc[g] \in {"dlqRejected", "dlqExhausted"} /\ LockFree(g)
  /\ \/ /\ queue' = AppendLine(queue, Tombstone(job[g]))
        /\ lock' = [lock EXCEPT ![g] = TRUE]
        /\ Goto(g, "dlqRow") /\ UNCHANGED <<batch, job, relayed, faults>>
     \/ /\ WriteError(queue, Tombstone(job[g]), queue')
        /\ AbortTick(g) /\ UNCHANGED lock
  /\ Settle(job[g].id, IF pc[g] = "dlqRejected" THEN "rejected" ELSE "exhausted")
  /\ UNCHANGED <<dlq, resting, mgrVars, ctlVars, rewrite, callVars, healthVars,
                 ops, crashes, acks, delivered, excuse, tries>>

\* move_to_dlq: the row (attempts not bumped) in the DLQ file, unlock; then
\* outbound_failed_total.
DlqRow(g) ==
  /\ pc[g] = "dlqRow"
  /\ \/ /\ dlq' = AppendLine(dlq, job[g])
        /\ failedTotal' = failedTotal + 1
        /\ Goto(g, "ackFailed") /\ UNCHANGED <<batch, job, relayed, faults>>
     \/ /\ WriteError(dlq, job[g], dlq')
        /\ AbortTick(g) /\ UNCHANGED failedTotal
  /\ lock' = [lock EXCEPT ![g] = FALSE]
  /\ UNCHANGED <<queue, resting, mgrVars, ctlVars, rewrite, callVars,
                 sentTotal, ops, crashes, histVars>>

\* update: attempts + 1 and a later next_attempt_at.
UpdateRow(g) ==
  LET r == [job[g] EXCEPT !.attempts = @ + 1] IN
  /\ pc[g] = "update" /\ LockFree(g)
  /\ \/ /\ queue' = AppendLine(queue, r)
        /\ resting' = resting \cup {r.id}
        /\ Goto(g, "ackRetrying") /\ UNCHANGED <<batch, job, relayed, faults>>
     \/ /\ WriteError(queue, r, queue')
        /\ AbortTick(g) /\ resting' \in {resting, resting \cup {r.id}}
  /\ UNCHANGED <<dlq, mgrVars, ctlVars, mutexVars, callVars, healthVars, ops,
                 crashes, histVars>>

\* handle_outcome publishes the ack; a failed publish is only logged.
Ack(g) ==
  LET status == CASE pc[g] = "ackSent" -> "sent"
                  [] pc[g] = "ackFailed" -> "failed"
                  [] OTHER -> "retrying"
  IN
  /\ pc[g] \in {"ackSent", "ackFailed", "ackRetrying"}
  /\ \/ acks' = [acks EXCEPT ![job[g].id] = status]
     \/ UNCHANGED acks
  /\ Goto(g, "drain")
  /\ job' = [job EXCEPT ![g] = Nil] /\ relayed' = [relayed EXCEPT ![g] = FALSE]
  /\ UNCHANGED <<fileVars, idleVars, ctlVars, batch, mutexVars, verdict,
                 delivered, excuse, tries>>

\* Time passes: next_attempt_at of id i is reached.
BackoffElapses(i) ==
  /\ i \in resting /\ resting' = resting \ {i}
  /\ UNCHANGED <<queue, dlq, idleVars, workVars, histVars>>

-----------------------------------------------------------------------------
(* OutboundDispatcher: add_account, remove_account, stop; and the process. *)

AddAccount(g) ==
  /\ mgr = "idle" /\ slot = NoGen /\ instance = NoGen /\ pc[g] = "off"
  /\ slot' = g /\ instance' = g
  /\ Goto(g, "select")
  /\ UNCHANGED <<fileVars, mgr, ctlVars, jobVars, mutexVars, callVars,
                 healthVars, boundVars, histVars>>

\* remove_account: take the slot, cancel, start waiting for the worker.
RemoveAccount ==
  /\ mgr = "idle" /\ slot # NoGen /\ ops < MaxOps
  /\ ops' = ops + 1 /\ mgr' = "removing" /\ slot' = NoGen
  /\ cancelled' = [cancelled EXCEPT ![slot] = TRUE]
  /\ UNCHANGED <<fileVars, instance, pc, tripped, jobVars, mutexVars, callVars,
                 healthVars, crashes, faults, histVars>>

\* Mutant: remove_account does not wait for the worker.
RemoveAtOnce ==
  /\ mgr = "removing"
  /\ mgr' = "idle" /\ instance' = NoGen
  /\ UNCHANGED <<fileVars, slot, workVars, callVars, healthVars, boundVars,
                 histVars>>

\* remove_account: the worker exited, or 5 s have passed.  Dropping the
\* JoinHandle in the second case detaches the task, it does not stop it.
RemoveFinish ==
  /\ mgr = "removing"
  /\ pc[instance] = "exited" \/ JoinTimesOut
  /\ mgr' = "idle" /\ instance' = NoGen
  /\ UNCHANGED <<fileVars, slot, workVars, callVars, healthVars, boundVars,
                 histVars>>

\* stop: cancel everything.  `core` outlives the dispatcher, so the tools can
\* still append to the queue file.
Stop ==
  /\ mgr = "idle" /\ ops < MaxOps
  /\ ops' = ops + 1 /\ mgr' = "stopped" /\ slot' = NoGen
  /\ cancelled' = IF slot = NoGen THEN cancelled
                  ELSE [cancelled EXCEPT ![slot] = TRUE]
  /\ UNCHANGED <<fileVars, instance, pc, tripped, jobVars, mutexVars, callVars,
                 healthVars, crashes, faults, histVars>>

\* Everything in memory is gone; callers inside enqueue_for_instance get an
\* error; the files stay.
LoseMemory ==
  /\ slot' = NoGen /\ instance' = NoGen /\ mgr' = "idle"
  /\ pc' = FreshWorkers.pc /\ batch' = FreshWorkers.batch
  /\ job' = FreshWorkers.job /\ rewrite' = FreshWorkers.rewrite
  /\ cancelled' = FreshWorkers.flag /\ tripped' = FreshWorkers.flag
  /\ lock' = FreshWorkers.flag /\ relayed' = FreshWorkers.flag
  /\ sentTotal' = 0 /\ failedTotal' = 0
  /\ call' = [c \in Cmds |-> IF call[c] = "building" THEN "refused" ELSE call[c]]
  /\ callGen' = [c \in Cmds |-> NoGen]

\* A restart after every worker has ended.
Restart ==
  /\ slot = NoGen /\ mgr # "removing"
  /\ \A g \in Gens : pc[g] \in {"off", "exited"}
  /\ mgr = "stopped" \/ \E g \in Gens : pc[g] = "exited"
  /\ LoseMemory
  /\ UNCHANGED <<fileVars, boundVars, histVars>>

\* The relay has the message of worker g and the queue does not know yet.
Uncertain(g) == (pc[g] = "sending" /\ relayed[g]) \/ pc[g] = "markDone"

\* kill -9 at any await.  (A kill in the middle of a write is a torn write
\* error followed by this step.)
Crash ==
  /\ crashes < MaxCrashes /\ crashes + faults < MaxDisruptions
  /\ crashes' = crashes + 1
  /\ \E g \in Gens : pc[g] # "off"
  /\ LoseMemory
  /\ excuse' = [i \in Ids |->
       IF \E g \in Gens : Uncertain(g) /\ job[g].id = i THEN excuse[i] + 1
                                                       ELSE excuse[i]]
  /\ UNCHANGED <<fileVars, ops, faults, acks, verdict, delivered, tries>>

-----------------------------------------------------------------------------
SmtpReply(g) ==
  SmtpSent(g) \/ SmtpPermanent(g) \/ SmtpTransient(g) \/ SmtpNetworkError(g)

Worker(g) ==
  \/ WorkerCancelled(g) \/ BreakerCools(g) \/ DrainTick(g)
  \/ CompactRead(g) \/ CompactWrite(g) \/ TrimRead(g) \/ TrimWrite(g)
  \/ SendStart(g) \/ DrainEnd(g)
  \/ RelayAccepts(g) \/ SmtpReply(g)
  \/ MarkDone(g) \/ DlqTombstone(g) \/ DlqRow(g) \/ UpdateRow(g) \/ Ack(g)

Caller(c) == ToolCall(c) \/ ToolBuildFails(c) \/ ToolAppend(c)

Next ==
  \/ \E c \in Cmds : Caller(c)
  \/ \E g \in Gens, c \in Cmds : BrokerCommand(g, c)
  \/ \E g \in Gens : Worker(g)
  \/ \E i \in Ids : BackoffElapses(i)
  \/ \E g \in Gens : AddAccount(g)
  \/ RemoveAccount \/ RemoveFinish \/ Stop \/ Restart \/ Crash

Spec == Init /\ [][Next]_vars

\* Fairness: tokio polls every ready task, send_raw returns or times out, the
\* breaker's cool-down and every backoff end, a cancelled worker sees it, and
\* a removed account or a crashed daemon is started again.  select! picks one of
\* its ready branches at random: each is taken again and again (SF).  Nothing
\* makes the relay accept a message.
FairSpec ==
  /\ Spec
  /\ \A c \in Cmds : WF_vars(ToolBuildFails(c) \/ ToolAppend(c))
  /\ \A g \in Gens :
       /\ WF_vars(CompactRead(g) \/ CompactWrite(g) \/ TrimRead(g) \/ TrimWrite(g))
       /\ WF_vars(SendStart(g) \/ DrainEnd(g))
       /\ WF_vars(SmtpReply(g))
       /\ WF_vars(MarkDone(g) \/ DlqTombstone(g) \/ DlqRow(g) \/ UpdateRow(g) \/ Ack(g))
       /\ WF_vars(BreakerCools(g)) /\ SF_vars(DrainTick(g))
       /\ WF_vars(AddAccount(g)) /\ SF_vars(WorkerCancelled(g))
  /\ WF_vars(RemoveFinish)
  /\ \A i \in Ids : WF_vars(BackoffElapses(i))

-----------------------------------------------------------------------------
(* Properties.                                                             *)

Settled(i) == verdict[i] # "none"

\* A command the plugin accepted (the tool got a message id back) is live in
\* the queue file until it was sent or given up: no interleaving of enqueue,
\* compaction, retry and crash loses it (outbound_queue.rs:3-5).
NoAcceptedJobLost ==
  \A c \in Cmds : call[c] = "accepted" =>
    IsPending(queue, MsgIdOf[c]) \/ Settled(MsgIdOf[c])

\* Every accepted job that vanished without a verdict is paid for by a write
\* that stopped half way: one torn append swallows at most one later row.
LossBoundedByFaults ==
  Cardinality({ c \in Cmds : /\ call[c] = "accepted"
                             /\ ~IsPending(queue, MsgIdOf[c])
                             /\ ~Settled(MsgIdOf[c]) }) <= faults

\* No job is live in the queue and also in the DLQ: the reason move_to_dlq
\* gives for writing the tombstone first (outbound_queue.rs:126-138).
NotLiveAndDead ==
  \A k \in 1..Len(dlq.lines) :
    dlq.lines[k] # Nil => ~IsPending(queue, dlq.lines[k].id)

\* The relay gets a second copy only when the plugin could not know or record
\* that it had the first: reply lost, tombstone not written, or crash between
\* acceptance and tombstone.
DuplicateOnlyIfDisrupted ==
  \A i \in Ids : delivered[i] <= 1 + excuse[i]

\* "Five transient attempts -> DLQ" (outbound.rs:14-15): a job starts at most
\* MAX_ATTEMPTS transactions, plus one per crash or failed write.
RetriesBounded ==
  \A i \in Ids : tries[i] <= MAX_ATTEMPTS + crashes + faults

\* An ack tells what the files say: `sent` and `failed` are published after
\* the relay's answer and after the tombstone, never before.
AckIsDurable ==
  \A i \in Ids :
    /\ acks[i] = "sent" => delivered[i] > 0 /\ verdict[i] = "sent"
    /\ acks[i] = "failed" => verdict[i] \in {"rejected", "exhausted"}

\* outbound_sent_total + outbound_failed_total never count a job twice.
CountedOnce ==
  sentTotal + failedTotal <= Cardinality({ i \in Ids : Settled(i) })

\* After a terminal ack the message is never offered to the relay again and
\* no other ack is published for it, across retries, crashes and restarts.
TerminalAckIsFinal ==
  [][\A i \in Ids : acks[i] \in {"sent", "failed"} =>
        acks'[i] = acks[i] /\ tries'[i] = tries[i]]_<<acks, tries>>

\* No rewrite of the DLQ loses its newest line: trim_dlq drops the oldest
\* rows and never a row appended while it works.
DlqKeepsNewest ==
  [][LET n == Len(dlq.lines) IN
     n > 0 => dlq.lines[n] \in Range(dlq'.lines)]_dlq

\* No accepted job stays in the queue: it is sent, or given up, or (only with
\* torn writes, LossBoundedByFaults) its row is lost, or the dispatcher was
\* stopped.
AcceptedIsDrained ==
  \A c \in Cmds :
    (call[c] = "accepted") ~> (~IsPending(queue, MsgIdOf[c]) \/ mgr = "stopped")

-----------------------------------------------------------------------------
(* Refinement: the files, read back, implement Outbox.                     *)

Status(c) ==
  LET i == MsgIdOf[c] IN
  IF call[c] \in {"idle", "building"}        THEN "new"
  ELSE IF call[c] \in {"refused", "dropped"} THEN "refused"
  ELSE IF verdict[i] = "sent"                THEN "sent"
  ELSE IF Settled(i)                         THEN "dead"
  ELSE IF IsPending(queue, i)                THEN "queued"
                                             ELSE "lost"

Abstract == INSTANCE Outbox WITH
  st     <- [c \in Cmds |-> Status(c)],
  copies <- [c \in Cmds |-> delivered[MsgIdOf[c]]]

\* Every behaviour of the dispatcher, crashes and write errors included, is a
\* behaviour of Outbox: nothing is lost, revived or settled twice.
ImplementsOutbox == Abstract!Spec
=============================================================================
