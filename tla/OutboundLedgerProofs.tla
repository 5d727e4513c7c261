------------------------ MODULE OutboundLedgerProofs ------------------------
(***************************************************************************)
(* What the dispatcher does with a job between the queue file and the      *)
(* relay: how often it is tried, sent, acknowledged and counted, and that  *)
(* every step is a step of Outbox - for every value of the constants with  *)
(* which a write happens or does not happen (no torn lines), two commands  *)
(* never share a Message-Id, and two workers never run at once.            *)
(***************************************************************************)
EXTENDS OutboundProofs

UniqueIds == \A c, d \in Cmds : MsgIdOf[c] = MsgIdOf[d] => c = d

\* A process makes one generation, or a removed worker ends before the next
\* one begins.
OneWorker == OneGeneration \/ ~JoinTimesOut

-----------------------------------------------------------------------------
(* The ledger: what the files, the worker and the history say about a job. *)

Active(g) == pc[g] \notin {"off", "exited"}

\* Only the worker that the dispatcher knows runs.
Steady == ~JoinTimesOut => \A g \in Gens : Active(g) => g = instance

Accepted(i) == \E c \in Cmds : call[c] = "accepted" /\ MsgIdOf[c] = i

\* A Message-Id enters the files, and the history, with an accepted command.
KnownIds ==
  /\ \A r \in LatestPerId(queue) : Accepted(r.id)
  /\ \A i \in Ids : ~Accepted(i) =>
       verdict[i] = "none" /\ tries[i] = 0 /\ delivered[i] = 0

\* Where a worker holds a job that the queue still offers.
Offering == {"sending", "markDone", "dlqRejected", "dlqExhausted", "update"}

Offers(g, i) == pc[g] \in Offering /\ job[g].id = i

Burden == crashes + faults

\* Every live row is unsettled and below the retry limit, and its counter
\* accounts for the transactions and copies of the id, except while a worker
\* has the row in hand.
PendingInv ==
  \A r \in ListPending(queue) :
    /\ verdict[r.id] = "none" /\ r.attempts < MAX_ATTEMPTS
    /\ (\A g \in Gens : ~Offers(g, r.id)) =>
         tries[r.id] <= r.attempts + Burden /\ delivered[r.id] <= excuse[r.id]

\* The batch of a worker is still live.
BatchInv(g) ==
  /\ batch[g] \subseteq ListPending(queue)
  /\ pc[g] \notin Busy \cup {"drain"} => batch[g] = {}

\* A job that is offered is the live row of its id, no other row of the batch
\* has that id, and its counter is one transaction (and one copy) behind.
OfferInv(g) ==
  LET i == job[g].id IN
  /\ pc[g] \in Offering =>
       /\ job[g] \in ListPending(queue) /\ \A q \in batch[g] : q.id # i
       /\ tries[i] <= job[g].attempts + 1 + Burden
       /\ delivered[i] <= excuse[i] + (IF Uncertain(g) THEN 1 ELSE 0)
       /\ Uncertain(g) => delivered[i] > 0
  /\ pc[g] = "update" => ~GivesUp(job[g])

\* A job past its tombstone is settled, and not yet acknowledged.
SettledInv(g) ==
  LET i == job[g].id IN
  /\ pc[g] \in {"dlqRow", "ackFailed"} => verdict[i] \in {"rejected", "exhausted"}
  /\ pc[g] = "ackSent" => verdict[i] = "sent" /\ delivered[i] > 0
  /\ pc[g] \in {"dlqRow", "ackFailed", "ackSent"} => acks[i] \notin {"sent", "failed"}
  /\ pc[g] = "ackRetrying" => verdict[i] = "none"

\* A pending rewrite revives nothing and is not outdated.
RewriteInv(g) ==
  /\ pc[g] = "compactWrite" =>
       ~rewrite[g].open /\ LatestPerId(rewrite[g]) \subseteq ListPending(queue)
  /\ pc[g] = "trimWrite" =>
       TrimNeeded(dlq, MaxDlqLines) /\ rewrite[g] = Trimmed(dlq, MaxDlqLines)

WorkerInv(g) == BatchInv(g) /\ OfferInv(g) /\ SettledInv(g) /\ RewriteInv(g)

\* Every row of the DLQ is settled.
DlqInv ==
  /\ ~dlq.open
  /\ \A k \in 1..Len(dlq.lines) :
       dlq.lines[k] # Nil => Settled(dlq.lines[k].id)

Ledger ==
  /\ TypeInv /\ ~queue.open /\ Steady /\ KnownIds /\ PendingInv
  /\ \A g \in Gens : WorkerInv(g)
  /\ DlqInv /\ DuplicateOnlyIfDisrupted /\ RetriesBounded /\ AckIsDurable

-----------------------------------------------------------------------------
(* Lemmas.                                                                 *)

\* Two workers that run are one.
LEMMA SoleWorker ==
  ASSUME OneWorker, Steady, NEW g \in Gens, NEW h \in Gens, Active(g), Active(h)
  PROVE  g = h
BY DEF OneWorker, OneGeneration, Steady

\* What was never tried is within every budget.
LEMMA ZeroBelow ==
  ASSUME NEW a, NEW b, NEW n \in Nat, a = 0, b = 0
  PROVE  a <= b + n
OBVIOUS

\* A sum of three numbers.
LEMMA SumIsNat ==
  ASSUME NEW a \in Nat, NEW b \in Nat, NEW c \in Nat
  PROVE  a + b + c \in Nat
OBVIOUS

\* A worker that does not run owes nothing.
LEMMA IdleWorker ==
  ASSUME NEW g \in Gens, ~Active(g), batch[g] = {}
  PROVE  WorkerInv(g)
BY DEF Active, WorkerInv, BatchInv, OfferInv, SettledInv, RewriteInv, Offering

\* The live rows after an append.
LEMMA RowsAfterAppend ==
  ASSUME NEW f \in File, ~f.open, NEW r \in Row
  PROVE  /\ ~AppendLine(f, r).open
         /\ LatestPerId(AppendLine(f, r)) =
              {r} \cup { q \in LatestPerId(f) : q.id # r.id }
         /\ ListPending(AppendLine(f, r)) =
              (IF r.done THEN {} ELSE {r}) \cup { q \in ListPending(f) : q.id # r.id }
<1>1. ~AppendLine(f, r).open
  BY DEF AppendLine
<1>2. QED  BY <1>1, LatestAfterAppend DEF ListPending

\* A settled id is not live.
LEMMA SettledNotPending ==
  ASSUME PendingInv, NEW i \in Ids, Settled(i)
  PROVE  ~IsPending(queue, i)
BY DEF PendingInv, IsPending, Settled

\* The types of the state a step of the ledger reads.
Types ==
  /\ queue \in File /\ dlq \in File
  /\ pc \in [Gens -> Pcs] /\ relayed \in [Gens -> BOOLEAN]
  /\ batch \in [Gens -> SUBSET Row] /\ job \in [Gens -> Line]
  /\ rewrite \in [Gens -> File]
  /\ call \in [Cmds -> {"idle", "building", "accepted", "refused", "dropped"}]
  /\ crashes \in Nat /\ faults \in Nat
  /\ acks \in [Ids -> {"none", "retrying", "sent", "failed"}]
  /\ verdict \in [Ids -> {"none", "sent", "rejected", "exhausted"}]
  /\ delivered \in [Ids -> Nat] /\ excuse \in [Ids -> Nat]
  /\ tries \in [Ids -> Nat]
  /\ \A g \in Gens : pc[g] \in Busy => job[g] \in Row /\ job[g].id \in Ids
                                        /\ job[g].attempts \in Nat /\ ~job[g].done

\* What the steps below use of the types.
LEMMA TypesHold == TypeInv => Types
BY DEF TypeInv, TypeOK, Types, Row

\* Base case: empty files and no worker.
LEMMA LedgerInit == Init => Ledger
<1> SUFFICES ASSUME Init PROVE Ledger
  OBVIOUS
<1>1. LatestPerId(queue) = {} /\ ListPending(queue) = {}
  BY EmptySeq DEF Init, EmptyFile, LatestPerId, ListPending
<1>2. Steady /\ KnownIds /\ PendingInv
  BY <1>1 DEF Init, Steady, KnownIds, PendingInv, Active, FreshWorkers
<1>3. \A g \in Gens : WorkerInv(g)
  BY IdleWorker DEF Init, FreshWorkers, Active
<1>4. DlqInv /\ ~queue.open
  BY EmptySeq DEF Init, DlqInv, EmptyFile
<1>5. DuplicateOnlyIfDisrupted /\ RetriesBounded /\ AckIsDurable
  BY OutboundAssumption DEF Init, DuplicateOnlyIfDisrupted, RetriesBounded, AckIsDurable
<1>6. QED  BY <1>1, <1>2, <1>3, <1>4, <1>5, TypeInit DEF Ledger

-----------------------------------------------------------------------------
(* Frames: what a step of one kind leaves alone.                           *)

\* While a worker runs the others do not, and owe nothing before or after.
LEMMA OthersIdle ==
  ASSUME OneWorker, Ledger, NEW g \in Gens, Active(g)
  PROVE  \A h \in Gens : h # g => ~Active(h) /\ batch[h] = {} /\ pc[h] \notin Offering
<1>1. ASSUME NEW h \in Gens, h # g PROVE ~Active(h)
  BY <1>1, SoleWorker DEF Ledger
<1>2. \A h \in Gens : BatchInv(h)
  BY DEF Ledger, WorkerInv
<1>3. QED  BY <1>1, <1>2 DEF BatchInv, Active, Busy, Offering

\* A step of the one worker that runs: only its own part is to be shown.
LEMMA WorkerFrame ==
  ASSUME OneWorker, Ledger, NEW g \in Gens, Active(g),
         \A h \in Gens : h # g => pc'[h] = pc[h] /\ batch'[h] = batch[h],
         UNCHANGED instance, WorkerInv(g)'
  PROVE  Steady' /\ \A h \in Gens : WorkerInv(h)'
<1>1. ASSUME NEW h \in Gens, h # g PROVE WorkerInv(h)' /\ ~Active(h)'
  <2>1. pc'[h] \in {"off", "exited"} /\ batch'[h] = {}
    BY <1>1, OthersIdle DEF Active
  <2>2. QED
    BY <2>1 DEF Active, WorkerInv, BatchInv, OfferInv, SettledInv, RewriteInv, Offering
<1>2. \A h \in Gens : WorkerInv(h)'
  BY <1>1
<1>3. Steady'
  BY <1>1 DEF Ledger, Steady, Active
<1>4. QED  BY <1>2, <1>3

\* A step of a worker that leaves the queue alone; copies and excuses change
\* only for the job it offers.
LEMMA HistoryStep ==
  ASSUME OneWorker, Ledger, TypeInv', NEW g \in Gens, Active(g),
         \A h \in Gens : h # g => pc'[h] = pc[h] /\ batch'[h] = batch[h],
         UNCHANGED <<queue, call, instance, crashes, faults, verdict, tries>>,
         WorkerInv(g)', DlqInv', DuplicateOnlyIfDisrupted', AckIsDurable',
         pc[g] \in Offering => pc'[g] \in Offering /\ job'[g] = job[g],
         \A i \in Ids : (delivered'[i] = delivered[i] /\ excuse'[i] = excuse[i])
                        \/ Offers(g, i)
  PROVE  Ledger'
<1>1. Steady' /\ \A h \in Gens : WorkerInv(h)'
  BY WorkerFrame
<1>2. \A r \in LatestPerId(queue) : r.id \in Ids
  BY TypesHold, LatestPerIdType DEF Ledger, Types, Row
<1>3. KnownIds'
  <2>1. \A i : Accepted(i)' <=> Accepted(i)
    BY DEF Accepted
  <2>2. \A i \in Ids : Offers(g, i) => Accepted(i)
    <3>1. pc[g] \in Offering => job[g] \in LatestPerId(queue)
      BY DEF Ledger, WorkerInv, OfferInv, ListPending
    <3>2. QED  BY <3>1 DEF Offers, Ledger, KnownIds
  <2>3. QED  BY <2>1, <2>2 DEF Ledger, KnownIds
<1>4. PendingInv'
  <2>1. SUFFICES ASSUME NEW r \in ListPending(queue), \A h \in Gens : ~Offers(h, r.id)'
                 PROVE  tries[r.id] <= r.attempts + Burden /\ delivered'[r.id] <= excuse'[r.id]
    BY DEF Ledger, PendingInv, Burden
  <2>2. \A h \in Gens : ~Offers(h, r.id)
    BY <2>1, OthersIdle DEF Offers
  <2>3. r.id \in Ids
    BY <1>2 DEF ListPending
  <2>4. QED  BY <2>2, <2>3 DEF Ledger, PendingInv
<1>5. RetriesBounded'
  BY DEF Ledger, RetriesBounded
<1>6. QED  BY <1>1, <1>3, <1>4, <1>5 DEF Ledger

\* A step of a worker that changes no file and no history.
LEMMA QuietStep ==
  ASSUME OneWorker, Ledger, TypeInv', NEW g \in Gens, Active(g),
         \A h \in Gens : h # g => pc'[h] = pc[h] /\ batch'[h] = batch[h],
         UNCHANGED <<queue, dlq, call, instance, crashes, faults, histVars>>,
         WorkerInv(g)',
         pc[g] \in Offering => pc'[g] \in Offering /\ job'[g] = job[g]
  PROVE  Ledger'
<1> USE DEF histVars
<1>1. DlqInv' /\ DuplicateOnlyIfDisrupted' /\ AckIsDurable'
  BY DEF Ledger, DlqInv, Settled, DuplicateOnlyIfDisrupted, AckIsDurable
<1>2. QED  BY <1>1, HistoryStep

\* A step of a caller or of the manager.
LEMMA ManagerStep ==
  ASSUME Ledger, TypeInv', Steady',
         UNCHANGED <<queue, dlq, batch, job, relayed, rewrite, crashes, faults, histVars>>,
         \A h \in Gens : pc'[h] = pc[h] \/ (pc[h] = "off" /\ pc'[h] = "select"),
         \A i \in Ids : Accepted(i)' <=> Accepted(i)
  PROVE  Ledger'
<1> USE DEF histVars
<1>0. \A h \in Gens : pc'[h] = pc[h] \/ (pc[h] = "off" /\ pc'[h] = "select")
  OBVIOUS
<1>1. KnownIds'
  BY LatestPerIdType, TypesHold DEF Ledger, KnownIds, Types, Row
<1>2. PendingInv'
  <2>1. \A h \in Gens : pc[h] \in Offering <=> pc'[h] \in Offering
    BY <1>0 DEF Offering
  <2>2. QED  BY <2>1 DEF Ledger, PendingInv, Offers, Burden
<1>3. ASSUME NEW h \in Gens PROVE WorkerInv(h)'
  <2>1. CASE pc'[h] = pc[h]
    BY <2>1 DEF Ledger, WorkerInv, BatchInv, OfferInv, SettledInv, RewriteInv, Uncertain, Burden
  <2>2. CASE pc[h] = "off" /\ pc'[h] = "select"
    <3>1. batch'[h] = {}
      BY <2>2 DEF Ledger, WorkerInv, BatchInv, Busy
    <3>2. QED
      BY <2>2, <3>1 DEF WorkerInv, BatchInv, OfferInv, SettledInv, RewriteInv, Offering
  <2>3. QED  BY <1>0, <2>1, <2>2
<1>4. DlqInv' /\ DuplicateOnlyIfDisrupted' /\ RetriesBounded' /\ AckIsDurable'
  BY DEF Ledger, DlqInv, Settled, DuplicateOnlyIfDisrupted, RetriesBounded, AckIsDurable
<1>5. QED  BY <1>1, <1>2, <1>3, <1>4 DEF Ledger

\* A caller's row that reaches the queue file, or a write that fails clean.
LEMMA EnqueueStep ==
  ASSUME UniqueIds, Ledger, TypeInv', NEW c \in Cmds,
         call[c] \in {"idle", "building"},
         UNCHANGED <<dlq, pc, batch, job, relayed, rewrite, instance, crashes, histVars>>,
         faults' = faults \/ faults' = faults + 1,
         \/ queue' = AppendLine(queue, FreshRow(c)) /\ call' = [call EXCEPT ![c] = "accepted"]
         \/ queue' = queue /\ \E s \in {"refused", "dropped"} : call' = [call EXCEPT ![c] = s]
  PROVE  Ledger'
<1> DEFINE i == MsgIdOf[c]
           r == FreshRow(c)
<1> USE DEF histVars
<1>1. Types
  BY TypesHold DEF Ledger
<1>2. i \in Ids /\ r \in Row /\ r.id = i /\ r.attempts = 0 /\ ~r.done
  BY OutboundAssumption DEF FreshRow, Row
<1>3. ~Accepted(i)
  BY DEF UniqueIds, Accepted
<1>4. \A q \in LatestPerId(queue) : q.id # i
  BY <1>3 DEF Ledger, KnownIds
<1>5. /\ ~queue'.open
      /\ LatestPerId(queue) \subseteq LatestPerId(queue')
      /\ LatestPerId(queue') \subseteq LatestPerId(queue) \cup {r}
      /\ ListPending(queue) \subseteq ListPending(queue')
      /\ ListPending(queue') \subseteq ListPending(queue) \cup {r}
      /\ r \in LatestPerId(queue') => Accepted(i)'
  <2>1. CASE queue' = AppendLine(queue, r) /\ call' = [call EXCEPT ![c] = "accepted"]
    <3>1. Accepted(i)'
      BY <1>1, <2>1 DEF Accepted, Types
    <3>2. ListPending(queue) \subseteq LatestPerId(queue)
      BY DEF ListPending
    <3>3. queue \in File /\ ~queue.open
      BY <1>1 DEF Types, Ledger
    <3>4. QED  BY <1>2, <1>4, <2>1, <3>1, <3>2, <3>3, RowsAfterAppend
  <2>2. CASE queue' = queue
    <3>1. r \notin LatestPerId(queue)
      BY <1>2, <1>4
    <3>2. QED  BY <2>2, <3>1 DEF Ledger
  <2>3. QED  BY <2>1, <2>2
<1>6. \A j : Accepted(j) => Accepted(j)'
  BY <1>1 DEF Accepted, Types
<1>7. Burden' >= Burden /\ Burden \in Nat /\ Burden' \in Nat
  <2>1. crashes \in Nat /\ faults \in Nat /\ crashes' = crashes
    BY <1>1 DEF Types
  <2>2. QED  BY <2>1 DEF Burden
<1>8. verdict[i] = "none" /\ tries[i] = 0 /\ delivered[i] = 0
  BY <1>2, <1>3 DEF Ledger, KnownIds
<1> HIDE DEF i, r
<1>9. KnownIds'
  BY <1>2, <1>5, <1>6 DEF Ledger, KnownIds
<1>10. PendingInv'
  <2>1. ASSUME NEW q \in ListPending(queue), q \in Row
        PROVE  /\ verdict[q.id] = "none" /\ q.attempts < MAX_ATTEMPTS
               /\ (\A g \in Gens : ~Offers(g, q.id)') =>
                    tries[q.id] <= q.attempts + Burden' /\ delivered[q.id] <= excuse[q.id]
    <3>1. q.id \in Ids /\ q.attempts \in Nat /\ tries[q.id] \in Nat
      BY <1>1, <2>1 DEF Types, Row
    <3>2. \A g \in Gens : Offers(g, q.id)' <=> Offers(g, q.id)
      BY DEF Offers
    <3>3. QED  BY <1>7, <3>1, <3>2 DEF Ledger, PendingInv
  <2>2. tries[i] <= r.attempts + Burden' /\ delivered[i] <= excuse[i] /\ r.attempts < MAX_ATTEMPTS
    <3>1. excuse[i] \in Nat /\ MAX_ATTEMPTS \in Nat \ {0}
      BY <1>1, <1>2, OutboundAssumption DEF Types
    <3>2. delivered[i] <= excuse[i]
      BY <1>8, <3>1
    <3>3. r.attempts < MAX_ATTEMPTS
      BY <1>2, <3>1
    <3>4. tries[i] <= r.attempts + Burden'
      BY <1>2, <1>7, <1>8, ZeroBelow
    <3>5. QED  BY <3>2, <3>3, <3>4
  <2>3. ListPending(queue) \subseteq Row
    BY <1>1, LatestPerIdType DEF Types
  <2>4. QED  BY <1>2, <1>5, <1>8, <2>1, <2>2, <2>3 DEF PendingInv
<1>11. ASSUME NEW g \in Gens PROVE WorkerInv(g)'
  <2>1. BatchInv(g)' /\ RewriteInv(g)' /\ SettledInv(g)'
    BY <1>5 DEF Ledger, WorkerInv, BatchInv, RewriteInv, SettledInv
  <2>2. OfferInv(g)'
    <3>1. pc[g] \in Offering => job[g].attempts \in Nat /\ tries[job[g].id] \in Nat
      BY <1>1 DEF Types, Busy, Offering
    <3>2. QED  BY <1>5, <1>7, <3>1 DEF Ledger, WorkerInv, OfferInv, Uncertain
  <2>3. QED  BY <2>1, <2>2 DEF WorkerInv
<1>12. DlqInv' /\ DuplicateOnlyIfDisrupted' /\ AckIsDurable'
  BY DEF Ledger, DlqInv, Settled, DuplicateOnlyIfDisrupted, AckIsDurable
<1>13. RetriesBounded'
  <2>1. \A j \in Ids : tries[j] \in Nat
    BY <1>1 DEF Types
  <2>2. QED  BY <1>1, <1>7, <2>1, OutboundAssumption DEF Ledger, RetriesBounded, Burden, Types
<1>14. Steady'
  BY DEF Ledger, Steady, Active
<1>15. QED  BY <1>5, <1>9, <1>10, <1>11, <1>12, <1>13, <1>14 DEF Ledger

-----------------------------------------------------------------------------
(* The steps of a worker that holds a job.                                 *)

\* A job that is offered is a live, unsettled row of an accepted command.
LEMMA OfferedJob ==
  ASSUME Ledger, NEW g \in Gens, pc[g] \in Offering
  PROVE  /\ job[g] \in Row /\ job[g].id \in Ids
         /\ job[g].attempts \in Nat /\ job[g].attempts < MAX_ATTEMPTS
         /\ job[g] \in ListPending(queue) /\ job[g] \in LatestPerId(queue)
         /\ IsPending(queue, job[g].id) /\ Accepted(job[g].id)
         /\ verdict[job[g].id] = "none"
         /\ acks[job[g].id] \notin {"sent", "failed"}
<1>1. job[g] \in Row /\ job[g].id \in Ids /\ job[g].attempts \in Nat
  BY TypesHold DEF Ledger, Types, Busy, Offering
<1>2. job[g] \in ListPending(queue)
  BY DEF Ledger, WorkerInv, OfferInv
<1>3. verdict[job[g].id] = "none" /\ job[g].attempts < MAX_ATTEMPTS
  BY <1>2 DEF Ledger, PendingInv
<1>4. acks[job[g].id] \notin {"sent", "failed"}
  BY <1>1, <1>3 DEF Ledger, AckIsDurable
<1>5. job[g] \in LatestPerId(queue) /\ Accepted(job[g].id)
  BY <1>2 DEF ListPending, Ledger, KnownIds
<1>6. QED  BY <1>1, <1>2, <1>3, <1>4, <1>5 DEF IsPending

\* A write that fails ends the tick: the job keeps its row, and one more
\* transaction (and copy) is excused.
LEMMA AbortStep ==
  ASSUME OneWorker, Ledger, TypeInv', NEW g \in Gens, Active(g),
         UNCHANGED <<queue, dlq, call, instance, crashes, acks, verdict, delivered, tries>>,
         faults' = faults + 1, AbortTick(g),
         \/ UNCHANGED excuse /\ ~Uncertain(g)
         \/ excuse' = [excuse EXCEPT ![job[g].id] = @ + 1] /\ pc[g] \in Offering
  PROVE  Ledger'
<1>1. Types
  BY TypesHold DEF Ledger
<1>2. /\ pc'[g] = "select" /\ batch'[g] = {}
      /\ \A h \in Gens : h # g => pc'[h] = pc[h] /\ batch'[h] = batch[h]
  BY <1>1 DEF AbortTick, Goto, Types
<1>3. WorkerInv(g)'
  BY <1>2 DEF WorkerInv, BatchInv, OfferInv, SettledInv, RewriteInv, Offering
<1>4. Steady' /\ \A h \in Gens : WorkerInv(h)'
  BY <1>2, <1>3, WorkerFrame
<1>5. KnownIds'
  BY DEF Ledger, KnownIds, Accepted
<1>6. Burden \in Nat /\ Burden' = Burden + 1
  <2>1. crashes \in Nat /\ faults \in Nat /\ crashes' = crashes
    BY <1>1 DEF Types
  <2>2. QED  BY <2>1 DEF Burden
<1>7. /\ \A i \in Ids : excuse[i] \in Nat /\ excuse'[i] \in Nat /\ excuse'[i] >= excuse[i]
      /\ pc[g] \in Offering /\ Uncertain(g) => excuse'[job[g].id] = excuse[job[g].id] + 1
  <2>1. pc[g] \in Offering => job[g].id \in Ids
    BY OfferedJob
  <2>2. QED  BY <1>1, <2>1 DEF Types
<1>8. PendingInv'
  <2>1. SUFFICES ASSUME NEW r \in ListPending(queue)
                 PROVE  /\ verdict[r.id] = "none" /\ r.attempts < MAX_ATTEMPTS
                        /\ tries[r.id] <= r.attempts + Burden'
                        /\ delivered[r.id] <= excuse'[r.id]
    BY DEF PendingInv
  <2>2. r \in Row /\ r.id \in Ids /\ r.attempts \in Nat
    BY <1>1, LatestPerIdType DEF Types, Row
  <2>3. tries[r.id] \in Nat /\ delivered[r.id] \in Nat
    BY <1>1, <2>2 DEF Types
  <2>4. CASE Offers(g, r.id)
    <3>1. job[g] = r
      <4>1. r \in LatestPerId(queue) /\ queue \in File
        BY <1>1 DEF ListPending, Types
      <4>2. QED  BY <2>4, <4>1, OfferedJob, LatestUnique DEF Offers
    <3>2. /\ tries[r.id] <= r.attempts + 1 + Burden
          /\ delivered[r.id] <= excuse[r.id] + (IF Uncertain(g) THEN 1 ELSE 0)
      BY <2>4, <3>1 DEF Offers, Ledger, WorkerInv, OfferInv
    <3>3. QED
      BY <1>6, <1>7, <2>2, <2>3, <2>4, <3>1, <3>2 DEF Offers, Ledger, PendingInv
  <2>5. CASE ~Offers(g, r.id)
    <3>1. \A h \in Gens : ~Offers(h, r.id)
      BY <2>5, OthersIdle DEF Offers
    <3>2. tries[r.id] <= r.attempts + Burden /\ delivered[r.id] <= excuse[r.id]
      BY <3>1 DEF Ledger, PendingInv
    <3>3. QED  BY <1>6, <1>7, <2>2, <2>3, <3>2 DEF Ledger, PendingInv
  <2>6. QED  BY <2>4, <2>5
<1>9. DlqInv' /\ AckIsDurable'
  BY DEF Ledger, DlqInv, Settled, AckIsDurable
<1>10. DuplicateOnlyIfDisrupted'
  <2>1. \A i \in Ids : delivered[i] \in Nat
    BY <1>1 DEF Types
  <2>2. QED  BY <1>7, <2>1 DEF Ledger, DuplicateOnlyIfDisrupted
<1>11. RetriesBounded'
  <2>1. \A i \in Ids : tries[i] \in Nat
    BY <1>1 DEF Types
  <2>2. \A i \in Ids : tries[i] <= MAX_ATTEMPTS + crashes + faults
    BY DEF Ledger, RetriesBounded
  <2>3. crashes \in Nat /\ faults \in Nat /\ MAX_ATTEMPTS \in Nat
    BY <1>1, OutboundAssumption DEF Types
  <2>4. QED  BY <2>1, <2>2, <2>3 DEF RetriesBounded
<1>12. QED  BY <1>4, <1>5, <1>8, <1>9, <1>10, <1>11 DEF Ledger

\* A tombstone that reaches the queue file settles its id.
LEMMA TombstoneStep ==
  ASSUME OneWorker, Ledger, TypeInv', NEW g \in Gens, pc[g] \in Offering,
         queue' = AppendLine(queue, Tombstone(job[g])),
         UNCHANGED <<dlq, call, instance, crashes, faults, batch, job,
                     acks, delivered, excuse, tries>>,
         NEW why \in {"sent", "rejected", "exhausted"},
         verdict' = [verdict EXCEPT ![job[g].id] = why],
         NEW to, Goto(g, to),
         \/ to = "ackSent" /\ why = "sent" /\ pc[g] = "markDone"
         \/ to = "dlqRow" /\ why \in {"rejected", "exhausted"}
  PROVE  Ledger'
<1> DEFINE i == job[g].id
           t == Tombstone(job[g])
<1>1. Types
  BY TypesHold DEF Ledger
<1>2. /\ i \in Ids /\ job[g] \in Row /\ Accepted(i) /\ verdict[i] = "none"
      /\ acks[i] \notin {"sent", "failed"}
  BY OfferedJob
<1>3. t \in Row /\ t.id = i /\ t.done
  BY <1>2 DEF Tombstone, Row
<1>4. /\ ~queue'.open
      /\ LatestPerId(queue') = {t} \cup { q \in LatestPerId(queue) : q.id # i }
      /\ ListPending(queue') = { q \in ListPending(queue) : q.id # i }
  <2>1. queue \in File /\ ~queue.open
    BY <1>1 DEF Types, Ledger
  <2>2. QED  BY <1>3, <2>1, RowsAfterAppend
<1>5. /\ verdict'[i] = why
      /\ \A j \in Ids : j # i => verdict'[j] = verdict[j]
  BY <1>1, <1>2 DEF Types
<1>6. Active(g) /\ pc'[g] = to /\ \A h \in Gens : h # g => pc'[h] = pc[h]
  BY <1>1 DEF Goto, Types, Active, Offering
<1>7. /\ \A j : Accepted(j)' <=> Accepted(j)
      /\ Burden' = Burden
  BY DEF Accepted, Burden
<1> HIDE DEF i, t
<1>8. KnownIds'
  BY <1>2, <1>3, <1>4, <1>5, <1>7 DEF Ledger, KnownIds
<1>9. PendingInv'
  <2>1. SUFFICES ASSUME NEW r \in ListPending(queue), r.id # i
                 PROVE  /\ verdict'[r.id] = "none" /\ r.attempts < MAX_ATTEMPTS
                        /\ tries[r.id] <= r.attempts + Burden
                        /\ delivered[r.id] <= excuse[r.id]
    BY <1>4, <1>7 DEF PendingInv
  <2>2. r.id \in Ids
    BY <1>1, LatestPerIdType DEF Types, Row
  <2>3. \A h \in Gens : ~Offers(h, r.id)
    BY <1>6, <2>1, OthersIdle DEF Offers, i
  <2>4. QED  BY <1>5, <2>1, <2>2, <2>3 DEF Ledger, PendingInv
<1>10. WorkerInv(g)'
  <2>1. BatchInv(g) /\ OfferInv(g)
    BY DEF Ledger, WorkerInv
  <2>2. BatchInv(g)'
    <3>1. batch[g] \subseteq ListPending(queue) /\ \A q \in batch[g] : q.id # i
      BY <2>1 DEF BatchInv, OfferInv, i
    <3>2. QED  BY <1>4, <1>6, <3>1 DEF BatchInv, Busy
  <2>3. SettledInv(g)'
    <3>1. pc[g] = "markDone" => delivered[i] > 0
      BY <2>1 DEF OfferInv, Uncertain, i
    <3>2. QED  BY <1>2, <1>5, <1>6, <3>1 DEF SettledInv, i
  <2>4. OfferInv(g)' /\ RewriteInv(g)'
    BY <1>6 DEF OfferInv, RewriteInv, Offering
  <2>5. QED  BY <2>2, <2>3, <2>4 DEF WorkerInv
<1>11. Steady' /\ \A h \in Gens : WorkerInv(h)'
  BY <1>6, <1>10, WorkerFrame
<1>12. \A j \in Ids : Settled(j) => Settled(j)'
  BY <1>2, <1>5 DEF Settled
<1>13. DlqInv'
  <2>1. \A k \in 1..Len(dlq.lines) : dlq.lines[k] # Nil => dlq.lines[k].id \in Ids
    BY <1>1 DEF Types, File, Line, Row
  <2>2. QED  BY <1>12, <2>1 DEF Ledger, DlqInv
<1>14. DuplicateOnlyIfDisrupted' /\ RetriesBounded'
  BY DEF Ledger, DuplicateOnlyIfDisrupted, RetriesBounded
<1>15. AckIsDurable'
  BY <1>2, <1>5 DEF Ledger, AckIsDurable
<1>16. QED
  BY <1>4, <1>8, <1>9, <1>11, <1>13, <1>14, <1>15 DEF Ledger

\* A transaction starts: the job leaves the batch, its counter falls behind.
LEMMA SendStep ==
  ASSUME OneWorker, Ledger, TypeInv', NEW g \in Gens, SendStart(g)
  PROVE  Ledger'
<1>1. Types
  BY TypesHold DEF Ledger
<1>2. PICK r \in batch[g] :
        /\ job' = [job EXCEPT ![g] = r]
        /\ batch' = [batch EXCEPT ![g] = @ \ {r}]
        /\ tries' = [tries EXCEPT ![r.id] = @ + 1]
  BY DEF SendStart
<1>3. /\ pc[g] = "drain" /\ pc'[g] = "sending" /\ ~relayed'[g] /\ Active(g)
      /\ job'[g] = r /\ batch'[g] = batch[g] \ {r}
      /\ \A h \in Gens : h # g => pc'[h] = pc[h] /\ batch'[h] = batch[h]
      /\ UNCHANGED <<queue, dlq, call, instance, crashes, faults, acks, verdict,
                     delivered, excuse>>
  BY <1>1, <1>2 DEF SendStart, Goto, Types, Active, idleVars, mgrVars, callVars,
                    boundVars, fileVars
<1>4. BatchInv(g)
  BY DEF Ledger, WorkerInv
<1>5. /\ r \in ListPending(queue) /\ r \in Row /\ r.id \in Ids /\ r.attempts \in Nat
      /\ r \in LatestPerId(queue)
  BY <1>1, <1>4, LatestPerIdType DEF BatchInv, ListPending, Types, Row
<1>6. \A h \in Gens : \A j : ~Offers(h, j)
  BY <1>3, OthersIdle DEF Offers, Offering
<1>7. /\ verdict[r.id] = "none" /\ r.attempts < MAX_ATTEMPTS
      /\ tries[r.id] <= r.attempts + Burden /\ delivered[r.id] <= excuse[r.id]
  BY <1>5, <1>6 DEF Ledger, PendingInv
<1>8. /\ \A j \in Ids : j # r.id => tries'[j] = tries[j]
      /\ tries[r.id] \in Nat /\ tries'[r.id] = tries[r.id] + 1
  BY <1>1, <1>2, <1>5 DEF Types
<1>9. Burden' = Burden /\ Burden \in Nat
  BY <1>1, <1>3 DEF Burden, Types
<1>10. KnownIds'
  <2>1. Accepted(r.id) /\ \A j : Accepted(j)' <=> Accepted(j)
    BY <1>3, <1>5 DEF Accepted, Ledger, KnownIds
  <2>2. QED  BY <1>3, <1>8, <2>1 DEF Ledger, KnownIds
<1>11. PendingInv'
  <2>1. SUFFICES ASSUME NEW q \in ListPending(queue), ~Offers(g, q.id)'
                 PROVE  tries'[q.id] <= q.attempts + Burden /\ delivered[q.id] <= excuse[q.id]
    BY <1>3, <1>9 DEF Ledger, PendingInv
  <2>2. q.id # r.id
    BY <1>3, <2>1 DEF Offers, Offering
  <2>3. q.id \in Ids
    BY <1>1, LatestPerIdType DEF Types, Row
  <2>4. QED  BY <1>6, <1>8, <2>2, <2>3 DEF Ledger, PendingInv
<1>12. WorkerInv(g)'
  <2>1. BatchInv(g)'
    BY <1>3, <1>4 DEF BatchInv, Busy
  <2>2. \A q \in batch[g] \ {r} : q.id # r.id
    <3>1. queue \in File /\ batch[g] \subseteq LatestPerId(queue)
      BY <1>1, <1>4 DEF BatchInv, ListPending, Types
    <3>2. QED  BY <1>5, <3>1, LatestUnique
  <2>3. tries'[r.id] <= r.attempts + 1 + Burden
    BY <1>5, <1>7, <1>8, <1>9
  <2>4. ~Uncertain(g)'
    BY <1>3 DEF Uncertain
  <2>5. delivered[r.id] \in Nat /\ excuse[r.id] \in Nat
    BY <1>1, <1>5 DEF Types
  <2>6. OfferInv(g)'
    BY <1>3, <1>5, <1>7, <1>9, <2>2, <2>3, <2>4, <2>5 DEF OfferInv
  <2>7. SettledInv(g)' /\ RewriteInv(g)'
    BY <1>3 DEF SettledInv, RewriteInv
  <2>8. QED  BY <2>1, <2>6, <2>7 DEF WorkerInv
<1>13. Steady' /\ \A h \in Gens : WorkerInv(h)'
  BY <1>3, <1>12, WorkerFrame
<1>14. RetriesBounded'
  <2>1. crashes \in Nat /\ faults \in Nat /\ MAX_ATTEMPTS \in Nat
    BY <1>1, OutboundAssumption DEF Types
  <2>2. tries'[r.id] <= MAX_ATTEMPTS + crashes + faults
    BY <1>5, <1>7, <1>8, <2>1 DEF Burden
  <2>3. QED  BY <1>3, <1>8, <2>2 DEF Ledger, RetriesBounded
<1>15. DlqInv' /\ DuplicateOnlyIfDisrupted' /\ AckIsDurable' /\ ~queue'.open
  BY <1>3 DEF Ledger, DlqInv, Settled, DuplicateOnlyIfDisrupted, AckIsDurable
<1>16. QED  BY <1>10, <1>11, <1>13, <1>14, <1>15 DEF Ledger

\* The relay accepts: one copy more than was excused, until it is recorded.
LEMMA RelayStep ==
  ASSUME OneWorker, Ledger, TypeInv', NEW g \in Gens, RelayAccepts(g)
  PROVE  Ledger'
<1> DEFINE i == job[g].id
<1>1. Types
  BY TypesHold DEF Ledger
<1>2. /\ pc[g] = "sending" /\ ~relayed[g] /\ relayed'[g]
      /\ delivered' = [delivered EXCEPT ![i] = @ + 1]
      /\ UNCHANGED <<queue, dlq, pc, batch, job, rewrite, call, instance, crashes,
                     faults, acks, verdict, excuse, tries>>
  BY <1>1 DEF RelayAccepts, Types, fileVars, idleVars, mgrVars, callVars, boundVars,
              mutexVars
<1>3. Active(g) /\ pc[g] \in Offering
  BY <1>2 DEF Active, Offering
<1>4. i \in Ids
  BY <1>3, OfferedJob
<1>5. WorkerInv(g)
  BY DEF Ledger
<1>6. delivered[i] <= excuse[i] /\ delivered[i] \in Nat /\ excuse[i] \in Nat
  <2>1. ~Uncertain(g)
    BY <1>2 DEF Uncertain
  <2>2. delivered[i] \in Nat /\ excuse[i] \in Nat
    BY <1>1, <1>4 DEF Types
  <2>3. QED  BY <1>3, <1>5, <2>1, <2>2 DEF WorkerInv, OfferInv
<1>7. /\ delivered'[i] = delivered[i] + 1
      /\ \A j \in Ids : j # i => delivered'[j] = delivered[j]
  BY <1>1, <1>2, <1>4 DEF Types
<1>8. WorkerInv(g)'
  <2>1. BatchInv(g)' /\ SettledInv(g)' /\ RewriteInv(g)'
    BY <1>2, <1>5 DEF WorkerInv, BatchInv, SettledInv, RewriteInv
  <2>2. Uncertain(g)'
    BY <1>2 DEF Uncertain
  <2>3. delivered'[i] > 0 /\ delivered'[i] <= excuse[i] + 1
    BY <1>6, <1>7
  <2>4. Burden' = Burden
    BY <1>2 DEF Burden
  <2>5. OfferInv(g)'
    BY <1>2, <1>3, <1>5, <2>2, <2>3, <2>4 DEF WorkerInv, OfferInv
  <2>6. QED  BY <2>1, <2>5 DEF WorkerInv
<1>9. DlqInv'
  BY <1>2 DEF Ledger, DlqInv, Settled
<1>10. DuplicateOnlyIfDisrupted'
  <2>1. delivered'[i] <= 1 + excuse'[i]
    BY <1>2, <1>6, <1>7
  <2>2. QED  BY <1>2, <1>7, <2>1 DEF Ledger, DuplicateOnlyIfDisrupted
<1>11. AckIsDurable'
  <2>1. \A j \in Ids : delivered[j] > 0 => delivered'[j] > 0
    BY <1>6, <1>7
  <2>2. QED  BY <1>2, <2>1 DEF Ledger, AckIsDurable
<1>12. \A j \in Ids : (delivered'[j] = delivered[j] /\ excuse'[j] = excuse[j]) \/ Offers(g, j)
  BY <1>2, <1>3, <1>7 DEF Offers
<1>13. QED  BY <1>2, <1>3, <1>8, <1>9, <1>10, <1>11, <1>12, HistoryStep

\* The connection breaks: a copy the relay took is excused, and the job is
\* given up or put back.
LEMMA NetworkErrorStep ==
  ASSUME OneWorker, Ledger, TypeInv', NEW g \in Gens, SmtpNetworkError(g)
  PROVE  Ledger'
<1> DEFINE i == job[g].id
<1>1. Types
  BY TypesHold DEF Ledger
<1>2. /\ pc[g] = "sending"
      /\ \/ pc'[g] = "dlqExhausted"
         \/ pc'[g] = "update" /\ ~GivesUp(job[g])
      /\ \A h \in Gens : h # g => pc'[h] = pc[h]
      /\ excuse' = IF relayed[g] THEN [excuse EXCEPT ![i] = @ + 1] ELSE excuse
      /\ UNCHANGED <<queue, dlq, batch, job, relayed, rewrite, call, instance, crashes,
                     faults, acks, verdict, delivered, tries>>
  BY <1>1 DEF SmtpNetworkError, Goto, Types, fileVars, idleVars, mgrVars, callVars,
              boundVars, jobVars, mutexVars
<1>3. Active(g) /\ pc[g] \in Offering /\ pc'[g] \in Offering
  BY <1>2 DEF Active, Offering
<1>4. i \in Ids
  BY <1>3, OfferedJob
<1>5. WorkerInv(g)
  BY DEF Ledger
<1>6. \A j \in Ids : delivered[j] \in Nat /\ excuse[j] \in Nat /\ excuse'[j] \in Nat
                     /\ excuse'[j] >= excuse[j]
  BY <1>1, <1>2 DEF Types
<1>7. delivered[i] <= excuse'[i]
  <2>1. CASE relayed[g]
    <3>1. excuse'[i] = excuse[i] + 1
      BY <1>1, <1>2, <1>4, <2>1 DEF Types
    <3>2. QED  BY <1>3, <1>4, <1>5, <1>6, <3>1 DEF WorkerInv, OfferInv
  <2>2. CASE ~relayed[g]
    <3>1. ~Uncertain(g) /\ excuse' = excuse
      BY <1>2, <2>2 DEF Uncertain
    <3>2. QED  BY <1>3, <1>4, <1>5, <1>6, <3>1 DEF WorkerInv, OfferInv
  <2>3. QED  BY <2>1, <2>2
<1>8. WorkerInv(g)'
  <2>1. BatchInv(g)' /\ SettledInv(g)' /\ RewriteInv(g)'
    BY <1>2, <1>5 DEF WorkerInv, BatchInv, SettledInv, RewriteInv, Busy
  <2>2. ~Uncertain(g)'
    BY <1>2 DEF Uncertain
  <2>3. Burden' = Burden
    BY <1>2 DEF Burden
  <2>4. delivered[i] <= excuse'[i] + (IF Uncertain(g)' THEN 1 ELSE 0)
    BY <1>4, <1>6, <1>7, <2>2
  <2>5. OfferInv(g)'
    BY <1>2, <1>3, <1>5, <2>2, <2>3, <2>4 DEF WorkerInv, OfferInv, GivesUp
  <2>6. QED  BY <2>1, <2>5 DEF WorkerInv
<1>9. DlqInv' /\ AckIsDurable'
  BY <1>2 DEF Ledger, DlqInv, Settled, AckIsDurable
<1>10. DuplicateOnlyIfDisrupted'
  BY <1>2, <1>6 DEF Ledger, DuplicateOnlyIfDisrupted
<1>11. \A j \in Ids : (delivered'[j] = delivered[j] /\ excuse'[j] = excuse[j]) \/ Offers(g, j)
  BY <1>1, <1>2, <1>3 DEF Offers, Types
<1>12. QED  BY <1>2, <1>3, <1>8, <1>9, <1>10, <1>11, HistoryStep

\* A retry row that reaches the queue file: its counter catches up.
LEMMA UpdateStep ==
  ASSUME OneWorker, Ledger, TypeInv', NEW g \in Gens, pc[g] = "update",
         queue' = AppendLine(queue, [job[g] EXCEPT !.attempts = @ + 1]),
         Goto(g, "ackRetrying"),
         UNCHANGED <<dlq, call, instance, crashes, faults, batch, job, histVars>>
  PROVE  Ledger'
<1> DEFINE i == job[g].id
           r == [job[g] EXCEPT !.attempts = @ + 1]
<1> USE DEF histVars
<1>1. Types
  BY TypesHold DEF Ledger
<1>2. pc[g] \in Offering /\ Active(g)
  BY DEF Offering, Active
<1>3. /\ i \in Ids /\ job[g] \in Row /\ job[g].attempts \in Nat /\ Accepted(i)
      /\ verdict[i] = "none"
  BY <1>2, OfferedJob
<1>4. r \in Row /\ r.id = i /\ ~r.done /\ r.attempts = job[g].attempts + 1
  BY <1>1, <1>3 DEF Row, Types, Busy
<1>5. WorkerInv(g)
  BY DEF Ledger
<1>6. /\ ~queue'.open
      /\ LatestPerId(queue') = {r} \cup { q \in LatestPerId(queue) : q.id # i }
      /\ ListPending(queue') = {r} \cup { q \in ListPending(queue) : q.id # i }
  <2>1. queue \in File /\ ~queue.open /\ queue' = AppendLine(queue, r)
    BY <1>1 DEF Types, Ledger
  <2> HIDE DEF i, r
  <2>2. (IF r.done THEN {} ELSE {r}) = {r}
    BY <1>4
  <2>3. r \in Row /\ r.id = i
    BY <1>4
  <2>4. /\ ~queue'.open
        /\ LatestPerId(queue') = {r} \cup { q \in LatestPerId(queue) : q.id # r.id }
        /\ ListPending(queue') =
             (IF r.done THEN {} ELSE {r}) \cup { q \in ListPending(queue) : q.id # r.id }
    BY <2>1, <2>3, RowsAfterAppend
  <2>5. QED  BY <2>2, <2>3, <2>4
<1>7. pc'[g] = "ackRetrying" /\ \A h \in Gens : h # g => pc'[h] = pc[h]
  BY <1>1 DEF Goto, Types
<1>8. (\A j : Accepted(j)' <=> Accepted(j)) /\ Burden' = Burden
  BY DEF Accepted, Burden
<1>9. /\ r.attempts < MAX_ATTEMPTS
      /\ tries[i] <= r.attempts + Burden /\ delivered[i] <= excuse[i]
  <2>1. r.attempts < MAX_ATTEMPTS
    BY <1>3, <1>4, <1>5, OutboundAssumption DEF WorkerInv, OfferInv, GivesUp
  <2>2. tries[i] <= r.attempts + Burden
    BY <1>2, <1>4, <1>5 DEF WorkerInv, OfferInv
  <2>3. ~Uncertain(g) /\ excuse[i] \in Nat
    BY <1>1, <1>3 DEF Uncertain, Types
  <2>4. delivered[i] <= excuse[i]
    BY <1>2, <1>5, <2>3 DEF WorkerInv, OfferInv
  <2>5. QED  BY <2>1, <2>2, <2>4
<1> HIDE DEF i, r
<1>10. KnownIds'
  BY <1>3, <1>4, <1>6, <1>8 DEF Ledger, KnownIds
<1>11. PendingInv'
  <2>1. ASSUME NEW q \in ListPending(queue), q.id # i
        PROVE  /\ verdict[q.id] = "none" /\ q.attempts < MAX_ATTEMPTS
               /\ tries[q.id] <= q.attempts + Burden /\ delivered[q.id] <= excuse[q.id]
    <3>1. \A h \in Gens : ~Offers(h, q.id)
      BY <1>2, <2>1, OthersIdle DEF Offers, i
    <3>2. QED  BY <3>1 DEF Ledger, PendingInv
  <2>2. QED  BY <1>3, <1>4, <1>6, <1>8, <1>9, <2>1 DEF PendingInv
<1>12. WorkerInv(g)'
  <2>1. BatchInv(g)'
    <3>1. batch[g] \subseteq ListPending(queue) /\ \A q \in batch[g] : q.id # i
      BY <1>2, <1>5 DEF WorkerInv, BatchInv, OfferInv, i
    <3>2. QED  BY <1>6, <1>7, <3>1 DEF BatchInv, Busy
  <2>2. OfferInv(g)' /\ SettledInv(g)' /\ RewriteInv(g)'
    BY <1>3, <1>7 DEF OfferInv, SettledInv, RewriteInv, Offering, i
  <2>3. QED  BY <2>1, <2>2 DEF WorkerInv
<1>13. Steady' /\ \A h \in Gens : WorkerInv(h)'
  BY <1>2, <1>7, <1>12, WorkerFrame
<1>14. DlqInv' /\ DuplicateOnlyIfDisrupted' /\ RetriesBounded' /\ AckIsDurable'
  BY DEF Ledger, DlqInv, Settled, DuplicateOnlyIfDisrupted, RetriesBounded, AckIsDurable
<1>15. QED
  BY <1>6, <1>10, <1>11, <1>13, <1>14 DEF Ledger

\* The DLQ row is written: its id is settled already.
LEMMA DlqRowStep ==
  ASSUME OneWorker, Ledger, TypeInv', NEW g \in Gens, pc[g] = "dlqRow",
         dlq' = AppendLine(dlq, job[g]), Goto(g, "ackFailed"),
         UNCHANGED <<queue, call, instance, crashes, faults, batch, job, histVars>>
  PROVE  Ledger'
<1> USE DEF histVars
<1>1. Types /\ WorkerInv(g) /\ DlqInv
  BY TypesHold DEF Ledger
<1>2. pc'[g] = "ackFailed" /\ \A h \in Gens : h # g => pc'[h] = pc[h]
  BY <1>1 DEF Goto, Types
<1>3. Active(g) /\ pc[g] \notin Offering
  BY DEF Active, Offering
<1>4. job[g] \in Row /\ Settled(job[g].id)
  BY <1>1 DEF Types, Busy, WorkerInv, SettledInv, Settled
<1>5. WorkerInv(g)'
  BY <1>1, <1>2 DEF WorkerInv, BatchInv, OfferInv, SettledInv, RewriteInv, Offering, Busy
<1>6. DlqInv'
  <2>1. /\ dlq'.lines = Append(dlq.lines, job[g]) /\ ~dlq'.open
        /\ dlq.lines \in Seq(Line) /\ job[g] \in Line
    BY <1>1, <1>4 DEF DlqInv, AppendLine, Types, File, Line
  <2>2. \A k \in 1..Len(dlq'.lines) :
          dlq'.lines[k] = job[g] \/ (k \in 1..Len(dlq.lines) /\ dlq'.lines[k] = dlq.lines[k])
    BY <2>1
  <2>3. QED  BY <1>1, <1>4, <2>1, <2>2 DEF DlqInv, Settled
<1>7. DuplicateOnlyIfDisrupted' /\ AckIsDurable'
  BY DEF Ledger, DuplicateOnlyIfDisrupted, AckIsDurable
<1>8. QED  BY <1>2, <1>3, <1>5, <1>6, <1>7, HistoryStep

\* The DLQ is replaced by its newest lines.
LEMMA TrimWriteStep ==
  ASSUME OneWorker, Ledger, TypeInv', NEW g \in Gens, TrimWrite(g)
  PROVE  Ledger'
<1>1. Types /\ WorkerInv(g) /\ DlqInv
  BY TypesHold DEF Ledger
<1>2. /\ pc[g] = "trimWrite" /\ pc'[g] = "select" /\ dlq' = rewrite[g]
      /\ \A h \in Gens : h # g => pc'[h] = pc[h]
      /\ UNCHANGED <<queue, batch, job, call, instance, crashes, faults, acks, verdict,
                     delivered, excuse, tries>>
  BY <1>1 DEF TrimWrite, Goto, Types, idleVars, mgrVars, callVars, boundVars, jobVars,
              histVars
<1>3. Active(g) /\ pc[g] \notin Offering
  BY <1>2 DEF Active, Offering
<1>4. WorkerInv(g)'
  BY <1>1, <1>2 DEF WorkerInv, BatchInv, OfferInv, SettledInv, RewriteInv, Offering, Busy
<1>5. DlqInv'
  <2> DEFINE n == Len(dlq.lines)
             m == MaxDlqLines
  <2>1. dlq' = Trimmed(dlq, m) /\ n > m /\ m # 0
    BY <1>1, <1>2 DEF WorkerInv, RewriteInv, TrimNeeded, CountLines
  <2>2. n \in Nat /\ m \in Nat /\ dlq.lines \in Seq(Line)
    BY <1>1, LenProperties, OutboundAssumption DEF Types, File
  <2>3. dlq'.lines = SubSeq(dlq.lines, n - m + 1, n) /\ ~dlq'.open
    BY <2>1 DEF Trimmed, CountLines
  <2>4. \A k \in 1..Len(dlq'.lines) :
          (n - m + k) \in 1..n /\ dlq'.lines[k] = dlq.lines[n - m + k]
    BY <2>1, <2>2, <2>3
  <2>5. QED  BY <1>1, <1>2, <2>3, <2>4 DEF DlqInv, Settled
<1>6. DuplicateOnlyIfDisrupted' /\ AckIsDurable'
  BY <1>2 DEF Ledger, DuplicateOnlyIfDisrupted, AckIsDurable
<1>7. QED  BY <1>2, <1>3, <1>4, <1>5, <1>6, HistoryStep

\* The verdict is published, or the publish fails.
LEMMA AckStep ==
  ASSUME OneWorker, Ledger, TypeInv', NEW g \in Gens, Ack(g)
  PROVE  Ledger'
<1>1. Types /\ WorkerInv(g)
  BY TypesHold DEF Ledger
<1>2. /\ pc[g] \in {"ackSent", "ackFailed", "ackRetrying"} /\ pc'[g] = "drain"
      /\ \A h \in Gens : h # g => pc'[h] = pc[h]
      /\ UNCHANGED <<queue, dlq, batch, call, instance, crashes, faults, verdict,
                     delivered, excuse, tries>>
  BY <1>1 DEF Ack, Goto, Types, idleVars, mgrVars, callVars, boundVars, fileVars
<1>3. Active(g) /\ pc[g] \notin Offering /\ job[g].id \in Ids
  BY <1>1, <1>2 DEF Active, Offering, Types, Busy
<1>4. WorkerInv(g)'
  BY <1>1, <1>2 DEF WorkerInv, BatchInv, OfferInv, SettledInv, RewriteInv, Offering, Busy
<1>5. DlqInv' /\ DuplicateOnlyIfDisrupted'
  BY <1>2 DEF Ledger, DlqInv, Settled, DuplicateOnlyIfDisrupted
<1>6. AckIsDurable'
  <2>1. PICK status \in {"sent", "failed", "retrying"} :
          /\ status = "sent" => pc[g] = "ackSent"
          /\ status = "failed" => pc[g] = "ackFailed"
          /\ acks' = [acks EXCEPT ![job[g].id] = status] \/ acks' = acks
    <3>1. CASE pc[g] = "ackSent"
      BY <3>1 DEF Ack
    <3>2. CASE pc[g] = "ackFailed"
      BY <3>2 DEF Ack
    <3>3. CASE pc[g] = "ackRetrying"
      BY <3>3 DEF Ack
    <3>4. QED  BY <1>2, <3>1, <3>2, <3>3
  <2>2. /\ status = "sent" => verdict[job[g].id] = "sent" /\ delivered[job[g].id] > 0
        /\ status = "failed" => verdict[job[g].id] \in {"rejected", "exhausted"}
    BY <1>1, <2>1 DEF WorkerInv, SettledInv
  <2>3. QED  BY <1>1, <1>2, <2>1, <2>2 DEF Ledger, AckIsDurable, Types
<1>7. QED  BY <1>2, <1>3, <1>4, <1>5, <1>6, HistoryStep

\* The queue file is replaced by its live rows.
LEMMA CompactWriteStep ==
  ASSUME OneWorker, Ledger, TypeInv', NEW g \in Gens, CompactWrite(g)
  PROVE  Ledger'
<1>1. Types /\ WorkerInv(g)
  BY TypesHold DEF Ledger
<1>2. /\ pc[g] = "compactWrite" /\ pc'[g] = "trim" /\ queue' = rewrite[g]
      /\ \A h \in Gens : h # g => pc'[h] = pc[h]
      /\ UNCHANGED <<dlq, batch, job, relayed, call, instance, crashes, faults, acks,
                     verdict, delivered, excuse, tries>>
  BY <1>1 DEF CompactWrite, Goto, Types, idleVars, mgrVars, callVars, boundVars,
              jobVars, histVars
<1>3. Active(g) /\ pc[g] \notin Offering
  BY <1>2 DEF Active, Offering
<1>4. /\ ~queue'.open /\ LatestPerId(queue') \subseteq ListPending(queue)
      /\ ListPending(queue') \subseteq ListPending(queue)
      /\ ListPending(queue) \subseteq LatestPerId(queue)
  BY <1>1, <1>2 DEF WorkerInv, RewriteInv, ListPending
<1>5. WorkerInv(g)'
  BY <1>1, <1>2 DEF WorkerInv, BatchInv, OfferInv, SettledInv, RewriteInv, Offering, Busy
<1>6. Steady' /\ \A h \in Gens : WorkerInv(h)'
  BY <1>2, <1>3, <1>5, WorkerFrame
<1>7. (\A j : Accepted(j)' <=> Accepted(j)) /\ Burden' = Burden
  BY <1>2 DEF Accepted, Burden
<1>8. KnownIds'
  BY <1>2, <1>4, <1>7 DEF Ledger, KnownIds
<1>9. PendingInv'
  <2>1. \A h \in Gens : \A j : ~Offers(h, j)
    BY <1>3, OthersIdle DEF Offers
  <2>2. QED  BY <1>2, <1>4, <1>7, <2>1 DEF Ledger, PendingInv
<1>10. DlqInv' /\ DuplicateOnlyIfDisrupted' /\ RetriesBounded' /\ AckIsDurable'
  BY <1>2 DEF Ledger, DlqInv, Settled, DuplicateOnlyIfDisrupted, RetriesBounded, AckIsDurable
<1>11. QED  BY <1>4, <1>6, <1>8, <1>9, <1>10 DEF Ledger

\* The memory is lost: a crash also excuses the transaction and the copy of
\* the job in hand.
LEMMA LoseMemoryStep ==
  ASSUME OneWorker, Ledger, TypeInv', LoseMemory,
         UNCHANGED <<queue, dlq, faults, acks, verdict, delivered, tries>>,
         \/ UNCHANGED <<crashes, excuse>> /\ \A g \in Gens : ~Active(g)
         \/ /\ crashes' = crashes + 1
            /\ excuse' = [i \in Ids |->
                 IF \E g \in Gens : Uncertain(g) /\ job[g].id = i THEN excuse[i] + 1
                                                                 ELSE excuse[i]]
  PROVE  Ledger'
<1>1. Types
  BY TypesHold DEF Ledger
<1>2. /\ \A g \in Gens : pc'[g] = "off" /\ batch'[g] = {}
      /\ \A c \in Cmds : call'[c] = "accepted" <=> call[c] = "accepted"
  BY <1>1 DEF LoseMemory, FreshWorkers, Types
<1>3. Steady' /\ \A g \in Gens : WorkerInv(g)'
  BY <1>2 DEF Steady, Active, WorkerInv, BatchInv, OfferInv, SettledInv, RewriteInv, Offering
<1>4. KnownIds'
  <2>1. \A i : Accepted(i)' <=> Accepted(i)
    BY <1>2 DEF Accepted
  <2>2. QED  BY <2>1 DEF Ledger, KnownIds
<1>5. /\ Burden \in Nat /\ Burden' \in Nat /\ Burden' >= Burden
      /\ (\E g \in Gens : Active(g)) => Burden' = Burden + 1
  <2>1. crashes \in Nat /\ faults \in Nat
    BY <1>1 DEF Types
  <2>2. QED  BY <2>1 DEF Burden
<1>6. \A i \in Ids : /\ excuse[i] \in Nat /\ excuse'[i] \in Nat /\ excuse'[i] >= excuse[i]
                     /\ (\E g \in Gens : Uncertain(g) /\ job[g].id = i)
                          => excuse'[i] = excuse[i] + 1
  <2>1. \A g \in Gens : Uncertain(g) => Active(g)
    BY DEF Uncertain, Active
  <2>2. QED  BY <1>1, <2>1 DEF Types
<1>7. PendingInv'
  <2>1. SUFFICES ASSUME NEW r \in ListPending(queue)
                 PROVE  /\ verdict[r.id] = "none" /\ r.attempts < MAX_ATTEMPTS
                        /\ tries[r.id] <= r.attempts + Burden'
                        /\ delivered[r.id] <= excuse'[r.id]
    BY DEF PendingInv
  <2>2. r \in Row /\ r.id \in Ids /\ r.attempts \in Nat
    BY <1>1, LatestPerIdType DEF Types, Row
  <2>3. tries[r.id] \in Nat /\ delivered[r.id] \in Nat
    BY <1>1, <2>2 DEF Types
  <2>4. verdict[r.id] = "none" /\ r.attempts < MAX_ATTEMPTS
    BY DEF Ledger, PendingInv
  <2>5. CASE \E g \in Gens : Offers(g, r.id)
    <3>1. PICK g \in Gens : Offers(g, r.id)
      BY <2>5
    <3>2. Active(g) /\ pc[g] \in Offering
      BY <3>1 DEF Offers, Active, Offering
    <3>3. job[g] = r
      <4>1. r \in LatestPerId(queue) /\ queue \in File
        BY <1>1 DEF ListPending, Types
      <4>2. QED  BY <3>1, <3>2, <4>1, OfferedJob, LatestUnique DEF Offers
    <3>4. /\ tries[r.id] <= r.attempts + 1 + Burden
          /\ delivered[r.id] <= excuse[r.id] + (IF Uncertain(g) THEN 1 ELSE 0)
      BY <3>2, <3>3 DEF Ledger, WorkerInv, OfferInv
    <3>5. tries[r.id] <= r.attempts + Burden'
      BY <1>5, <2>2, <2>3, <3>2, <3>4
    <3>6. delivered[r.id] <= excuse'[r.id]
      BY <1>6, <2>2, <2>3, <3>3, <3>4
    <3>7. QED  BY <2>4, <3>5, <3>6
  <2>6. CASE ~\E g \in Gens : Offers(g, r.id)
    <3>1. tries[r.id] <= r.attempts + Burden /\ delivered[r.id] <= excuse[r.id]
      BY <2>6 DEF Ledger, PendingInv
    <3>2. QED  BY <1>5, <1>6, <2>2, <2>3, <2>4, <3>1
  <2>7. QED  BY <2>5, <2>6
<1>8. DlqInv' /\ AckIsDurable'
  BY DEF Ledger, DlqInv, Settled, AckIsDurable
<1>9. DuplicateOnlyIfDisrupted'
  <2>1. \A i \in Ids : delivered[i] \in Nat
    BY <1>1 DEF Types
  <2>2. QED  BY <1>6, <2>1 DEF Ledger, DuplicateOnlyIfDisrupted
<1>10. RetriesBounded'
  <2>1. \A i \in Ids : tries[i] \in Nat
    BY <1>1 DEF Types
  <2>2. \A i \in Ids : tries[i] <= MAX_ATTEMPTS + crashes + faults
    BY DEF Ledger, RetriesBounded
  <2>3. crashes \in Nat /\ faults \in Nat /\ MAX_ATTEMPTS \in Nat
    BY <1>1, OutboundAssumption DEF Types
  <2>4. QED  BY <2>1, <2>2, <2>3 DEF RetriesBounded
<1>11. QED  BY <1>3, <1>4, <1>7, <1>8, <1>9, <1>10 DEF Ledger

-----------------------------------------------------------------------------
(* Every step keeps the ledger.                                            *)

\* The steps of a worker between two jobs, and the relay's other answers.
LEMMA LoopStep ==
  ASSUME OneWorker, Ledger, TypeInv', NEW g \in Gens,
         \/ WorkerCancelled(g) \/ BreakerCools(g) \/ DrainTick(g) \/ CompactRead(g)
         \/ TrimRead(g) \/ DrainEnd(g)
         \/ SmtpSent(g) \/ SmtpPermanent(g) \/ SmtpTransient(g)
  PROVE  Ledger'
<1> USE DEF Goto, vars, fileVars, mgrVars, ctlVars, jobVars, mutexVars, workVars,
            callVars, healthVars, boundVars, histVars, idleVars
<1>1. Types /\ WorkerInv(g)
  BY TypesHold DEF Ledger
<1>2. Active(g)
  BY DEF WorkerCancelled, BreakerCools, DrainTick, CompactRead, TrimRead, DrainEnd,
         SmtpSent, SmtpPermanent, SmtpTransient, Active
<1>3. CASE WorkerCancelled(g)
  <2>1. WorkerInv(g)'
    BY <1>1, <1>3 DEF WorkerCancelled, WorkerInv, BatchInv, OfferInv, SettledInv,
                      RewriteInv, Offering, Busy, Types
  <2>2. QED  BY <1>1, <1>2, <1>3, <2>1, QuietStep DEF WorkerCancelled, Types, Offering
<1>4. CASE BreakerCools(g)
  <2>1. WorkerInv(g)'
    BY <1>1, <1>4 DEF BreakerCools, WorkerInv, BatchInv, OfferInv, SettledInv,
                      RewriteInv, Offering, Busy
  <2>2. QED  BY <1>1, <1>2, <1>4, <2>1, QuietStep DEF BreakerCools
<1>5. CASE DrainTick(g)
  <2>1. WorkerInv(g)'
    <3>1. \/ pc'[g] = "compact" /\ batch'[g] = {}
          \/ pc'[g] = "drain" /\ batch'[g] \subseteq ListPending(queue)
      BY <1>1, <1>5 DEF DrainTick, Types, WorkerInv, BatchInv, Busy
    <3>2. queue' = queue
      BY <1>5 DEF DrainTick
    <3>3. QED
      BY <3>1, <3>2 DEF WorkerInv, BatchInv, OfferInv, SettledInv, RewriteInv, Offering, Busy
  <2>2. \A h \in Gens : h # g => pc'[h] = pc[h] /\ batch'[h] = batch[h]
    BY <1>1, <1>5 DEF DrainTick, Types
  <2>3. pc[g] \notin Offering
    BY <1>5 DEF DrainTick, Offering
  <2>4. UNCHANGED <<queue, dlq, call, instance, crashes, faults, histVars>>
    BY <1>5 DEF DrainTick
  <2>5. QED  BY <1>2, <2>1, <2>2, <2>3, <2>4, QuietStep
<1>6. CASE CompactRead(g)
  <2>1. WorkerInv(g)'
    <3>1. \/ pc'[g] = "trim"
          \/ /\ pc'[g] = "compactWrite"
             /\ \E f \in Listings(ListPending(queue)) : rewrite'[g] = f
      BY <1>1, <1>6 DEF CompactRead, Types
    <3>2. pc'[g] = "compactWrite" =>
            ~rewrite'[g].open /\ LatestPerId(rewrite'[g]) = ListPending(queue)
      BY <1>1, <3>1, LatestAfterCompact DEF Types, Listings
    <3>3. UNCHANGED <<queue, batch>> /\ pc[g] = "compact"
      BY <1>6 DEF CompactRead
    <3>4. QED
      BY <1>1, <3>1, <3>2, <3>3 DEF WorkerInv, BatchInv, OfferInv, SettledInv,
                                    RewriteInv, Offering, Busy
  <2>2. /\ \A h \in Gens : h # g => pc'[h] = pc[h] /\ batch'[h] = batch[h]
        /\ pc[g] \notin Offering
        /\ UNCHANGED <<queue, dlq, call, instance, crashes, faults, histVars>>
    BY <1>1, <1>6 DEF CompactRead, Types, Offering
  <2>3. QED  BY <1>2, <2>1, <2>2, QuietStep
<1>7. CASE TrimRead(g)
  <2>1. WorkerInv(g)'
    <3>1. \/ pc'[g] = "select"
          \/ /\ pc'[g] = "trimWrite" /\ TrimNeeded(dlq, MaxDlqLines)
             /\ rewrite'[g] = Trimmed(dlq, MaxDlqLines)
      BY <1>1, <1>7 DEF TrimRead, Types
    <3>2. UNCHANGED <<queue, dlq, batch>> /\ pc[g] = "trim"
      BY <1>7 DEF TrimRead
    <3>3. QED
      BY <1>1, <3>1, <3>2 DEF WorkerInv, BatchInv, OfferInv, SettledInv,
                              RewriteInv, Offering, Busy
  <2>2. /\ \A h \in Gens : h # g => pc'[h] = pc[h] /\ batch'[h] = batch[h]
        /\ pc[g] \notin Offering
        /\ UNCHANGED <<queue, dlq, call, instance, crashes, faults, histVars>>
    BY <1>1, <1>7 DEF TrimRead, Types, Offering
  <2>3. QED  BY <1>2, <2>1, <2>2, QuietStep
<1>8. CASE DrainEnd(g)
  <2>1. pc'[g] = "select" /\ batch'[g] = {} /\ pc[g] \notin Offering
    BY <1>1, <1>8 DEF DrainEnd, Types, Offering
  <2>2. WorkerInv(g)'
    BY <2>1 DEF WorkerInv, BatchInv, OfferInv, SettledInv, RewriteInv, Offering, Busy
  <2>3. \A h \in Gens : h # g => pc'[h] = pc[h] /\ batch'[h] = batch[h]
    BY <1>1, <1>8 DEF DrainEnd, Types
  <2>4. UNCHANGED <<queue, dlq, call, instance, crashes, faults, histVars>>
    BY <1>8 DEF DrainEnd
  <2>5. QED  BY <1>2, <2>1, <2>2, <2>3, <2>4, QuietStep
<1>9. CASE SmtpSent(g) \/ SmtpPermanent(g) \/ SmtpTransient(g)
  <2>1. /\ pc[g] = "sending" /\ pc'[g] \in Offering \ {"sending"}
        /\ pc'[g] = "markDone" <=> relayed[g]
        /\ pc'[g] = "update" => ~GivesUp(job[g])
    BY <1>1, <1>9 DEF SmtpSent, SmtpPermanent, SmtpTransient, Types, Offering
  <2>2. /\ UNCHANGED <<queue, dlq, batch, job, relayed, call, instance, crashes, faults,
                      acks, verdict, delivered, excuse, tries>>
        /\ \A h \in Gens : h # g => pc'[h] = pc[h]
    BY <1>1, <1>9 DEF SmtpSent, SmtpPermanent, SmtpTransient, Types
  <2>3. pc[g] \in Offering
    BY <2>1 DEF Offering
  <2>4. Uncertain(g)' <=> Uncertain(g)
    BY <2>1, <2>2 DEF Uncertain
  <2>5. WorkerInv(g)'
    <3>1. OfferInv(g)'
      BY <1>1, <2>1, <2>2, <2>3, <2>4 DEF WorkerInv, OfferInv, Burden, GivesUp
    <3>2. BatchInv(g)' /\ SettledInv(g)' /\ RewriteInv(g)'
      BY <1>1, <2>1, <2>2 DEF WorkerInv, BatchInv, SettledInv, RewriteInv, Offering, Busy
    <3>3. QED  BY <3>1, <3>2 DEF WorkerInv
  <2>6. QED  BY <1>2, <2>1, <2>2, <2>5, QuietStep
<1>10. QED  BY <1>3, <1>4, <1>5, <1>6, <1>7, <1>8, <1>9

\* After its tombstone an id is not live.
LEMMA TombstoneEnds ==
  ASSUME Ledger, NEW g \in Gens, pc[g] \in Offering,
         queue' = AppendLine(queue, Tombstone(job[g]))
  PROVE  ~IsPending(queue', job[g].id)
<1>1. queue \in File /\ ~queue.open /\ job[g] \in Row
  BY TypesHold, OfferedJob DEF Types, Ledger
<1>2. /\ Tombstone(job[g]) \in Row /\ Tombstone(job[g]).id = job[g].id
      /\ Tombstone(job[g]).done
  BY <1>1 DEF Tombstone, Row
<1>3. QED  BY <1>1, <1>2, PendingAfterAppend

\* mark_done finds the row of the job, and settles it or fails.
LEMMA MarkDoneCases ==
  ASSUME NoTornWrites, Ledger, NEW g \in Gens, MarkDone(g)
  PROVE  /\ pc[g] = "markDone" /\ pc[g] \in Offering
         /\ UNCHANGED <<dlq, call, instance, crashes, acks, delivered, tries, failedTotal>>
         /\ \/ /\ queue' = AppendLine(queue, Tombstone(job[g])) /\ Goto(g, "ackSent")
               /\ verdict' = [verdict EXCEPT ![job[g].id] = "sent"]
               /\ sentTotal' = sentTotal + 1 /\ UNCHANGED <<batch, job, faults, excuse>>
            \/ /\ AbortTick(g) /\ faults' = faults + 1
               /\ excuse' = [excuse EXCEPT ![job[g].id] = @ + 1]
               /\ UNCHANGED <<queue, verdict, sentTotal>>
<1> DEFINE i == job[g].id
<1>1. pc[g] = "markDone" /\ pc[g] \in Offering
  BY DEF MarkDone, Offering
<1>2. job[g] \in LatestPerId(queue) /\ IsPending(queue, i)
  BY <1>1, OfferedJob
<1>3. job[g] \in LatestRow(i) /\ \A r \in LatestRow(i) : r = job[g]
  BY <1>2, TypesHold, LatestUnique DEF LatestRow, Ledger, Types
<1>4. UNCHANGED <<dlq, call, instance, crashes, acks, delivered, tries, failedTotal>>
  BY DEF MarkDone, mgrVars, callVars
<1>5. \/ /\ queue' = AppendLine(queue, Tombstone(job[g])) /\ Goto(g, "ackSent")
         /\ sentTotal' = sentTotal + 1 /\ UNCHANGED <<batch, job, faults, excuse>>
      \/ /\ AbortTick(g) /\ faults' = faults + 1
         /\ excuse' = [excuse EXCEPT ![i] = @ + 1] /\ UNCHANGED <<queue, sentTotal>>
  BY <1>3, CleanError DEF MarkDone, WriteError
<1>6. Settle(i, "sent")
  BY DEF MarkDone
<1>7. UNCHANGED queue => UNCHANGED verdict
  BY <1>2, <1>6 DEF Settle
<1>8. queue' = AppendLine(queue, Tombstone(job[g])) =>
        verdict' = [verdict EXCEPT ![i] = "sent"]
  BY <1>1, <1>6, TombstoneEnds DEF Settle
<1>9. QED  BY <1>1, <1>4, <1>5, <1>7, <1>8

\* move_to_dlq's tombstone is written, or the tick ends.
LEMMA DlqTombstoneCases ==
  ASSUME NoTornWrites, Ledger, NEW g \in Gens, DlqTombstone(g)
  PROVE  /\ pc[g] \in {"dlqRejected", "dlqExhausted"} /\ pc[g] \in Offering
         /\ UNCHANGED <<dlq, call, instance, crashes, acks, delivered, excuse, tries,
                        healthVars>>
         /\ \/ /\ queue' = AppendLine(queue, Tombstone(job[g])) /\ Goto(g, "dlqRow")
               /\ \E why \in {"rejected", "exhausted"} :
                    verdict' = [verdict EXCEPT ![job[g].id] = why]
               /\ UNCHANGED <<batch, job, faults>>
            \/ AbortTick(g) /\ faults' = faults + 1 /\ UNCHANGED <<queue, verdict>>
<1> DEFINE i == job[g].id
<1>1. pc[g] \in {"dlqRejected", "dlqExhausted"} /\ pc[g] \in Offering
  BY DEF DlqTombstone, Offering
<1>2. IsPending(queue, i)
  BY <1>1, OfferedJob
<1>3. UNCHANGED <<dlq, call, instance, crashes, acks, delivered, excuse, tries, healthVars>>
  BY DEF DlqTombstone, mgrVars, callVars
<1>4. \/ /\ queue' = AppendLine(queue, Tombstone(job[g])) /\ Goto(g, "dlqRow")
         /\ UNCHANGED <<batch, job, faults>>
      \/ AbortTick(g) /\ faults' = faults + 1 /\ UNCHANGED queue
  BY CleanError DEF DlqTombstone, WriteError
<1>5. PICK why \in {"rejected", "exhausted"} : Settle(i, why)
  BY DEF DlqTombstone
<1>6. UNCHANGED queue => UNCHANGED verdict
  BY <1>2, <1>5 DEF Settle
<1>7. queue' = AppendLine(queue, Tombstone(job[g])) =>
        verdict' = [verdict EXCEPT ![i] = why]
  BY <1>1, <1>5, TombstoneEnds DEF Settle
<1>8. QED  BY <1>1, <1>3, <1>4, <1>6, <1>7

\* The writes of a worker: each happens, or leaves its file as it was.
LEMMA WriteStep ==
  ASSUME NoTornWrites, OneWorker, Ledger, TypeInv', NEW g \in Gens,
         MarkDone(g) \/ DlqTombstone(g) \/ DlqRow(g) \/ UpdateRow(g)
  PROVE  Ledger'
<1> USE DEF Goto, mgrVars, ctlVars, jobVars, mutexVars, callVars, healthVars, histVars
<1>1. Types
  BY TypesHold DEF Ledger
<1>2. Active(g)
  BY DEF MarkDone, DlqTombstone, DlqRow, UpdateRow, Active
<1>3. CASE MarkDone(g)
  BY <1>2, <1>3, MarkDoneCases, TombstoneStep, AbortStep
<1>4. CASE DlqTombstone(g)
  <2>1. ~Uncertain(g)
    BY <1>4 DEF DlqTombstone, Uncertain
  <2>2. QED  BY <1>2, <1>4, <2>1, DlqTombstoneCases, TombstoneStep, AbortStep
<1>5. CASE DlqRow(g)
  <2>1. pc[g] = "dlqRow" /\ UNCHANGED <<queue, call, instance, crashes, histVars>>
    BY <1>5 DEF DlqRow
  <2>2. \/ /\ dlq' = AppendLine(dlq, job[g]) /\ Goto(g, "ackFailed")
           /\ UNCHANGED <<batch, job, faults>>
        \/ dlq' = dlq /\ faults' = faults + 1 /\ AbortTick(g)
    BY <1>5, CleanError DEF DlqRow, WriteError
  <2>3. ~Uncertain(g)
    BY <2>1 DEF Uncertain
  <2>4. QED  BY <1>2, <2>1, <2>2, <2>3, DlqRowStep, AbortStep
<1>6. CASE UpdateRow(g)
  <2>1. pc[g] = "update" /\ UNCHANGED <<dlq, call, instance, crashes, histVars>>
    BY <1>6 DEF UpdateRow
  <2>2. \/ /\ queue' = AppendLine(queue, [job[g] EXCEPT !.attempts = @ + 1])
           /\ Goto(g, "ackRetrying") /\ UNCHANGED <<batch, job, faults>>
        \/ queue' = queue /\ faults' = faults + 1 /\ AbortTick(g)
    BY <1>6, CleanError DEF UpdateRow, WriteError
  <2>3. ~Uncertain(g)
    BY <2>1 DEF Uncertain
  <2>4. QED  BY <1>2, <2>1, <2>2, <2>3, UpdateStep, AbortStep
<1>7. QED  BY <1>3, <1>4, <1>5, <1>6

\* The manager's steps that start or cancel a worker, and the clock's.
LEMMA DispatcherStep ==
  ASSUME OneWorker, Ledger, TypeInv',
         \/ \E c \in Cmds : ToolCall(c) \/ ToolBuildFails(c)
         \/ \E i \in Ids : BackoffElapses(i)
         \/ \E g \in Gens : AddAccount(g)
         \/ RemoveAccount \/ RemoveFinish \/ Stop
  PROVE  Ledger'
<1> USE DEF fileVars, mgrVars, ctlVars, jobVars, mutexVars, workVars, callVars,
            healthVars, boundVars, histVars, idleVars, Goto
<1>1. Types
  BY TypesHold DEF Ledger
<1>2. CASE \E c \in Cmds : ToolCall(c) \/ ToolBuildFails(c)
  <2>1. PICK c \in Cmds : ToolCall(c) \/ ToolBuildFails(c)
    BY <1>2
  <2>2. /\ UNCHANGED <<queue, dlq, pc, batch, job, relayed, rewrite, instance, crashes,
                      faults, histVars>>
        /\ call[c] # "accepted"
        /\ \E s \in {"refused", "building"} : call' = [call EXCEPT ![c] = s]
    BY <2>1 DEF ToolCall, ToolBuildFails
  <2>3. \A i : Accepted(i)' <=> Accepted(i)
    BY <1>1, <2>2 DEF Accepted, Types
  <2>4. Steady'
    BY <2>2 DEF Ledger, Steady, Active
  <2>5. QED  BY <2>2, <2>3, <2>4, ManagerStep
<1>3. CASE (\E i \in Ids : BackoffElapses(i)) \/ RemoveAccount \/ RemoveFinish \/ Stop
  <2>1. UNCHANGED <<queue, dlq, pc, batch, job, relayed, rewrite, call, crashes, faults,
                    histVars>>
    BY <1>3 DEF BackoffElapses, RemoveAccount, RemoveFinish, Stop
  <2>2. \A i : Accepted(i)' <=> Accepted(i)
    BY <2>1 DEF Accepted
  <2>3. Steady'
    <3>1. CASE RemoveFinish
      <4>1. ~JoinTimesOut => \A g \in Gens : ~Active(g)
        BY <3>1 DEF RemoveFinish, Ledger, Steady, Active
      <4>2. QED  BY <2>1, <4>1 DEF Steady, Active
    <3>2. CASE UNCHANGED instance
      BY <2>1, <3>2 DEF Ledger, Steady, Active
    <3>3. QED
      BY <1>3, <3>1, <3>2 DEF BackoffElapses, RemoveAccount, Stop
  <2>4. QED  BY <2>1, <2>2, <2>3, ManagerStep
<1>4. CASE \E g \in Gens : AddAccount(g)
  <2>1. PICK g \in Gens : AddAccount(g)
    BY <1>4
  <2>2. /\ UNCHANGED <<queue, dlq, batch, job, relayed, rewrite, call, crashes, faults,
                      histVars>>
        /\ pc[g] = "off" /\ pc'[g] = "select" /\ instance = NoGen /\ instance' = g
        /\ \A h \in Gens : h # g => pc'[h] = pc[h]
    BY <1>1, <2>1 DEF AddAccount, Types
  <2>3. \A i : Accepted(i)' <=> Accepted(i)
    BY <2>2 DEF Accepted
  <2>4. Steady'
    <3>1. ~JoinTimesOut => \A h \in Gens : ~Active(h)
      BY <2>2, OutboundAssumption DEF Ledger, Steady
    <3>2. QED  BY <2>2, <3>1 DEF Steady, Active
  <2>5. QED  BY <2>2, <2>3, <2>4, ManagerStep
<1>5. QED  BY <1>2, <1>3, <1>4

\* Every action keeps the Ledger, by the lemmas above.
LEMMA LedgerNext ==
  ASSUME NoTornWrites, UniqueIds, OneWorker, Ledger, [Next]_vars
  PROVE  Ledger'
<1>1. TypeInv'
  BY TypeNext DEF Ledger
<1>2. ASSUME NEW c \in Cmds, ToolAppend(c) \/ \E g \in Gens : BrokerCommand(g, c)
      PROVE  Ledger'
  <2>1. /\ UNCHANGED <<dlq, pc, batch, job, relayed, rewrite, instance, crashes, histVars>>
        /\ call[c] \in {"idle", "building"}
    BY <1>2 DEF ToolAppend, BrokerCommand, mgrVars, workVars, jobVars, mutexVars
  <2>2. /\ faults' = faults \/ faults' = faults + 1
        /\ \/ queue' = AppendLine(queue, FreshRow(c)) /\ call' = [call EXCEPT ![c] = "accepted"]
           \/ queue' = queue /\ \E s \in {"refused", "dropped"} : call' = [call EXCEPT ![c] = s]
    <3>1. CASE ToolAppend(c)
      BY <3>1, CleanError DEF ToolAppend, WriteError
    <3>2. CASE \E g \in Gens : BrokerCommand(g, c)
      BY <3>2, CleanError DEF BrokerCommand, WriteError
    <3>3. QED  BY <1>2, <3>1, <3>2
  <2>3. QED  BY <1>1, <2>1, <2>2, EnqueueStep
<1>3. ASSUME NEW g \in Gens, Worker(g) PROVE Ledger'
  BY <1>1, <1>3, LoopStep, CompactWriteStep, TrimWriteStep, SendStep, RelayStep,
     NetworkErrorStep, WriteStep, AckStep DEF Worker, SmtpReply
<1>4. CASE \/ \E c \in Cmds : ToolCall(c) \/ ToolBuildFails(c)
           \/ \E i \in Ids : BackoffElapses(i)
           \/ \E g \in Gens : AddAccount(g)
           \/ RemoveAccount \/ RemoveFinish \/ Stop
  BY <1>1, <1>4, DispatcherStep
<1>5. CASE Restart
  <2>1. /\ LoseMemory /\ \A g \in Gens : ~Active(g)
        /\ UNCHANGED <<queue, dlq, crashes, faults, acks, verdict, delivered, tries, excuse>>
    BY <1>5 DEF Restart, Active, fileVars, boundVars, histVars
  <2>2. QED  BY <1>1, <2>1, LoseMemoryStep
<1>6. CASE Crash
  <2>1. /\ LoseMemory
        /\ UNCHANGED <<queue, dlq, faults, acks, verdict, delivered, tries>>
        /\ crashes' = crashes + 1
        /\ excuse' = [i \in Ids |->
             IF \E g \in Gens : Uncertain(g) /\ job[g].id = i THEN excuse[i] + 1
                                                             ELSE excuse[i]]
    BY <1>6 DEF Crash, fileVars
  <2>2. QED  BY <1>1, <2>1, LoseMemoryStep
<1>7. CASE UNCHANGED vars
  <2>1. UNCHANGED <<queue, dlq, pc, batch, job, relayed, rewrite, instance, call, crashes,
                    faults, histVars>>
    BY <1>7 DEF vars, fileVars, workVars, jobVars, mutexVars, idleVars, mgrVars, callVars,
                boundVars
  <2>2. Steady' /\ \A i : Accepted(i)' <=> Accepted(i)
    BY <2>1 DEF Ledger, Steady, Active, Accepted
  <2>3. QED  BY <1>1, <2>1, <2>2, ManagerStep
<1>8. QED
  BY <1>2, <1>3, <1>4, <1>5, <1>6, <1>7 DEF Next, Caller

\* The ledger holds in every reachable state.
THEOREM LedgerHolds ==
  ASSUME NoTornWrites, UniqueIds, OneWorker
  PROVE  Spec => []Ledger
<1>1. Ledger /\ [Next]_vars => Ledger'
  BY LedgerNext
<1>2. QED  BY <1>1, LedgerInit, PTL DEF Spec

\* The relay gets a message more than once only when the plugin could not know
\* or record that it had it: never more copies than lost replies, failed
\* tombstones and crashes in between, plus one.
THEOREM DuplicatesAreExcused ==
  ASSUME NoTornWrites, UniqueIds, OneWorker
  PROVE  Spec => []DuplicateOnlyIfDisrupted
<1>1. Ledger => DuplicateOnlyIfDisrupted
  BY DEF Ledger
<1>2. QED  BY <1>1, LedgerHolds, PTL

\* Five attempts and no more, one per crash or failed write apart.
THEOREM RetriesAreBounded ==
  ASSUME NoTornWrites, UniqueIds, OneWorker
  PROVE  Spec => []RetriesBounded
<1>1. Ledger => RetriesBounded
  BY DEF Ledger
<1>2. QED  BY <1>1, LedgerHolds, PTL

\* An ack never runs ahead of the relay's answer or of the tombstone.
THEOREM AcksAreDurable ==
  ASSUME NoTornWrites, UniqueIds, OneWorker
  PROVE  Spec => []AckIsDurable
<1>1. Ledger => AckIsDurable
  BY DEF Ledger
<1>2. QED  BY <1>1, LedgerHolds, PTL

\* No job is live in the queue and dead in the DLQ at once.
THEOREM DeadIsNotLive ==
  ASSUME NoTornWrites, UniqueIds, OneWorker
  PROVE  Spec => []NotLiveAndDead
<1>1. Ledger => NotLiveAndDead
  <2>1. SUFFICES ASSUME Ledger, NEW k \in 1..Len(dlq.lines), dlq.lines[k] # Nil
                 PROVE  ~IsPending(queue, dlq.lines[k].id)
    BY DEF NotLiveAndDead
  <2>2. dlq.lines[k].id \in Ids
    BY <2>1, TypesHold DEF Ledger, Types, File, Line, Row
  <2>3. QED  BY <2>1, <2>2, SettledNotPending DEF Ledger, DlqInv
<1>2. QED  BY <1>1, LedgerHolds, PTL

\* After a terminal ack the id is neither offered to the relay nor
\* acknowledged again.
LEMMA TerminalStep ==
  ASSUME Ledger, [Next]_vars, NEW i \in Ids, acks[i] \in {"sent", "failed"}
  PROVE  acks'[i] = acks[i] /\ tries'[i] = tries[i]
<1>1. Types /\ \A g \in Gens : WorkerInv(g)
  BY TypesHold DEF Ledger
<1>2. verdict[i] # "none"
  BY <1>1 DEF Ledger, AckIsDurable
<1>3. CASE UNCHANGED <<acks, tries>>
  BY <1>3
<1>4. ASSUME NEW g \in Gens, SendStart(g)
      PROVE  acks'[i] = acks[i] /\ tries'[i] = tries[i]
  <2>1. PICK r \in batch[g] : tries' = [tries EXCEPT ![r.id] = @ + 1]
    BY <1>4 DEF SendStart
  <2>2. verdict[r.id] = "none"
    BY <1>1 DEF WorkerInv, BatchInv, Ledger, PendingInv
  <2>3. QED  BY <1>1, <1>2, <1>4, <2>1, <2>2 DEF SendStart, Types
<1>5. ASSUME NEW g \in Gens, Ack(g)
      PROVE  acks'[i] = acks[i] /\ tries'[i] = tries[i]
  <2>1. pc[g] \in {"ackSent", "ackFailed", "ackRetrying"} /\ UNCHANGED tries
    BY <1>5 DEF Ack
  <2>2. job[g].id # i
    BY <1>1, <1>2, <2>1 DEF WorkerInv, SettledInv
  <2>3. acks' = acks \/ \E s : acks' = [acks EXCEPT ![job[g].id] = s]
    BY <1>5 DEF Ack
  <2>4. QED  BY <1>1, <2>1, <2>2, <2>3 DEF Types
<1>6. CASE \A g \in Gens : ~SendStart(g) /\ ~Ack(g)
  <2>1. UNCHANGED <<acks, tries>>
    BY <1>6
       DEF Next, vars, histVars, Caller, ToolCall, ToolBuildFails, ToolAppend,
           BrokerCommand, Worker, WorkerCancelled, BreakerCools, DrainTick,
           CompactRead, CompactWrite, TrimRead, TrimWrite, DrainEnd, RelayAccepts,
           SmtpReply, SmtpSent, SmtpPermanent, SmtpTransient, SmtpNetworkError,
           MarkDone, DlqTombstone, DlqRow, UpdateRow, BackoffElapses, AddAccount,
           RemoveAccount, RemoveFinish, Stop, Restart, Crash
  <2>2. QED  BY <1>3, <2>1
<1>7. QED  BY <1>4, <1>5, <1>6

\* A terminal ack is final, across retries, crashes and restarts.
THEOREM TerminalIsFinal ==
  ASSUME NoTornWrites, UniqueIds, OneWorker
  PROVE  Spec => TerminalAckIsFinal
<1>1. Ledger /\ [Next]_vars =>
        [\A i \in Ids : acks[i] \in {"sent", "failed"} =>
           acks'[i] = acks[i] /\ tries'[i] = tries[i]]_<<acks, tries>>
  BY TerminalStep
<1>2. QED  BY <1>1, LedgerHolds, PTL DEF Spec, TerminalAckIsFinal

\* A row appended to the DLQ, or the trim, keeps the line that was last.
LEMMA NewestStep ==
  ASSUME NoTornWrites, Ledger, [Next]_vars, dlq' # dlq, Len(dlq.lines) > 0
  PROVE  dlq.lines[Len(dlq.lines)] \in Range(dlq'.lines)
<1> DEFINE n == Len(dlq.lines)
<1>1. Types /\ ~dlq.open /\ \A g \in Gens : WorkerInv(g)
  BY TypesHold DEF Ledger, DlqInv
<1>2. dlq.lines \in Seq(Line) /\ n \in Nat /\ n > 0
  BY <1>1, LenProperties DEF Types, File
<1>3. PICK g \in Gens : DlqRow(g) \/ TrimWrite(g)
  BY DEF Next, vars, fileVars, Caller, ToolCall, ToolBuildFails, ToolAppend,
         BrokerCommand, Worker, WorkerCancelled, BreakerCools, DrainTick,
         CompactRead, CompactWrite, TrimRead, SendStart, DrainEnd, RelayAccepts,
         SmtpReply, SmtpSent, SmtpPermanent, SmtpTransient, SmtpNetworkError,
         MarkDone, DlqTombstone, UpdateRow, Ack, BackoffElapses, AddAccount,
         RemoveAccount, RemoveFinish, Stop, Restart, Crash
<1>4. CASE DlqRow(g)
  <2>1. dlq' = AppendLine(dlq, job[g])
    BY <1>4, CleanError DEF DlqRow
  <2>2. job[g] \in Line
    BY <1>1 DEF Types
  <2>3. dlq'.lines = Append(dlq.lines, job[g])
    BY <1>1, <2>1 DEF AppendLine
  <2>4. n \in DOMAIN dlq'.lines /\ dlq'.lines[n] = dlq.lines[n]
    BY <1>2, <2>2, <2>3
  <2>5. QED  BY <2>4 DEF Range
<1>5. CASE TrimWrite(g)
  <2> DEFINE m == MaxDlqLines
  <2>1. dlq' = Trimmed(dlq, m) /\ n > m /\ m # 0 /\ m \in Nat
    BY <1>1, <1>5, OutboundAssumption
       DEF TrimWrite, WorkerInv, RewriteInv, TrimNeeded, CountLines
  <2>2. dlq'.lines = SubSeq(dlq.lines, n - m + 1, n)
    BY <2>1 DEF Trimmed, CountLines
  <2>3. m \in DOMAIN dlq'.lines /\ dlq'.lines[m] = dlq.lines[n]
    BY <1>2, <2>1, <2>2
  <2>4. QED  BY <2>3 DEF Range
<1>6. QED  BY <1>3, <1>4, <1>5

\* No rewrite of the DLQ loses its newest line.
THEOREM NewestIsKept ==
  ASSUME NoTornWrites, UniqueIds, OneWorker
  PROVE  Spec => DlqKeepsNewest
<1>1. Ledger /\ [Next]_vars =>
        [LET n == Len(dlq.lines) IN
         n > 0 => dlq.lines[n] \in Range(dlq'.lines)]_dlq
  BY NewestStep
<1>2. QED  BY <1>1, LedgerHolds, PTL DEF Spec, DlqKeepsNewest

-----------------------------------------------------------------------------
(* The health counters count each settled id once.                         *)

SettledIds == { i \in Ids : Settled(i) }

\* A job between its tombstone and its DLQ row is settled, not yet counted.
Owed == IF \E g \in Gens : pc[g] = "dlqRow" THEN 1 ELSE 0

CountInv ==
  /\ IsFiniteSet(SettledIds)
  /\ sentTotal + failedTotal + Owed <= Cardinality(SettledIds)

\* What is counted or owed grows no faster than what is settled.
LEMMA CountFrame ==
  ASSUME CountInv, TypeInv, TypeInv',
         \/ /\ UNCHANGED SettledIds
            /\ \/ sentTotal' + failedTotal' + Owed' <= sentTotal + failedTotal + Owed
               \/ sentTotal' + failedTotal' + Owed' = 0
         \/ /\ \E i \in Ids : ~Settled(i) /\ SettledIds' = SettledIds \cup {i}
            /\ sentTotal' + failedTotal' + Owed' = sentTotal + failedTotal + Owed + 1
  PROVE  CountInv'
<1>1. /\ sentTotal \in Nat /\ failedTotal \in Nat /\ Owed \in Nat
      /\ sentTotal' \in Nat /\ failedTotal' \in Nat /\ Owed' \in Nat
  BY DEF TypeInv, TypeOK, Owed
<1>2. IsFiniteSet(SettledIds) /\ Cardinality(SettledIds) \in Nat
  BY FS_CardinalityType DEF CountInv
<1> DEFINE n == sentTotal + failedTotal + Owed
           m == sentTotal' + failedTotal' + Owed'
           k == Cardinality(SettledIds)
<1>0. n \in Nat /\ m \in Nat /\ k \in Nat /\ n <= k
  <2>1. n \in Nat
    BY <1>1
  <2>2. m \in Nat
    BY <1>1, SumIsNat
  <2>3. n <= k
    BY DEF CountInv
  <2>4. QED  BY <1>2, <2>1, <2>2, <2>3
<1>3. CASE UNCHANGED SettledIds
  <2>1. m <= n \/ m = 0
    <3>1. CASE m <= n \/ m = 0
      BY <3>1
    <3>2. CASE \E i \in Ids : ~Settled(i) /\ SettledIds' = SettledIds \cup {i}
      BY <1>3, <3>2 DEF SettledIds
    <3>3. QED  BY <3>1, <3>2
  <2>2. Cardinality(SettledIds)' = k /\ IsFiniteSet(SettledIds)'
    BY <1>2, <1>3
  <2>3. m <= k
    <3> HIDE DEF n, m, k
    <3>1. QED  BY <1>0, <2>1
  <2>4. QED  BY <2>2, <2>3 DEF CountInv
<1>4. CASE /\ \E i \in Ids : ~Settled(i) /\ SettledIds' = SettledIds \cup {i}
           /\ sentTotal' + failedTotal' + Owed' = sentTotal + failedTotal + Owed + 1
  <2>1. PICK i \in Ids : ~Settled(i) /\ SettledIds' = SettledIds \cup {i}
    BY <1>4
  <2>2. i \notin SettledIds
    BY <2>1 DEF SettledIds
  <2>3. /\ IsFiniteSet(SettledIds \cup {i})
        /\ Cardinality(SettledIds \cup {i}) = Cardinality(SettledIds) + 1
    BY <1>2, <2>2, FS_AddElement
  <2>4. m <= k + 1
    <3>1. m = n + 1
      BY <1>4
    <3> HIDE DEF n, m, k
    <3>2. QED  BY <1>0, <3>1
  <2>5. QED  BY <2>1, <2>3, <2>4 DEF CountInv
<1>5. QED  BY <1>3, <1>4

\* Base case: nothing is settled and nothing is counted.
LEMMA CountInit == Init => CountInv
<1> SUFFICES ASSUME Init PROVE CountInv
  OBVIOUS
<1>1. SettledIds = {} /\ Owed = 0 /\ sentTotal = 0 /\ failedTotal = 0
  BY DEF Init, SettledIds, Settled, Owed, FreshWorkers
<1>2. QED  BY <1>1, FS_EmptySet DEF CountInv

\* Every action keeps CountInv: a settled id is counted by the same worker,
\* except when it stops in between.
LEMMA CountNext ==
  ASSUME NoTornWrites, OneWorker, Ledger, CountInv, [Next]_vars
  PROVE  CountInv'
<1>1. TypeInv /\ TypeInv' /\ Types
  BY TypeNext, TypesHold DEF Ledger
<1>2. UNCHANGED verdict => UNCHANGED SettledIds
  BY DEF SettledIds, Settled
<1>3. /\ sentTotal \in Nat /\ failedTotal \in Nat /\ Owed \in {0, 1} /\ Owed' \in {0, 1}
  BY <1>1 DEF TypeInv, TypeOK, Owed
<1>4. ASSUME NEW g \in Gens, pc[g] \in Offering, NEW why \in {"sent", "rejected", "exhausted"},
             verdict' = [verdict EXCEPT ![job[g].id] = why]
      PROVE  \E i \in Ids : ~Settled(i) /\ SettledIds' = SettledIds \cup {i}
  <2>1. job[g].id \in Ids /\ ~Settled(job[g].id)
    BY <1>4, OfferedJob DEF Settled
  <2>2. SettledIds' = SettledIds \cup {job[g].id}
    BY <1>1, <1>4, <2>1 DEF SettledIds, Settled, Types
  <2>3. QED  BY <2>1, <2>2
<1>5. ASSUME NEW g \in Gens, Active(g), NEW to, pc'[g] = to,
             \A h \in Gens : h # g => pc'[h] = pc[h]
      PROVE  /\ Owed = IF pc[g] = "dlqRow" THEN 1 ELSE 0
             /\ Owed' = IF to = "dlqRow" THEN 1 ELSE 0
  BY <1>5, OthersIdle DEF Owed, Active
<1>6. ASSUME NEW g \in Gens, MarkDone(g) PROVE CountInv'
  <2>1. /\ \/ /\ pc'[g] = "ackSent" /\ verdict' = [verdict EXCEPT ![job[g].id] = "sent"]
              /\ sentTotal' = sentTotal + 1
           \/ pc'[g] = "select" /\ UNCHANGED <<verdict, sentTotal>>
        /\ UNCHANGED failedTotal
        /\ pc[g] = "markDone" /\ pc[g] \in Offering /\ Active(g)
        /\ \A h \in Gens : h # g => pc'[h] = pc[h]
    BY <1>1, <1>6, MarkDoneCases DEF AbortTick, Goto, Types, Active
  <2>2. Owed = 0 /\ Owed' = 0
    BY <1>5, <2>1
  <2>3. QED  BY <1>1, <1>2, <1>3, <1>4, <2>1, <2>2, CountFrame
<1>7. ASSUME NEW g \in Gens, DlqTombstone(g) PROVE CountInv'
  <2>1. /\ \/ /\ pc'[g] = "dlqRow"
              /\ \E why \in {"rejected", "exhausted"} :
                   verdict' = [verdict EXCEPT ![job[g].id] = why]
           \/ pc'[g] = "select" /\ UNCHANGED verdict
        /\ UNCHANGED <<sentTotal, failedTotal>>
        /\ pc[g] \in {"dlqRejected", "dlqExhausted"} /\ pc[g] \in Offering /\ Active(g)
        /\ \A h \in Gens : h # g => pc'[h] = pc[h]
    BY <1>1, <1>7, DlqTombstoneCases DEF AbortTick, Goto, Types, Active, healthVars
  <2>2. Owed = 0 /\ Owed' = IF pc'[g] = "dlqRow" THEN 1 ELSE 0
    BY <1>5, <2>1
  <2>3. QED  BY <1>1, <1>2, <1>3, <1>4, <2>1, <2>2, CountFrame
<1>8. ASSUME NEW g \in Gens, DlqRow(g) PROVE CountInv'
  <2>1. /\ pc[g] = "dlqRow" /\ pc'[g] \in {"ackFailed", "select"} /\ Active(g)
        /\ failedTotal' = failedTotal \/ failedTotal' = failedTotal + 1
        /\ UNCHANGED <<sentTotal, verdict>>
        /\ \A h \in Gens : h # g => pc'[h] = pc[h]
    BY <1>1, <1>8 DEF DlqRow, AbortTick, Goto, Types, Active, histVars
  <2>2. Owed = 1 /\ Owed' = 0
    BY <1>5, <2>1
  <2>3. sentTotal' + failedTotal' + Owed' <= sentTotal + failedTotal + Owed
    BY <1>3, <2>1, <2>2
  <2>4. QED  BY <1>1, <1>2, <2>1, <2>3, CountFrame
<1>9. CASE Restart \/ Crash
  <2>1. UNCHANGED verdict /\ sentTotal' = 0 /\ failedTotal' = 0 /\ Owed' = 0
    BY <1>9 DEF Restart, Crash, LoseMemory, FreshWorkers, Owed, histVars
  <2>2. QED  BY <1>1, <1>2, <2>1, CountFrame
<1>10. CASE /\ UNCHANGED <<verdict, sentTotal, failedTotal>>
            /\ \A g \in Gens : pc'[g] = "dlqRow" <=> pc[g] = "dlqRow"
  <2>1. Owed' = Owed
    BY <1>10 DEF Owed
  <2>2. QED  BY <1>1, <1>2, <1>3, <1>10, <2>1, CountFrame
<1>11. CASE /\ ~Restart /\ ~Crash
            /\ \A g \in Gens : ~MarkDone(g) /\ ~DlqTombstone(g) /\ ~DlqRow(g)
  <2>1. UNCHANGED <<verdict, sentTotal, failedTotal>>
    BY <1>11
       DEF Next, vars, histVars, idleVars, healthVars, Caller, ToolCall, ToolBuildFails,
           ToolAppend, BrokerCommand, Worker, WorkerCancelled, BreakerCools, DrainTick,
           CompactRead, CompactWrite, TrimRead, TrimWrite, SendStart, DrainEnd,
           RelayAccepts, SmtpReply, SmtpSent, SmtpPermanent, SmtpTransient,
           SmtpNetworkError, UpdateRow, Ack, BackoffElapses, AddAccount, RemoveAccount,
           RemoveFinish, Stop
  <2>2. \A g \in Gens : pc'[g] = "dlqRow" <=> pc[g] = "dlqRow"
    <3>1. ASSUME NEW g \in Gens, Worker(g)
          PROVE  /\ pc[g] # "dlqRow" /\ pc'[g] # "dlqRow"
                 /\ \A h \in Gens : h # g => pc'[h] = pc[h]
      BY <1>1, <1>11, <3>1
         DEF Types, Goto, AbortTick, Worker, WorkerCancelled, BreakerCools, DrainTick,
             CompactRead, CompactWrite, TrimRead, TrimWrite, SendStart, DrainEnd,
             RelayAccepts, SmtpReply, SmtpSent, SmtpPermanent, SmtpTransient,
             SmtpNetworkError, UpdateRow, Ack, Pcs
    <3>2. ASSUME NEW g \in Gens, AddAccount(g)
          PROVE  /\ pc[g] # "dlqRow" /\ pc'[g] # "dlqRow"
                 /\ \A h \in Gens : h # g => pc'[h] = pc[h]
      BY <1>1, <3>2 DEF Types, Goto, AddAccount
    <3>3. CASE \A g \in Gens : ~Worker(g) /\ ~AddAccount(g)
      <4>1. UNCHANGED pc
        BY <1>11, <3>3
           DEF Next, vars, workVars, Caller, ToolCall, ToolBuildFails, ToolAppend,
               BrokerCommand, BackoffElapses, RemoveAccount, RemoveFinish, Stop
      <4>2. QED  BY <4>1
    <3>4. QED  BY <3>1, <3>2, <3>3
  <2>3. QED  BY <1>10, <2>1, <2>2
<1>12. QED  BY <1>6, <1>7, <1>8, <1>9, <1>11

\* The counters never count a job twice, and never one that is not settled.
THEOREM EachIsCountedOnce ==
  ASSUME NoTornWrites, UniqueIds, OneWorker
  PROVE  Spec => []CountedOnce
<1>1. Ledger /\ CountInv /\ [Next]_vars => CountInv'
  BY CountNext
<1>2. Ledger /\ CountInv => CountedOnce
  <2> SUFFICES ASSUME Ledger, CountInv PROVE CountedOnce
    OBVIOUS
  <2>2. sentTotal \in Nat /\ failedTotal \in Nat /\ Owed \in {0, 1}
    BY DEF Ledger, TypeInv, TypeOK, Owed
  <2>3. IsFiniteSet(SettledIds) /\ Cardinality(SettledIds) \in Nat
    BY FS_CardinalityType DEF CountInv
  <2>4. sentTotal + failedTotal <= Cardinality(SettledIds)
    BY <2>2, <2>3 DEF CountInv
  <2>5. QED  BY <2>4 DEF CountedOnce, SettledIds
<1>3. QED  BY <1>1, <1>2, CountInit, LedgerHolds, PTL DEF Spec

-----------------------------------------------------------------------------
(* Every step is a step of Outbox, or a stutter.                           *)

\* What Outbox sees of a command, told by the call and the verdict alone.
StatusFacts ==
  \A c \in Cmds :
    /\ call[c] \in {"idle", "building"} => Status(c) = "new"
    /\ call[c] \in {"refused", "dropped"} => Status(c) = "refused"
    /\ call[c] = "accepted" =>
         /\ verdict[MsgIdOf[c]] = "none" => Status(c) = "queued"
         /\ verdict[MsgIdOf[c]] = "sent" => Status(c) = "sent"
         /\ verdict[MsgIdOf[c]] \in {"rejected", "exhausted"} => Status(c) = "dead"

\* The status of an accepted command is its verdict.
LEMMA StatusIs == TypeInv /\ NoAcceptedJobLost => StatusFacts
BY DEF TypeInv, TypeOK, NoAcceptedJobLost, StatusFacts, Status, Settled

\* The four facts about the command of a step that make it a step of Outbox.
LEMMA MoveIs ==
  ASSUME NEW c \in Cmds, NEW from, NEW to, Status(c) = from, Status(c)' = to,
         \A d \in Cmds : d # c => Status(d)' = Status(d)
  PROVE  Abstract!Move(c, from, to)
BY DEF Abstract!Move

\* When every status stays, so does the mapped variable.
LEMMA StatusStays ==
  ASSUME \A d \in Cmds : Status(d)' = Status(d)
  PROVE  UNCHANGED [c \in Cmds |-> Status(c)]
OBVIOUS

\* When no copy is delivered, the mapped count stays.
LEMMA CopiesStay ==
  ASSUME UNCHANGED delivered
  PROVE  UNCHANGED [c \in Cmds |-> delivered[MsgIdOf[c]]]
OBVIOUS

\* A command whose call and verdict stay keeps its status.
LEMMA SameStatus ==
  ASSUME TypeInv, StatusFacts, StatusFacts', NEW c \in Cmds,
         call'[c] = call[c] \/ (call[c] = "idle" /\ call'[c] = "building"),
         verdict'[MsgIdOf[c]] = verdict[MsgIdOf[c]]
  PROVE  Status(c)' = Status(c)
<1>1. /\ call[c] \in {"idle", "building", "accepted", "refused", "dropped"}
      /\ verdict[MsgIdOf[c]] \in {"none", "sent", "rejected", "exhausted"}
  BY OutboundAssumption DEF TypeInv, TypeOK
<1>2. CASE call[c] = "idle" /\ call'[c] = "building"
  BY <1>2 DEF StatusFacts
<1>3. CASE call'[c] = call[c] /\ call[c] # "accepted"
  BY <1>1, <1>3 DEF StatusFacts
<1>4. CASE call'[c] = call[c] /\ call[c] = "accepted"
  BY <1>1, <1>4 DEF StatusFacts
<1>5. QED  BY <1>2, <1>3, <1>4

\* A step that answers no call and settles nothing is invisible.
LEMMA Stutter ==
  ASSUME TypeInv, StatusFacts, StatusFacts', UNCHANGED <<verdict, delivered>>,
         \A c \in Cmds : call'[c] = call[c] \/ (call[c] = "idle" /\ call'[c] = "building")
  PROVE  UNCHANGED Abstract!vars
BY SameStatus, StatusStays, CopiesStay DEF Abstract!vars

\* A step that answers one call submits or refuses it.
LEMMA AnswerStep ==
  ASSUME UniqueIds, Ledger, StatusFacts, StatusFacts', NEW c \in Cmds,
         call[c] \in {"idle", "building"},
         UNCHANGED <<verdict, delivered>>,
         \E s \in {"accepted", "refused", "dropped"} : call' = [call EXCEPT ![c] = s]
  PROVE  Abstract!Next
<1>1. /\ \A d \in Cmds : d # c => call'[d] = call[d]
      /\ call'[c] \in {"accepted", "refused", "dropped"}
      /\ MsgIdOf[c] \in Ids /\ TypeInv
  BY TypesHold, OutboundAssumption DEF Ledger, Types
<1>2. \A d \in Cmds : d # c => Status(d)' = Status(d)
  BY <1>1, SameStatus
<1>3. Status(c) = "new"
  BY DEF StatusFacts
<1>4. UNCHANGED [d \in Cmds |-> delivered[MsgIdOf[d]]]
  BY CopiesStay
<1>5. CASE call'[c] = "accepted"
  <2>1. verdict'[MsgIdOf[c]] = "none"
    BY <1>1 DEF UniqueIds, Ledger, KnownIds, Accepted
  <2>2. Status(c)' = "queued"
    BY <1>5, <2>1 DEF StatusFacts
  <2>3. Abstract!Submit(c)
    BY <1>2, <1>3, <1>4, <2>2, MoveIs DEF Abstract!Submit
  <2>4. QED  BY <2>3 DEF Abstract!Next
<1>6. CASE call'[c] \in {"refused", "dropped"}
  <2>1. Status(c)' = "refused"
    BY <1>6 DEF StatusFacts
  <2>2. Abstract!Refuse(c)
    BY <1>2, <1>3, <1>4, <2>1, MoveIs DEF Abstract!Refuse
  <2>3. QED  BY <2>2 DEF Abstract!Next
<1>7. QED  BY <1>1, <1>5, <1>6

\* A crash or a restart refuses the calls it interrupts.
LEMMA RefuseStep ==
  ASSUME Ledger, StatusFacts, StatusFacts', LoseMemory, UNCHANGED <<verdict, delivered>>
  PROVE  Abstract!Next
<1> DEFINE C == { c \in Cmds : call[c] = "building" }
<1>1. \A c \in Cmds : call'[c] = IF c \in C THEN "refused" ELSE call[c]
  BY DEF LoseMemory
<1>2. \A c \in C : Status(c) = "new" /\ Status(c)' = "refused"
  BY <1>1 DEF StatusFacts
<1>3. \A c \in Cmds : c \notin C => Status(c)' = Status(c)
  BY <1>1, SameStatus DEF Ledger
<1>4. C \in SUBSET { c \in Cmds : [d \in Cmds |-> Status(d)][c] = "new" }
  BY <1>2
<1>5. [c \in Cmds |-> Status(c)]' =
        [c \in Cmds |-> IF c \in C THEN "refused" ELSE [d \in Cmds |-> Status(d)][c]]
  BY <1>2, <1>3
<1>6. Abstract!RefuseAll
  BY <1>4, <1>5, CopiesStay DEF Abstract!RefuseAll
<1>7. QED  BY <1>6 DEF Abstract!Next

\* The command whose row a worker holds.
LEMMA OfferedCommand ==
  ASSUME Ledger, StatusFacts, NEW g \in Gens, pc[g] \in Offering
  PROVE  \E c \in Cmds : /\ call[c] = "accepted" /\ MsgIdOf[c] = job[g].id
                         /\ Status(c) = "queued"
<1>1. PICK c \in Cmds : call[c] = "accepted" /\ MsgIdOf[c] = job[g].id
  BY OfferedJob DEF Accepted
<1>2. verdict[MsgIdOf[c]] = "none"
  BY <1>1, OfferedJob
<1>3. QED  BY <1>1, <1>2 DEF StatusFacts

\* A copy the relay takes is a delivery of a queued command.
LEMMA DeliverStep ==
  ASSUME UniqueIds, Ledger, StatusFacts, StatusFacts', NEW g \in Gens, RelayAccepts(g)
  PROVE  Abstract!Next
<1>1. /\ pc[g] \in Offering /\ UNCHANGED <<call, verdict>>
      /\ delivered' = [delivered EXCEPT ![job[g].id] = @ + 1]
  BY DEF RelayAccepts, Offering, idleVars, callVars
<1>2. PICK c \in Cmds : MsgIdOf[c] = job[g].id /\ Status(c) = "queued"
  BY <1>1, OfferedCommand
<1>3. \A d \in Cmds : Status(d)' = Status(d)
  BY <1>1, SameStatus DEF Ledger
<1>4. delivered \in [Ids -> Nat] /\ \A d \in Cmds : MsgIdOf[d] \in Ids
  BY OutboundAssumption DEF Ledger, TypeInv, TypeOK
<1>5. \A d \in Cmds : delivered'[MsgIdOf[d]] =
                       IF d = c THEN delivered[MsgIdOf[d]] + 1 ELSE delivered[MsgIdOf[d]]
  BY <1>1, <1>2, <1>4 DEF UniqueIds
<1>6. [d \in Cmds |-> delivered[MsgIdOf[d]]]' =
        [[d \in Cmds |-> delivered[MsgIdOf[d]]] EXCEPT ![c] = @ + 1]
  BY <1>5
<1>7. Abstract!Deliver(c)
  BY <1>2, <1>3, <1>6, StatusStays DEF Abstract!Deliver
<1>8. QED  BY <1>7 DEF Abstract!Next

\* A tombstone settles a queued command: as sent, and then the relay has it,
\* or as dead.
LEMMA SettleStep ==
  ASSUME UniqueIds, Ledger, StatusFacts, StatusFacts', NEW g \in Gens, pc[g] \in Offering,
         NEW why \in {"sent", "rejected", "exhausted"},
         verdict' = [verdict EXCEPT ![job[g].id] = why],
         UNCHANGED <<call, delivered>>,
         why = "sent" => pc[g] = "markDone"
  PROVE  Abstract!Next
<1>1. PICK c \in Cmds : /\ call[c] = "accepted" /\ MsgIdOf[c] = job[g].id
                        /\ Status(c) = "queued"
  BY OfferedCommand
<1>2. verdict \in [Ids -> {"none", "sent", "rejected", "exhausted"}]
      /\ \A d \in Cmds : MsgIdOf[d] \in Ids
  BY OutboundAssumption DEF Ledger, TypeInv, TypeOK
<1>3. /\ verdict'[MsgIdOf[c]] = why
      /\ \A d \in Cmds : d # c => verdict'[MsgIdOf[d]] = verdict[MsgIdOf[d]]
  BY <1>1, <1>2 DEF UniqueIds
<1>4. \A d \in Cmds : d # c => Status(d)' = Status(d)
  BY <1>3, SameStatus DEF Ledger
<1>5. UNCHANGED [d \in Cmds |-> delivered[MsgIdOf[d]]]
  BY CopiesStay
<1>6. CASE why = "sent"
  <2>1. Status(c)' = "sent"
    BY <1>1, <1>3, <1>6 DEF StatusFacts
  <2>2. delivered[MsgIdOf[c]] > 0
    BY <1>1, <1>6 DEF Ledger, WorkerInv, OfferInv, Uncertain
  <2>3. Abstract!Sent(c)
    BY <1>1, <1>4, <1>5, <2>1, <2>2, MoveIs DEF Abstract!Sent
  <2>4. QED  BY <2>3 DEF Abstract!Next
<1>7. CASE why \in {"rejected", "exhausted"}
  <2>1. Status(c)' = "dead"
    BY <1>1, <1>3, <1>7 DEF StatusFacts
  <2>2. Abstract!GiveUp(c)
    BY <1>1, <1>4, <1>5, <2>1, MoveIs DEF Abstract!GiveUp
  <2>3. QED  BY <2>2 DEF Abstract!Next
<1>8. QED  BY <1>6, <1>7

\* Every step is a step of Outbox or leaves its variables alone.
LEMMA OutboxStep ==
  ASSUME NoTornWrites, UniqueIds, Ledger, StatusFacts, StatusFacts', [Next]_vars
  PROVE  [Abstract!Next]_(Abstract!vars)
<1>1. Types /\ TypeInv
  BY TypesHold DEF Ledger
<1>2. ASSUME NEW c \in Cmds, Caller(c) \/ \E g \in Gens : BrokerCommand(g, c)
      PROVE  [Abstract!Next]_(Abstract!vars)
  <2>1. call[c] \in {"idle", "building"} /\ UNCHANGED <<verdict, delivered>>
    BY <1>2 DEF Caller, ToolCall, ToolBuildFails, ToolAppend, BrokerCommand, histVars
  <2>2. \E s \in {"accepted", "refused", "dropped", "building"} :
          call' = [call EXCEPT ![c] = s] /\ (s = "building" => call[c] = "idle")
    BY <1>2 DEF Caller, ToolCall, ToolBuildFails, ToolAppend, BrokerCommand
  <2>3. PICK s \in {"accepted", "refused", "dropped", "building"} :
          call' = [call EXCEPT ![c] = s] /\ (s = "building" => call[c] = "idle")
    BY <2>2
  <2>4. CASE s = "building"
    BY <1>1, <2>1, <2>3, <2>4, Stutter DEF Types
  <2>5. CASE s # "building"
    BY <2>1, <2>3, <2>5, AnswerStep
  <2>6. QED  BY <2>4, <2>5
<1>3. ASSUME NEW g \in Gens, RelayAccepts(g) PROVE [Abstract!Next]_(Abstract!vars)
  BY <1>3, DeliverStep
<1>4. ASSUME NEW g \in Gens, MarkDone(g) PROVE [Abstract!Next]_(Abstract!vars)
  <2>1. /\ pc[g] = "markDone" /\ pc[g] \in Offering /\ UNCHANGED <<call, delivered>>
        /\ \/ verdict' = [verdict EXCEPT ![job[g].id] = "sent"]
           \/ UNCHANGED verdict
    BY <1>4, MarkDoneCases
  <2>2. QED  BY <1>1, <2>1, SettleStep, Stutter
<1>5. ASSUME NEW g \in Gens, DlqTombstone(g) PROVE [Abstract!Next]_(Abstract!vars)
  <2>1. /\ pc[g] \in Offering /\ UNCHANGED <<call, delivered>>
        /\ \/ \E why \in {"rejected", "exhausted"} :
                verdict' = [verdict EXCEPT ![job[g].id] = why]
           \/ UNCHANGED verdict
    BY <1>5, DlqTombstoneCases
  <2>2. QED  BY <1>1, <2>1, SettleStep, Stutter
<1>6. CASE Restart \/ Crash
  <2>1. LoseMemory /\ UNCHANGED <<verdict, delivered>>
    BY <1>6 DEF Restart, Crash, histVars
  <2>2. QED  BY <2>1, RefuseStep
<1>7. CASE UNCHANGED <<call, verdict, delivered>>
  BY <1>1, <1>7, Stutter
<1>8. CASE \/ UNCHANGED vars \/ RemoveAccount \/ RemoveFinish \/ Stop
           \/ \E i \in Ids : BackoffElapses(i)
           \/ \E g \in Gens : AddAccount(g)
  BY <1>7, <1>8
     DEF vars, histVars, idleVars, callVars, RemoveAccount, RemoveFinish, Stop,
         BackoffElapses, AddAccount
<1>9. ASSUME NEW g \in Gens, Worker(g),
             ~RelayAccepts(g), ~MarkDone(g), ~DlqTombstone(g)
      PROVE  [Abstract!Next]_(Abstract!vars)
  BY <1>7, <1>9
     DEF histVars, idleVars, callVars, Worker, WorkerCancelled, BreakerCools, DrainTick,
         CompactRead, CompactWrite, TrimRead, TrimWrite, SendStart, DrainEnd, SmtpReply,
         SmtpSent, SmtpPermanent, SmtpTransient, SmtpNetworkError, DlqRow, UpdateRow, Ack
<1>10. QED
  BY <1>2, <1>3, <1>4, <1>5, <1>6, <1>8, <1>9 DEF Next

\* The dispatcher, files and workers and crashes and failed writes and all,
\* implements Outbox: no accepted command is lost, revived or settled twice,
\* and none is reported sent that the relay does not have.
THEOREM OutboxImplemented ==
  ASSUME NoTornWrites, UniqueIds, OneGeneration
  PROVE  Spec => ImplementsOutbox
<1>1. OneWorker
  BY DEF OneWorker
<1>2. Init => Abstract!Init
  BY OutboundAssumption DEF Init, Abstract!Init, Status
<1>3. Spec => []Ledger
  BY <1>1, LedgerHolds
<1>4. Ledger /\ StatusFacts /\ StatusFacts' /\ [Next]_vars => [Abstract!Next]_(Abstract!vars)
  BY OutboxStep
<1>5. Spec => []NoAcceptedJobLost
  BY AcceptedNeverLost
<1>6. Ledger /\ NoAcceptedJobLost => StatusFacts
  BY StatusIs DEF Ledger
<1>7. QED
  BY <1>2, <1>3, <1>4, <1>5, <1>6, PTL DEF Spec, ImplementsOutbox, Abstract!Spec
=============================================================================
