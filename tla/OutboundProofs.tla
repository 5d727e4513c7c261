--------------------------- MODULE OutboundProofs ---------------------------
(***************************************************************************)
(* Theorems about Outbound, for every value of its constants.              *)
(***************************************************************************)
EXTENDS Outbound, FiniteSetTheorems, SequenceTheorems, TLAPS

-----------------------------------------------------------------------------
(* The files.                                                              *)

\* Overwriting the last line of an unterminated file.
LEMMA SpoilLastLine ==
  ASSUME NEW f \in File, f.open
  PROVE  /\ [f.lines EXCEPT ![Len(f.lines)] = Nil] \in Seq(Line) \ {<<>>}
         /\ Len([f.lines EXCEPT ![Len(f.lines)] = Nil]) = Len(f.lines)
         /\ \A k \in 1..Len(f.lines) :
              [f.lines EXCEPT ![Len(f.lines)] = Nil][k] =
                IF k = Len(f.lines) THEN Nil ELSE f.lines[k]
<1>1. f.lines \in Seq(Line) /\ f.lines # <<>>
  BY DEF File
<1>2. Len(f.lines) \in 1..Len(f.lines)
  BY <1>1, EmptySeq, LenProperties
<1>3. Nil \in Line
  BY DEF Line
<1>4. /\ [f.lines EXCEPT ![Len(f.lines)] = Nil] \in Seq(Line)
      /\ Len([f.lines EXCEPT ![Len(f.lines)] = Nil]) = Len(f.lines)
      /\ \A k \in 1..Len(f.lines) :
           [f.lines EXCEPT ![Len(f.lines)] = Nil][k] =
             IF k = Len(f.lines) THEN Nil ELSE f.lines[k]
  BY <1>1, <1>2, <1>3, ExceptSeq
<1>5. QED  BY <1>2, <1>4, EmptySeq

\* Appending a line.
LEMMA AddLine ==
  ASSUME NEW f \in File, NEW r \in Line
  PROVE  /\ Append(f.lines, r) \in Seq(Line) \ {<<>>}
         /\ Len(Append(f.lines, r)) = Len(f.lines) + 1
         /\ \A k \in 1..Len(f.lines) : Append(f.lines, r)[k] = f.lines[k]
         /\ Append(f.lines, r)[Len(f.lines) + 1] = r
BY DEF File

\* An append keeps a file a file.
LEMMA AppendLineType ==
  ASSUME NEW f \in File, NEW r \in Row
  PROVE  AppendLine(f, r) \in File
<1>1. CASE f.open
  BY <1>1, SpoilLastLine DEF AppendLine, File
<1>2. CASE ~f.open
  <2>1. r \in Line
    BY DEF Line
  <2>2. QED  BY <1>2, <2>1, AddLine DEF AppendLine, File
<1>3. QED  BY <1>1, <1>2

\* So does a failed one.
LEMMA FailedAppendsType ==
  ASSUME NEW f \in File, NEW r \in Row, NEW F, NEW f2 \in FailedAppends(f, r, F)
  PROVE  f2 \in File
<1>1. CASE f2 = f
  BY <1>1
<1>2. CASE f2 \in TornAppends(f, r)
  <2>1. PICK part \in {r, Nil} :
          f2 = [lines |-> IF f.open THEN [f.lines EXCEPT ![Len(f.lines)] = Nil]
                                    ELSE Append(f.lines, part),
                open  |-> TRUE]
    BY <1>2 DEF TornAppends
  <2>2. part \in Line
    BY DEF Line
  <2>3. f2.lines \in Seq(Line) \ {<<>>}
    BY <2>1, <2>2, SpoilLastLine, AddLine
  <2>4. QED  BY <2>1, <2>3 DEF File
<1>3. QED  BY <1>1, <1>2 DEF FailedAppends

\* Reading a file yields rows.
LEMMA LatestPerIdType ==
  ASSUME NEW f \in File
  PROVE  LatestPerId(f) \subseteq Row /\ ListPending(f) \subseteq Row
BY DEF LatestPerId, ListPending, IsLatest, File, Line

\* A compacted file is a file.
LEMMA ListingsType ==
  ASSUME NEW rows \in SUBSET Row, IsFiniteSet(rows), NEW f \in Listings(rows)
  PROVE  f \in File
<1>1. Cardinality(rows) \in Nat
  BY FS_CardinalityType
<1>2. PICK t \in [1..Cardinality(rows) -> rows] :
        f = [lines |-> t, open |-> FALSE]
  BY DEF Listings
<1>3. t \in Seq(Line)
  BY <1>1, <1>2 DEF Line
<1>4. QED  BY <1>2, <1>3 DEF File

\* A trimmed file is a file.
LEMMA TrimmedType ==
  ASSUME NEW f \in File, NEW max \in Nat, TrimNeeded(f, max)
  PROVE  Trimmed(f, max) \in File
BY DEF Trimmed, TrimNeeded, CountLines, File

\* The rows of a file are finitely many.
LEMMA PendingFinite ==
  ASSUME NEW f \in File
  PROVE  IsFiniteSet(ListPending(f))
<1>1. Len(f.lines) \in Nat
  BY LenProperties DEF File
<1>2. IsFiniteSet(1..Len(f.lines))
  BY <1>1, FS_Interval
<1>3. IsFiniteSet({k \in 1..Len(f.lines) : IsLatest(f, k)})
  BY <1>2, FS_Subset
<1>4. IsFiniteSet(LatestPerId(f))
  <2> DEFINE K == {k \in 1..Len(f.lines) : IsLatest(f, k)}
             m == [k \in K |-> f.lines[k]]
  <2>1. m \in Surjection(K, LatestPerId(f))
    BY DEF Surjection, LatestPerId
  <2>2. QED  BY <1>3, <2>1, FS_Surjection
<1>5. QED  BY <1>4, FS_Subset DEF ListPending

-----------------------------------------------------------------------------
(* Type correctness.                                                       *)

\* Where a worker holds a job.
Busy == {"sending", "markDone", "dlqRejected", "dlqExhausted", "dlqRow",
         "update", "ackSent", "ackFailed", "ackRetrying"}

\* TypeOK is not inductive alone: the writers append job[g], which must be a
\* row by the time they run, and it is a live one.
TypeInv ==
  /\ TypeOK
  /\ \A g \in Gens : /\ pc[g] \in Busy => job[g] \in Row /\ ~job[g].done
                     /\ \A r \in batch[g] : ~r.done

\* Base case.
LEMMA TypeInit == Init => TypeInv
BY OutboundAssumption, EmptySeq
   DEF Init, TypeInv, TypeOK, FreshWorkers, EmptyFile, File, Pcs, Busy, Line

\* Every action keeps the types.
LEMMA TypeNext == TypeInv /\ [Next]_vars => TypeInv'
<1> SUFFICES ASSUME TypeInv, [Next]_vars PROVE TypeInv'
  OBVIOUS
<1> USE OutboundAssumption
    DEF TypeInv, TypeOK, Pcs, Busy, Goto, vars, fileVars, mgrVars, ctlVars,
        jobVars, mutexVars, workVars, callVars, healthVars, boundVars, histVars,
        idleVars
<1>1. ASSUME NEW c \in Cmds, ToolCall(c) PROVE TypeInv'
  BY <1>1 DEF ToolCall
<1>2. ASSUME NEW c \in Cmds, ToolBuildFails(c) PROVE TypeInv'
  BY <1>2 DEF ToolBuildFails
<1>3. ASSUME NEW c \in Cmds, ToolAppend(c) PROVE TypeInv'
  <2>1. FreshRow(c) \in Row
    BY DEF FreshRow, Row
  <2>2. queue' \in File
    BY <1>3, <2>1, AppendLineType, FailedAppendsType DEF ToolAppend, WriteError
  <2>3. QED  BY <1>3, <2>2 DEF ToolAppend, WriteError
<1>4. ASSUME NEW g \in Gens, NEW c \in Cmds, BrokerCommand(g, c) PROVE TypeInv'
  <2>1. FreshRow(c) \in Row
    BY DEF FreshRow, Row
  <2>2. queue' \in File
    BY <1>4, <2>1, AppendLineType, FailedAppendsType DEF BrokerCommand, WriteError
  <2>3. QED  BY <1>4, <2>2 DEF BrokerCommand, WriteError
<1>5. ASSUME NEW g \in Gens, WorkerCancelled(g) PROVE TypeInv'
  BY <1>5 DEF WorkerCancelled
<1>6. ASSUME NEW g \in Gens, BreakerCools(g) PROVE TypeInv'
  BY <1>6 DEF BreakerCools
<1>7. ASSUME NEW g \in Gens, DrainTick(g) PROVE TypeInv'
  <2>1. { r \in ListPending(queue) : Due(r) } \in SUBSET Row
    BY LatestPerIdType
  <2>2. \A r \in ListPending(queue) : ~r.done
    BY DEF ListPending
  <2>3. CASE ListPending(queue) = {}
    BY <1>7, <2>3 DEF DrainTick
  <2>4. CASE ListPending(queue) # {}
    <3>1. batch' = [batch EXCEPT ![g] = { r \in ListPending(queue) : Due(r) }]
      BY <1>7, <2>4 DEF DrainTick
    <3>2. batch' \in [Gens -> SUBSET Row]
      BY <2>1, <3>1
    <3>3. \A h \in Gens : \A r \in batch'[h] : ~r.done
      BY <2>2, <3>1
    <3>4. QED  BY <1>7, <2>4, <3>2, <3>3 DEF DrainTick
  <2>5. QED  BY <2>3, <2>4
<1>8. ASSUME NEW g \in Gens, CompactRead(g) PROVE TypeInv'
  <2>1. rewrite' \in [Gens -> File]
    <3>1. \A f \in Listings(ListPending(queue)) : f \in File
      BY LatestPerIdType, PendingFinite, ListingsType
    <3>2. QED  BY <1>8, <3>1 DEF CompactRead
  <2>2. /\ lock' \in [Gens -> BOOLEAN]
        /\ pc' \in [Gens -> Pcs]
        /\ \A h \in Gens : pc'[h] \in Busy => pc[h] \in Busy
    <3>1. CASE CompactNeeded(queue)
      BY <1>8, <3>1 DEF CompactRead, Busy
    <3>2. CASE ~CompactNeeded(queue)
      BY <1>8, <3>2 DEF CompactRead, Busy
    <3>3. QED  BY <3>1, <3>2
  <2>3. UNCHANGED <<fileVars, idleVars, ctlVars, jobVars, histVars>>
    BY <1>8 DEF CompactRead
  <2>4. QED  BY <2>1, <2>2, <2>3
<1>9. ASSUME NEW g \in Gens, CompactWrite(g) PROVE TypeInv'
  BY <1>9, EmptySeq DEF CompactWrite, EmptyFile, File
<1>10. ASSUME NEW g \in Gens, TrimRead(g) PROVE TypeInv'
  <2>1. rewrite' \in [Gens -> File]
    <3>1. TrimNeeded(dlq, MaxDlqLines) => Trimmed(dlq, MaxDlqLines) \in File
      BY TrimmedType
    <3>2. QED  BY <1>10, <3>1 DEF TrimRead
  <2>2. /\ lock' \in [Gens -> BOOLEAN]
        /\ pc' \in [Gens -> Pcs]
        /\ \A h \in Gens : pc'[h] \in Busy => pc[h] \in Busy
    <3>1. CASE TrimNeeded(dlq, MaxDlqLines)
      BY <1>10, <3>1 DEF TrimRead, Busy
    <3>2. CASE ~TrimNeeded(dlq, MaxDlqLines)
      BY <1>10, <3>2 DEF TrimRead, Busy
    <3>3. QED  BY <3>1, <3>2
  <2>3. UNCHANGED <<fileVars, idleVars, ctlVars, jobVars, histVars>>
    BY <1>10 DEF TrimRead
  <2>4. QED  BY <2>1, <2>2, <2>3
<1>11. ASSUME NEW g \in Gens, TrimWrite(g) PROVE TypeInv'
  BY <1>11, EmptySeq DEF TrimWrite, EmptyFile, File
<1>12. ASSUME NEW g \in Gens, SendStart(g) PROVE TypeInv'
  BY <1>12 DEF SendStart, Line, Row
<1>13. ASSUME NEW g \in Gens, DrainEnd(g) PROVE TypeInv'
  BY <1>13 DEF DrainEnd
<1>14. ASSUME NEW g \in Gens, RelayAccepts(g) PROVE TypeInv'
  BY <1>14 DEF RelayAccepts, Row
<1>15. ASSUME NEW g \in Gens, SmtpSent(g) PROVE TypeInv'
  BY <1>15 DEF SmtpSent
<1>16. ASSUME NEW g \in Gens, SmtpPermanent(g) PROVE TypeInv'
  BY <1>16 DEF SmtpPermanent
<1>17. ASSUME NEW g \in Gens, SmtpTransient(g) PROVE TypeInv'
  BY <1>17 DEF SmtpTransient
<1>18. ASSUME NEW g \in Gens, SmtpNetworkError(g) PROVE TypeInv'
  BY <1>18 DEF SmtpNetworkError, Row
<1>19. ASSUME NEW g \in Gens, MarkDone(g) PROVE TypeInv'
  <2>1. \A r \in LatestRow(job[g].id) : Tombstone(r) \in Row
    <3>1. \A r \in Row : Tombstone(r) \in Row
      BY DEF Tombstone, Row
    <3>2. QED  BY <3>1, LatestPerIdType DEF LatestRow
  <2>2. queue' \in File
    BY <1>19, <2>1, AppendLineType, FailedAppendsType DEF MarkDone, WriteError
  <2>3. verdict' \in [Ids -> {"none", "sent", "rejected", "exhausted"}]
    BY <1>19 DEF MarkDone, Settle
  <2>4. CASE Goto(g, "ackSent") /\ UNCHANGED <<batch, job, relayed, faults, excuse>>
                                /\ sentTotal' = sentTotal + 1
    BY <1>19, <2>2, <2>3, <2>4 DEF MarkDone
  <2>5. CASE AbortTick(g) /\ faults' = faults + 1 /\ UNCHANGED sentTotal
             /\ excuse' = [excuse EXCEPT ![job[g].id] = @ + 1]
    BY <1>19, <2>2, <2>3, <2>5 DEF MarkDone, AbortTick, Line, Row
  <2>6. QED  BY <1>19, <2>4, <2>5 DEF MarkDone, WriteError
<1>20. ASSUME NEW g \in Gens, DlqTombstone(g) PROVE TypeInv'
  <2>1. Tombstone(job[g]) \in Row
    BY <1>20 DEF DlqTombstone, Tombstone, Row
  <2>2. queue' \in File
    BY <1>20, <2>1, AppendLineType, FailedAppendsType DEF DlqTombstone, WriteError
  <2>3. verdict' \in [Ids -> {"none", "sent", "rejected", "exhausted"}]
    BY <1>20 DEF DlqTombstone, Settle
  <2>4. CASE Goto(g, "dlqRow") /\ UNCHANGED <<batch, job, relayed, faults>>
             /\ lock' = [lock EXCEPT ![g] = TRUE]
    BY <1>20, <2>2, <2>3, <2>4 DEF DlqTombstone
  <2>5. CASE AbortTick(g) /\ faults' = faults + 1 /\ UNCHANGED lock
    BY <1>20, <2>2, <2>3, <2>5 DEF DlqTombstone, AbortTick, Line
  <2>6. QED  BY <1>20, <2>4, <2>5 DEF DlqTombstone, WriteError
<1>21. ASSUME NEW g \in Gens, DlqRow(g) PROVE TypeInv'
  <2>1. dlq' \in File
    BY <1>21, AppendLineType, FailedAppendsType DEF DlqRow, WriteError
  <2>2. CASE Goto(g, "ackFailed") /\ UNCHANGED <<batch, job, relayed, faults>>
             /\ failedTotal' = failedTotal + 1
    BY <1>21, <2>1, <2>2 DEF DlqRow
  <2>3. CASE AbortTick(g) /\ faults' = faults + 1 /\ UNCHANGED failedTotal
    BY <1>21, <2>1, <2>3 DEF DlqRow, AbortTick, Line
  <2>4. QED  BY <1>21, <2>2, <2>3 DEF DlqRow, WriteError
<1>22. ASSUME NEW g \in Gens, UpdateRow(g) PROVE TypeInv'
  <2>1. [job[g] EXCEPT !.attempts = @ + 1] \in Row
    BY <1>22 DEF UpdateRow, Row
  <2>2. queue' \in File
    BY <1>22, <2>1, AppendLineType, FailedAppendsType DEF UpdateRow, WriteError
  <2>3. [job[g] EXCEPT !.attempts = @ + 1].id \in Ids
    BY <2>1 DEF Row
  <2>4. CASE Goto(g, "ackRetrying") /\ UNCHANGED <<batch, job, relayed, faults>>
             /\ resting' = resting \cup {[job[g] EXCEPT !.attempts = @ + 1].id}
    BY <1>22, <2>2, <2>3, <2>4 DEF UpdateRow
  <2>5. CASE /\ AbortTick(g) /\ faults' = faults + 1
             /\ resting' \in {resting, resting \cup {[job[g] EXCEPT !.attempts = @ + 1].id}}
    <3>1. resting' \subseteq Ids
      BY <2>3, <2>5
    <3>2. QED  BY <1>22, <2>2, <2>5, <3>1 DEF UpdateRow, AbortTick, Line
  <2>6. QED  BY <1>22, <2>4, <2>5 DEF UpdateRow, WriteError
<1>23. ASSUME NEW g \in Gens, Ack(g) PROVE TypeInv'
  BY <1>23 DEF Ack, Line
<1>24. ASSUME NEW i \in Ids, BackoffElapses(i) PROVE TypeInv'
  BY <1>24 DEF BackoffElapses
<1>25. ASSUME NEW g \in Gens, AddAccount(g) PROVE TypeInv'
  BY <1>25 DEF AddAccount
<1>26. CASE RemoveAccount
  BY <1>26 DEF RemoveAccount
<1>27. CASE RemoveFinish
  BY <1>27 DEF RemoveFinish
<1>28. CASE Stop
  BY <1>28 DEF Stop
<1>29. ASSUME LoseMemory, UNCHANGED <<fileVars, faults, ops, acks, verdict, delivered, tries>>,
              crashes' \in Nat, excuse' \in [Ids -> Nat]
       PROVE  TypeInv'
  BY <1>29, EmptySeq DEF LoseMemory, FreshWorkers, EmptyFile, File, Line
<1>30. CASE Restart
  BY <1>29, <1>30 DEF Restart
<1>31. CASE Crash
  BY <1>29, <1>31 DEF Crash
<1>32. CASE UNCHANGED vars
  BY <1>32
<1>33. QED
  BY <1>1, <1>2, <1>3, <1>4, <1>5, <1>6, <1>7, <1>8, <1>9, <1>10, <1>11, <1>12,
     <1>13, <1>14, <1>15, <1>16, <1>17, <1>18, <1>19, <1>20, <1>21, <1>22,
     <1>23, <1>24, <1>25, <1>26, <1>27, <1>28, <1>30, <1>31, <1>32
     DEF Next, Caller, Worker, SmtpReply

\* Type correctness, whatever the commands, generations, faults and bounds.
THEOREM TypeCorrect == Spec => []TypeOK
<1>1. TypeInv => TypeOK
  BY DEF TypeInv
<1>2. QED  BY <1>1, TypeInit, TypeNext, PTL DEF Spec

-----------------------------------------------------------------------------
(* What reading a file yields after an append and after a compaction.      *)

\* Last write wins: after an append that starts on a line of its own, the
\* appended row decides about its id and no other id changes.
LEMMA LatestAfterAppend ==
  ASSUME NEW f \in File, ~f.open, NEW r \in Row
  PROVE  LatestPerId(AppendLine(f, r)) =
           {r} \cup { q \in LatestPerId(f) : q.id # r.id }
<1> DEFINE n == Len(f.lines)
           h == AppendLine(f, r)
<1>1. /\ n \in Nat
      /\ Len(h.lines) = n + 1
      /\ \A k \in 1..n : h.lines[k] = f.lines[k]
      /\ h.lines[n + 1] = r
  BY AddLine, LenProperties DEF AppendLine, File, Line
<1>2. r # Nil
  BY NilNotRow
<1>3. IsLatest(h, n + 1)
  BY <1>1, <1>2 DEF IsLatest
<1>4. ASSUME NEW k \in 1..n
      PROVE  IsLatest(h, k) <=> IsLatest(f, k) /\ f.lines[k].id # r.id
  <2>1. \A j : j \in (k+1)..(n+1) <=> j \in (k+1)..n \/ j = n + 1
    BY <1>1
  <2>2. \A j \in (k+1)..n : h.lines[j] = f.lines[j]
    BY <1>1
  <2>3. h.lines[k] = f.lines[k]
    BY <1>1
  <2>4. IsLatest(h, k) <=>
          /\ h.lines[k] # Nil
          /\ \A j \in (k+1)..(n+1) :
                h.lines[j] # Nil => h.lines[j].id # h.lines[k].id
    BY <1>1 DEF IsLatest
  <2>5. IsLatest(f, k) <=>
          /\ f.lines[k] # Nil
          /\ \A j \in (k+1)..n :
                f.lines[j] # Nil => f.lines[j].id # f.lines[k].id
    BY DEF IsLatest
  <2> HIDE DEF h, n
  <2>6. QED  BY <1>1, <1>2, <2>1, <2>2, <2>3, <2>4, <2>5
<1>5. LatestPerId(h) = {r} \cup { q \in LatestPerId(f) : q.id # r.id }
  <2>1. \A k \in 1..(n + 1) : k \in 1..n \/ k = n + 1
    BY <1>1
  <2>2. ASSUME NEW q \in LatestPerId(h) PROVE q = r \/ (q \in LatestPerId(f) /\ q.id # r.id)
    BY <1>1, <1>4, <2>1, <2>2 DEF LatestPerId
  <2>3. r \in LatestPerId(h)
    BY <1>1, <1>3 DEF LatestPerId
  <2>4. ASSUME NEW q \in LatestPerId(f), q.id # r.id PROVE q \in LatestPerId(h)
    <3>1. PICK k \in 1..n : IsLatest(f, k) /\ q = f.lines[k]
      BY DEF LatestPerId
    <3>2. k \in 1..(n + 1) /\ IsLatest(h, k) /\ h.lines[k] = q
      BY <1>1, <1>4, <2>4, <3>1
    <3>3. QED  BY <1>1, <3>2 DEF LatestPerId
  <2>5. QED  BY <2>2, <2>3, <2>4
<1>6. QED  BY <1>5

\* A row decides what is pending for its own id and for no other.
LEMMA PendingAfterAppend ==
  ASSUME NEW f \in File, ~f.open, NEW r \in Row, NEW i
  PROVE  IsPending(AppendLine(f, r), i) <=>
           IF r.id = i THEN ~r.done ELSE IsPending(f, i)
BY LatestAfterAppend DEF IsPending, ListPending

\* Two latest rows with the same id are the same row.
LEMMA LatestUnique ==
  ASSUME NEW f \in File, NEW r \in LatestPerId(f), NEW q \in LatestPerId(f),
         r.id = q.id
  PROVE  r = q
<1>1. PICK k \in 1..Len(f.lines) : IsLatest(f, k) /\ r = f.lines[k]
  BY DEF LatestPerId
<1>2. PICK j \in 1..Len(f.lines) : IsLatest(f, j) /\ q = f.lines[j]
  BY DEF LatestPerId
<1>3. Len(f.lines) \in Nat
  BY LenProperties DEF File
<1>4. ~(k < j) /\ ~(j < k)
  BY <1>1, <1>2, <1>3 DEF IsLatest
<1>5. QED  BY <1>1, <1>2, <1>3, <1>4

\* Compaction keeps exactly the pending rows.
LEMMA LatestAfterCompact ==
  ASSUME NEW f \in File, NEW h \in Listings(ListPending(f))
  PROVE  LatestPerId(h) = ListPending(f)
<1> DEFINE rows == ListPending(f)
           n == Cardinality(rows)
<1>1. IsFiniteSet(rows) /\ n \in Nat /\ rows \subseteq Row
  BY PendingFinite, FS_CardinalityType, LatestPerIdType
<1>2. PICK t \in [1..n -> rows] :
        /\ h = [lines |-> t, open |-> FALSE]
        /\ Range(t) = rows
  BY DEF Listings
<1>3. t \in Injection(1..n, rows)
  <2>1. t \in Surjection(1..n, rows)
    BY <1>2 DEF Surjection, Range
  <2>2. IsFiniteSet(1..n) /\ Cardinality(1..n) = n
    BY <1>1, FS_Interval
  <2>3. QED  BY <1>1, <2>1, <2>2, FS_Surjection
<1>4. Len(h.lines) = n /\ \A k \in 1..n : h.lines[k] = t[k] /\ t[k] \in rows
  BY <1>1, <1>2
<1>5. \A k \in 1..n : h.lines[k] # Nil
  BY <1>1, <1>4, NilNotRow
<1>6. \A k \in 1..n : IsLatest(h, k)
  <2>1. SUFFICES ASSUME NEW k \in 1..n, NEW j \in (k+1)..n,
                        t[j].id = t[k].id
                 PROVE  FALSE
    BY <1>4, <1>5 DEF IsLatest
  <2>2. j \in 1..n /\ j # k
    BY <1>1
  <2>3. t[j] = t[k]
    BY <1>4, <2>1, <2>2, LatestUnique DEF ListPending
  <2>4. QED  BY <1>3, <2>2, <2>3 DEF Injection, IsInjective
<1>7. LatestPerId(h) = rows
  <2>1. LatestPerId(h) = { t[k] : k \in 1..n }
    BY <1>4, <1>6 DEF LatestPerId
  <2>2. QED  BY <1>2, <2>1 DEF Range
<1>8. QED  BY <1>7

\* Compaction keeps what is pending.
LEMMA PendingAfterCompact ==
  ASSUME NEW f \in File, NEW h \in Listings(ListPending(f)), NEW i
  PROVE  IsPending(h, i) <=> IsPending(f, i)
BY LatestAfterCompact DEF IsPending, ListPending

\* compact_if_needed: whatever it reads there is a file for it to write, which
\* has the same pending rows, one line each; and it needs no second compaction,
\* so idle ticks do not rewrite the queue for ever.
THEOREM CompactionSettles ==
  ASSUME NEW f \in File
  PROVE  /\ Listings(ListPending(f)) # {}
         /\ \A h \in Listings(ListPending(f)) :
              /\ ListPending(h) = ListPending(f)
              /\ CountLines(h) = Cardinality(ListPending(f))
              /\ ~CompactNeeded(h)
<1> DEFINE rows == ListPending(f)
           n == Cardinality(rows)
<1>1. IsFiniteSet(rows) /\ n \in Nat
  BY PendingFinite, FS_CardinalityType
<1>2. Listings(rows) # {}
  <2>1. PICK t \in Bijection(1..n, rows) : TRUE
    BY <1>1, FS_CardinalityType, FS_NatBijection DEF ExistsBijection
  <2>2. t \in [1..n -> rows] /\ Range(t) = rows
    BY <2>1 DEF Bijection, Injection, Surjection, Range
  <2>3. QED  BY <2>2 DEF Listings
<1>3. SUFFICES ASSUME NEW h \in Listings(rows)
               PROVE  /\ ListPending(h) = rows
                      /\ CountLines(h) = n
                      /\ ~CompactNeeded(h)
  BY <1>2
<1>4. LatestPerId(h) = rows /\ \A r \in rows : ~r.done
  BY LatestAfterCompact DEF ListPending
<1>5. ListPending(h) = rows
  BY <1>4 DEF ListPending
<1>6. CountLines(h) = n
  BY <1>1 DEF Listings, CountLines
<1>7. ~CompactNeeded(h)
  <2>1. { r \in LatestPerId(h) : r.done } = {}
    BY <1>4
  <2>2. Cardinality({ r \in LatestPerId(h) : r.done }) = 0
    BY <2>1, FS_EmptySet
  <2>3. rows # {} => n > 0
    BY <1>1, FS_EmptySet
  <2>4. QED  BY <1>1, <1>4, <2>2, <2>3 DEF CompactNeeded
<1>8. QED  BY <1>5, <1>6, <1>7

-----------------------------------------------------------------------------
(* No accepted job is lost, as long as every write either happens or does  *)
(* not (no torn lines) and one generation serves the account.              *)

NoTornWrites  == "torn" \notin Faults
OneGeneration == \A g, h \in Gens : g = h

\* While a compaction holds its temporary file, it also holds the lock, and
\* the temporary file has every job that the queue file has.
CompactionSafe ==
  \A g \in Gens : pc[g] = "compactWrite" =>
    /\ lock[g] /\ ~rewrite[g].open
    /\ \A i \in Ids : IsPending(queue, i) => IsPending(rewrite[g], i)

LossInv ==
  /\ TypeInv
  /\ ~queue.open
  /\ \A c \in Cmds : call[c] = "building" => callGen[c] \in Gens
  /\ CompactionSafe
  /\ NoAcceptedJobLost

\* A write error without torn lines leaves the file as it was.
LEMMA CleanError ==
  ASSUME NoTornWrites, NEW f, NEW r, NEW h, WriteError(f, r, h)
  PROVE  h = f
BY DEF NoTornWrites, WriteError, FailedAppends

\* Base case: nothing was accepted.
LEMMA LossInit == Init => LossInv
BY TypeInit DEF Init, LossInv, CompactionSafe, NoAcceptedJobLost, FreshWorkers,
                EmptyFile

\* An append under LossInv.
LEMMA QueueAppend ==
  ASSUME LossInv, NEW r \in Row, queue' = AppendLine(queue, r)
  PROVE  /\ ~queue'.open
         /\ \A i : IsPending(queue', i) <=>
                     IF r.id = i THEN ~r.done ELSE IsPending(queue, i)
<1>1. queue \in File /\ ~queue.open
  BY DEF LossInv, TypeInv, TypeOK
<1>2. ~queue'.open
  BY <1>1 DEF AppendLine
<1>3. QED  BY <1>1, <1>2, PendingAfterAppend

\* Every action keeps LossInv.
LEMMA LossNext ==
  ASSUME NoTornWrites, OneGeneration, LossInv, [Next]_vars
  PROVE  LossInv'
<1> USE OutboundAssumption
    DEF vars, fileVars, mgrVars, ctlVars, jobVars, mutexVars, workVars, callVars,
        healthVars, boundVars, histVars, idleVars
<1>1. TypeInv' /\ TypeInv
  BY TypeNext DEF LossInv
<1>2. /\ pc \in [Gens -> Pcs] /\ lock \in [Gens -> BOOLEAN]
      /\ rewrite \in [Gens -> File]
      /\ verdict \in [Ids -> {"none", "sent", "rejected", "exhausted"}]
      /\ MsgIdOf \in [Cmds -> Ids]
      /\ call \in [Cmds -> {"idle", "building", "accepted", "refused", "dropped"}]
      /\ callGen \in [Cmds -> Gens \cup {NoGen}]
      /\ queue \in File /\ job \in [Gens -> Line]
      /\ instance \in Gens \cup {NoGen}
  BY <1>1 DEF TypeInv, TypeOK
\* Steps that touch neither the queue file nor the record of what happened.
<1>3. ASSUME UNCHANGED <<queue, verdict, call, callGen, lock, rewrite>>,
             \A g \in Gens : pc'[g] = "compactWrite" => pc[g] = "compactWrite"
      PROVE  LossInv'
  BY <1>1, <1>3 DEF LossInv, CompactionSafe, NoAcceptedJobLost, Settled
\* Steps of a worker that append to the queue file, or fail to.
<1>4. ASSUME NEW g \in Gens, pc[g] # "compactWrite",
             NEW r \in Row, NEW why \in {"sent", "rejected", "exhausted"},
             queue' = AppendLine(queue, r) \/ queue' = queue,
             IF r.done THEN Settle(r.id, why) ELSE UNCHANGED verdict,
             UNCHANGED <<call, callGen, rewrite>>,
             \A h \in Gens : pc'[h] # "compactWrite"
      PROVE  LossInv'
  <2>1. ~queue'.open
    BY <1>4, QueueAppend DEF LossInv
  <2>2. NoAcceptedJobLost'
    <3>1. r.id \in Ids /\ r.done \in BOOLEAN
      BY DEF Row
    <3>2. \A i \in Ids : Settled(i) => Settled(i)'
      BY <1>2, <1>4, <3>1 DEF Settle, Settled
    <3>3. \A i \in Ids : IsPending(queue, i) => IsPending(queue', i) \/ (r.done /\ r.id = i)
      BY <1>4, <3>1, QueueAppend
    <3>4. r.done => IsPending(queue', r.id) \/ Settled(r.id)'
      BY <1>2, <1>4, <3>1 DEF Settle, Settled
    <3>5. QED  BY <1>2, <1>4, <3>2, <3>3, <3>4 DEF LossInv, NoAcceptedJobLost
  <2>3. QED  BY <1>1, <1>4, <2>1, <2>2 DEF LossInv, CompactionSafe
<1>5. ASSUME NEW c \in Cmds, ToolCall(c) PROVE LossInv'
  BY <1>1, <1>2, <1>5 DEF ToolCall, LossInv, CompactionSafe, NoAcceptedJobLost, Settled
<1>6. ASSUME NEW c \in Cmds, ToolBuildFails(c) PROVE LossInv'
  BY <1>1, <1>2, <1>6 DEF ToolBuildFails, LossInv, CompactionSafe, NoAcceptedJobLost, Settled
<1>7. ASSUME NEW c \in Cmds, FreshRow(c) \in Row,
             \A g \in Gens : pc[g] # "compactWrite",
             UNCHANGED <<pc, rewrite, lock, verdict>>,
             \A d \in Cmds : call'[d] = "building" =>
                              call[d] = "building" /\ callGen'[d] = callGen[d],
             \A d \in Cmds : call'[d] = "accepted" =>
                call[d] = "accepted" \/ (d = c /\ queue' = AppendLine(queue, FreshRow(c))),
             queue' = AppendLine(queue, FreshRow(c)) \/ queue' = queue
      PROVE  LossInv'
  <2>1. ~queue'.open
    BY <1>7, QueueAppend DEF LossInv
  <2>2. FreshRow(c).id = MsgIdOf[c] /\ ~FreshRow(c).done
    BY DEF FreshRow
  <2>3. \A i \in Ids : IsPending(queue, i) => IsPending(queue', i)
    BY <1>7, <2>2, QueueAppend
  <2>4. queue' = AppendLine(queue, FreshRow(c)) => IsPending(queue', MsgIdOf[c])
    BY <1>7, <2>2, QueueAppend
  <2>5. NoAcceptedJobLost'
    BY <1>2, <1>7, <2>3, <2>4 DEF LossInv, NoAcceptedJobLost, Settled
  <2>6. QED  BY <1>1, <1>7, <2>1, <2>5 DEF LossInv, CompactionSafe
<1>8. \A c \in Cmds : FreshRow(c) \in Row
  BY DEF FreshRow, Row
<1>9. ASSUME NEW c \in Cmds, ToolAppend(c) PROVE LossInv'
  <2>1. \A g \in Gens : pc[g] # "compactWrite"
    BY <1>9 DEF ToolAppend, LockFree, OneGeneration, LossInv, CompactionSafe
  <2>2. \/ queue' = AppendLine(queue, FreshRow(c))
        \/ queue' = queue /\ call' = [call EXCEPT ![c] = "refused"]
    BY <1>9, CleanError DEF ToolAppend
  <2>3. QED  BY <1>2, <1>7, <1>8, <1>9, <2>1, <2>2 DEF ToolAppend
<1>10. ASSUME NEW g \in Gens, NEW c \in Cmds, BrokerCommand(g, c) PROVE LossInv'
  <2>1. \A h \in Gens : pc[h] # "compactWrite"
    BY <1>10 DEF BrokerCommand, OneGeneration
  <2>2. \/ queue' = AppendLine(queue, FreshRow(c))
        \/ queue' = queue /\ call' = [call EXCEPT ![c] = "dropped"]
    BY <1>10, CleanError DEF BrokerCommand
  <2>3. QED  BY <1>2, <1>7, <1>8, <1>10, <2>1, <2>2 DEF BrokerCommand
<1>11. ASSUME NEW g \in Gens, CompactRead(g) PROVE LossInv'
  <2>1. CASE ~CompactNeeded(queue)
    BY <1>2, <1>3, <1>11, <2>1 DEF CompactRead, Goto
  <2>2. CASE CompactNeeded(queue)
    <3>1. PICK f \in Listings(ListPending(queue)) :
            rewrite' = [rewrite EXCEPT ![g] = f]
      BY <1>11, <2>2 DEF CompactRead
    <3>2. ~f.open /\ \A i \in Ids : IsPending(queue, i) => IsPending(f, i)
      BY <1>2, PendingAfterCompact DEF Listings
    <3>3. CompactionSafe'
      BY <1>2, <1>11, <2>2, <3>1, <3>2 DEF CompactRead, Goto, CompactionSafe, OneGeneration
    <3>4. QED  BY <1>1, <1>11, <3>3 DEF CompactRead, LossInv, NoAcceptedJobLost, Settled
  <2>3. QED  BY <2>1, <2>2
<1>12. ASSUME NEW g \in Gens, CompactWrite(g) PROVE LossInv'
  <2>1. queue' = rewrite[g] /\ ~queue'.open
    BY <1>12 DEF CompactWrite, LossInv, CompactionSafe
  <2>2. \A i \in Ids : IsPending(queue, i) => IsPending(queue', i)
    BY <1>12, <2>1 DEF CompactWrite, LossInv, CompactionSafe
  <2>3. CompactionSafe'
    BY <1>2, <1>12 DEF CompactWrite, Goto, CompactionSafe, OneGeneration
  <2>4. QED  BY <1>1, <1>2, <1>12, <2>1, <2>2, <2>3
             DEF CompactWrite, LossInv, NoAcceptedJobLost, Settled
<1>13. ASSUME NEW g \in Gens, TrimRead(g) PROVE LossInv'
  <2>1. CompactionSafe'
    BY <1>2, <1>13 DEF TrimRead, Goto, CompactionSafe, OneGeneration
  <2>2. QED  BY <1>1, <1>13, <2>1 DEF TrimRead, LossInv, NoAcceptedJobLost, Settled
<1>14. ASSUME NEW g \in Gens, TrimWrite(g) PROVE LossInv'
  <2>1. CompactionSafe'
    BY <1>2, <1>14 DEF TrimWrite, Goto, CompactionSafe, OneGeneration
  <2>2. QED  BY <1>1, <1>14, <2>1 DEF TrimWrite, LossInv, NoAcceptedJobLost, Settled
<1>15. ASSUME NEW g \in Gens, MarkDone(g) PROVE LossInv'
  <2>1. \A h \in Gens : pc'[h] # "compactWrite"
    BY <1>2, <1>15 DEF MarkDone, Goto, AbortTick, OneGeneration
  <2>2. CASE queue' = queue
    <3>1. \A i \in Ids : Settled(i) => Settled(i)'
      BY <1>2, <1>15 DEF MarkDone, Settle, Settled
    <3>2. NoAcceptedJobLost'
      BY <1>2, <1>15, <2>2, <3>1 DEF MarkDone, LossInv, NoAcceptedJobLost
    <3>3. QED  BY <1>1, <1>15, <2>1, <2>2, <3>2 DEF MarkDone, LossInv, CompactionSafe
  <2>3. CASE queue' # queue
    <3>1. PICK r \in LatestRow(job[g].id) : queue' = AppendLine(queue, Tombstone(r))
      BY <1>15, <2>3, CleanError DEF MarkDone
    <3>2. r \in Row /\ r.id = job[g].id
      BY <1>2, LatestPerIdType DEF LatestRow
    <3>3. Tombstone(r) \in Row /\ Tombstone(r).id = job[g].id /\ Tombstone(r).done
      BY <3>2 DEF Tombstone, Row
    <3>4. QED  BY <1>4, <1>15, <2>1, <3>1, <3>3 DEF MarkDone
  <2>4. QED  BY <2>2, <2>3
<1>16. ASSUME NEW g \in Gens, DlqTombstone(g) PROVE LossInv'
  <2>1. \A h \in Gens : pc'[h] # "compactWrite"
    BY <1>2, <1>16 DEF DlqTombstone, Goto, AbortTick, OneGeneration
  <2>2. job[g] \in Row
    BY <1>1, <1>16 DEF DlqTombstone, TypeInv, Busy
  <2>3. Tombstone(job[g]) \in Row /\ Tombstone(job[g]).id = job[g].id /\ Tombstone(job[g]).done
    BY <2>2 DEF Tombstone, Row
  <2>4. queue' = AppendLine(queue, Tombstone(job[g])) \/ queue' = queue
    BY <1>16, CleanError DEF DlqTombstone
  <2>5. PICK why \in {"rejected", "exhausted"} : Settle(job[g].id, why)
    BY <1>16 DEF DlqTombstone
  <2>6. UNCHANGED <<call, callGen, rewrite>> /\ pc[g] # "compactWrite"
    BY <1>16 DEF DlqTombstone
  <2>7. QED  BY <1>4, <2>1, <2>3, <2>4, <2>5, <2>6
<1>17. ASSUME NEW g \in Gens, DlqRow(g) PROVE LossInv'
  <2>1. CompactionSafe'
    BY <1>2, <1>17 DEF DlqRow, Goto, AbortTick, CompactionSafe, OneGeneration
  <2>2. QED  BY <1>1, <1>17, <2>1 DEF DlqRow, LossInv, NoAcceptedJobLost, Settled
<1>18. ASSUME NEW g \in Gens, UpdateRow(g) PROVE LossInv'
  <2> DEFINE r == [job[g] EXCEPT !.attempts = @ + 1]
  <2>1. \A h \in Gens : pc'[h] # "compactWrite"
    BY <1>2, <1>18 DEF UpdateRow, Goto, AbortTick, OneGeneration
  <2>2. r \in Row
    BY <1>1, <1>18 DEF UpdateRow, TypeInv, Busy, Row
  <2>3. queue' = AppendLine(queue, r) \/ queue' = queue
    BY <1>18, CleanError DEF UpdateRow
  <2>4. ~r.done
    BY <1>1, <1>18 DEF UpdateRow, TypeInv, Busy, Row
  <2>5. UNCHANGED <<call, callGen, rewrite, verdict>> /\ pc[g] # "compactWrite"
    BY <1>18 DEF UpdateRow
  <2>6. QED  BY <1>4, <2>1, <2>2, <2>3, <2>4, <2>5
<1>19. ASSUME NEW g \in Gens,
              \/ WorkerCancelled(g) \/ DrainTick(g) \/ SendStart(g) \/ DrainEnd(g)
              \/ SmtpReply(g) \/ Ack(g) \/ AddAccount(g)
       PROVE  LossInv'
  <2>1. \A h \in Gens : pc'[h] = "compactWrite" => pc[h] = "compactWrite"
    BY <1>2, <1>19
       DEF WorkerCancelled, DrainTick, SendStart, DrainEnd, SmtpReply, SmtpSent,
           SmtpPermanent, SmtpTransient, SmtpNetworkError, Ack, AddAccount, Goto
  <2>2. UNCHANGED <<queue, verdict, call, callGen, lock, rewrite>>
    BY <1>19
       DEF WorkerCancelled, DrainTick, SendStart, DrainEnd, SmtpReply, SmtpSent,
           SmtpPermanent, SmtpTransient, SmtpNetworkError, Ack, AddAccount
  <2>3. QED  BY <1>3, <2>1, <2>2
<1>20. ASSUME NEW g \in Gens, BreakerCools(g) \/ RelayAccepts(g) PROVE LossInv'
  BY <1>3, <1>20 DEF BreakerCools, RelayAccepts
<1>21. ASSUME NEW i \in Ids, BackoffElapses(i) PROVE LossInv'
  BY <1>3, <1>21 DEF BackoffElapses
<1>22. CASE RemoveAccount \/ RemoveFinish \/ Stop
  BY <1>3, <1>22 DEF RemoveAccount, RemoveFinish, Stop
<1>23. CASE Restart \/ Crash
  <2>1. LoseMemory /\ UNCHANGED <<queue, verdict>>
    BY <1>23 DEF Restart, Crash
  <2>2. CompactionSafe'
    BY <2>1 DEF LoseMemory, FreshWorkers, CompactionSafe
  <2>3. \A c \in Cmds : call'[c] # "building" /\ (call'[c] = "accepted" => call[c] = "accepted")
    BY <1>2, <2>1 DEF LoseMemory
  <2>4. QED  BY <1>1, <2>1, <2>2, <2>3 DEF LossInv, NoAcceptedJobLost, Settled
<1>24. CASE UNCHANGED vars
  BY <1>3, <1>24
<1>25. QED
  BY <1>5, <1>6, <1>9, <1>10, <1>11, <1>12, <1>13, <1>14, <1>15, <1>16, <1>17,
     <1>18, <1>19, <1>20, <1>21, <1>22, <1>23, <1>24 DEF Next, Caller, Worker

\* Without torn writes, and with one generation per process, an accepted
\* command is live in the queue file until it is sent or given up: for any
\* commands, any Message-Ids (unique or not), any number of crashes, failed
\* writes and stops.
THEOREM AcceptedNeverLost ==
  ASSUME NoTornWrites, OneGeneration
  PROVE  Spec => []NoAcceptedJobLost
<1>1. LossInv /\ [Next]_vars => LossInv'
  BY LossNext
<1>2. LossInv => NoAcceptedJobLost
  BY DEF LossInv
<1>3. QED  BY <1>1, <1>2, LossInit, PTL DEF Spec

-----------------------------------------------------------------------------
(* With torn writes: one lost job per write that stopped half way.         *)

\* The lines that end in a newline.
Solid(f) ==
  IF f.open THEN [lines |-> SubSeq(f.lines, 1, Len(f.lines) - 1), open |-> FALSE] ELSE f

\* Accepted jobs of which no such line is left.
Missing == { c \in Cmds : /\ call[c] = "accepted"
                          /\ ~IsPending(Solid(queue), MsgIdOf[c])
                          /\ ~Settled(MsgIdOf[c]) }

\* What is live in these lines is live in f, or settled.
ShownBy(f) == \A i \in Ids : IsPending(Solid(queue), i) => IsPending(f, i) \/ Settled(i)

\* An unterminated line stands for a write that failed, and has cost no job yet.
LostInv ==
  /\ TypeInv
  /\ \A c \in Cmds : call[c] = "building" => callGen[c] \in Gens
  /\ ShownBy(queue)
  /\ \A g \in Gens : pc[g] = "compactWrite" =>
       lock[g] /\ ~rewrite[g].open /\ ShownBy(rewrite[g])
  /\ IsFiniteSet(Missing)
  /\ Cardinality(Missing) + (IF queue.open THEN 1 ELSE 0) <= faults

\* The complete lines make a file of their own.
LEMMA SolidFile ==
  ASSUME NEW f \in File
  PROVE  /\ Solid(f) \in File /\ ~Solid(f).open
         /\ ~f.open => Solid(f) = f
<1>1. CASE ~f.open
  BY <1>1 DEF Solid
<1>2. CASE f.open
  <2>1. f.lines \in Seq(Line) /\ f.lines # <<>>
    BY <1>2 DEF File
  <2>2. Len(f.lines) \in Nat /\ Len(f.lines) >= 1
    BY <2>1, EmptySeq, LenProperties
  <2>3. SubSeq(f.lines, 1, Len(f.lines) - 1) \in Seq(Line)
    BY <2>1, <2>2, SubSeqProperties
  <2>4. QED  BY <1>2, <2>3 DEF Solid, File
<1>3. QED  BY <1>1, <1>2

\* A last line that does not parse changes nothing.
LEMMA NilLast ==
  ASSUME NEW f \in File, NEW h \in File, Len(h.lines) = Len(f.lines) + 1,
         h.lines[Len(f.lines) + 1] = Nil,
         \A k \in 1..Len(f.lines) : h.lines[k] = f.lines[k]
  PROVE  LatestPerId(h) = LatestPerId(f)
<1> DEFINE n == Len(f.lines)
<1>1. n \in Nat
  BY LenProperties DEF File
<1>2. ASSUME NEW k \in 1..n PROVE IsLatest(h, k) <=> IsLatest(f, k)
  <2>1. \A j : j \in (k+1)..(n+1) <=> j \in (k+1)..n \/ j = n + 1
    BY <1>1
  <2>2. \A j \in (k+1)..n : h.lines[j] = f.lines[j]
    BY <1>1
  <2>3. h.lines[k] = f.lines[k] /\ h.lines[n + 1] = Nil /\ Len(h.lines) = n + 1
    OBVIOUS
  <2> HIDE DEF n
  <2>4. QED  BY <2>1, <2>2, <2>3 DEF IsLatest, n
<1>3. ~IsLatest(h, n + 1)
  BY DEF IsLatest
<1>4. \A k \in 1..(n + 1) : k \in 1..n \/ k = n + 1
  BY <1>1
<1>5. \A k \in 1..n : k \in 1..(n + 1)
  BY <1>1
<1>6. { k \in 1..Len(h.lines) : IsLatest(h, k) } = { k \in 1..n : IsLatest(f, k) }
  <2> HIDE DEF n
  <2>1. Len(h.lines) = n + 1
    BY DEF n
  <2>2. QED  BY <1>2, <1>3, <1>4, <1>5, <2>1
<1>7. \A k \in { k \in 1..n : IsLatest(f, k) } : h.lines[k] = f.lines[k]
  OBVIOUS
<1>8. QED
  <2> DEFINE K == { k \in 1..n : IsLatest(f, k) }
  <2>1. LatestPerId(f) = { f.lines[k] : k \in K }
    BY DEF LatestPerId
  <2>2. LatestPerId(h) = { h.lines[k] : k \in K }
    BY <1>6 DEF LatestPerId
  <2> HIDE DEF K
  <2>3. QED  BY <1>7, <2>1, <2>2 DEF K

\* The next append spoils an unterminated line: what is left is what was solid.
LEMMA SpoiltIsSolid ==
  ASSUME NEW f \in File, f.open, NEW h \in File,
         h.lines = [f.lines EXCEPT ![Len(f.lines)] = Nil]
  PROVE  LatestPerId(h) = LatestPerId(Solid(f))
<1> DEFINE n == Len(f.lines)
           s == Solid(f)
<1>1. f.lines \in Seq(Line) /\ f.lines # <<>>
  BY DEF File
<1>2. n \in Nat /\ n >= 1
  BY <1>1, EmptySeq, LenProperties
<1>3. s.lines = SubSeq(f.lines, 1, n - 1) /\ s \in File
  BY SolidFile DEF Solid
<1>4. Len(s.lines) = n - 1 /\ \A k \in 1..(n - 1) : s.lines[k] = f.lines[k]
  BY <1>1, <1>2, <1>3, SubSeqProperties
<1>5. Len(h.lines) = n /\ \A k \in 1..n : h.lines[k] = IF k = n THEN Nil ELSE f.lines[k]
  BY SpoilLastLine
<1>6. /\ Len(h.lines) = Len(s.lines) + 1 /\ h.lines[Len(s.lines) + 1] = Nil
      /\ \A k \in 1..Len(s.lines) : h.lines[k] = s.lines[k]
  <2> HIDE DEF n, s
  <2>1. Len(s.lines) + 1 = n /\ n \in 1..n
    BY <1>2, <1>4
  <2>2. \A k \in 1..Len(s.lines) : k \in 1..n /\ k # n
    BY <1>2, <1>4
  <2>3. QED  BY <1>4, <1>5, <2>1, <2>2
<1>7. QED
  <2> HIDE DEF s
  <2>1. QED  BY <1>3, <1>6, NilLast DEF s

\* An append that returns Ok: the file is closed, and lost from the complete
\* lines is what a tombstone was written for; the row itself counts if it
\* starts on a line of its own.
LEMMA SolidAppend ==
  ASSUME NEW f \in File, NEW r \in Row, NEW h, h = AppendLine(f, r), NEW i,
         IsPending(Solid(f), i) \/ (~f.open /\ i = r.id), r.id = i => ~r.done
  PROVE  h \in File /\ ~h.open /\ Solid(h) = h /\ IsPending(h, i)
<1>1. h \in File /\ ~h.open
  BY AppendLineType DEF AppendLine
<1>2. Solid(h) = h
  BY <1>1 DEF Solid
<1>3. CASE f.open
  <2>1. h.lines = [f.lines EXCEPT ![Len(f.lines)] = Nil]
    BY <1>3 DEF AppendLine
  <2>2. LatestPerId(h) = LatestPerId(Solid(f))
    BY <1>1, <1>3, <2>1, SpoiltIsSolid
  <2>3. QED  BY <1>1, <1>2, <1>3, <2>2 DEF IsPending, ListPending
<1>4. CASE ~f.open
  <2>1. Solid(f) = f
    BY <1>4, SolidFile
  <2>2. IsPending(h, i) <=> IF r.id = i THEN ~r.done ELSE IsPending(f, i)
    BY <1>4, PendingAfterAppend
  <2>3. QED  BY <1>1, <1>2, <2>1, <2>2
<1>5. QED  BY <1>3, <1>4

\* One that fails: the complete lines read as before, and they are shown by the
\* file, but for an id whose tombstone it tried to write.
LEMMA SolidFailure ==
  ASSUME NEW f \in File, NEW r \in Row, NEW F, NEW h \in FailedAppends(f, r, F)
  PROVE  /\ LatestPerId(Solid(h)) = LatestPerId(Solid(f))
         /\ h = f \/ \A i : IsPending(Solid(f), i) /\ (r.id = i => ~r.done) => IsPending(h, i)
<1>1. CASE h = f
  BY <1>1
<1>2. CASE h \in TornAppends(f, r)
  <2>1. h \in File
    BY FailedAppendsType
  <2>2. PICK part \in {r, Nil} :
          h = [lines |-> IF f.open THEN [f.lines EXCEPT ![Len(f.lines)] = Nil]
                                   ELSE Append(f.lines, part),
               open  |-> TRUE]
    BY <1>2 DEF TornAppends
  <2>3. h.open /\ Solid(h) \in File
    BY <2>1, <2>2, SolidFile
  <2>4. part \in Line
    BY DEF Line
  <2> DEFINE n == Len(f.lines)
  <2>5. f.lines \in Seq(Line) /\ n \in Nat
    BY LenProperties DEF File
  <2>6. CASE f.open
    <3>1. h.lines = [f.lines EXCEPT ![n] = Nil]
      BY <2>2, <2>6
    <3>2. LatestPerId(h) = LatestPerId(Solid(f))
      BY <2>1, <2>6, <3>1, SpoiltIsSolid
    <3>3. Solid(h).lines = Solid(f).lines
      <4>1. /\ n >= 1 /\ Len(h.lines) = n /\ h.lines \in Seq(Line)
            /\ \A k \in 1..n : h.lines[k] = IF k = n THEN Nil ELSE f.lines[k]
        BY <2>1, <2>5, <2>6, <3>1, SpoilLastLine, EmptySeq DEF File
      <4>2. \A k \in 1..(n - 1) : k \in 1..n /\ k # n
        BY <2>5
      <4>3. SubSeq(h.lines, 1, n - 1) = SubSeq(f.lines, 1, n - 1)
        <5> HIDE DEF n
        <5>1. \A k \in 1..(n - 1) : h.lines[k] = f.lines[k]
          BY <4>1, <4>2
        <5>2. n - 1 \in 0..n
          BY <2>5, <4>1
        <5>3. QED  BY <2>5, <4>1, <5>1, <5>2, SubSeqProperties DEF n
      <4>4. QED  BY <2>3, <2>6, <4>1, <4>3 DEF Solid
    <3>4. LatestPerId(Solid(h)) = LatestPerId(Solid(f))
      BY <3>3 DEF LatestPerId, IsLatest
    <3>5. QED  BY <3>2, <3>4 DEF IsPending, ListPending
  <2>7. CASE ~f.open
    <3>1. Solid(f) = f
      BY <2>7, SolidFile
    <3>2. h.lines = Append(f.lines, part) /\ Len(h.lines) = n + 1
      BY <2>2, <2>4, <2>7, AddLine
    <3>3. SubSeq(h.lines, 1, n) = f.lines
      BY <2>4, <2>5, <3>2
    <3>4. Solid(h).lines = f.lines
      <4>1. n + 1 - 1 = n
        BY <2>5
      <4>2. QED  BY <2>3, <3>2, <3>3, <4>1 DEF Solid
    <3>5. LatestPerId(Solid(h)) = LatestPerId(f)
      BY <3>4 DEF LatestPerId, IsLatest
    <3>6. CASE part = Nil
      <4>1. LatestPerId(h) = LatestPerId(f)
        <5>1. /\ h.lines[n + 1] = Nil
              /\ \A k \in 1..n : h.lines[k] = f.lines[k]
          BY <2>4, <3>2, <3>6, AddLine
        <5>2. QED  BY <2>1, <3>2, <5>1, NilLast
      <4>2. QED  BY <3>1, <3>5, <4>1 DEF IsPending, ListPending
    <3>7. CASE part = r
      <4>1. LatestPerId(h) = LatestPerId(AppendLine(f, r))
        <5>1. h.lines = AppendLine(f, r).lines
          BY <2>7, <3>2, <3>7 DEF AppendLine
        <5>2. QED  BY <5>1 DEF LatestPerId, IsLatest
      <4>2. \A i : IsPending(h, i) <=> IsPending(AppendLine(f, r), i)
        BY <4>1 DEF IsPending, ListPending
      <4>3. \A i : IsPending(h, i) <=> IF r.id = i THEN ~r.done ELSE IsPending(f, i)
        BY <2>7, <4>2, PendingAfterAppend
      <4>4. QED  BY <3>1, <3>5, <4>3
    <3>8. QED  BY <3>6, <3>7
  <2>8. QED  BY <2>6, <2>7
<1>3. QED  BY <1>1, <1>2 DEF FailedAppends

\* Base case: nothing was accepted.
LEMMA LostInit == Init => LostInv
<1> SUFFICES ASSUME Init PROVE LostInv
  OBVIOUS
<1>1. TypeInv /\ Missing = {} /\ ~queue.open /\ faults = 0 /\ queue \in File
  BY TypeInit DEF Init, Missing, EmptyFile, TypeInv, TypeOK
<1>2. Solid(queue) = queue
  BY <1>1 DEF Solid
<1>3. IsFiniteSet(Missing) /\ Cardinality(Missing) = 0
  BY <1>1, FS_EmptySet
<1>4. QED
  BY <1>1, <1>2, <1>3 DEF Init, LostInv, ShownBy, FreshWorkers

\* What may become missing: nothing that has a complete line after the step.
LEMMA MissingGrows ==
  ASSUME NEW d,
         \A i \in Ids : Settled(i) => Settled(i)',
         \A i \in Ids : IsPending(Solid(queue), i) =>
                          IsPending(Solid(queue'), i) \/ Settled(i)',
         \A c \in Cmds : call'[c] = "accepted" => call[c] = "accepted" \/ c = d
  PROVE  /\ Missing' \subseteq Missing \cup {d}
         /\ (\A c \in Cmds : call'[c] = "accepted" => call[c] = "accepted") =>
              Missing' \subseteq Missing
         /\ (\A c \in Cmds : c = d => IsPending(Solid(queue'), MsgIdOf[c])) =>
              Missing' \subseteq Missing
<1>1. ASSUME NEW c \in Missing' PROVE /\ c \in Cmds /\ MsgIdOf[c] \in Ids
                                      /\ call'[c] = "accepted"
                                      /\ ~IsPending(Solid(queue'), MsgIdOf[c])
                                      /\ ~IsPending(Solid(queue), MsgIdOf[c])
                                      /\ ~Settled(MsgIdOf[c])
                                      /\ c \in Missing \/ c = d
  <2>1. c \in Cmds /\ call'[c] = "accepted" /\ ~IsPending(Solid(queue'), MsgIdOf[c])
        /\ ~Settled(MsgIdOf[c])'
    BY DEF Missing
  <2>2. MsgIdOf[c] \in Ids
    BY <2>1, OutboundAssumption
  <2>3. ~IsPending(Solid(queue), MsgIdOf[c]) /\ ~Settled(MsgIdOf[c])
    BY <2>1, <2>2
  <2>4. QED  BY <2>1, <2>2, <2>3 DEF Missing
<1>2. QED  BY <1>1 DEF Missing

\* The count after a step that loses nothing, and after one that loses a job
\* to an unterminated line.
LEMMA MissingCount ==
  ASSUME IsFiniteSet(Missing), faults \in Nat, faults' \in Nat,
         Cardinality(Missing) + (IF queue.open THEN 1 ELSE 0) <= faults,
         \/ /\ Missing' \subseteq Missing
            /\ \/ faults' = faults /\ (queue'.open => queue.open)
               \/ faults' = faults + 1
         \/ /\ queue.open /\ ~queue'.open /\ faults' = faults
            /\ \E d : Missing' \subseteq Missing \cup {d}
  PROVE  /\ IsFiniteSet(Missing')
         /\ Cardinality(Missing') + (IF queue'.open THEN 1 ELSE 0) <= faults'
<1>1. Cardinality(Missing) \in Nat
  BY FS_CardinalityType
<1>2. ASSUME NEW S, IsFiniteSet(S), Missing' \subseteq S
      PROVE  /\ IsFiniteSet(Missing') /\ Cardinality(Missing') \in Nat
             /\ Cardinality(S) \in Nat /\ Cardinality(Missing') <= Cardinality(S)
  <2> DEFINE T == Missing'
  <2>1. T \in SUBSET S
    BY <1>2
  <2> HIDE DEF T
  <2>2. IsFiniteSet(T) /\ Cardinality(T) <= Cardinality(S)
    BY <1>2, <2>1, FS_Subset
  <2>3. Cardinality(T) \in Nat /\ Cardinality(S) \in Nat
    BY <1>2, <2>2, FS_CardinalityType
  <2>4. QED  BY <2>2, <2>3 DEF T
<1>3. CASE /\ Missing' \subseteq Missing
           /\ \/ faults' = faults /\ (queue'.open => queue.open)
              \/ faults' = faults + 1
  <2>1. /\ IsFiniteSet(Missing') /\ Cardinality(Missing') \in Nat
        /\ Cardinality(Missing') <= Cardinality(Missing)
    BY <1>2, <1>3
  <2>2. QED  BY <1>1, <1>3, <2>1
<1>4. CASE /\ queue.open /\ ~queue'.open /\ faults' = faults
           /\ \E d : Missing' \subseteq Missing \cup {d}
  <2>1. PICK d : Missing' \subseteq Missing \cup {d}
    BY <1>4
  <2>2. /\ IsFiniteSet(Missing \cup {d})
        /\ Cardinality(Missing \cup {d}) <= Cardinality(Missing) + 1
    <3>1. /\ IsFiniteSet(Missing \cup {d})
          /\ Cardinality(Missing \cup {d}) =
               IF d \in Missing THEN Cardinality(Missing) ELSE Cardinality(Missing) + 1
      BY FS_AddElement
    <3>2. QED  BY <1>1, <3>1
  <2>3. /\ IsFiniteSet(Missing') /\ Cardinality(Missing') \in Nat
        /\ Cardinality(Missing \cup {d}) \in Nat
        /\ Cardinality(Missing') <= Cardinality(Missing \cup {d})
    BY <1>2, <2>1, <2>2
  <2>4. QED  BY <1>1, <1>4, <2>2, <2>3
<1>5. QED  BY <1>3, <1>4

\* A worker writes a row, or fails to.
LEMMA LostWorker ==
  ASSUME LostInv, TypeInv', NEW r \in Row, NEW why \in {"sent", "rejected", "exhausted"},
         \/ queue' = AppendLine(queue, r) /\ faults' = faults
         \/ queue' \in FailedAppends(queue, r, Faults) /\ faults' = faults + 1,
         IF r.done THEN Settle(r.id, why) ELSE UNCHANGED verdict,
         UNCHANGED <<call, callGen>>, \A g \in Gens : pc'[g] # "compactWrite"
  PROVE  LostInv'
<1>1. /\ queue \in File /\ r.id \in Ids /\ r.done \in BOOLEAN /\ faults \in Nat /\ faults' \in Nat
      /\ verdict \in [Ids -> {"none", "sent", "rejected", "exhausted"}]
  BY DEF LostInv, TypeInv, TypeOK, Row
<1>2. \A i \in Ids : Settled(i) => Settled(i)'
  BY <1>1 DEF Settle, Settled
<1>3. r.done => IsPending(queue', r.id) \/ Settled(r.id)'
  BY <1>1 DEF Settle, Settled
<1>4. /\ \A i \in Ids : IsPending(Solid(queue), i) =>
                         IsPending(Solid(queue'), i) \/ Settled(i)'
      /\ ShownBy(queue)'
  <2>1. CASE queue' = AppendLine(queue, r)
    <3>1. ~queue'.open /\ Solid(queue') = queue'
      BY <2>1 DEF AppendLine, Solid
    <3>2. ASSUME NEW i \in Ids, IsPending(Solid(queue), i)
          PROVE  IsPending(queue', i) \/ Settled(i)'
      <4>1. CASE r.id = i => ~r.done
        BY <1>1, <2>1, <3>2, <4>1, SolidAppend
      <4>2. CASE r.id = i /\ r.done
        BY <1>3, <4>2
      <4>3. QED  BY <4>1, <4>2
    <3>3. QED  BY <3>1, <3>2 DEF ShownBy
  <2>2. CASE queue' \in FailedAppends(queue, r, Faults)
    <3>1. /\ LatestPerId(Solid(queue')) = LatestPerId(Solid(queue))
          /\ \/ queue' = queue
             \/ \A i : IsPending(Solid(queue), i) /\ (r.id = i => ~r.done) =>
                         IsPending(queue', i)
      BY <1>1, <2>2, SolidFailure
    <3>2. \A i : IsPending(Solid(queue'), i) <=> IsPending(Solid(queue), i)
      BY <3>1 DEF IsPending, ListPending
    <3>3. ASSUME NEW i \in Ids, IsPending(Solid(queue), i)
          PROVE  IsPending(queue', i) \/ Settled(i)'
      <4>1. CASE queue' = queue
        BY <1>2, <3>3, <4>1 DEF LostInv, ShownBy
      <4>2. CASE r.id = i /\ r.done
        BY <1>3, <4>2
      <4>3. QED  BY <3>1, <3>3, <4>1, <4>2
    <3>4. QED  BY <3>2, <3>3 DEF ShownBy
  <2>3. QED  BY <2>1, <2>2
<1>5. Missing' \subseteq Missing
  BY <1>2, <1>4, MissingGrows
<1>6. faults' = faults => ~queue'.open
  BY <1>1 DEF AppendLine
<1>7. IsFiniteSet(Missing') /\ Cardinality(Missing') + (IF queue'.open THEN 1 ELSE 0) <= faults'
  BY <1>1, <1>5, <1>6, MissingCount DEF LostInv
<1>8. QED  BY <1>4, <1>7 DEF LostInv

\* A caller, or the broker, hands in a command.
LEMMA LostCaller ==
  ASSUME LostInv, TypeInv', NEW c \in Cmds,
         \/ queue' = AppendLine(queue, FreshRow(c)) /\ faults' = faults
         \/ /\ queue' \in FailedAppends(queue, FreshRow(c), Faults) /\ faults' = faults + 1
            /\ call'[c] # "accepted"
         \/ UNCHANGED <<queue, faults>> /\ call'[c] # "accepted",
         UNCHANGED verdict, \A g \in Gens : pc'[g] # "compactWrite",
         \A d \in Cmds : /\ call'[d] = "accepted" => call[d] = "accepted" \/ d = c
                         /\ call'[d] = "building" =>
                              call[d] = "building" /\ callGen'[d] = callGen[d]
  PROVE  LostInv'
<1> DEFINE r == FreshRow(c)
<1>1. /\ queue \in File /\ faults \in Nat /\ faults' \in Nat
      /\ r \in Row /\ ~r.done /\ r.id = MsgIdOf[c] /\ r.id \in Ids
  BY OutboundAssumption DEF LostInv, TypeInv, TypeOK, FreshRow, Row
<1>2. \A i : Settled(i)' <=> Settled(i)
  BY DEF Settled
<1> HIDE DEF r
<1>3. CASE UNCHANGED <<queue, faults>> /\ call'[c] # "accepted"
  <2>1. Missing' \subseteq Missing
    BY <1>2, <1>3 DEF Missing
  <2>2. IsFiniteSet(Missing') /\ Cardinality(Missing') + (IF queue'.open THEN 1 ELSE 0) <= faults'
    BY <1>1, <1>3, <2>1, MissingCount DEF LostInv
  <2>3. QED  BY <1>2, <1>3, <2>2 DEF LostInv, ShownBy
<1>4. CASE queue' = AppendLine(queue, r) /\ faults' = faults
  <2>1. ~queue'.open /\ Solid(queue') = queue'
    BY <1>4 DEF AppendLine, Solid
  <2>2. \A i \in Ids : IsPending(Solid(queue), i) => IsPending(queue', i)
    BY <1>1, <1>4, SolidAppend
  <2>3. ~queue.open => IsPending(queue', r.id)
    BY <1>1, <1>4, SolidAppend
  <2>4. /\ Missing' \subseteq Missing \cup {c}
        /\ ~queue.open => Missing' \subseteq Missing
    BY <1>1, <1>2, <2>1, <2>2, <2>3, MissingGrows
  <2>5. IsFiniteSet(Missing') /\ Cardinality(Missing') + (IF queue'.open THEN 1 ELSE 0) <= faults'
    <3>1. CASE queue.open
      BY <1>1, <1>4, <2>1, <2>4, <3>1, MissingCount DEF LostInv
    <3>2. CASE ~queue.open
      BY <1>1, <1>4, <2>1, <2>4, <3>2, MissingCount DEF LostInv
    <3>3. QED  BY <3>1, <3>2
  <2>6. ShownBy(queue)'
    BY <2>1 DEF ShownBy
  <2>7. QED  BY <2>5, <2>6 DEF LostInv
<1>5. CASE /\ queue' \in FailedAppends(queue, r, Faults) /\ faults' = faults + 1
           /\ call'[c] # "accepted"
  <2>1. /\ LatestPerId(Solid(queue')) = LatestPerId(Solid(queue))
        /\ queue' = queue \/ \A i : IsPending(Solid(queue), i) => IsPending(queue', i)
    BY <1>1, <1>5, SolidFailure
  <2>2. \A i : IsPending(Solid(queue'), i) <=> IsPending(Solid(queue), i)
    BY <2>1 DEF IsPending, ListPending
  <2>3. ShownBy(queue)'
    BY <1>2, <2>1, <2>2 DEF ShownBy, LostInv
  <2>4. Missing' \subseteq Missing
    BY <1>2, <1>5, <2>2 DEF Missing
  <2>5. IsFiniteSet(Missing') /\ Cardinality(Missing') + (IF queue'.open THEN 1 ELSE 0) <= faults'
    BY <1>1, <1>5, <2>4, MissingCount DEF LostInv
  <2>6. QED  BY <2>3, <2>5 DEF LostInv
<1>6. QED  BY <1>3, <1>4, <1>5 DEF r

\* Every action keeps LostInv.
LEMMA LostNext ==
  ASSUME OneGeneration, LostInv, [Next]_vars
  PROVE  LostInv'
<1> USE OutboundAssumption
    DEF vars, fileVars, mgrVars, ctlVars, jobVars, mutexVars, workVars, callVars,
        healthVars, boundVars, histVars, idleVars
<1>1. TypeInv' /\ TypeInv
  BY TypeNext DEF LostInv
<1>2. /\ pc \in [Gens -> Pcs] /\ lock \in [Gens -> BOOLEAN]
      /\ rewrite \in [Gens -> File] /\ rewrite' \in [Gens -> File]
      /\ MsgIdOf \in [Cmds -> Ids] /\ faults \in Nat /\ faults' \in Nat
      /\ call \in [Cmds -> {"idle", "building", "accepted", "refused", "dropped"}]
      /\ callGen \in [Cmds -> Gens \cup {NoGen}]
      /\ queue \in File /\ job \in [Gens -> Line]
      /\ instance \in Gens \cup {NoGen}
  BY <1>1 DEF TypeInv, TypeOK
\* Steps that do not touch the queue file.
<1>3. ASSUME UNCHANGED <<queue, verdict>>, faults' = faults \/ faults' = faults + 1,
             \A g \in Gens : pc'[g] = "compactWrite" =>
               pc[g] = "compactWrite" /\ lock'[g] = lock[g] /\ rewrite'[g] = rewrite[g],
             \A c \in Cmds :
               /\ call'[c] = "accepted" => call[c] = "accepted"
               /\ call'[c] = "building" => callGen'[c] \in Gens
      PROVE  LostInv'
  <2>1. \A i : Settled(i)' <=> Settled(i)
    BY <1>3 DEF Settled
  <2>2. Missing' \subseteq Missing
    BY <1>3, <2>1 DEF Missing
  <2>3. IsFiniteSet(Missing') /\ Cardinality(Missing') + (IF queue'.open THEN 1 ELSE 0) <= faults'
    BY <1>2, <1>3, <2>2, MissingCount DEF LostInv
  <2>4. ShownBy(queue)' /\ \A g \in Gens : pc'[g] = "compactWrite" => ShownBy(rewrite[g])'
    BY <1>3, <2>1 DEF LostInv, ShownBy
  <2>5. QED  BY <1>1, <1>3, <2>3, <2>4 DEF LostInv
<1>4. ASSUME NEW g \in Gens, pc[g] # "compactWrite" PROVE \A h \in Gens : pc[h] # "compactWrite"
  BY <1>4 DEF OneGeneration
<1>5. ASSUME NEW c \in Cmds, ToolCall(c) PROVE LostInv'
  BY <1>2, <1>3, <1>5 DEF ToolCall, LostInv
<1>6. ASSUME NEW c \in Cmds, ToolBuildFails(c) PROVE LostInv'
  BY <1>2, <1>3, <1>6 DEF ToolBuildFails, LostInv
<1>7. ASSUME NEW c \in Cmds, ToolAppend(c) PROVE LostInv'
  <2>1. \A g \in Gens : pc'[g] # "compactWrite"
    BY <1>7 DEF ToolAppend, LockFree, OneGeneration, LostInv
  <2>2. \/ queue' = AppendLine(queue, FreshRow(c)) /\ faults' = faults
        \/ /\ queue' \in FailedAppends(queue, FreshRow(c), Faults) /\ faults' = faults + 1
           /\ call'[c] # "accepted"
    BY <1>2, <1>7 DEF ToolAppend, WriteError
  <2>3. \A d \in Cmds : /\ call'[d] = "accepted" => call[d] = "accepted" \/ d = c
                        /\ call'[d] = "building" =>
                             call[d] = "building" /\ callGen'[d] = callGen[d]
    BY <1>2, <1>7 DEF ToolAppend
  <2>4. UNCHANGED verdict
    BY <1>7 DEF ToolAppend
  <2>5. QED  BY <1>1, <2>1, <2>2, <2>3, <2>4, LostCaller
<1>8. ASSUME NEW g \in Gens, NEW c \in Cmds, BrokerCommand(g, c) PROVE LostInv'
  <2>1. \A h \in Gens : pc'[h] # "compactWrite"
    BY <1>4, <1>8 DEF BrokerCommand
  <2>2. \/ queue' = AppendLine(queue, FreshRow(c)) /\ faults' = faults
        \/ /\ queue' \in FailedAppends(queue, FreshRow(c), Faults) /\ faults' = faults + 1
           /\ call'[c] # "accepted"
        \/ UNCHANGED <<queue, faults>> /\ call'[c] # "accepted"
    BY <1>2, <1>8 DEF BrokerCommand, WriteError
  <2>3. \A d \in Cmds : /\ call'[d] = "accepted" => call[d] = "accepted" \/ d = c
                        /\ call'[d] = "building" =>
                             call[d] = "building" /\ callGen'[d] = callGen[d]
    BY <1>2, <1>8 DEF BrokerCommand
  <2>4. UNCHANGED verdict
    BY <1>8 DEF BrokerCommand
  <2>5. QED  BY <1>1, <2>1, <2>2, <2>3, <2>4, LostCaller
<1>9. ASSUME NEW g \in Gens, CompactRead(g) PROVE LostInv'
  <2>1. CASE ~CompactNeeded(queue)
    <3>1. \A h \in Gens : pc'[h] # "compactWrite"
      BY <1>2, <1>4, <1>9, <2>1 DEF CompactRead, Goto
    <3>2. UNCHANGED <<queue, verdict, faults, call, callGen>>
      BY <1>9 DEF CompactRead
    <3>3. QED  BY <1>3, <3>1, <3>2 DEF LostInv
  <2>2. CASE CompactNeeded(queue)
    <3>1. PICK f \in Listings(ListPending(queue)) :
            rewrite' = [rewrite EXCEPT ![g] = f]
      BY <1>9, <2>2 DEF CompactRead
    <3>2. UNCHANGED <<queue, verdict, faults, call, callGen>>
      BY <1>9 DEF CompactRead
    <3>3. ~f.open /\ \A i : IsPending(queue, i) <=> IsPending(f, i)
      BY <1>2, PendingAfterCompact DEF Listings
    <3>4. \A h \in Gens : h = g
      BY DEF OneGeneration
    <3>5. rewrite'[g] = f /\ lock'[g] = TRUE
      BY <1>2, <1>9, <2>2, <3>1 DEF CompactRead
    <3>6. ShownBy(f)' /\ ShownBy(queue)'
      BY <3>2, <3>3 DEF LostInv, ShownBy, Settled
    <3>7. Missing' = Missing
      BY <3>2 DEF Missing, Settled
    <3>8. QED
      BY <1>1, <3>2, <3>3, <3>4, <3>5, <3>6, <3>7 DEF LostInv
  <2>3. QED  BY <2>1, <2>2
<1>10. ASSUME NEW g \in Gens, CompactWrite(g) PROVE LostInv'
  <2>1. /\ queue' = rewrite[g] /\ ~queue'.open /\ ShownBy(rewrite[g])
        /\ UNCHANGED <<verdict, faults, call, callGen>>
    BY <1>10 DEF CompactWrite, LostInv
  <2>2. Solid(queue') = queue'
    BY <2>1 DEF Solid
  <2>3. \A i \in Ids : IsPending(Solid(queue), i) => IsPending(Solid(queue'), i) \/ Settled(i)'
    BY <2>1, <2>2 DEF ShownBy, Settled
  <2>4. ShownBy(queue)'
    BY <2>2 DEF ShownBy
  <2>5. Missing' \subseteq Missing
    <3>1. \A i \in Ids : Settled(i) => Settled(i)'
      BY <2>1 DEF Settled
    <3>2. QED  BY <2>1, <2>3, <3>1, MissingGrows
  <2>6. IsFiniteSet(Missing') /\ Cardinality(Missing') + (IF queue'.open THEN 1 ELSE 0) <= faults'
    BY <1>2, <2>1, <2>5, MissingCount DEF LostInv
  <2>7. \A h \in Gens : pc'[h] # "compactWrite"
    BY <1>2, <1>10 DEF CompactWrite, Goto, OneGeneration
  <2>8. QED  BY <1>1, <2>1, <2>4, <2>6, <2>7 DEF LostInv
<1>11. ASSUME NEW g \in Gens, TrimRead(g) \/ TrimWrite(g) PROVE LostInv'
  <2>1. \A h \in Gens : pc'[h] # "compactWrite"
    BY <1>2, <1>4, <1>11 DEF TrimRead, TrimWrite, Goto, OneGeneration
  <2>2. UNCHANGED <<queue, verdict, faults, call, callGen>>
    BY <1>11 DEF TrimRead, TrimWrite
  <2>3. QED  BY <1>3, <2>1, <2>2 DEF LostInv
<1>12. ASSUME NEW g \in Gens, MarkDone(g) PROVE LostInv'
  <2>1. \A h \in Gens : pc'[h] # "compactWrite"
    BY <1>2, <1>12 DEF MarkDone, Goto, AbortTick, OneGeneration
  <2>2. UNCHANGED <<call, callGen>> /\ Settle(job[g].id, "sent")
    BY <1>12 DEF MarkDone
  <2>3. CASE UNCHANGED <<queue, faults>>
    <3>1. /\ \A i \in Ids : Settled(i) => Settled(i)'
          /\ \A i \in Ids : verdict'[i] = "none" => verdict[i] = "none"
      BY <1>1, <2>2 DEF Settle, Settled, TypeInv, TypeOK
    <3>2. Missing' \subseteq Missing
      BY <2>2, <2>3, <3>1, MissingGrows
    <3>3. IsFiniteSet(Missing') /\ Cardinality(Missing') + (IF queue'.open THEN 1 ELSE 0) <= faults'
      BY <1>2, <2>3, <3>2, MissingCount DEF LostInv
    <3>4. ShownBy(queue)'
      BY <2>3, <3>1 DEF ShownBy, LostInv
    <3>5. QED  BY <1>1, <2>1, <2>2, <3>3, <3>4 DEF LostInv
  <2>4. CASE \E r \in LatestRow(job[g].id) :
               \/ queue' = AppendLine(queue, Tombstone(r)) /\ faults' = faults
               \/ queue' \in FailedAppends(queue, Tombstone(r), Faults) /\ faults' = faults + 1
    <3>1. PICK r \in LatestRow(job[g].id) :
            \/ queue' = AppendLine(queue, Tombstone(r)) /\ faults' = faults
            \/ queue' \in FailedAppends(queue, Tombstone(r), Faults) /\ faults' = faults + 1
      BY <2>4
    <3>2. r \in Row /\ r.id = job[g].id
      BY <1>2, LatestPerIdType DEF LatestRow
    <3>3. Tombstone(r) \in Row /\ Tombstone(r).id = job[g].id /\ Tombstone(r).done
      BY <3>2 DEF Tombstone, Row
    <3>4. QED  BY <1>1, <2>1, <2>2, <3>1, <3>3, LostWorker
  <2>5. QED  BY <1>12, <2>3, <2>4 DEF MarkDone, WriteError
<1>13. ASSUME NEW g \in Gens, DlqTombstone(g) PROVE LostInv'
  <2>1. \A h \in Gens : pc'[h] # "compactWrite"
    BY <1>2, <1>13 DEF DlqTombstone, Goto, AbortTick, OneGeneration
  <2>2. job[g] \in Row
    BY <1>1, <1>13 DEF DlqTombstone, TypeInv, Busy
  <2>3. Tombstone(job[g]) \in Row /\ Tombstone(job[g]).id = job[g].id /\ Tombstone(job[g]).done
    BY <2>2 DEF Tombstone, Row
  <2>4. \/ queue' = AppendLine(queue, Tombstone(job[g])) /\ faults' = faults
        \/ queue' \in FailedAppends(queue, Tombstone(job[g]), Faults) /\ faults' = faults + 1
    BY <1>13 DEF DlqTombstone, WriteError
  <2>5. PICK why \in {"rejected", "exhausted"} : Settle(job[g].id, why)
    BY <1>13 DEF DlqTombstone
  <2>6. UNCHANGED <<call, callGen>>
    BY <1>13 DEF DlqTombstone
  <2>7. QED  BY <1>1, <2>1, <2>3, <2>4, <2>5, <2>6, LostWorker
<1>14. ASSUME NEW g \in Gens, DlqRow(g) PROVE LostInv'
  <2>1. \A h \in Gens : pc'[h] # "compactWrite"
    BY <1>2, <1>14 DEF DlqRow, Goto, AbortTick, OneGeneration
  <2>2. UNCHANGED <<queue, verdict, call, callGen>> /\ (faults' = faults \/ faults' = faults + 1)
    BY <1>14 DEF DlqRow, WriteError
  <2>3. QED  BY <1>3, <2>1, <2>2 DEF LostInv
<1>15. ASSUME NEW g \in Gens, UpdateRow(g) PROVE LostInv'
  <2> DEFINE r == [job[g] EXCEPT !.attempts = @ + 1]
  <2>1. \A h \in Gens : pc'[h] # "compactWrite"
    BY <1>2, <1>15 DEF UpdateRow, Goto, AbortTick, OneGeneration
  <2>2. r \in Row /\ ~r.done
    BY <1>1, <1>15 DEF UpdateRow, TypeInv, Busy, Row
  <2>3. \/ queue' = AppendLine(queue, r) /\ faults' = faults
        \/ queue' \in FailedAppends(queue, r, Faults) /\ faults' = faults + 1
    BY <1>15 DEF UpdateRow, WriteError
  <2>4. UNCHANGED <<call, callGen, verdict>>
    BY <1>15 DEF UpdateRow
  <2> HIDE DEF r
  <2>5. QED  BY <1>1, <2>1, <2>2, <2>3, <2>4, LostWorker
<1>16. ASSUME NEW g \in Gens,
              \/ WorkerCancelled(g) \/ DrainTick(g) \/ SendStart(g) \/ DrainEnd(g)
              \/ SmtpReply(g) \/ Ack(g) \/ AddAccount(g) \/ BreakerCools(g)
              \/ RelayAccepts(g)
       PROVE  LostInv'
  <2>1. \A h \in Gens : pc'[h] = "compactWrite" => pc[h] = "compactWrite"
    BY <1>2, <1>16
       DEF WorkerCancelled, DrainTick, SendStart, DrainEnd, SmtpReply, SmtpSent,
           SmtpPermanent, SmtpTransient, SmtpNetworkError, Ack, AddAccount, Goto,
           BreakerCools, RelayAccepts
  <2>2. UNCHANGED <<queue, verdict, faults, call, callGen, lock, rewrite>>
    BY <1>16
       DEF WorkerCancelled, DrainTick, SendStart, DrainEnd, SmtpReply, SmtpSent,
           SmtpPermanent, SmtpTransient, SmtpNetworkError, Ack, AddAccount,
           BreakerCools, RelayAccepts
  <2>3. QED  BY <1>3, <2>1, <2>2 DEF LostInv
<1>17. ASSUME NEW i \in Ids, BackoffElapses(i) PROVE LostInv'
  BY <1>3, <1>17 DEF BackoffElapses, LostInv
<1>18. CASE RemoveAccount \/ RemoveFinish \/ Stop
  <2>1. UNCHANGED <<queue, verdict, faults, call, callGen, pc, lock, rewrite>>
    BY <1>18 DEF RemoveAccount, RemoveFinish, Stop
  <2>2. QED  BY <1>3, <2>1 DEF LostInv
<1>19. CASE Restart \/ Crash
  <2>1. LoseMemory /\ UNCHANGED <<queue, verdict, faults>>
    BY <1>19 DEF Restart, Crash
  <2>2. \A g \in Gens : pc'[g] # "compactWrite"
    BY <2>1 DEF LoseMemory, FreshWorkers
  <2>3. \A c \in Cmds : call'[c] # "building" /\ (call'[c] = "accepted" => call[c] = "accepted")
    BY <1>2, <2>1 DEF LoseMemory
  <2>4. QED  BY <1>3, <2>1, <2>2, <2>3
<1>20. CASE UNCHANGED vars
  <2>1. UNCHANGED <<queue, verdict, faults, call, callGen, pc, lock, rewrite>>
    BY <1>20
  <2>2. QED  BY <1>3, <2>1 DEF LostInv
<1>21. QED
  BY <1>5, <1>6, <1>7, <1>8, <1>9, <1>10, <1>11, <1>12, <1>13, <1>14, <1>15, <1>16,
     <1>17, <1>18, <1>19, <1>20 DEF Next, Caller, Worker

\* Also when appends stop half way and kill the process, with one generation
\* per process: however long the dispatcher runs, no more accepted commands are
\* lost than writes failed.
THEOREM LossIsBounded ==
  ASSUME OneGeneration
  PROVE  Spec => []LossBoundedByFaults
<1>1. LostInv /\ [Next]_vars => LostInv'
  BY LostNext
<1>2. LostInv => LossBoundedByFaults
  <2> SUFFICES ASSUME LostInv PROVE LossBoundedByFaults
    OBVIOUS
  <2> DEFINE lost == { c \in Cmds : /\ call[c] = "accepted"
                                    /\ ~IsPending(queue, MsgIdOf[c])
                                    /\ ~Settled(MsgIdOf[c]) }
  <2>1. lost \in SUBSET Missing
    <3>1. \A c \in Cmds : MsgIdOf[c] \in Ids
      BY OutboundAssumption
    <3>2. QED  BY <3>1 DEF LostInv, ShownBy, Missing
  <2>2. faults \in Nat /\ IsFiniteSet(Missing) /\ Cardinality(Missing) \in Nat
        /\ Cardinality(Missing) + (IF queue.open THEN 1 ELSE 0) <= faults
    BY FS_CardinalityType DEF LostInv, TypeInv, TypeOK
  <2> HIDE DEF lost
  <2>3. IsFiniteSet(lost) /\ Cardinality(lost) <= Cardinality(Missing)
    BY <2>1, <2>2, FS_Subset
  <2>4. Cardinality(lost) \in Nat
    BY <2>3, FS_CardinalityType
  <2>5. Cardinality(lost) <= faults
    BY <2>2, <2>3, <2>4
  <2>6. QED  BY <2>5 DEF lost, LossBoundedByFaults
<1>3. QED  BY <1>1, <1>2, LostInit, PTL DEF Spec
=============================================================================
