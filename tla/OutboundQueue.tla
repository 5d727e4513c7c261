--------------------------- MODULE OutboundQueue ---------------------------
(***************************************************************************)
(* The two JSONL files of one account (src/src/outbound_queue.rs): the     *)
(* queue file holds live rows and tombstones, the DLQ file holds the jobs  *)
(* that were given up.  A file is the sequence of its lines plus `open`,   *)
(* which says that the last line has no terminating newline: append_line   *)
(* writes the row and its newline with one buffer, and a write that stops  *)
(* half way leaves such a line, onto which the next append continues.      *)
(* Everything here is a pure operator; Outbound.tla holds the state.       *)
(***************************************************************************)
EXTENDS Naturals, Sequences, FiniteSets, Functions

CONSTANTS Cmds,   \* outbound commands; each is submitted at most once
          Ids,    \* Message-Ids
          Nil     \* no row: a line that does not parse, a worker without job

(***************************************************************************)
(* OutboundJob.  `cmd` stands for envelope and raw_mime.  next_attempt_at  *)
(* is kept by Outbound!resting, last_error and created_at are left out.    *)
(***************************************************************************)
Row == [id : Ids, cmd : Cmds, attempts : Nat, done : BOOLEAN]

ASSUME NilNotRow == Nil \notin Row

Line == Row \cup {Nil}
File == { f \in [lines : Seq(Line), open : BOOLEAN] : f.open => f.lines # <<>> }

EmptyFile == [lines |-> <<>>, open |-> FALSE]

-----------------------------------------------------------------------------
(* Writing.                                                                *)

\* append_line that returns Ok.  After an unterminated line the new row
\* continues that line, and the two together do not parse.
AppendLine(f, r) ==
  IF f.open
  THEN [lines |-> [f.lines EXCEPT ![Len(f.lines)] = Nil], open |-> FALSE]
  ELSE [lines |-> Append(f.lines, r), open |-> FALSE]

\* append_line that returns Err, or is killed, after writing a part of its
\* buffer: either a proper prefix of the row (a line that does not parse), or
\* the whole row without its newline (a last line that does parse).
TornAppends(f, r) ==
  { [lines |-> IF f.open THEN [f.lines EXCEPT ![Len(f.lines)] = Nil]
                         ELSE Append(f.lines, part),
     open  |-> TRUE] : part \in {r, Nil} }

\* What an append may leave behind when it returns Err.
FailedAppends(f, r, faults) ==
  (IF "clean" \in faults THEN {f} ELSE {}) \cup
  (IF "torn" \in faults THEN TornAppends(f, r) ELSE {})

\* Mutant: the tombstone forgets to set `done`.
TombstoneUndone(r) == r

Tombstone(r) == [r EXCEPT !.done = TRUE]

-----------------------------------------------------------------------------
(* Reading.                                                                *)

\* Mutant: the fold keeps the first row of an id instead of the last.
IsFirst(f, k) ==
  /\ f.lines[k] # Nil
  /\ \A j \in 1..(k-1) : f.lines[j] # Nil => f.lines[j].id # f.lines[k].id

\* read_latest_per_id: line k parses and no later line of the same id does.
IsLatest(f, k) ==
  /\ f.lines[k] # Nil
  /\ \A j \in (k+1)..Len(f.lines) :
        f.lines[j] # Nil => f.lines[j].id # f.lines[k].id

\* read_latest_per_id: the values of the map it returns.
LatestPerId(f) == { f.lines[k] : k \in {k \in 1..Len(f.lines) : IsLatest(f, k)} }

\* list_pending.  Its sort by created_at is dropped: the timestamps have a
\* resolution of one second, so the order of a batch is any order.
ListPending(f) == { r \in LatestPerId(f) : ~r.done }

\* list_pending, asked about one id.
IsPending(f, i) == \E r \in ListPending(f) : r.id = i

\* dlq_count / count_lines: every non-empty line counts, parseable or not.
CountLines(f) == Len(f.lines)

-----------------------------------------------------------------------------
(* Rewriting.                                                              *)

\* compact_if_needed runs when at least COMPACT_DONE_RATIO = 0.5 of the ids
\* in the file are done.
CompactNeeded(f) ==
  LET latest == LatestPerId(f)
      done   == { r \in latest : r.done }
  IN  /\ latest # {}
      /\ 2 * Cardinality(done) >= Cardinality(latest)

\* The rewritten file: the live rows, in the order a HashMap yields them.
Listings(rows) ==
  { [lines |-> s, open |-> FALSE] :
      s \in { t \in [1..Cardinality(rows) -> rows] : Range(t) = rows } }

\* Mutant: the trim keeps the oldest lines.
TrimKeepsHead(f, max) == [lines |-> SubSeq(f.lines, 1, max), open |-> FALSE]

\* trim_dlq: keep the most recent `max` lines; max = 0 disables the cap.
TrimNeeded(f, max) == max # 0 /\ CountLines(f) > max

Trimmed(f, max) ==
  [lines |-> SubSeq(f.lines, CountLines(f) - max + 1, CountLines(f)),
   open  |-> FALSE]
=============================================================================
