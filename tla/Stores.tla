------------------------------- MODULE Stores -------------------------------
(***************************************************************************)
(* The two SQLite stores and the attachment directory                      *)
(* (src/src/attachment_store.rs, bounce_store.rs, write_dedup of           *)
(* mime_parse.rs), the inbound workers that fill them, the daily task of   *)
(* plugin.rs that empties them, and the tools that read them               *)
(* (tool/attachment_get.rs, tool/send.rs).                                 *)
(*                                                                         *)
(* A step is one SQL statement or one file operation: between two of them  *)
(* every other task may run.  The directory is shared by all accounts, a   *)
(* file is named by the hash of its content.  The workers write under the  *)
(* path of the config (inbound.rs:150), everyone else looks under it       *)
(* joined to the data directory (plugin.rs:381, :486).                     *)
(***************************************************************************)
EXTENDS Naturals, FiniteSets

CONSTANTS
  Instances,         \* accounts that have, or will have, a worker
  Kept,              \* those of the config at start: kept_instances
  Shas,              \* attachment hashes
  Spellings, Recipients,
  Classes,           \* of a bounce: permanent, transient, unknown
  Norm,              \* [Spellings -> Recipients]: trim, lowercase
  Nil,
  OneDir,            \* the path of the config means the same directory under
                     \* the working directory and under the data directory
  AttRetention, BounceRetention,   \* in clock units; 0 disables
  MaxTime, MaxFaults, MaxMails, MaxCalls   \* bounds

ASSUME StoresAssumption ==
  /\ Kept \subseteq Instances /\ Norm \in [Spellings -> Recipients]
  /\ Nil \notin Shas /\ Nil \notin Nat /\ OneDir \in BOOLEAN
  /\ Nil \notin [class : Classes, seen : Nat] /\ Nil \notin [class : Classes, at : Nat]
  /\ {AttRetention, BounceRetention, MaxTime, MaxFaults,
      MaxMails, MaxCalls} \subseteq Nat

VARIABLES
  clock,
  rows,      \* email_attachments: hash -> last_seen, or Nil
  files,     \* the directory the workers write to
  bounces,   \* email_bounces: <<instance, recipient>> -> row, or Nil
  worker,    \* per instance, the mail its worker is parsing
  gc,        \* the daily task
  send,      \* the email_send call in progress, or queued
  get,       \* the email_attachment_get call in progress, or failed
  mails, calls, faults,
  \* history
  raced,     \* hashes a sweep and a worker handled at the same time
  spilled,   \* hashes whose row or file an error or a kill left behind
  last       \* per key, the last bounce recorded: [class, at] or Nil

stores  == <<rows, files, bounces>>
budgets == <<mails, calls, faults>>
vars == <<clock, stores, worker, gc, send, get, budgets, raced, spilled, last>>

\* The files under data_dir, where the daily task and the tool look.
Found == IF OneDir THEN files ELSE {}

Keys    == Instances \X Recipients

\* left: attachments still to write; cur: the one being written; done: those
\* written and not yet recorded.
IdleWorker == [pc |-> "idle", left |-> {}, cur |-> Nil, done |-> {}]
IdleGc     == [pc |-> "idle", at |-> 0, stale |-> {}, todo |-> {}]
NoSend     == [pc |-> "none", inst |-> Nil, todo |-> {},
               hit |-> FALSE, known |-> {}]
NoGet      == [pc |-> "none", sha |-> Nil, expired |-> FALSE]

TypeOK ==
  /\ clock \in 0..MaxTime
  /\ rows \in [Shas -> (0..MaxTime) \cup {Nil}] /\ files \subseteq Shas
  /\ bounces \in [Keys -> [class : Classes, seen : 0..MaxTime] \cup {Nil}]
  /\ worker \in [Instances -> [pc : {"idle", "write", "record"}, left : SUBSET Shas,
                               cur : Shas \cup {Nil}, done : SUBSET Shas]]
  /\ gc.pc \in {"idle", "remove", "delete", "pruneAge", "pruneOrphan"}
  /\ gc.todo \subseteq gc.stale /\ gc.stale \subseteq Shas
  /\ gc.at \in 0..MaxTime
  /\ send.pc \in {"none", "lookup", "decide", "queued"}
  /\ send.todo \subseteq Spellings /\ send.known \subseteq Keys
  /\ get.pc \in {"none", "found", "gone"}

Init ==
  /\ clock = 0 /\ files = {}
  /\ rows = [s \in Shas |-> Nil] /\ bounces = [k \in Keys |-> Nil]
  /\ worker = [i \in Instances |-> IdleWorker] /\ gc = IdleGc
  /\ send = NoSend /\ get = NoGet
  /\ mails = 0 /\ calls = 0 /\ faults = 0
  /\ raced = {} /\ spilled = {} /\ last = [k \in Keys |-> Nil]

\* An SQL statement or a file operation fails, or the process is killed.
Fault == faults < MaxFaults /\ faults' = faults + 1

Tick ==
  /\ clock < MaxTime /\ clock' = clock + 1
  /\ UNCHANGED <<stores, worker, gc, send, get, budgets, raced, spilled, last>>

-----------------------------------------------------------------------------
(* The inbound workers.                                                    *)

\* parse_eml reaches the attachments of a mail.
Parse(i, as) ==
  /\ worker[i].pc = "idle" /\ mails < MaxMails /\ mails' = mails + 1
  /\ worker' = [worker EXCEPT ![i] = [IdleWorker EXCEPT !.pc = "write", !.left = as]]
  /\ UNCHANGED <<clock, stores, gc, send, get, calls, faults,
                 raced, spilled, last>>

\* The worker once attachment s is in place: the next one, or the records.
InPlace(w, s) ==
  [w EXCEPT !.left = @ \ {s}, !.cur = Nil, !.done = @ \cup {s},
            !.pc = IF w.left \ {s} = {} THEN "record" ELSE "write"]

ExistsByRow(i, s) ==
  /\ worker[i].pc = "write" /\ worker[i].cur = Nil /\ s \in worker[i].left
  /\ worker' = [worker EXCEPT ![i] = IF rows[s] # Nil THEN InPlace(@, s)
                                    ELSE [@ EXCEPT !.cur = s]]
  /\ UNCHANGED <<clock, stores, gc, send, get, budgets, raced, spilled, last>>

\* write_dedup: the file is there already, or its temporary file is written.
Exists(i, s) ==
  /\ worker[i].pc = "write" /\ worker[i].cur = Nil /\ s \in worker[i].left
  /\ worker' = [worker EXCEPT ![i] = IF s \in files THEN InPlace(@, s)
                                    ELSE [@ EXCEPT !.cur = s]]
  /\ UNCHANGED <<clock, stores, gc, send, get, budgets, raced, spilled, last>>

\* The rename that makes the file appear.  When it fails parse_eml fails:
\* the mail is published without attachments and none of them is recorded.
Rename(i) ==
  LET w == worker[i] IN
  /\ w.cur # Nil
  /\ \/ /\ files' = files \cup {w.cur}
        /\ worker' = [worker EXCEPT ![i] = InPlace(w, w.cur)]
        /\ UNCHANGED <<faults, spilled>>
     \/ /\ Fault /\ UNCHANGED files
        /\ worker' = [worker EXCEPT ![i] = IdleWorker]
        /\ spilled' = spilled \cup w.done
  /\ UNCHANGED <<clock, rows, bounces, gc, send, get, mails, calls,
                 raced, last>>

\* AttachmentStore::record, insert or bump.  An error is only logged.
Record(i, s) ==
  LET rest == worker[i].done \ {s} IN
  /\ worker[i].pc = "record" /\ s \in worker[i].done
  /\ worker' = [worker EXCEPT ![i] =
       IF rest = {} THEN IdleWorker ELSE [@ EXCEPT !.done = rest]]
  /\ \/ /\ rows' = [rows EXCEPT ![s] = clock]
        /\ raced' = IF s \in gc.stale THEN raced \cup {s} ELSE raced
        /\ UNCHANGED <<faults, spilled>>
     \/ Fault /\ spilled' = spilled \cup {s} /\ UNCHANGED <<rows, raced>>
  /\ UNCHANGED <<clock, files, bounces, gc, send, get, mails, calls, last>>

\* The store is keyed by the normalised recipient.
Key(i, r) == <<i, Norm[r]>>

\* The row a bounce leaves; the address and the counts are abstracted.
BounceRowUnset(class) == [class |-> Nil, seen |-> clock]
BounceRow(class) == [class |-> class, seen |-> clock]

\* BounceStore::record of a DSN: the newest classification wins.
RecordBounce(i, r, class) ==
  LET k == Key(i, r) IN
  /\ worker[i].pc = "idle" /\ mails < MaxMails /\ mails' = mails + 1
  /\ bounces' = [bounces EXCEPT ![k] = BounceRow(class)]
  /\ last' = [last EXCEPT ![k] = [class |-> class, at |-> clock]]
  /\ send' = [send EXCEPT !.known = @ \ {k}]
  /\ UNCHANGED <<clock, rows, files, worker, gc, get, calls, faults,
                 raced, spilled>>

-----------------------------------------------------------------------------
(* The daily task: gc of the attachments, then prune of the bounces.       *)

Expired(s, now) == rows[s] # Nil /\ rows[s] + AttRetention < now

\* SELECT, with the cutoff the later DELETE uses again.  A disabled gc, or
\* one that finds nothing, or fails, goes on to prune.
GcSelect ==
  LET found == { s \in Shas : Expired(s, clock) } IN
  /\ gc.pc = "idle" /\ AttRetention + BounceRetention > 0
  /\ \/ /\ AttRetention > 0 /\ found # {}
        /\ gc' = [pc |-> "remove", at |-> clock, stale |-> found, todo |-> found]
        /\ UNCHANGED faults
     \/ /\ AttRetention = 0 \/ found = {}
        /\ gc' = [IdleGc EXCEPT !.pc = "pruneAge"] /\ UNCHANGED faults
     \/ /\ AttRetention > 0 /\ Fault /\ gc' = [IdleGc EXCEPT !.pc = "pruneAge"]
  /\ UNCHANGED <<clock, stores, worker, send, get, mails, calls,
                 raced, spilled, last>>

\* remove_file of one hash; that there is no such file is no error, any other
\* error is logged, and the sweep goes on.
GcRemove(s) ==
  LET rest == gc.todo \ {s} IN
  /\ gc.pc = "remove" /\ s \in gc.todo
  /\ gc' = [gc EXCEPT !.todo = rest, !.pc = IF rest = {} THEN "delete" ELSE @]
  /\ \/ /\ files' = files \ ({s} \cap Found)
        /\ raced' = IF \E i \in Instances : s \in worker[i].done
                      THEN raced \cup {s} ELSE raced
        /\ UNCHANGED <<faults, spilled>>
     \/ /\ Fault /\ s \in Found /\ spilled' = spilled \cup {s}
        /\ UNCHANGED <<files, raced>>
  /\ UNCHANGED <<clock, rows, bounces, worker, send, get, mails, calls, last>>

GcDeleteNow ==
  /\ gc.pc = "delete" /\ gc' = [IdleGc EXCEPT !.pc = "pruneAge"]
  /\ \/ /\ rows' = [s \in Shas |-> IF Expired(s, clock) THEN Nil ELSE rows[s]]
        /\ UNCHANGED faults
     \/ Fault /\ UNCHANGED rows
  /\ UNCHANGED <<clock, files, bounces, worker, send, get, mails, calls,
                 raced, spilled, last>>

\* The bulk DELETE, by the cutoff of the SELECT.
GcDelete ==
  /\ gc.pc = "delete" /\ gc' = [IdleGc EXCEPT !.pc = "pruneAge"]
  /\ \/ /\ rows' = [s \in Shas |-> IF Expired(s, gc.at) THEN Nil ELSE rows[s]]
        /\ UNCHANGED faults
     \/ Fault /\ UNCHANGED rows
  /\ UNCHANGED <<clock, files, bounces, worker, send, get, mails, calls,
                 raced, spilled, last>>

\* prune, first half: rows that are too old.  Its error skips the rest.
PruneAge ==
  /\ gc.pc = "pruneAge"
  /\ \/ /\ BounceRetention > 0 /\ gc' = [gc EXCEPT !.pc = "pruneOrphan"]
        /\ bounces' = [k \in Keys |->
             IF bounces[k] # Nil /\ bounces[k].seen + BounceRetention < clock
               THEN Nil ELSE bounces[k]]
        /\ UNCHANGED faults
     \/ /\ BounceRetention > 0 /\ Fault /\ gc' = IdleGc /\ UNCHANGED bounces
     \/ /\ BounceRetention = 0 /\ gc' = IdleGc /\ UNCHANGED <<bounces, faults>>
  /\ UNCHANGED <<clock, rows, files, worker, send, get, mails, calls,
                 raced, spilled, last>>

\* Second half: rows of instances the config at start did not have.
PruneOrphan ==
  /\ gc.pc = "pruneOrphan" /\ gc' = IdleGc
  /\ \/ /\ bounces' = [k \in Keys |->
             IF Kept # {} /\ k[1] \notin Kept THEN Nil ELSE bounces[k]]
        /\ UNCHANGED faults
     \/ Kept # {} /\ Fault /\ UNCHANGED bounces
  /\ UNCHANGED <<clock, rows, files, worker, send, get, mails, calls,
                 raced, spilled, last>>

-----------------------------------------------------------------------------
(* The tools.                                                              *)

\* Keys whose last bounce is a permanent one.
KnownDead(i, rs) ==
  { k \in {Key(i, r) : r \in rs} : last[k] # Nil /\ last[k].class = "permanent" }

\* email_send with strict_bounce_check; without it the same lookups only add
\* warnings to the answer.
SendCall(i, rs) ==
  /\ send.pc \in {"none", "queued"}
  /\ calls < MaxCalls /\ calls' = calls + 1
  /\ send' = [pc |-> "lookup", inst |-> i, todo |-> rs, hit |-> FALSE, known |-> KnownDead(i, rs)]
  /\ UNCHANGED <<clock, stores, worker, gc, get, mails, faults,
                 raced, spilled, last>>

\* The row a lookup of spelling r finds.
LookedRaw(i, r) == IF r \in Recipients THEN bounces[<<i, r>>] ELSE Nil
Looked(i, r) == bounces[Key(i, r)]

\* collect_recipient_warnings, one store.get per recipient; a failing get
\* counts as no bounce.
SendLookup(r) ==
  /\ send.pc = "lookup" /\ r \in send.todo
  /\ LET row == Looked(send.inst, r)
         rest == send.todo \ {r}
         pc == IF rest = {} THEN "decide" ELSE "lookup" IN
     \/ /\ send' = [send EXCEPT !.todo = rest, !.pc = pc,
              !.hit = @ \/ (row # Nil /\ row.class = "permanent")]
        /\ UNCHANGED faults
     \/ /\ Fault
        /\ send' = [send EXCEPT !.todo = rest, !.pc = pc,
              !.known = @ \ {Key(send.inst, r)}]
  /\ UNCHANGED <<clock, stores, worker, gc, get, mails, calls,
                 raced, spilled, last>>

\* The strict check, then enqueue_for_instance.
SendDecide ==
  /\ send.pc = "decide"
  /\ send' = IF send.hit THEN NoSend ELSE [send EXCEPT !.pc = "queued"]
  /\ UNCHANGED <<clock, stores, worker, gc, get, budgets, raced, spilled, last>>

\* email_attachment_get: last_seen, then the file.
GetLookup(s) ==
  /\ get.pc # "found" /\ calls < MaxCalls /\ calls' = calls + 1
  /\ get' = IF rows[s] = Nil THEN NoGet ELSE [NoGet EXCEPT !.pc = "found", !.sha = s]
  /\ UNCHANGED <<clock, stores, worker, gc, send, mails, faults,
                 raced, spilled, last>>

GetRead ==
  /\ get.pc = "found"
  /\ get' = IF get.sha \in Found THEN NoGet
               ELSE [get EXCEPT !.pc = "gone",
                                !.expired = rows[get.sha] = Nil \/ Expired(get.sha, clock)]
  /\ UNCHANGED <<clock, stores, worker, gc, send, budgets, raced, spilled, last>>

\* The process is killed and started again; a mail being parsed is fetched
\* again by a later Parse.
Crash ==
  /\ Fault
  /\ worker' = [i \in Instances |-> IdleWorker] /\ gc' = IdleGc
  /\ send' = NoSend /\ get' = NoGet
  /\ spilled' = spilled \cup
       UNION { worker[i].done : i \in Instances }
  /\ UNCHANGED <<clock, stores, mails, calls, raced, last>>

Worker(i) ==
  \/ \E as \in SUBSET Shas \ {{}} : Parse(i, as)
  \/ \E s \in Shas : Exists(i, s) \/ Record(i, s)
  \/ Rename(i)
  \/ \E r \in Spellings, class \in Classes : RecordBounce(i, r, class)

Gc ==
  \/ GcSelect \/ GcDelete \/ PruneAge \/ PruneOrphan
  \/ \E s \in Shas : GcRemove(s)

Tools ==
  \/ \E i \in Instances, rs \in SUBSET Spellings \ {{}} : SendCall(i, rs)
  \/ \E r \in Spellings : SendLookup(r)
  \/ SendDecide \/ GetRead
  \/ \E s \in Shas : GetLookup(s)

Next == Tick \/ Crash \/ Gc \/ Tools \/ \E i \in Instances : Worker(i)

Spec == Init /\ [][Next]_vars

-----------------------------------------------------------------------------
(* Properties.                                                             *)

\* A hash the store lists can be read back (email_attachment_get) until its
\* retention ends, unless a sweep ran while a worker was handling the same
\* hash: between the exists() and the record of a mail, or between the
\* SELECT and the DELETE of the sweep.
ListedIsReadable ==
  get.pc = "gone" => get.expired \/ get.sha \in raced

\* A file no row refers to is never collected, so it may only stay behind
\* after an error or a kill; while a mail is parsed it waits for its row.
OrphanNeedsFault ==
  \A s \in files : rows[s] # Nil \/ s \in spilled
                     \/ \E i \in Instances : s \in worker[i].done

\* A strict email_send is queued only if no recipient had a permanent bounce
\* as its newest one when the call was made.  Excused are a lookup that
\* failed, a bounce recorded during the call, an expired row, and an
\* instance the daily task does not know (added by a reload).
StrictRefusesKnownBounce ==
  send.pc = "queued" =>
    \A k \in send.known :
      \/ k[1] \notin Kept
      \/ BounceRetention > 0 /\ last[k].at + BounceRetention < clock
=============================================================================
