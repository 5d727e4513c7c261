---------------------------- MODULE StoresProofs ----------------------------
(***************************************************************************)
(* Theorems about Stores, for every set of accounts, hashes and addresses, *)
(* every retention and every number of mails, calls and faults.            *)
(***************************************************************************)
EXTENDS Stores, TLAPS

\* A worker that parses no mail has nothing to record.
WorkerRec == { w \in [pc : {"idle", "write", "record"}, left : SUBSET Shas,
                      cur : Shas \cup {Nil}, done : SUBSET Shas] :
                 w.pc = "idle" => w.done = {} }
GcRec == [pc : {"idle", "remove", "delete", "pruneAge", "pruneOrphan"},
          at : 0..MaxTime, stale : SUBSET Shas, todo : SUBSET Shas]
SendRec == [pc : {"none", "lookup", "decide", "queued"}, inst : Instances \cup {Nil},
            todo : SUBSET Spellings, hit : BOOLEAN, known : SUBSET Keys]
GetRec == [pc : {"none", "found", "gone"}, sha : Shas \cup {Nil}, expired : BOOLEAN]

Rows   == [Shas -> (0..MaxTime) \cup {Nil}]
Bounced == [Keys -> [class : Classes, seen : 0..MaxTime] \cup {Nil}]
Newest == [Keys -> [class : Classes, at : 0..MaxTime] \cup {Nil}]

TypeInv ==
  /\ TypeOK /\ worker \in [Instances -> WorkerRec]
  /\ gc \in GcRec /\ send \in SendRec /\ get \in GetRec /\ last \in Newest
  /\ send.pc # "none" => send.inst \in Instances
  /\ get.pc # "none" => get.sha \in Shas
  /\ gc.pc # "remove" => gc.todo = {}
  /\ gc.pc \notin {"remove", "delete"} => gc.stale = {}
  /\ gc.at <= clock

\* The same, variable by variable.
Typed ==
  /\ clock \in 0..MaxTime /\ rows \in Rows /\ files \subseteq Shas
  /\ bounces \in Bounced /\ worker \in [Instances -> WorkerRec]

\* What TypeInv says of the variables.
LEMMA TypeParts ==
  TypeInv <=> /\ Typed /\ gc \in GcRec /\ send \in SendRec /\ get \in GetRec
              /\ last \in Newest /\ gc.todo \subseteq gc.stale
              /\ send.pc # "none" => send.inst \in Instances
              /\ get.pc # "none" => get.sha \in Shas
              /\ gc.pc # "remove" => gc.todo = {}
              /\ gc.pc \notin {"remove", "delete"} => gc.stale = {}
              /\ gc.at <= clock
BY DEF TypeInv, TypeOK, Typed, Rows, Bounced, WorkerRec, GcRec, SendRec, GetRec

\* The same of the next state.
LEMMA TypePartsNext ==
  ASSUME /\ Typed' /\ gc' \in GcRec /\ send' \in SendRec /\ get' \in GetRec
         /\ last' \in Newest /\ gc'.todo \subseteq gc'.stale
         /\ send'.pc # "none" => send'.inst \in Instances
         /\ get'.pc # "none" => get'.sha \in Shas
         /\ gc'.pc # "remove" => gc'.todo = {}
         /\ gc'.pc \notin {"remove", "delete"} => gc'.stale = {}
         /\ gc'.at <= clock'
  PROVE  TypeInv'
BY DEF TypeInv, TypeOK, Typed, Rows, Bounced, WorkerRec, GcRec, SendRec, GetRec

\* The bounds and retentions are numbers.
LEMMA Numbers ==
  /\ AttRetention \in Nat /\ BounceRetention \in Nat /\ MaxTime \in Nat
  /\ MaxFaults \in Nat /\ MaxMails \in Nat /\ MaxCalls \in Nat
BY StoresAssumption

\* What nobody is at.
LEMMA Idles ==
  /\ IdleWorker \in WorkerRec /\ IdleWorker.done = {} /\ IdleWorker.cur = Nil
  /\ IdleGc \in GcRec /\ IdleGc.pc = "idle" /\ IdleGc.at = 0 /\ IdleGc.stale = {}
  /\ IdleGc.todo = {}
  /\ NoSend \in SendRec /\ NoSend.pc = "none" /\ NoSend.known = {}
  /\ NoGet \in GetRec /\ NoGet.pc = "none"
<1>1. 0 \in 0..MaxTime
  BY Numbers
<1>2. QED
  BY <1>1 DEF IdleWorker, WorkerRec, IdleGc, GcRec, NoSend, SendRec, NoGet, GetRec

\* Base case.
LEMMA TypeInit == Init => TypeInv
<1> SUFFICES ASSUME Init PROVE TypeInv
  OBVIOUS
<1>1. /\ clock = 0 /\ files = {} /\ rows = [s \in Shas |-> Nil]
      /\ bounces = [k \in Keys |-> Nil] /\ last = [k \in Keys |-> Nil]
      /\ worker = [i \in Instances |-> IdleWorker]
      /\ gc = IdleGc /\ send = NoSend /\ get = NoGet
  BY DEF Init
<1>2. clock \in 0..MaxTime
  BY <1>1, Numbers
<1>3. Typed /\ last \in Newest
  BY <1>1, <1>2, Idles DEF Typed, Rows, Bounced, Newest
<1>4. QED  BY <1>1, <1>3, Idles, TypeParts

-----------------------------------------------------------------------------
(* What a step of a worker or of the daily task does to its record.        *)

\* An attachment is in place.
LEMMA InPlaceType ==
  ASSUME NEW w \in WorkerRec, NEW s \in Shas
  PROVE  InPlace(w, s) \in WorkerRec /\ InPlace(w, s).done = w.done \cup {s}
BY DEF InPlace, WorkerRec

\* A worker takes up a mail.
LEMMA ParseStep ==
  ASSUME TypeInv, NEW i \in Instances, NEW as \in SUBSET Shas, Parse(i, as)
  PROVE  /\ worker[i].done = {}
         /\ \E w \in WorkerRec : worker' = [worker EXCEPT ![i] = w] /\ w.done = {}
<1>1. [IdleWorker EXCEPT !.pc = "write", !.left = as] \in WorkerRec
      /\ [IdleWorker EXCEPT !.pc = "write", !.left = as].done = {}
  BY DEF IdleWorker, WorkerRec
<1>2. worker[i].done = {}
  BY TypeParts DEF Typed, WorkerRec, Parse
<1>3. QED  BY <1>1, <1>2 DEF Parse

\* The file is there, or its temporary file is written.
LEMMA ExistsStep ==
  ASSUME TypeInv, NEW i \in Instances, NEW s \in Shas, Exists(i, s)
  PROVE  \E w \in WorkerRec :
           /\ worker' = [worker EXCEPT ![i] = w]
           /\ \/ w.done = worker[i].done
              \/ w.done = worker[i].done \cup {s} /\ s \in files
<1>1. worker[i] \in WorkerRec /\ worker \in [Instances -> WorkerRec]
  BY TypeParts DEF Typed
<1>2. CASE s \in files
  <2>1. worker' = [worker EXCEPT ![i] = InPlace(worker[i], s)]
    BY <1>1, <1>2 DEF Exists
  <2>2. QED  BY <1>1, <1>2, <2>1, InPlaceType
<1>3. CASE s \notin files
  <2>1. worker' = [worker EXCEPT ![i] = [worker[i] EXCEPT !.cur = s]]
    BY <1>1, <1>3 DEF Exists
  <2>2. [worker[i] EXCEPT !.cur = s] \in WorkerRec
        /\ [worker[i] EXCEPT !.cur = s].done = worker[i].done
    BY <1>1 DEF WorkerRec
  <2>3. QED  BY <2>1, <2>2
<1>4. QED  BY <1>2, <1>3

\* The file appears, or parse_eml fails.
LEMMA RenameStep ==
  ASSUME TypeInv, NEW i \in Instances, Rename(i)
  PROVE  \E w \in WorkerRec :
           /\ worker' = [worker EXCEPT ![i] = w]
           /\ \/ /\ \E s \in Shas : files' = files \cup {s} /\ w.done = worker[i].done \cup {s}
                 /\ spilled' = spilled
              \/ /\ files' = files /\ w.done = {}
                 /\ spilled' = spilled \cup worker[i].done
<1>1. worker[i] \in WorkerRec /\ worker \in [Instances -> WorkerRec]
  BY TypeParts DEF Typed
<1>2. worker[i].cur \in Shas
  BY <1>1 DEF Rename, WorkerRec
<1>3. CASE /\ files' = files \cup {worker[i].cur} /\ spilled' = spilled
           /\ worker' = [worker EXCEPT ![i] = InPlace(worker[i], worker[i].cur)]
  <2>1. /\ InPlace(worker[i], worker[i].cur) \in WorkerRec
        /\ InPlace(worker[i], worker[i].cur).done = worker[i].done \cup {worker[i].cur}
    BY <1>1, <1>2, InPlaceType
  <2>2. QED  BY <1>2, <1>3, <2>1
<1>4. CASE /\ files' = files /\ worker' = [worker EXCEPT ![i] = IdleWorker]
           /\ spilled' = spilled \cup worker[i].done
  BY <1>4, Idles
<1>5. QED  BY <1>3, <1>4 DEF Rename

\* A row is written, or the error is logged.
LEMMA RecordStep ==
  ASSUME TypeInv, NEW i \in Instances, NEW s \in Shas, Record(i, s)
  PROVE  /\ s \in worker[i].done
         /\ \E w \in WorkerRec :
              worker' = [worker EXCEPT ![i] = w] /\ w.done = worker[i].done \ {s}
         /\ \/ /\ rows' = [rows EXCEPT ![s] = clock] /\ spilled' = spilled
               /\ raced' = IF s \in gc.stale THEN raced \cup {s} ELSE raced
            \/ rows' = rows /\ spilled' = spilled \cup {s} /\ raced' = raced
<1>1. worker[i] \in WorkerRec /\ worker \in [Instances -> WorkerRec]
  BY TypeParts DEF Typed
<1> DEFINE rest == worker[i].done \ {s}
<1>2. CASE rest = {}
  <2>1. worker' = [worker EXCEPT ![i] = IdleWorker]
    BY <1>1, <1>2 DEF Record
  <2>2. QED  BY <1>2, <2>1, Idles DEF Record
<1>3. CASE rest # {}
  <2>1. worker' = [worker EXCEPT ![i] = [worker[i] EXCEPT !.done = rest]]
    BY <1>1, <1>3 DEF Record
  <2>2. [worker[i] EXCEPT !.done = rest] \in WorkerRec
        /\ [worker[i] EXCEPT !.done = rest].done = rest
    BY <1>1 DEF WorkerRec
  <2>3. QED  BY <2>1, <2>2 DEF Record
<1>4. QED  BY <1>2, <1>3

\* The sweep selects, or there is none.
LEMMA GcSelectStep ==
  ASSUME TypeInv, GcSelect
  PROVE  /\ gc' \in GcRec /\ gc.pc = "idle"
         /\ \/ /\ gc'.pc = "remove" /\ gc'.at = clock /\ gc'.todo = gc'.stale
               /\ gc'.stale = { s \in Shas : Expired(s, clock) }
            \/ gc'.pc = "pruneAge" /\ gc'.at = 0 /\ gc'.stale = {} /\ gc'.todo = {}
<1> DEFINE found == { s \in Shas : Expired(s, clock) }
<1>1. CASE gc' = [pc |-> "remove", at |-> clock, stale |-> found, todo |-> found]
  <2>1. found \in SUBSET Shas /\ clock \in 0..MaxTime
    BY TypeParts DEF Typed
  <2> HIDE DEF found
  <2>2. gc' \in GcRec
    BY <1>1, <2>1 DEF GcRec
  <2>3. QED  BY <1>1, <2>2 DEF GcSelect, found
<1>2. CASE gc' = [IdleGc EXCEPT !.pc = "pruneAge"]
  BY <1>2, Idles DEF IdleGc, GcRec, GcSelect
<1>3. QED  BY <1>1, <1>2 DEF GcSelect

\* One file of the sweep.
LEMMA GcRemoveStep ==
  ASSUME TypeInv, NEW s \in Shas, GcRemove(s)
  PROVE  /\ gc.pc = "remove" /\ s \in gc.todo /\ gc' \in GcRec
         /\ gc'.stale = gc.stale /\ gc'.at = gc.at /\ gc'.todo = gc.todo \ {s}
         /\ gc'.pc = "remove" \/ (gc'.pc = "delete" /\ gc'.todo = {})
<1> DEFINE rest == gc.todo \ {s}
<1>1. gc \in GcRec /\ gc.pc = "remove" /\ s \in gc.todo
  BY TypeParts DEF GcRemove
<1>2. CASE rest = {}
  <2>1. gc' = [gc EXCEPT !.todo = rest, !.pc = "delete"]
    BY <1>2 DEF GcRemove
  <2>2. QED  BY <1>1, <1>2, <2>1 DEF GcRec
<1>3. CASE rest # {}
  <2>1. gc' = [gc EXCEPT !.todo = rest, !.pc = gc.pc]
    BY <1>3 DEF GcRemove
  <2>2. QED  BY <1>1, <2>1 DEF GcRec
<1>4. QED  BY <1>2, <1>3

\* The sweep is over, and the prune goes on.
LEMMA GcDeleteStep ==
  ASSUME TypeInv, GcDelete
  PROVE  /\ gc' \in GcRec /\ gc.pc = "delete" /\ gc'.pc = "pruneAge" /\ gc'.stale = {}
         /\ gc'.todo = {} /\ gc'.at = 0
BY Idles DEF GcDelete, GcRec, IdleGc

\* The two halves of prune.
LEMMA PruneStep ==
  ASSUME TypeInv, PruneAge \/ PruneOrphan
  PROVE  /\ gc' \in GcRec /\ gc.pc \notin {"remove", "delete"}
         /\ gc'.pc \in {"pruneOrphan", "idle"} /\ gc'.stale = {} /\ gc'.todo = {}
         /\ gc'.at <= clock
<1>1. gc \in GcRec /\ clock \in 0..MaxTime /\ gc.at <= clock
  BY TypeParts DEF Typed
<1>2. 0 <= clock
  BY <1>1
<1>3. CASE gc' = IdleGc
  BY <1>2, <1>3, Idles DEF PruneAge, PruneOrphan
<1>4. CASE gc.pc = "pruneAge" /\ gc' = [gc EXCEPT !.pc = "pruneOrphan"]
  <2>1. gc.stale = {} /\ gc.todo = {}
    BY <1>4, TypeParts
  <2>2. QED  BY <1>1, <1>4, <2>1 DEF GcRec
<1>5. QED  BY <1>3, <1>4 DEF PruneAge, PruneOrphan

\* email_send is called: the keys to refuse are those whose newest bounce is
\* permanent.
LEMMA SendCallStep ==
  ASSUME TypeInv, NEW i \in Instances, NEW rs \in SUBSET Spellings, SendCall(i, rs)
  PROVE  /\ send' \in SendRec /\ send'.pc = "lookup" /\ send'.inst = i /\ send'.todo = rs
         /\ send'.known = KnownDead(i, rs)
<1>1. KnownDead(i, rs) \subseteq Keys
  BY StoresAssumption DEF KnownDead, Key, Keys
<1>2. QED  BY <1>1 DEF SendCall, SendRec

\* One recipient is looked up.
LEMMA SendLookupStep ==
  ASSUME TypeInv, NEW r \in Spellings, SendLookup(r)
  PROVE  /\ send.pc = "lookup" /\ r \in send.todo /\ send' \in SendRec
         /\ send'.inst = send.inst /\ send'.todo = send.todo \ {r}
         /\ send'.pc = "lookup" \/ (send'.pc = "decide" /\ send'.todo = {})
         /\ \/ /\ send'.known = send.known
               /\ send'.hit <=> \/ send.hit
                                \/ /\ Looked(send.inst, r) # Nil
                                   /\ Looked(send.inst, r).class = "permanent"
            \/ send'.known = send.known \ {Key(send.inst, r)} /\ send'.hit = send.hit
<1> DEFINE rest == send.todo \ {r}
           pc == IF rest = {} THEN "decide" ELSE "lookup"
           row == Looked(send.inst, r)
           hit == send.hit \/ (row # Nil /\ row.class = "permanent")
<1>1. send \in SendRec /\ send.pc = "lookup" /\ r \in send.todo
  BY TypeParts DEF SendLookup
<1>2. \/ send' = [send EXCEPT !.todo = rest, !.pc = pc, !.hit = hit]
      \/ send' = [send EXCEPT !.todo = rest, !.pc = pc,
                              !.known = send.known \ {Key(send.inst, r)}]
  BY DEF SendLookup
<1>3. pc \in {"lookup", "decide"} /\ (pc = "decide" => rest = {}) /\ rest \subseteq Spellings
      /\ hit \in BOOLEAN
  BY <1>1 DEF SendRec
<1>4. hit <=> send.hit \/ (Looked(send.inst, r) # Nil /\ Looked(send.inst, r).class = "permanent")
  OBVIOUS
<1> HIDE DEF pc, hit
<1>5. CASE send' = [send EXCEPT !.todo = rest, !.pc = pc, !.hit = hit]
  <2>1. /\ send' \in SendRec /\ send'.inst = send.inst /\ send'.todo = rest /\ send'.pc = pc
        /\ send'.known = send.known /\ send'.hit = hit
    BY <1>1, <1>3, <1>5 DEF SendRec
  <2>2. QED  BY <1>1, <1>3, <1>4, <2>1
<1>6. CASE send' = [send EXCEPT !.todo = rest, !.pc = pc,
                                !.known = send.known \ {Key(send.inst, r)}]
  <2>1. /\ send' \in SendRec /\ send'.inst = send.inst /\ send'.todo = rest /\ send'.pc = pc
        /\ send'.known = send.known \ {Key(send.inst, r)} /\ send'.hit = send.hit
    BY <1>1, <1>3, <1>6 DEF SendRec
  <2>2. QED  BY <1>1, <1>3, <2>1
<1>7. QED  BY <1>2, <1>5, <1>6

\* The call is refused or queued.
LEMMA SendDecideStep ==
  ASSUME TypeInv, SendDecide
  PROVE  /\ send.pc = "decide" /\ send' \in SendRec
         /\ \/ send'.pc = "none"
            \/ /\ ~send.hit /\ send'.pc = "queued" /\ send'.inst = send.inst
               /\ send'.known = send.known /\ send'.hit = send.hit
               /\ send'.todo = send.todo
<1>1. send \in SendRec
  BY TypeParts
<1>2. CASE send.hit
  BY <1>2, Idles DEF SendDecide
<1>3. CASE ~send.hit
  BY <1>1, <1>3 DEF SendDecide, SendRec
<1>4. QED  BY <1>2, <1>3

\* A bounce is recorded: what is known of its address is out of date.
LEMMA RecordBounceStep ==
  ASSUME TypeInv, NEW i \in Instances, NEW r \in Spellings, NEW class \in Classes,
         RecordBounce(i, r, class)
  PROVE  /\ Key(i, r) \in Keys
         /\ bounces' = [bounces EXCEPT ![Key(i, r)] = [class |-> class, seen |-> clock]]
         /\ last' = [last EXCEPT ![Key(i, r)] = [class |-> class, at |-> clock]]
         /\ send' \in SendRec /\ send'.pc = send.pc /\ send'.inst = send.inst
         /\ send'.todo = send.todo /\ send'.hit = send.hit
         /\ send'.known = send.known \ {Key(i, r)}
<1>1. Key(i, r) \in Keys
  BY StoresAssumption DEF Key, Keys
<1>2. send \in SendRec
  BY TypeParts
<1>3. send' = [send EXCEPT !.known = send.known \ {Key(i, r)}]
  BY <1>2 DEF RecordBounce, SendRec
<1>4. /\ send' \in SendRec /\ send'.pc = send.pc /\ send'.inst = send.inst
      /\ send'.todo = send.todo /\ send'.hit = send.hit
      /\ send'.known = send.known \ {Key(i, r)}
  BY <1>2, <1>3 DEF SendRec
<1>5. QED  BY <1>1, <1>4 DEF RecordBounce, BounceRow

\* email_attachment_get finds a row, then looks for the file.
LEMMA GetStep ==
  ASSUME TypeInv, GetRead \/ \E s \in Shas : GetLookup(s)
  PROVE  get' \in GetRec /\ (get'.pc # "none" => get'.sha \in Shas)
<1>1. get \in GetRec /\ (get.pc # "none" => get.sha \in Shas)
  BY TypeParts
<1>2. ASSUME NEW s \in Shas, GetLookup(s)
      PROVE  get' \in GetRec /\ (get'.pc # "none" => get'.sha \in Shas)
  <2>1. get' = NoGet \/ get' = [NoGet EXCEPT !.pc = "found", !.sha = s]
    BY <1>2 DEF GetLookup
  <2>2. QED  BY <2>1, Idles DEF NoGet, GetRec
<1>3. CASE GetRead
  <2>1. \/ get' = NoGet
        \/ get' = [get EXCEPT !.pc = "gone",
                     !.expired = (rows[get.sha] = Nil \/ Expired(get.sha, clock))]
    BY <1>3 DEF GetRead
  <2>2. CASE get' = NoGet
    BY <2>2, Idles
  <2>3. CASE get' = [get EXCEPT !.pc = "gone",
                       !.expired = (rows[get.sha] = Nil \/ Expired(get.sha, clock))]
    <3>1. (rows[get.sha] = Nil \/ Expired(get.sha, clock)) \in BOOLEAN /\ get.sha \in Shas
      BY <1>1, <1>3 DEF GetRead
    <3>2. QED  BY <1>1, <2>3, <3>1 DEF GetRec
  <2>4. QED  BY <2>1, <2>2, <2>3
<1>4. QED  BY <1>2, <1>3

\* Every action keeps the types.
LEMMA TypeNext == TypeInv /\ [Next]_vars => TypeInv'
<1> SUFFICES ASSUME TypeInv, [Next]_vars PROVE TypeInv'
  OBVIOUS
<1> USE DEF stores, budgets
<1>1. /\ clock \in 0..MaxTime /\ rows \in Rows /\ files \subseteq Shas
      /\ bounces \in Bounced /\ worker \in [Instances -> WorkerRec]
      /\ gc \in GcRec /\ send \in SendRec /\ get \in GetRec
      /\ last \in Newest /\ gc.todo \subseteq gc.stale
      /\ send.pc # "none" => send.inst \in Instances
      /\ get.pc # "none" => get.sha \in Shas
      /\ gc.pc # "remove" => gc.todo = {}
      /\ gc.pc \notin {"remove", "delete"} => gc.stale = {}
      /\ gc.at <= clock
  BY TypeParts DEF Typed
<1>2. CASE Tick
  <2>1. clock' \in 0..MaxTime /\ gc.at <= clock'
    BY <1>1, <1>2, Numbers DEF Tick, GcRec
  <2>2. QED  BY <1>1, <1>2, <2>1, TypePartsNext DEF Tick, Typed
<1>3. CASE Crash
  <2>1. /\ worker' = [i \in Instances |-> IdleWorker] /\ gc' = IdleGc
        /\ send' = NoSend /\ get' = NoGet /\ UNCHANGED <<clock, rows, files, bounces, last>>
    BY <1>3 DEF Crash
  <2>2. worker' \in [Instances -> WorkerRec] /\ 0 <= clock
    BY <1>1, <2>1, Idles
  <2>3. QED  BY <1>1, <2>1, <2>2, Idles, TypePartsNext DEF Typed
<1>4. ASSUME NEW i \in Instances, NEW w \in WorkerRec, worker' = [worker EXCEPT ![i] = w],
             files' \subseteq Shas, rows' \in Rows,
             UNCHANGED <<clock, bounces, gc, send, get, last>>
      PROVE  TypeInv'
  <2>1. worker' \in [Instances -> WorkerRec]
    BY <1>1, <1>4
  <2>2. QED  BY <1>1, <1>4, <2>1, TypePartsNext DEF Typed
<1>5. ASSUME NEW i \in Instances, NEW as \in SUBSET Shas, Parse(i, as) PROVE TypeInv'
  <2>1. UNCHANGED <<clock, rows, files, bounces, gc, send, get, last>>
    BY <1>5 DEF Parse
  <2>2. QED  BY <1>1, <1>4, <1>5, <2>1, ParseStep
<1>6. ASSUME NEW i \in Instances, NEW s \in Shas, Exists(i, s) PROVE TypeInv'
  <2>1. UNCHANGED <<clock, rows, files, bounces, gc, send, get, last>>
    BY <1>6 DEF Exists
  <2>2. QED  BY <1>1, <1>4, <1>6, <2>1, ExistsStep
<1>7. ASSUME NEW i \in Instances, Rename(i) PROVE TypeInv'
  <2>1. UNCHANGED <<clock, rows, bounces, gc, send, get, last>>
    BY <1>7 DEF Rename
  <2>2. files' \subseteq Shas
    BY <1>1, <1>7, RenameStep
  <2>3. QED  BY <1>1, <1>4, <1>7, <2>1, <2>2, RenameStep
<1>8. ASSUME NEW i \in Instances, NEW s \in Shas, Record(i, s) PROVE TypeInv'
  <2>1. UNCHANGED <<clock, files, bounces, gc, send, get, last>>
    BY <1>8 DEF Record
  <2>2. rows' \in Rows
    BY <1>1, <1>8, RecordStep DEF Rows
  <2>3. QED  BY <1>1, <1>4, <1>8, <2>1, <2>2, RecordStep
<1>9. ASSUME NEW i \in Instances, NEW r \in Spellings, NEW class \in Classes,
             RecordBounce(i, r, class)
      PROVE  TypeInv'
  <2>1. UNCHANGED <<clock, rows, files, worker, gc, get>>
    BY <1>9 DEF RecordBounce
  <2>2. bounces' \in Bounced /\ last' \in Newest
    BY <1>1, <1>9, RecordBounceStep DEF Bounced, Newest
  <2>3. send' \in SendRec /\ (send'.pc # "none" => send'.inst \in Instances)
    BY <1>1, <1>9, RecordBounceStep
  <2>4. QED  BY <1>1, <2>1, <2>2, <2>3, TypePartsNext DEF Typed
<1>10. CASE GcSelect
  <2>1. UNCHANGED <<clock, rows, files, bounces, worker, send, get, last>>
    BY <1>10 DEF GcSelect
  <2>2. /\ gc' \in GcRec /\ gc'.todo \subseteq gc'.stale /\ gc'.at <= clock
        /\ gc'.pc # "remove" => gc'.todo = {}
        /\ gc'.pc \notin {"remove", "delete"} => gc'.stale = {}
    BY <1>1, <1>10, GcSelectStep
  <2>3. QED  BY <1>1, <2>1, <2>2, TypePartsNext DEF Typed
<1>11. ASSUME NEW s \in Shas, GcRemove(s) PROVE TypeInv'
  <2>1. UNCHANGED <<clock, rows, bounces, worker, send, get, last>> /\ files' \subseteq files
    BY <1>11 DEF GcRemove
  <2>2. /\ gc' \in GcRec /\ gc'.todo \subseteq gc'.stale /\ gc'.at <= clock
        /\ gc'.pc # "remove" => gc'.todo = {}
        /\ gc'.pc \notin {"remove", "delete"} => gc'.stale = {}
    BY <1>1, <1>11, GcRemoveStep
  <2>3. QED  BY <1>1, <2>1, <2>2, TypePartsNext DEF Typed
<1>12. CASE GcDelete
  <2>1. UNCHANGED <<clock, files, bounces, worker, send, get, last>>
    BY <1>12 DEF GcDelete
  <2>2. rows' \in Rows
    BY <1>1, <1>12 DEF GcDelete, Rows
  <2>3. gc'.at <= clock
    BY <1>1, <1>12, GcDeleteStep
  <2>4. QED  BY <1>1, <1>12, <2>1, <2>2, <2>3, GcDeleteStep, TypePartsNext DEF Typed
<1>13. CASE PruneAge \/ PruneOrphan
  <2>1. UNCHANGED <<clock, rows, files, worker, send, get, last>>
    BY <1>13 DEF PruneAge, PruneOrphan
  <2>2. bounces' \in Bounced
    BY <1>1, <1>13 DEF PruneAge, PruneOrphan, Bounced
  <2>3. QED  BY <1>1, <1>13, <2>1, <2>2, PruneStep, TypePartsNext DEF Typed
<1>14. ASSUME NEW i \in Instances, NEW rs \in SUBSET Spellings, SendCall(i, rs)
       PROVE  TypeInv'
  <2>1. UNCHANGED <<clock, rows, files, bounces, worker, gc, get, last>>
    BY <1>14 DEF SendCall
  <2>2. QED  BY <1>1, <1>14, <2>1, SendCallStep, TypePartsNext DEF Typed
<1>15. CASE SendDecide \/ \E r \in Spellings : SendLookup(r)
  <2>1. UNCHANGED <<clock, rows, files, bounces, worker, gc, get, last>>
    BY <1>15 DEF SendDecide, SendLookup
  <2>2. send' \in SendRec /\ (send'.pc # "none" => send'.inst \in Instances)
    BY <1>1, <1>15, SendDecideStep, SendLookupStep
  <2>3. QED  BY <1>1, <2>1, <2>2, TypePartsNext DEF Typed
<1>16. CASE GetRead \/ \E s \in Shas : GetLookup(s)
  <2>1. UNCHANGED <<clock, rows, files, bounces, worker, gc, send, last>>
    BY <1>16 DEF GetRead, GetLookup
  <2>2. QED  BY <1>1, <1>16, <2>1, GetStep, TypePartsNext DEF Typed
<1>17. CASE UNCHANGED vars
  BY <1>1, <1>17, TypePartsNext DEF vars, Typed
<1>18. QED
  BY <1>2, <1>3, <1>5, <1>6, <1>7, <1>8, <1>9, <1>10, <1>11, <1>12, <1>13, <1>14,
     <1>15, <1>16, <1>17
     DEF Next, Worker, Gc, Tools

\* Every variable keeps its type, whatever the accounts, hashes and bounds.
THEOREM TypeCorrect == Spec => []TypeOK
<1>1. TypeInv => TypeOK
  BY DEF TypeInv
<1>2. QED  BY <1>1, TypeInit, TypeNext, PTL DEF Spec

-----------------------------------------------------------------------------
(* Files and rows.                                                         *)

\* A file without a row that is accounted for.
Owed(s) == s \in spilled \/ \E i \in Instances : s \in worker[i].done

\* What the sweep is about to delete it has removed, except what was written
\* again since.
OrphanInv ==
  /\ \A s \in files : rows[s] # Nil \/ Owed(s)
  /\ gc.pc \in {"remove", "delete"} =>
       \A s \in Shas : Expired(s, gc.at) =>
         s \in gc.todo \/ s \notin files \/ Owed(s)

\* Base case.
LEMMA OrphanInit == Init => OrphanInv
BY Idles DEF Init, OrphanInv

\* What was expired before is expired now.
LEMMA ExpiredLater ==
  ASSUME TypeInv, NEW s \in Shas, Expired(s, gc.at)
  PROVE  Expired(s, clock)
<1>1. clock \in Nat /\ AttRetention \in Nat /\ rows[s] \in Nat /\ gc.at \in Nat
      /\ gc.at <= clock
  BY Numbers, TypeParts DEF Typed, Rows, Expired, GcRec
<1>2. QED  BY <1>1 DEF Expired

\* A row written now is not.
LEMMA FreshStays ==
  ASSUME TypeInv, NEW s \in Shas, rows' = [rows EXCEPT ![s] = clock], UNCHANGED gc
  PROVE  /\ rows'[s] # Nil /\ ~Expired(s, gc.at)'
         /\ \A t \in Shas : t # s => rows'[t] = rows[t]
                                     /\ (Expired(t, gc.at)' <=> Expired(t, gc.at))
<1>1. clock \in Nat /\ AttRetention \in Nat /\ gc.at \in Nat /\ gc.at <= clock
      /\ rows \in [Shas -> (0..MaxTime) \cup {Nil}]
  BY Numbers, TypeParts DEF Typed, Rows, GcRec
<1>2. rows'[s] = clock /\ clock # Nil
  BY <1>1, StoresAssumption
<1>3. ~(clock + AttRetention < gc.at)
  BY <1>1
<1>4. QED  BY <1>1, <1>2, <1>3 DEF Expired

\* A step that takes no file's row or claim away.
LEMMA OrphanFrame ==
  ASSUME TypeInv, OrphanInv, UNCHANGED <<rows, gc>>, files' \subseteq files,
         \A s \in Shas : Owed(s) => Owed(s)'
  PROVE  OrphanInv'
<1>1. files \subseteq Shas
  BY TypeParts DEF Typed
<1>2. \A s \in Shas : Expired(s, gc.at)' <=> Expired(s, gc.at)
  BY DEF Expired
<1>3. QED  BY <1>1, <1>2 DEF OrphanInv

\* One worker moves.
LEMMA OwedMoves ==
  ASSUME TypeInv, NEW i \in Instances, NEW w \in WorkerRec,
         worker' = [worker EXCEPT ![i] = w], spilled \subseteq spilled',
         NEW s, Owed(s), s \in worker[i].done => s \in w.done \/ s \in spilled'
  PROVE  Owed(s)'
<1>1. worker \in [Instances -> WorkerRec]
  BY TypeParts DEF Typed
<1>2. CASE s \in spilled
  BY <1>2 DEF Owed
<1>3. CASE s \notin spilled
  <2>1. PICK j \in Instances : s \in worker[j].done
    BY <1>3 DEF Owed
  <2>2. CASE j = i
    <3>1. worker'[i] = w /\ (s \in w.done \/ s \in spilled')
      BY <1>1, <2>1, <2>2
    <3>2. QED  BY <3>1 DEF Owed
  <2>3. CASE j # i
    <3>1. worker'[j] = worker[j]
      BY <1>1, <2>3
    <3>2. QED  BY <2>1, <3>1 DEF Owed
  <2>4. QED  BY <2>2, <2>3
<1>4. QED  BY <1>2, <1>3

\* A worker claims a file before it appears and leaves its claim with a row.
LEMMA OrphanWorker ==
  ASSUME TypeInv, OrphanInv, NEW i \in Instances, Worker(i)
  PROVE  OrphanInv'
<1> USE DEF stores, budgets
<1>1. worker \in [Instances -> WorkerRec] /\ files \subseteq Shas
  BY TypeParts DEF Typed
<1>2. ASSUME NEW as \in SUBSET Shas, Parse(i, as) PROVE OrphanInv'
  <2>1. PICK w \in WorkerRec : worker' = [worker EXCEPT ![i] = w] /\ worker[i].done = {}
    BY <1>2, ParseStep
  <2>2. UNCHANGED <<rows, files, gc, spilled>>
    BY <1>2 DEF Parse
  <2>3. \A s \in Shas : Owed(s) => Owed(s)'
    BY <2>1, <2>2, OwedMoves
  <2>4. QED  BY <2>2, <2>3, OrphanFrame
<1>3. ASSUME NEW s \in Shas, Exists(i, s) PROVE OrphanInv'
  <2>1. PICK w \in WorkerRec : /\ worker' = [worker EXCEPT ![i] = w]
                               /\ worker[i].done \subseteq w.done
    BY <1>3, ExistsStep
  <2>2. UNCHANGED <<rows, files, gc, spilled>>
    BY <1>3 DEF Exists
  <2>3. \A t \in Shas : Owed(t) => Owed(t)'
    BY <2>1, <2>2, OwedMoves
  <2>4. QED  BY <2>2, <2>3, OrphanFrame
<1>4. CASE Rename(i)
  <2>1. UNCHANGED <<rows, gc>>
    BY <1>4 DEF Rename
  <2>2. PICK w \in WorkerRec :
          /\ worker' = [worker EXCEPT ![i] = w]
          /\ \/ /\ \E s \in Shas : files' = files \cup {s} /\ w.done = worker[i].done \cup {s}
                /\ spilled' = spilled
             \/ /\ files' = files /\ w.done = {}
                /\ spilled' = spilled \cup worker[i].done
    BY <1>4, RenameStep
  <2>3. \A t \in Shas : Owed(t) => Owed(t)'
    BY <2>2, OwedMoves
  <2>4. CASE files' = files
    BY <2>1, <2>3, <2>4, OrphanFrame
  <2>5. ASSUME NEW s \in Shas, files' = files \cup {s}, w.done = worker[i].done \cup {s}
        PROVE  OrphanInv'
    <3>1. worker'[i] = w
      BY <1>1, <2>2
    <3>2. Owed(s)'
      BY <2>5, <3>1 DEF Owed
    <3>3. \A t \in Shas : Expired(t, gc.at)' <=> Expired(t, gc.at)
      BY <2>1 DEF Expired
    <3>4. QED  BY <1>1, <2>1, <2>3, <2>5, <3>2, <3>3 DEF OrphanInv
  <2>6. QED  BY <2>2, <2>4, <2>5
<1>5. ASSUME NEW s \in Shas, Record(i, s) PROVE OrphanInv'
  <2>1. UNCHANGED <<files, gc>>
    BY <1>5 DEF Record
  <2>2. PICK w \in WorkerRec :
          /\ worker' = [worker EXCEPT ![i] = w] /\ w.done = worker[i].done \ {s}
    BY <1>5, RecordStep
  <2>3. spilled \subseteq spilled'
    BY <1>5, RecordStep
  <2>4. \A t \in Shas \ {s} : Owed(t) => Owed(t)'
    BY <2>2, <2>3, OwedMoves
  <2>5. CASE rows' = [rows EXCEPT ![s] = clock]
    <3>1. /\ rows'[s] # Nil /\ ~Expired(s, gc.at)'
          /\ \A t \in Shas : t # s => rows'[t] = rows[t]
                                     /\ (Expired(t, gc.at)' <=> Expired(t, gc.at))
      BY <2>1, <2>5, FreshStays
    <3>2. QED  BY <1>1, <2>1, <2>4, <3>1 DEF OrphanInv
  <2>6. CASE rows' = rows /\ spilled' = spilled \cup {s}
    <3>1. Owed(s)'
      BY <2>6 DEF Owed
    <3>2. QED  BY <2>1, <2>4, <2>6, <3>1, OrphanFrame
  <2>7. QED  BY <1>5, <2>5, <2>6, RecordStep
<1>6. ASSUME NEW r \in Spellings, NEW class \in Classes, RecordBounce(i, r, class)
      PROVE  OrphanInv'
  <2>1. UNCHANGED <<rows, files, gc, worker, spilled>>
    BY <1>6 DEF RecordBounce
  <2>2. QED  BY <2>1, OrphanFrame DEF Owed
<1>7. QED  BY <1>2, <1>3, <1>4, <1>5, <1>6 DEF Worker

\* The daily task removes the file of a row before it deletes the row, where
\* it looks for the files in the directory the workers write to.
LEMMA OrphanGc ==
  ASSUME TypeInv, OrphanInv, OneDir, Gc
  PROVE  OrphanInv'
<1> USE DEF stores, budgets
<1>1. files \subseteq Shas /\ rows \in Rows
  BY TypeParts DEF Typed
<1>2. CASE GcSelect
  <2>1. UNCHANGED <<rows, files, worker, spilled>>
    BY <1>2 DEF GcSelect
  <2>2. \A s \in Shas : (Owed(s)' <=> Owed(s))
    BY <2>1 DEF Owed
  <2>3. CASE /\ gc'.at = clock /\ gc'.todo = gc'.stale
             /\ gc'.stale = { s \in Shas : Expired(s, clock) }
    <3>1. \A s \in Shas : Expired(s, gc.at)' => s \in gc'.todo
      BY <2>1, <2>3 DEF Expired
    <3>2. QED  BY <1>1, <2>1, <2>2, <3>1 DEF OrphanInv
  <2>4. CASE gc'.pc = "pruneAge"
    BY <1>1, <2>1, <2>2, <2>4 DEF OrphanInv
  <2>5. QED  BY <1>2, <2>3, <2>4, GcSelectStep
<1>3. ASSUME NEW s \in Shas, GcRemove(s) PROVE OrphanInv'
  <2>1. /\ gc.pc = "remove" /\ gc'.at = gc.at /\ gc'.todo = gc.todo \ {s}
    BY <1>3, GcRemoveStep
  <2>2. UNCHANGED <<rows, worker>>
    BY <1>3 DEF GcRemove
  <2>3. \/ files' = files \ {s} /\ spilled' = spilled
        \/ files' = files /\ spilled' = spilled \cup {s}
    BY <1>3 DEF GcRemove, Found
  <2>4. \A t \in Shas : (Owed(t) => Owed(t)') /\ (s \in files' => Owed(s)')
    BY <2>2, <2>3 DEF Owed
  <2>5. \A t \in Shas : (Expired(t, gc.at)' <=> Expired(t, gc.at))
    BY <2>1, <2>2 DEF Expired
  <2>6. files' \subseteq files
    BY <2>3
  <2>7. QED  BY <1>1, <2>1, <2>2, <2>4, <2>5, <2>6 DEF OrphanInv
<1>4. CASE GcDelete
  <2>1. UNCHANGED <<files, worker, spilled>>
    BY <1>4 DEF GcDelete
  <2>2. gc.pc = "delete" /\ gc'.pc = "pruneAge" /\ gc.todo = {}
    BY <1>4, GcDeleteStep, TypeParts
  <2>3. ASSUME NEW s \in files PROVE rows'[s] # Nil \/ Owed(s)'
    <3>1. Owed(s)' <=> Owed(s)
      BY <2>1 DEF Owed
    <3>2. CASE Expired(s, gc.at)
      BY <1>1, <2>2, <3>1, <3>2 DEF OrphanInv
    <3>3. CASE ~Expired(s, gc.at)
      <4>1. rows'[s] = rows[s]
        BY <1>1, <1>4, <3>3 DEF GcDelete
      <4>2. QED  BY <3>1, <4>1 DEF OrphanInv
    <3>4. QED  BY <3>2, <3>3
  <2>4. QED  BY <2>1, <2>2, <2>3 DEF OrphanInv
<1>5. CASE PruneAge \/ PruneOrphan
  <2>1. UNCHANGED <<rows, files, worker, spilled>>
    BY <1>5 DEF PruneAge, PruneOrphan
  <2>2. gc'.pc \notin {"remove", "delete"}
    BY <1>5, PruneStep
  <2>3. \A s \in Shas : (Owed(s)' <=> Owed(s))
    BY <2>1 DEF Owed
  <2>4. QED  BY <1>1, <2>1, <2>2, <2>3 DEF OrphanInv
<1>6. QED  BY <1>2, <1>3, <1>4, <1>5 DEF Gc

\* Every action keeps OrphanInv.
LEMMA OrphanNext == OneDir /\ TypeInv /\ OrphanInv /\ [Next]_vars => OrphanInv'
<1> SUFFICES ASSUME OneDir, TypeInv, OrphanInv, [Next]_vars PROVE OrphanInv'
  OBVIOUS
<1> USE DEF stores, budgets
<1>1. CASE Tick \/ Tools \/ UNCHANGED vars
  <2>1. UNCHANGED <<rows, files, gc, worker, spilled>>
    BY <1>1 DEF Tick, Tools, SendCall, SendLookup, SendDecide, GetRead, GetLookup, vars
  <2>2. QED  BY <2>1, OrphanFrame DEF Owed
<1>2. CASE Crash
  <2>1. UNCHANGED <<rows, files>> /\ gc'.pc = "idle"
        /\ spilled' = spilled \cup UNION { worker[i].done : i \in Instances }
    BY <1>2, Idles DEF Crash
  <2>2. \A s : Owed(s) => Owed(s)'
    BY <2>1 DEF Owed
  <2>3. QED  BY <2>1, <2>2 DEF OrphanInv
<1>3. QED  BY <1>1, <1>2, OrphanWorker, OrphanGc DEF Next

\* write_dedup, record and gc: where all look in one directory, a file without
\* a row is one that an error or a kill left behind, or one that a worker is
\* about to record.
THEOREM OrphansHaveAReason ==
  ASSUME OneDir
  PROVE  Spec => []OrphanNeedsFault
<1>1. OrphanInv => OrphanNeedsFault
  BY DEF OrphanInv, OrphanNeedsFault, Owed
<1>2. TypeInv /\ OrphanInv /\ [Next]_vars => OrphanInv'
  BY OrphanNext
<1>3. QED  BY <1>1, <1>2, TypeInit, TypeNext, OrphanInit, PTL DEF Spec

-----------------------------------------------------------------------------
(* Reading what is listed.                                                 *)

\* A row whose file is missing is one of an old attachment, or was handled by
\* a sweep and a worker at the same time.
ReadInv ==
  /\ \A s \in Shas :
       /\ rows[s] # Nil /\ s \notin files => s \in raced \/ Expired(s, clock)
       /\ (\E i \in Instances : s \in worker[i].done) /\ s \notin files => s \in raced
       /\ s \in gc.stale => s \in raced \/ Expired(s, gc.at)
  /\ ListedIsReadable

\* Base case.
LEMMA ReadInit == Init => ReadInv
BY Idles DEF Init, ReadInv, ListedIsReadable

\* A step that touches no row, file, claim or sweep.
LEMMA ReadFrame ==
  ASSUME TypeInv, ReadInv, UNCHANGED <<clock, rows, files, gc, worker, raced>>,
         ListedIsReadable'
  PROVE  ReadInv'
<1>1. \A s \in Shas : /\ Expired(s, gc.at)' <=> Expired(s, gc.at)
                      /\ Expired(s, clock)' <=> Expired(s, clock)
  BY DEF Expired
<1>2. QED  BY <1>1 DEF ReadInv

\* A worker that claims only what it finds or writes.
LEMMA ReadClaims ==
  ASSUME TypeInv, ReadInv, UNCHANGED <<clock, rows, gc, get, raced>>,
         NEW i \in Instances, NEW w \in WorkerRec, worker' = [worker EXCEPT ![i] = w],
         files \subseteq files', w.done \subseteq worker[i].done \cup files'
  PROVE  ReadInv'
<1>1. worker \in [Instances -> WorkerRec]
  BY TypeParts DEF Typed
<1>2. \A s \in Shas : /\ Expired(s, gc.at)' <=> Expired(s, gc.at)
                      /\ Expired(s, clock)' <=> Expired(s, clock)
  BY DEF Expired
<1>3. ASSUME NEW s \in Shas, NEW j \in Instances, s \in worker'[j].done, s \notin files'
      PROVE  s \in raced
  <2>1. s \in worker[j].done
    <3>1. CASE j = i
      BY <1>1, <1>3, <3>1
    <3>2. CASE j # i
      BY <1>1, <1>3, <3>2
    <3>3. QED  BY <3>1, <3>2
  <2>2. QED  BY <1>3, <2>1 DEF ReadInv
<1>4. ListedIsReadable'
  BY DEF ReadInv, ListedIsReadable
<1>5. QED  BY <1>2, <1>3, <1>4 DEF ReadInv

\* A worker gives a row only to a file that is there, or that a sweep took
\* while it was handling it.
LEMMA ReadWorker ==
  ASSUME TypeInv, ReadInv, NEW i \in Instances, Worker(i)
  PROVE  ReadInv'
<1> USE DEF stores, budgets
<1>1. worker \in [Instances -> WorkerRec] /\ rows \in Rows /\ gc.stale \subseteq Shas
  BY TypeParts DEF Typed, GcRec
<1>2. ASSUME NEW as \in SUBSET Shas, Parse(i, as) PROVE ReadInv'
  <2>1. UNCHANGED <<clock, rows, files, gc, get, raced>>
    BY <1>2 DEF Parse
  <2>2. PICK w \in WorkerRec : worker' = [worker EXCEPT ![i] = w] /\ w.done = {}
    BY <1>2, ParseStep
  <2>3. QED  BY <2>1, <2>2, ReadClaims
<1>3. ASSUME NEW s \in Shas, Exists(i, s) PROVE ReadInv'
  <2>1. UNCHANGED <<clock, rows, files, gc, get, raced>>
    BY <1>3 DEF Exists
  <2>2. PICK w \in WorkerRec : /\ worker' = [worker EXCEPT ![i] = w]
                               /\ w.done \subseteq worker[i].done \cup files
    BY <1>3, ExistsStep
  <2>3. QED  BY <2>1, <2>2, ReadClaims
<1>4. CASE Rename(i)
  <2>1. UNCHANGED <<clock, rows, gc, get, raced>>
    BY <1>4 DEF Rename
  <2>2. PICK w \in WorkerRec : /\ worker' = [worker EXCEPT ![i] = w]
                               /\ files \subseteq files'
                               /\ w.done \subseteq worker[i].done \cup files'
    BY <1>4, RenameStep
  <2>3. QED  BY <2>1, <2>2, ReadClaims
<1>5. ASSUME NEW s \in Shas, Record(i, s) PROVE ReadInv'
  <2>1. UNCHANGED <<clock, files, gc, get>>
    BY <1>5 DEF Record
  <2>2. PICK w \in WorkerRec :
          /\ worker' = [worker EXCEPT ![i] = w] /\ w.done = worker[i].done \ {s}
    BY <1>5, RecordStep
  <2>3. \A t \in Shas : (\E j \in Instances : t \in worker'[j].done) =>
                          \E j \in Instances : t \in worker[j].done
    BY <1>1, <2>2
  <2>4. CASE rows' = rows /\ raced' = raced
    <3>1. \A t \in Shas : /\ Expired(t, gc.at)' <=> Expired(t, gc.at)
                          /\ Expired(t, clock)' <=> Expired(t, clock)
      BY <2>1, <2>4 DEF Expired
    <3>2. QED  BY <2>1, <2>3, <2>4, <3>1 DEF ReadInv, ListedIsReadable
  <2>5. CASE /\ rows' = [rows EXCEPT ![s] = clock]
             /\ raced' = IF s \in gc.stale THEN raced \cup {s} ELSE raced
    <3>1. \A t \in Shas : t # s => rows'[t] = rows[t]
                                   /\ (Expired(t, gc.at)' <=> Expired(t, gc.at))
      BY <2>1, <2>5, FreshStays
    <3>2. \A t \in Shas : t # s => (Expired(t, clock)' <=> Expired(t, clock))
      BY <2>1, <3>1 DEF Expired
    <3>3. s \in worker[i].done
      BY <1>5, RecordStep
    <3>4. s \notin files => s \in raced
      BY <3>3 DEF ReadInv
    <3>5. raced \subseteq raced' /\ (s \in gc.stale => s \in raced')
      BY <2>5
    <3>6. ListedIsReadable'
      BY <2>1, <3>5 DEF ReadInv, ListedIsReadable
    <3>7. QED  BY <2>1, <2>3, <3>1, <3>2, <3>4, <3>5, <3>6 DEF ReadInv
  <2>6. QED  BY <1>5, <2>4, <2>5, RecordStep
<1>6. ASSUME NEW r \in Spellings, NEW class \in Classes, RecordBounce(i, r, class)
      PROVE  ReadInv'
  <2>1. UNCHANGED <<clock, rows, files, gc, worker, raced, get>>
    BY <1>6 DEF RecordBounce
  <2>2. QED  BY <2>1, ReadFrame DEF ReadInv, ListedIsReadable
<1>7. QED  BY <1>2, <1>3, <1>4, <1>5, <1>6 DEF Worker

\* The sweep takes the files of old rows only.
LEMMA ReadGc ==
  ASSUME TypeInv, ReadInv, Gc
  PROVE  ReadInv'
<1> USE DEF stores, budgets
<1>1. rows \in Rows /\ gc \in GcRec
  BY TypeParts DEF Typed
<1>2. UNCHANGED <<clock, worker, get>> /\ raced \subseteq raced'
  BY DEF Gc, GcSelect, GcDelete, PruneAge, PruneOrphan, GcRemove
<1>3. ListedIsReadable'
  BY <1>2 DEF ReadInv, ListedIsReadable
<1>4. CASE GcSelect \/ PruneAge \/ PruneOrphan
  <2>1. UNCHANGED <<rows, files, raced>>
    BY <1>4 DEF GcSelect, PruneAge, PruneOrphan
  <2>2. \A s \in Shas : Expired(s, clock)' <=> Expired(s, clock)
    BY <1>2, <2>1 DEF Expired
  <2>3. \A s \in Shas : s \in gc'.stale => Expired(s, gc.at)'
    <3>1. \/ gc'.stale = {}
          \/ gc'.at = clock /\ gc'.stale = { s \in Shas : Expired(s, clock) }
      BY <1>4, GcSelectStep, PruneStep
    <3>2. QED  BY <1>2, <2>1, <3>1 DEF Expired
  <2>4. QED  BY <1>2, <1>3, <2>1, <2>2, <2>3 DEF ReadInv
<1>5. ASSUME NEW s \in Shas, GcRemove(s) PROVE ReadInv'
  <2>1. gc'.stale = gc.stale /\ gc'.at = gc.at /\ s \in gc.stale
    BY <1>5, GcRemoveStep, TypeParts
  <2>2. rows' = rows
    BY <1>5 DEF GcRemove
  <2>3. \A t \in Shas : /\ Expired(t, gc.at)' <=> Expired(t, gc.at)
                        /\ Expired(t, clock)' <=> Expired(t, clock)
    BY <1>2, <2>1, <2>2 DEF Expired
  <2>4. s \in raced \/ Expired(s, clock)
    BY <2>1, ExpiredLater DEF ReadInv
  <2>5. \A t \in Shas : t # s => (t \in files' <=> t \in files)
    BY <1>5 DEF GcRemove
  <2>6. \/ s \in files' <=> s \in files
        \/ (\E i \in Instances : s \in worker[i].done) => s \in raced'
    BY <1>5 DEF GcRemove
  <2>7. QED  BY <1>2, <1>3, <2>1, <2>2, <2>3, <2>4, <2>5, <2>6 DEF ReadInv
<1>6. CASE GcDelete
  <2>1. UNCHANGED <<files, raced>> /\ gc'.stale = {}
    BY <1>6, GcDeleteStep DEF GcDelete
  <2>2. ASSUME NEW s \in Shas, rows'[s] # Nil
        PROVE  rows'[s] = rows[s]
    BY <1>1, <1>6, <2>2 DEF GcDelete, Rows
  <2>3. \A s \in Shas : rows'[s] # Nil => (Expired(s, clock)' <=> Expired(s, clock))
    BY <1>2, <2>2 DEF Expired
  <2>4. QED  BY <1>2, <1>3, <2>1, <2>2, <2>3 DEF ReadInv
<1>7. QED  BY <1>4, <1>5, <1>6 DEF Gc

\* Every action keeps ReadInv.
LEMMA ReadNext == OneDir /\ TypeInv /\ ReadInv /\ [Next]_vars => ReadInv'
<1> SUFFICES ASSUME OneDir, TypeInv, ReadInv, [Next]_vars PROVE ReadInv'
  OBVIOUS
<1> USE DEF stores, budgets
<1>1. /\ clock \in Nat /\ rows \in Rows /\ AttRetention \in Nat
      /\ get \in GetRec /\ (get.pc # "none" => get.sha \in Shas)
  BY Numbers, TypeParts DEF Typed
<1>2. CASE Tick
  <2>1. UNCHANGED <<rows, files, gc, worker, raced, get>> /\ clock' = clock + 1
    BY <1>2 DEF Tick
  <2>2. \A s \in Shas : /\ Expired(s, gc.at)' <=> Expired(s, gc.at)
                        /\ Expired(s, clock) => Expired(s, clock)'
    BY <1>1, <2>1 DEF Expired, Rows
  <2>3. QED  BY <2>1, <2>2 DEF ReadInv, ListedIsReadable
<1>3. CASE Crash
  <2>1. UNCHANGED <<clock, rows, files, raced>> /\ gc' = IdleGc /\ get' = NoGet
        /\ worker' = [i \in Instances |-> IdleWorker]
    BY <1>3 DEF Crash
  <2>2. /\ \A s : ~\E i \in Instances : s \in worker'[i].done
        /\ gc'.stale = {} /\ get'.pc = "none"
    BY <2>1, Idles
  <2>3. \A s \in Shas : Expired(s, clock)' <=> Expired(s, clock)
    BY <2>1 DEF Expired
  <2>4. QED  BY <2>1, <2>2, <2>3 DEF ReadInv, ListedIsReadable
<1>4. CASE \/ \E i \in Instances, rs \in SUBSET Spellings : SendCall(i, rs)
           \/ \E r \in Spellings : SendLookup(r)
           \/ SendDecide \/ UNCHANGED vars
  <2>1. UNCHANGED <<clock, rows, files, gc, worker, raced, get>>
    BY <1>4 DEF SendCall, SendLookup, SendDecide, vars
  <2>2. QED  BY <2>1, ReadFrame DEF ReadInv, ListedIsReadable
<1>5. ASSUME NEW s \in Shas, GetLookup(s) PROVE ReadInv'
  <2>1. UNCHANGED <<clock, rows, files, gc, worker, raced>>
    BY <1>5 DEF GetLookup
  <2>2. get' = NoGet \/ get'.pc = "found"
    BY <1>5, Idles DEF GetLookup, NoGet
  <2>3. QED  BY <2>1, <2>2, Idles, ReadFrame DEF ListedIsReadable
<1>6. CASE GetRead
  <2>1. UNCHANGED <<clock, rows, files, gc, worker, raced>>
    BY <1>6 DEF GetRead
  <2>2. CASE get' = NoGet
    BY <2>1, <2>2, Idles, ReadFrame DEF ListedIsReadable
  <2>3. CASE get' # NoGet
    <3>1. get.sha \in Shas /\ get.sha \notin files
      BY <1>1, <1>6, <2>3 DEF GetRead, Found
    <3>2. get'.sha = get.sha
          /\ (get'.expired <=> rows[get.sha] = Nil \/ Expired(get.sha, clock))
      BY <1>1, <1>6, <2>3 DEF GetRead, GetRec
    <3>3. get'.expired \/ get'.sha \in raced
      BY <3>1, <3>2 DEF ReadInv
    <3>4. QED  BY <2>1, <3>3, ReadFrame DEF ListedIsReadable
  <2>4. QED  BY <2>2, <2>3
<1>7. QED  BY <1>2, <1>3, <1>4, <1>5, <1>6, ReadWorker, ReadGc DEF Next, Tools

\* email_attachment_get: where all look in one directory, a hash the store
\* lists is readable until it expires, unless a sweep and a worker met over it.
THEOREM ListedCanBeRead ==
  ASSUME OneDir
  PROVE  Spec => []ListedIsReadable
<1>1. ReadInv => ListedIsReadable
  BY DEF ReadInv
<1>2. TypeInv /\ ReadInv /\ [Next]_vars => ReadInv'
  BY ReadNext
<1>3. QED  BY <1>1, <1>2, TypeInit, TypeNext, ReadInit, PTL DEF Spec


-----------------------------------------------------------------------------
(* Bounces and the strict check.                                           *)

\* The newest bounce of an address is permanent; its row says so; its row is,
\* or may be, gone.
Dead(k)   == last[k] # Nil /\ last[k].class = "permanent"
Stands(k) == bounces[k] # Nil /\ bounces[k].class = "permanent" /\ bounces[k].seen = last[k].at
Lapsed(k) == \/ k[1] \notin Kept
             \/ BounceRetention > 0 /\ last[k].at + BounceRetention < clock

\* Of the addresses an email_send was to refuse, each is still to be looked
\* up, was found, or has lapsed.
Covered(k) == Lapsed(k) \/ send.hit \/ \E r \in send.todo : k = Key(send.inst, r)

BounceInv ==
  /\ \A k \in Keys : Dead(k) => Stands(k) \/ Lapsed(k)
  /\ send.pc # "none" => \A k \in send.known : Dead(k) /\ Covered(k)
  /\ send.pc = "queued" => ~send.hit
  /\ send.pc \in {"decide", "queued"} => send.todo = {}

\* Base case.
LEMMA BounceInit == Init => BounceInv
BY Idles DEF Init, BounceInv, Dead

\* What has lapsed stays lapsed until the next bounce.
LEMMA LapsedStays ==
  ASSUME TypeInv, [Next]_vars, NEW k \in Keys, Lapsed(k), Dead(k), last'[k] = last[k]
  PROVE  Lapsed(k)'
<1>1. clock' = clock \/ clock' = clock + 1
  BY DEF Next, vars, stores, budgets, Tick, Crash, Gc, GcSelect, GcRemove, GcDelete,
         PruneAge, PruneOrphan, Tools, SendCall, SendLookup, SendDecide, GetLookup,
         GetRead, Worker, Parse, Exists, Rename, Record, RecordBounce
<1>2. clock \in Nat /\ BounceRetention \in Nat /\ last[k].at \in Nat
  BY Numbers, TypeParts DEF Typed, Newest, Dead
<1>3. QED  BY <1>1, <1>2 DEF Lapsed

\* A step that touches no bounce, no clock and no call.
LEMMA BounceFrame ==
  ASSUME TypeInv, [Next]_vars, BounceInv, UNCHANGED <<bounces, last>>,
         send' = send \/ send' = NoSend
  PROVE  BounceInv'
<1>1. send \in SendRec
  BY TypeParts
<1>2. ASSUME NEW k \in Keys
      PROVE  /\ Dead(k)' <=> Dead(k)
             /\ Stands(k)' <=> Stands(k)
             /\ Dead(k) /\ Lapsed(k) => Lapsed(k)'
  BY LapsedStays DEF Dead, Stands
<1>3. CASE send' = NoSend
  BY <1>2, <1>3, Idles DEF BounceInv
<1>4. CASE send' = send
  <2>1. ASSUME NEW k \in Keys, Dead(k), Covered(k) PROVE Covered(k)'
    BY <1>2, <1>4, <2>1 DEF Covered, Key
  <2>2. QED  BY <1>1, <1>2, <1>4, <2>1 DEF BounceInv, SendRec
<1>5. QED  BY <1>3, <1>4

\* The row of a bounce, and the newest bounce, change together.
LEMMA BounceRecorded ==
  ASSUME TypeInv, [Next]_vars, BounceInv, NEW i \in Instances, NEW r \in Spellings,
         NEW class \in Classes, RecordBounce(i, r, class)
  PROVE  BounceInv'
<1> DEFINE q == Key(i, r)
<1>1. /\ q \in Keys /\ bounces \in [Keys -> [class : Classes, seen : 0..MaxTime] \cup {Nil}]
      /\ last \in [Keys -> [class : Classes, at : 0..MaxTime] \cup {Nil}]
      /\ clock \in 0..MaxTime /\ send \in SendRec
  BY RecordBounceStep, TypeParts DEF Typed, Bounced, Newest
<1>2. /\ bounces' = [bounces EXCEPT ![q] = [class |-> class, seen |-> clock]]
      /\ last' = [last EXCEPT ![q] = [class |-> class, at |-> clock]]
      /\ send' \in SendRec /\ send'.pc = send.pc /\ send'.inst = send.inst
      /\ send'.todo = send.todo /\ send'.hit = send.hit
      /\ send'.known = send.known \ {q}
  BY RecordBounceStep
<1> HIDE DEF q
<1>3. clock \in Nat
  BY <1>1, Numbers
<1>4. [class |-> class, seen |-> clock] # Nil /\ [class |-> class, at |-> clock] # Nil
  BY <1>3, StoresAssumption
<1>5. Dead(q)' => Stands(q)'
  BY <1>1, <1>2, <1>4 DEF Dead, Stands
<1>6. ASSUME NEW k \in Keys, k # q
      PROVE  /\ Dead(k)' <=> Dead(k)
             /\ Stands(k)' <=> Stands(k)
             /\ Dead(k) /\ Lapsed(k) => Lapsed(k)'
  <2>1. last'[k] = last[k] /\ bounces'[k] = bounces[k]
    BY <1>1, <1>2, <1>6
  <2>2. QED  BY <2>1, LapsedStays DEF Dead, Stands
<1>7. ASSUME NEW k \in Keys, k # q, Dead(k), Covered(k) PROVE Covered(k)'
  BY <1>2, <1>6, <1>7 DEF Covered, Key
<1>8. \A k \in Keys : Dead(k)' => Stands(k)' \/ Lapsed(k)'
  BY <1>5, <1>6 DEF BounceInv
<1>9. send'.pc # "none" => \A k \in send'.known : Dead(k)' /\ Covered(k)'
  BY <1>1, <1>2, <1>6, <1>7 DEF BounceInv, SendRec
<1>10. QED  BY <1>2, <1>8, <1>9 DEF BounceInv

\* A row the prune deletes is of an address that has lapsed.
LEMMA BouncePruned ==
  ASSUME TypeInv, [Next]_vars, BounceInv, PruneAge \/ PruneOrphan
  PROVE  BounceInv'
<1>1. UNCHANGED <<last, send, clock>> /\ send \in SendRec /\ bounces \in Bounced
  BY TypeParts DEF PruneAge, PruneOrphan, Typed
<1>2. ASSUME NEW k \in Keys
      PROVE  (Dead(k)' <=> Dead(k)) /\ (Lapsed(k)' <=> Lapsed(k))
  BY <1>1 DEF Dead, Lapsed
<1>3. ASSUME NEW k \in Keys, Stands(k) PROVE Stands(k)' \/ Lapsed(k)
  <2>1. CASE bounces'[k] = bounces[k]
    BY <1>1, <1>3, <2>1 DEF Stands
  <2>2. CASE bounces'[k] # bounces[k]
    BY <1>1, <1>3, <2>2 DEF PruneAge, PruneOrphan, Stands, Lapsed, Bounced
  <2>3. QED  BY <2>1, <2>2
<1>4. ASSUME NEW k \in Keys, Covered(k) PROVE Covered(k)'
  BY <1>1, <1>2, <1>4 DEF Covered, Key
<1>5. QED  BY <1>1, <1>2, <1>3, <1>4 DEF BounceInv, SendRec

\* A call goes on.
LEMMA BounceCall ==
  ASSUME TypeInv, [Next]_vars, BounceInv,
         \/ \E i \in Instances, rs \in SUBSET Spellings : SendCall(i, rs)
         \/ \E r \in Spellings : SendLookup(r)
         \/ SendDecide
  PROVE  BounceInv'
<1> USE DEF stores
<1>1. UNCHANGED <<last, clock, bounces>> /\ send \in SendRec
  BY TypeParts DEF SendCall, SendLookup, SendDecide
<1>2. ASSUME NEW k \in Keys
      PROVE  /\ Dead(k)' <=> Dead(k)
             /\ Lapsed(k)' <=> Lapsed(k)
             /\ Stands(k)' <=> Stands(k)
  BY <1>1 DEF Dead, Lapsed, Stands
<1>3. ASSUME NEW i \in Instances, NEW rs \in SUBSET Spellings, SendCall(i, rs)
      PROVE  BounceInv'
  <2>1. /\ send' \in SendRec /\ send'.pc = "lookup" /\ send'.inst = i /\ send'.todo = rs
        /\ send'.known = KnownDead(i, rs)
    BY <1>3, SendCallStep
  <2>2. \A k \in send'.known : k \in Keys /\ Dead(k) /\ \E r \in rs : k = Key(i, r)
    BY <2>1 DEF KnownDead, Dead, SendRec
  <2>3. \A k \in send'.known : Dead(k)' /\ Covered(k)'
    BY <1>2, <2>1, <2>2 DEF Covered, Key
  <2>4. QED  BY <1>2, <2>1, <2>3 DEF BounceInv
<1>4. ASSUME NEW r \in Spellings, SendLookup(r) PROVE BounceInv'
  <2>1. /\ send.pc = "lookup" /\ r \in send.todo /\ send' \in SendRec
        /\ send'.inst = send.inst /\ send'.todo = send.todo \ {r}
        /\ send'.pc = "lookup" \/ (send'.pc = "decide" /\ send'.todo = {})
    BY <1>4, SendLookupStep
  <2>2. ASSUME NEW k \in send'.known
        PROVE  /\ k \in Keys /\ Dead(k)
               /\ Lapsed(k) \/ send'.hit \/ \E t \in send'.todo : k = Key(send.inst, t)
    <3>1. k \in send.known /\ k \in Keys /\ (send.hit => send'.hit)
      BY <1>1, <1>4, SendLookupStep DEF SendRec
    <3>2. Dead(k) /\ Covered(k)
      BY <2>1, <3>1 DEF BounceInv
    <3>3. CASE k = Key(send.inst, r)
      <4>1. send'.hit <=> \/ send.hit
                          \/ /\ Looked(send.inst, r) # Nil
                             /\ Looked(send.inst, r).class = "permanent"
        BY <1>4, <3>3, SendLookupStep
      <4>2. Stands(k) => send'.hit
        BY <3>3, <4>1 DEF Stands, Looked
      <4>3. Stands(k) \/ Lapsed(k)
        BY <3>1, <3>2 DEF BounceInv
      <4>4. QED  BY <3>1, <3>2, <4>2, <4>3
    <3>4. CASE k # Key(send.inst, r)
      BY <2>1, <3>1, <3>2, <3>4 DEF Covered
    <3>5. QED  BY <3>3, <3>4
  <2>3. \A k \in send'.known : Dead(k)' /\ Covered(k)'
    BY <1>2, <2>1, <2>2 DEF Covered, Key
  <2>4. \A k \in Keys : Dead(k)' => Stands(k)' \/ Lapsed(k)'
    BY <1>2 DEF BounceInv
  <2>5. QED  BY <2>1, <2>3, <2>4 DEF BounceInv
<1>5. CASE SendDecide
  <2>1. CASE send'.pc = "none"
    BY <1>2, <2>1 DEF BounceInv
  <2>2. CASE /\ send.pc = "decide" /\ ~send.hit /\ send'.pc = "queued"
             /\ send'.inst = send.inst /\ send'.known = send.known
             /\ send'.hit = send.hit /\ send'.todo = send.todo
    <3>1. \A k \in send.known : k \in Keys /\ (Covered(k) => Covered(k)')
      BY <1>1, <1>2, <2>2 DEF Covered, Key, SendRec
    <3>2. QED  BY <1>2, <2>2, <3>1 DEF BounceInv
  <2>3. QED  BY <1>5, <2>1, <2>2, SendDecideStep
<1>6. QED  BY <1>3, <1>4, <1>5

\* Every action keeps BounceInv.
LEMMA BounceNext == TypeInv /\ BounceInv /\ [Next]_vars => BounceInv'
<1> SUFFICES ASSUME TypeInv, BounceInv, [Next]_vars PROVE BounceInv'
  OBVIOUS
<1> USE DEF stores, budgets
<1>1. CASE Tick \/ Crash \/ UNCHANGED vars
  BY <1>1, BounceFrame DEF Tick, Crash, vars
<1>2. ASSUME NEW i \in Instances, Worker(i) PROVE BounceInv'
  <2>1. CASE \/ \E as \in SUBSET Shas \ {{}} : Parse(i, as)
             \/ \E s \in Shas : Exists(i, s) \/ Record(i, s)
             \/ Rename(i)
    <3>1. UNCHANGED <<bounces, last, send>>
      BY <2>1 DEF Parse, Exists, Record, Rename
    <3>2. QED  BY <3>1, BounceFrame
  <2>2. QED  BY <1>2, <2>1, BounceRecorded DEF Worker
<1>3. CASE Gc
  <2>1. CASE GcSelect \/ GcDelete \/ \E s \in Shas : GcRemove(s)
    <3>1. UNCHANGED <<bounces, last, send>>
      BY <2>1 DEF GcSelect, GcDelete, GcRemove
    <3>2. QED  BY <3>1, BounceFrame
  <2>2. QED  BY <1>3, <2>1, BouncePruned DEF Gc
<1>4. CASE GetRead \/ \E s \in Shas : GetLookup(s)
  BY <1>4, BounceFrame DEF GetRead, GetLookup
<1>5. QED  BY <1>1, <1>2, <1>3, <1>4, BounceCall DEF Next, Tools

\* A strict email_send is queued only if no recipient was known dead when it
\* was called, but for a lookup that failed (SendLookup takes it out of
\* "known"), a bounce of the meantime, an expired row or an unknown account.
THEOREM DeadAreRefused == Spec => []StrictRefusesKnownBounce
<1>1. TypeInv /\ BounceInv => StrictRefusesKnownBounce
  <2> SUFFICES ASSUME TypeInv, BounceInv, send.pc = "queued", NEW k \in send.known
               PROVE  Lapsed(k)
    BY DEF StrictRefusesKnownBounce, Lapsed
  <2>1. QED  BY DEF BounceInv, Covered
<1>2. QED  BY <1>1, TypeInit, TypeNext, BounceInit, BounceNext, PTL DEF Spec
=============================================================================
