------------------------------ MODULE Inbound ------------------------------
(***************************************************************************)
(* The IMAP side of one account (src/src/inbound.rs, src/src/cursor.rs):   *)
(* the AccountWorker that connects, selects, drains and waits, the durable *)
(* UID cursor, and InboundManager's add and remove.  The mailbox and the   *)
(* broker are external.                                                    *)
(*                                                                         *)
(* A generation g is one worker task spawned by add_account.  All of an    *)
(* account's generations share the mailbox and the cursor row.             *)
(***************************************************************************)
EXTENDS Naturals, Sequences, FiniteSets, Functions

CONSTANTS
  Msgs,           \* the messages that may arrive
  Kind,           \* [Msgs -> Kinds]
  Gone,           \* a UID whose message was expunged
  Nil,            \* no cursor row; no bootstrap_limit
  Gens,           \* worker tasks available between two crashes
  NoGen,
  Limit,          \* bootstrap_limit: Nil or a u32
  U32,            \* 2^32 in the code
  Idles,          \* may connections find the IDLE capability? subset of BOOLEAN
  AnnouncesLate,  \* does IDLE announce mail that came before IDLE began?
  JoinTimesOut,   \* may a cancelled worker outlive the 5 s join?
  MaxRotations, MaxExpunges, MaxFaults, MaxCrashes, MaxOps   \* bounds

\* A DSN, a message loop prevention suppresses, any other message.  One that
\* does not parse is published raw: it is a "mail" here.
Kinds == {"mail", "dsn", "loop"}

ASSUME InboundAssumption ==
  /\ Kind \in [Msgs -> Kinds]
  /\ Gone \notin Msgs /\ NoGen \notin Gens /\ Nil \notin Nat
  /\ Nil \notin [validity : Nat, last : Nat]
  /\ U32 \in Nat \ {0}
  /\ Limit = Nil \/ Limit \in 0..(U32 - 1)
  /\ Idles \subseteq BOOLEAN
  /\ AnnouncesLate \in BOOLEAN /\ JoinTimesOut \in BOOLEAN
  /\ MaxRotations \in Nat /\ MaxExpunges \in Nat /\ MaxFaults \in Nat
  /\ MaxCrashes \in Nat /\ MaxOps \in Nat

VARIABLES
  box,        \* the selected mailbox: the sequence of its UIDs' messages
  validity,   \* its UIDVALIDITY
  cursor,     \* the row of email_uid_cursor; survives a crash
  w,          \* the workers
  slot,       \* InboundManager.workers[instance]
  leaving,    \* the worker remove_account waits for
  used,       \* how much of each bound is spent
  \* history
  handled,    \* messages published, or suppressed as DSN or loop
  skipped,    \* messages bootstrap_limit jumped over
  published,  \* InboundEvents per message
  stored,     \* BounceStore.record calls that succeeded, per message
  unstored,   \* DSNs whose record failed
  bounced,    \* BounceEvents per message
  excuse      \* how often the plugin could not record that it had a message

mgrVars  == <<slot, leaving>>
boxVars  == <<box, validity>>
bounceVars == <<stored, unstored, bounced>>
histVars == <<handled, skipped, published, bounceVars, excuse>>
vars == <<boxVars, cursor, w, mgrVars, used, histVars>>

\* The places where a worker awaits.
InSession == {"bootstrap", "search", "fetch", "publish", "bounceStore",
              "bouncePublish", "cursorGet", "cursorSet", "wait"}
Pcs == InSession \cup {"off", "top", "connect", "select", "resetGet",
                       "resetSet", "backoff", "exited"}

Worker == [pc : Pcs, cancelled : BOOLEAN, tripped : BOOLEAN,
           health : {"Connecting", "Idle", "Polling", "Down"},
           idle : BOOLEAN,           \* conn.capabilities.idle
           session : Nat,            \* mb.uid_validity
           next : Nat,               \* mb.uid_next
           last : Nat,               \* last_uid
           todo : SUBSET Nat,        \* the UIDs of drain_pending's loop
           msg : Msgs \cup {Gone},   \* the message in hand
           merge : Nat,              \* existing.uid_validity
           heard : Nat]              \* UIDs the server has announced

FreshWorker == [pc |-> "off", cancelled |-> FALSE, tripped |-> FALSE,
                health |-> "Connecting", idle |-> FALSE, session |-> 0,
                next |-> 0, last |-> 0, todo |-> {}, msg |-> Gone,
                merge |-> 0, heard |-> 0]

Cursors == [validity : Nat \ {0}, last : Nat]

TypeOK ==
  /\ box \in Seq(Msgs \cup {Gone}) /\ validity \in Nat \ {0}
  /\ cursor \in Cursors \cup {Nil}
  /\ w \in [Gens -> Worker]
  /\ slot \in Gens \cup {NoGen} /\ leaving \in Gens \cup {NoGen}
  /\ used \in [{"rotations", "expunges", "faults", "crashes", "ops"} -> Nat]
  /\ handled \subseteq Msgs /\ skipped \subseteq Msgs
  /\ unstored \subseteq Msgs
  /\ published \in [Msgs -> Nat] /\ stored \in [Msgs -> Nat]
  /\ bounced \in [Msgs -> Nat] /\ excuse \in [Msgs -> Nat]

Init ==
  /\ box = <<>> /\ validity = 1 /\ cursor = Nil
  /\ w = [g \in Gens |-> FreshWorker]
  /\ slot = NoGen /\ leaving = NoGen
  /\ used = [k \in {"rotations", "expunges", "faults", "crashes", "ops"} |-> 0]
  /\ handled = {} /\ skipped = {} /\ unstored = {}
  /\ published = [m \in Msgs |-> 0] /\ stored = [m \in Msgs |-> 0]
  /\ bounced = [m \in Msgs |-> 0] /\ excuse = [m \in Msgs |-> 0]

-----------------------------------------------------------------------------
(* Helpers.                                                                *)

Bound == [rotations |-> MaxRotations, expunges |-> MaxExpunges,
          faults |-> MaxFaults, crashes |-> MaxCrashes, ops |-> MaxOps]

Spend(k) == used[k] < Bound[k] /\ used' = [used EXCEPT ![k] = @ + 1]

At(g, label) == w[g].pc = label

Goto(g, label) == w' = [w EXCEPT ![g].pc = label]

Present == Range(box) \ {Gone}

Bump(f, m) == [f EXCEPT ![m] = @ + 1]

\* The worker has passed message m on and the cursor does not say so yet.
Unrecorded(g, m) == w[g].pc \in {"cursorGet", "cursorSet"} /\ w[g].msg = m

-----------------------------------------------------------------------------
(* External: the mailbox.                                                  *)

Arrive(m) ==
  /\ m \notin Present /\ m \notin handled \cup skipped
  /\ \A g \in Gens : w[g].msg # m
  /\ box' = Append(box, m)
  /\ UNCHANGED <<validity, cursor, w, mgrVars, used, handled, skipped,
                 published, bounceVars, excuse>>

\* Another client, or one of the plugin's IMAP tools, moves a message away.
Expunge(u) ==
  /\ box[u] # Gone /\ Spend("expunges")
  /\ box' = [box EXCEPT ![u] = Gone]
  /\ UNCHANGED <<validity, cursor, w, mgrVars, histVars>>

\* The mailbox is recreated: its messages get new UIDs, in any order, under a
\* new UIDVALIDITY.  Open sessions do not survive (SessionLost).
Rotate ==
  /\ Spend("rotations")
  /\ validity' = validity + 1
  /\ box' \in { b \in [1..Cardinality(Present) -> Present] : Range(b) = Present }
  /\ excuse' = [m \in Msgs |-> IF m \in Present THEN excuse[m] + 1 ELSE excuse[m]]
  /\ UNCHANGED <<cursor, w, mgrVars, handled, skipped, published, bounceVars>>

-----------------------------------------------------------------------------
(* AccountWorker::run.                                                     *)

\* The Err arm of run: breaker.on_failure, which may open it, note_failure.
\* The connection is dropped, and with it everything drain_pending held.
Fail(g) ==
  \E b \in BOOLEAN :
    w' = [w EXCEPT ![g] = [FreshWorker EXCEPT
            !.pc = "backoff", !.cancelled = w[g].cancelled,
            !.tripped = w[g].tripped \/ b]]

\* The head of the loop: cancel check, then the breaker.
LoopTop(g) ==
  /\ At(g, "top")
  /\ \/ w[g].cancelled /\ Goto(g, "exited")
     \/ /\ ~w[g].cancelled /\ w[g].tripped
        /\ w' = [w EXCEPT ![g].pc = "backoff", ![g].health = "Down"]
     \/ /\ ~w[g].cancelled /\ ~w[g].tripped
        /\ w' = [w EXCEPT ![g].pc = "connect", ![g].health = "Connecting"]
  /\ UNCHANGED <<boxVars, cursor, mgrVars, used, histVars>>

\* sleep_or_cancel.
BackoffEnds(g) ==
  /\ At(g, "backoff")
  /\ \/ Goto(g, "top")
     \/ w[g].cancelled /\ Goto(g, "exited")
  /\ UNCHANGED <<boxVars, cursor, mgrVars, used, histVars>>

\* External: the breaker's cool-down ends.
BreakerCools(g) ==
  /\ w[g].tripped /\ w' = [w EXCEPT ![g].tripped = FALSE]
  /\ UNCHANGED <<boxVars, cursor, mgrVars, used, histVars>>

\* Login, an IMAP command, the broker or SQLite returns an error where the
\* code has a `?`.  A publish may have reached the broker all the same.
Error(g) ==
  /\ w[g].pc \in {"connect", "select", "resetGet", "resetSet", "bootstrap",
                  "search", "fetch", "publish", "cursorGet", "cursorSet", "wait"}
  /\ Spend("faults") /\ Fail(g)
  /\ \/ UNCHANGED published
     \/ At(g, "publish") /\ published' = Bump(published, w[g].msg)
  /\ excuse' = [m \in Msgs |->
       IF Unrecorded(g, m) \/ published'[m] # published[m]
       THEN excuse[m] + 1 ELSE excuse[m]]
  /\ UNCHANGED <<boxVars, cursor, mgrVars, handled, skipped, bounceVars>>

-----------------------------------------------------------------------------
(* connect_select_and_loop.                                                *)

\* ImapConnection::connect, breaker.on_success, note_connect_ok.
Connect(g) ==
  /\ At(g, "connect")
  /\ \E b \in Idles : w' = [w EXCEPT ![g].pc = "select", ![g].idle = b,
                                     ![g].tripped = FALSE]
  /\ UNCHANGED <<boxVars, cursor, mgrVars, used, histVars>>

Select(g) ==
  /\ At(g, "select")
  /\ w' = [w EXCEPT ![g].pc = "resetGet", ![g].session = validity,
                    ![g].next = Len(box) + 1]
  /\ UNCHANGED <<boxVars, cursor, mgrVars, used, histVars>>

\* Mutant: the stored cursor is not compared with the mailbox.
CursorAbsent(g) == cursor = Nil

\* Mutant: the cursor is started over on every connect.
CursorAlwaysStale(g) == TRUE

\* reset_if_validity_changed, its match on the row it read.
CursorStale(g) == cursor = Nil \/ cursor.validity # w[g].session

ResetGet(g) ==
  /\ At(g, "resetGet")
  /\ IF CursorStale(g)
     THEN Goto(g, "resetSet")
     ELSE w' = [w EXCEPT ![g].pc = "bootstrap", ![g].last = cursor.last]
  /\ UNCHANGED <<boxVars, cursor, mgrVars, used, histVars>>

ResetSet(g) ==
  /\ At(g, "resetSet")
  /\ cursor' = [validity |-> w[g].session, last |-> 0]
  /\ w' = [w EXCEPT ![g].pc = "bootstrap", ![g].last = 0]
  /\ UNCHANGED <<boxVars, mgrVars, used, histVars>>

\* Mutant: an off-by-one in the arithmetic of bootstrap_limit.
BootstrapOneLess(next) == IF Limit = Nil THEN 0 ELSE
  IF next > Limit THEN next - Limit ELSE 0

\* The last_uid bootstrap_limit jumps to, 0 for none.  limit + 1 is a u32 that
\* wraps in a release build; the subtraction saturates.
BootstrapUid(next) == IF Limit = Nil THEN 0 ELSE
  LET n == (Limit + 1) % U32 IN IF next > n THEN next - n ELSE 0

Bootstrap(g) ==
  LET last == BootstrapUid(w[g].next) IN
  /\ At(g, "bootstrap")
  /\ IF w[g].last = 0 /\ last # 0
     THEN /\ cursor' = [validity |-> w[g].session, last |-> last]
          /\ w' = [w EXCEPT ![g].pc = "search", ![g].last = last]
          /\ skipped' = IF w[g].session # validity THEN skipped
               ELSE skipped \cup { box[u] : u \in { u \in DOMAIN box :
                                              u <= last /\ box[u] # Gone } }
     ELSE Goto(g, "search") /\ UNCHANGED <<cursor, skipped>>
  /\ UNCHANGED <<boxVars, mgrVars, used, handled, published, bounceVars,
                 excuse>>

\* External: the server or the network ends a session whose mailbox is gone;
\* fetch_uid of an expunged UID finds nothing and is an error too.
SessionLost(g) ==
  /\ \/ w[g].pc \in {"search", "fetch", "wait"} /\ w[g].session # validity
     \/ /\ At(g, "fetch") /\ w[g].session = validity
        /\ \E u \in w[g].todo : box[u] = Gone /\ \A v \in w[g].todo : u <= v
  /\ Fail(g)
  /\ UNCHANGED <<boxVars, cursor, mgrVars, used, histVars>>

-----------------------------------------------------------------------------
(* drain_pending.                                                          *)

\* Mutant: UID SEARCH n:* as IMAP defines it, which always yields the last UID.
SearchStar(last) ==
  { u \in DOMAIN box : box[u] # Gone /\ (u > last \/ u = Len(box)) }

\* Mutant: the range starts one UID too late.
SearchSkipsOne(last) == { u \in DOMAIN box : box[u] # Gone /\ u > last + 1 }

\* External: search_since yields the UIDs above last_uid, in ascending order.
SearchSince(last) == { u \in DOMAIN box : box[u] # Gone /\ u > last }

Search(g) ==
  /\ At(g, "search") /\ w[g].session = validity
  /\ w' = [w EXCEPT ![g].pc = "fetch", ![g].todo = SearchSince(w[g].last),
                    ![g].heard = Len(box)]
  /\ UNCHANGED <<boxVars, cursor, mgrVars, used, histVars>>

\* Mutant: the BounceEvent goes out before the bounce is stored.
RoutePublishesFirst(m) ==
  CASE Kind[m] = "mail" -> "publish"
    [] Kind[m] = "dsn"  -> "bouncePublish"
    [] Kind[m] = "loop" -> "cursorGet"

\* What follows the parse: parse_bounce first, then should_skip.
Route(m) ==
  CASE Kind[m] = "mail" -> "publish"
    [] Kind[m] = "dsn"  -> "bounceStore"
    [] Kind[m] = "loop" -> "cursorGet"

\* fetch_uid of the lowest UID left, parse_eml, AttachmentStore::record (best
\* effort, left out).
Fetch(g) ==
  /\ At(g, "fetch") /\ w[g].session = validity
  /\ \E u \in w[g].todo :
       /\ \A v \in w[g].todo : u <= v
       /\ box[u] # Gone
       /\ w' = [w EXCEPT ![g].pc = Route(box[u]), ![g].msg = box[u],
                         ![g].last = u, ![g].todo = @ \ {u}]
       /\ handled' = IF Kind[box[u]] = "loop" THEN handled \cup {box[u]}
                                              ELSE handled
  /\ UNCHANGED <<boxVars, cursor, mgrVars, used, skipped, published,
                 bounceVars, excuse>>

\* BounceStore::record: best effort, before the event is published.
BounceStore(g) ==
  /\ At(g, "bounceStore")
  /\ \/ stored' = Bump(stored, w[g].msg) /\ UNCHANGED <<used, unstored>>
     \/ /\ Spend("faults") /\ UNCHANGED stored
        /\ unstored' = unstored \cup {w[g].msg}
  /\ Goto(g, "bouncePublish")
  /\ UNCHANGED <<boxVars, cursor, mgrVars, handled, skipped, published,
                 bounced, excuse>>

\* The BounceEvent: a failed publish is only logged, the cursor advances.
BouncePublish(g) ==
  /\ At(g, "bouncePublish")
  /\ \/ bounced' = Bump(bounced, w[g].msg) /\ UNCHANGED used
     \/ Spend("faults") /\ UNCHANGED bounced
  /\ handled' = handled \cup {w[g].msg}
  /\ Goto(g, "cursorGet")
  /\ UNCHANGED <<boxVars, cursor, mgrVars, skipped, published, stored,
                 unstored, excuse>>

\* Mutant: a failed publish of the InboundEvent is only logged.
PublishBestEffort(g) ==
  /\ At(g, "publish")
  /\ \/ /\ published' = Bump(published, w[g].msg)
        /\ handled' = handled \cup {w[g].msg}
        /\ UNCHANGED used
     \/ Spend("faults") /\ UNCHANGED <<published, handled>>
  /\ Goto(g, "cursorGet")
  /\ UNCHANGED <<boxVars, cursor, mgrVars, skipped, bounceVars, excuse>>

\* broker.publish of the InboundEvent, note_message.
Publish(g) ==
  /\ At(g, "publish")
  /\ published' = Bump(published, w[g].msg)
  /\ handled' = handled \cup {w[g].msg}
  /\ Goto(g, "cursorGet")
  /\ UNCHANGED <<boxVars, cursor, mgrVars, used, skipped, bounceVars,
                 excuse>>

\* cursor.get: the row's uid_validity is kept.  Without a row nothing is set.
CursorGet(g) ==
  /\ At(g, "cursorGet")
  /\ IF cursor = Nil
     THEN w' = [w EXCEPT ![g].pc = "fetch", ![g].msg = Gone]
     ELSE w' = [w EXCEPT ![g].pc = "cursorSet", ![g].merge = cursor.validity]
  /\ UNCHANGED <<boxVars, cursor, mgrVars, used, histVars>>

\* Mutant: the placeholder uid_validity is written.
CursorSetUnmerged(g) ==
  /\ At(g, "cursorSet")
  /\ cursor' = [validity |-> 0, last |-> w[g].last]
  /\ w' = [w EXCEPT ![g].pc = "fetch", ![g].msg = Gone]
  /\ UNCHANGED <<boxVars, mgrVars, used, histVars>>

\* cursor.set.
CursorSet(g) ==
  /\ At(g, "cursorSet")
  /\ cursor' = [validity |-> w[g].merge, last |-> w[g].last]
  /\ w' = [w EXCEPT ![g].pc = "fetch", ![g].msg = Gone]
  /\ UNCHANGED <<boxVars, mgrVars, used, histVars>>

-----------------------------------------------------------------------------
(* idle_loop and poll_loop.                                                *)

\* The drain is over.  EXISTS responses that came with it have been read.
DrainDone(g) ==
  /\ At(g, "fetch") /\ w[g].todo = {}
  /\ w' = [w EXCEPT ![g].pc = "wait",
                    ![g].health = IF w[g].idle THEN "Idle" ELSE "Polling",
                    ![g].heard = IF AnnouncesLate THEN @ ELSE Len(box)]
  /\ UNCHANGED <<boxVars, cursor, mgrVars, used, histVars>>

\* IdleOutcome::NewMessages: the server announces mail (external).
IdleNewMessages(g) ==
  /\ At(g, "wait") /\ w[g].idle
  /\ w[g].session = validity /\ Len(box) > w[g].heard
  /\ Goto(g, "search")
  /\ UNCHANGED <<boxVars, cursor, mgrVars, used, histVars>>

\* IdleOutcome::Timeout: IDLE is issued again; nothing is searched.
IdleTimeout(g) ==
  /\ At(g, "wait") /\ w[g].idle
  /\ w' = [w EXCEPT ![g].health = "Idle"]
  /\ UNCHANGED <<boxVars, cursor, mgrVars, used, histVars>>

PollTick(g) ==
  /\ At(g, "wait") /\ ~w[g].idle
  /\ Goto(g, "search")
  /\ UNCHANGED <<boxVars, cursor, mgrVars, used, histVars>>

\* IdleOutcome::Cancelled, or the cancelled branch of poll_loop: log out.
WaitCancelled(g) ==
  /\ At(g, "wait") /\ w[g].cancelled
  /\ Goto(g, "exited")
  /\ UNCHANGED <<boxVars, cursor, mgrVars, used, histVars>>

-----------------------------------------------------------------------------
(* InboundManager and the process.                                         *)

AddAccount(g) ==
  /\ slot = NoGen /\ leaving = NoGen /\ At(g, "off")
  /\ slot' = g /\ Goto(g, "top")
  /\ UNCHANGED <<boxVars, cursor, leaving, used, histVars>>

\* remove_account and stop: cancel, then wait.
RemoveAccount ==
  /\ slot # NoGen /\ Spend("ops")
  /\ slot' = NoGen /\ leaving' = slot
  /\ w' = [w EXCEPT ![slot].cancelled = TRUE]
  /\ UNCHANGED <<boxVars, cursor, histVars>>

\* Mutant: remove_account does not wait for the worker.
RemoveAtOnce ==
  /\ leaving # NoGen /\ leaving' = NoGen
  /\ UNCHANGED <<boxVars, cursor, w, slot, used, histVars>>

\* The worker has ended, or 5 s have passed: then it goes on, detached.
RemoveFinish ==
  /\ leaving # NoGen
  /\ At(leaving, "exited") \/ JoinTimesOut
  /\ leaving' = NoGen
  /\ UNCHANGED <<boxVars, cursor, w, slot, used, histVars>>

\* The process dies, or exits after its workers have ended, and starts again.
Crash ==
  /\ Spend("crashes")
  /\ \E g \in Gens : ~At(g, "off")
  /\ w' = [g \in Gens |-> FreshWorker]
  /\ slot' = NoGen /\ leaving' = NoGen
  /\ excuse' = [m \in Msgs |->
       IF \E g \in Gens : \/ Unrecorded(g, m)
                          \/ At(g, "bouncePublish") /\ w[g].msg = m
       THEN excuse[m] + 1 ELSE excuse[m]]
  /\ UNCHANGED <<boxVars, cursor, handled, skipped, published, bounceVars>>

-----------------------------------------------------------------------------
\* What the code does next by itself, without an error.
Step(g) ==
  \/ LoopTop(g) \/ BackoffEnds(g) \/ Connect(g) \/ Select(g)
  \/ ResetGet(g) \/ ResetSet(g) \/ Bootstrap(g) \/ SessionLost(g)
  \/ Search(g) \/ Fetch(g) \/ BounceStore(g) \/ BouncePublish(g) \/ Publish(g)
  \/ CursorGet(g) \/ CursorSet(g) \/ DrainDone(g)
  \/ IdleNewMessages(g) \/ PollTick(g) \/ WaitCancelled(g)

Next ==
  \/ \E g \in Gens : Step(g) \/ Error(g) \/ BreakerCools(g) \/ IdleTimeout(g)
  \/ \E m \in Msgs : Arrive(m)
  \/ \E u \in DOMAIN box : Expunge(u)
  \/ \E g \in Gens : AddAccount(g)
  \/ Rotate \/ RemoveAccount \/ RemoveFinish \/ Crash

Spec == Init /\ [][Next]_vars

\* Fairness: tokio polls every ready task, timers fire, every IMAP command,
\* publish and query returns (with an error at most MaxFaults times), the
\* breaker cools down, and the daemon is started again.
FairSpec ==
  /\ Spec
  /\ \A g \in Gens :
       WF_vars(Step(g)) /\ WF_vars(BreakerCools(g)) /\ WF_vars(AddAccount(g))
  /\ WF_vars(RemoveFinish)

-----------------------------------------------------------------------------
(* Properties.                                                             *)

\* "at-least-once" (inbound.rs:370-373): every UID at or below the durable
\* cursor of the current mailbox was published, suppressed, expunged or jumped
\* over by bootstrap_limit; in particular no future UID is below it.
NoGap ==
  cursor # Nil /\ cursor.validity = validity =>
    \A u \in 1..cursor.last :
      u \in DOMAIN box /\ (box[u] = Gone \/ box[u] \in handled \cup skipped)

\* The cursor of one mailbox never moves back: a restart or a reload does not
\* make the plugin publish old mail again.
CursorMonotone ==
  [][cursor # Nil /\ cursor' # Nil /\ cursor.validity = cursor'.validity
       => cursor'.last >= cursor.last]_cursor

\* A second InboundEvent for a message, or a second increment of its bounce
\* row, only after an error, a crash or a rotation that came between passing
\* the message on and recording it.
DuplicateOnlyIfDisrupted ==
  \A m \in Msgs : published[m] <= 1 + excuse[m] /\ stored[m] <= 1 + excuse[m]

\* "Persist to the bounce store before publishing" (inbound.rs:440-442): who
\* sees a BounceEvent finds its row, unless writing the row failed.
BounceStoredFirst ==
  \A m \in Msgs : bounced[m] > 0 => stored[m] > 0 \/ m \in unstored

\* bootstrap_limit keeps "the most recent N UIDs" (inbound.rs:265-268), however
\* many messages arrive between SELECT and the jump.
RecentIsKept ==
  [][skipped' # skipped => Len(box) >= cursor'.last + Limit]_skipped

\* Every message in the mailbox is eventually published or suppressed, or it
\* was jumped over, or somebody removes it.
EveryMailHandled ==
  \A m \in Msgs : (m \in Present) ~> (m \in handled \cup skipped \/ m \notin Present)
=============================================================================
