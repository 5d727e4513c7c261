--------------------------- MODULE InboundProofs ---------------------------
(***************************************************************************)
(* Theorems about Inbound, for every value of its constants.               *)
(***************************************************************************)
EXTENDS Inbound, FiniteSetTheorems, SequenceTheorems, TLAPS

-----------------------------------------------------------------------------
(* What a step does to its worker.                                         *)

\* Where a worker has a message in hand.
Holding == {"publish", "bounceStore", "bouncePublish", "cursorGet", "cursorSet"}

\* Where a worker has a selected mailbox.
Selected == InSession \cup {"resetGet", "resetSet"}

\* Where the UIDs of a search may be left.
Draining == {"fetch"} \cup Holding

\* Where a worker has neither.
Resting == {"top", "connect", "select", "backoff", "exited"}

\* Only worker g moves.
Moves(g) ==
  /\ w' \in [Gens -> Worker]
  /\ \A h \in Gens : h # g => w'[h] = w[h]

\* What a worker knows of its session and of the message in hand.
SameView(r, s) ==
  /\ r.session = s.session /\ r.next = s.next /\ r.last = s.last
  /\ r.todo = s.todo /\ r.msg = s.msg /\ r.merge = s.merge

\* A worker in hand, in the mailbox and at rest.
LEMMA Places ==
  /\ Pcs = Selected \cup Resting \cup {"off"}
  /\ Draining \subseteq InSession /\ InSession \subseteq Selected
  /\ Selected \cap Resting = {} /\ "off" \notin Selected
BY DEF Pcs, Selected, Resting, InSession, Draining, Holding

\* An assignment to one worker moves no other.
LEMMA Assign ==
  ASSUME w \in [Gens -> Worker], NEW g \in Gens, NEW r \in Worker,
         w' = [w EXCEPT ![g] = r]
  PROVE  Moves(g) /\ w'[g] = r
BY DEF Moves

\* The steps between sessions: the loop's head, the waits, login, the end.
LEMMA RestStep ==
  ASSUME TypeOK, NEW g \in Gens,
         \/ LoopTop(g) \/ BackoffEnds(g) \/ Connect(g) \/ WaitCancelled(g)
         \/ AddAccount(g)
  PROVE  Moves(g) /\ w'[g].pc \in Resting /\ SameView(w'[g], w[g])
<1> DEFINE s == w'[g]
<1>1. w \in [Gens -> Worker] /\ w[g] \in Worker
  BY DEF TypeOK
<1>2. CASE BackoffEnds(g) \/ WaitCancelled(g) \/ AddAccount(g)
  <2>1. PICK x \in {"top", "exited"} : w' = [w EXCEPT ![g].pc = x]
    BY <1>2 DEF BackoffEnds, WaitCancelled, AddAccount, Goto
  <2> DEFINE r == [w[g] EXCEPT !.pc = x]
  <2>2. r \in Worker /\ r.pc = x /\ SameView(r, w[g])
    BY <1>1 DEF Worker, Pcs, SameView
  <2>3. w' = [w EXCEPT ![g] = r]
    BY <1>1, <2>1
  <2>4. QED  BY <1>1, <2>2, <2>3, Assign DEF Resting
<1>3. CASE LoopTop(g)
  <2>1. \/ w' = [w EXCEPT ![g].pc = "exited"]
        \/ w' = [w EXCEPT ![g].pc = "backoff", ![g].health = "Down"]
        \/ w' = [w EXCEPT ![g].pc = "connect", ![g].health = "Connecting"]
    BY <1>3 DEF LoopTop, Goto
  <2>2. PICK x \in {"exited", "backoff", "connect"},
             h \in {"Connecting", "Idle", "Polling", "Down"} :
          w' = [w EXCEPT ![g] = [w[g] EXCEPT !.pc = x, !.health = h]]
    <3>1. w[g].health \in {"Connecting", "Idle", "Polling", "Down"}
      BY <1>1 DEF Worker
    <3>2. [w[g] EXCEPT !.pc = "exited"]
            = [w[g] EXCEPT !.pc = "exited", !.health = w[g].health]
      BY <1>1 DEF Worker
    <3>3. QED  BY <1>1, <2>1, <3>1, <3>2
  <2> DEFINE r == [w[g] EXCEPT !.pc = x, !.health = h]
  <2>3. r \in Worker /\ r.pc = x /\ SameView(r, w[g])
    BY <1>1 DEF Worker, Pcs, SameView
  <2>4. QED  BY <1>1, <2>2, <2>3, Assign DEF Resting
<1>4. CASE Connect(g)
  <2>1. PICK b \in BOOLEAN :
          w' = [w EXCEPT ![g].pc = "select", ![g].idle = b, ![g].tripped = FALSE]
    BY <1>4, InboundAssumption DEF Connect
  <2> DEFINE r == [w[g] EXCEPT !.pc = "select", !.idle = b, !.tripped = FALSE]
  <2>2. r \in Worker /\ r.pc = "select" /\ SameView(r, w[g])
    BY <1>1 DEF Worker, Pcs, SameView
  <2>3. w' = [w EXCEPT ![g] = r]
    BY <1>1, <2>1
  <2>4. QED  BY <1>1, <2>2, <2>3, Assign DEF Resting
<1>5. QED  BY <1>2, <1>3, <1>4

\* What the breaker, the IDLE timer and the manager change of a worker.
LEMMA FlagStep ==
  ASSUME TypeOK, NEW g \in Gens,
         (BreakerCools(g) \/ IdleTimeout(g)) \/ (RemoveAccount /\ g = slot)
  PROVE  Moves(g) /\ w'[g].pc = w[g].pc /\ SameView(w'[g], w[g])
<1>1. w \in [Gens -> Worker] /\ w[g] \in Worker
  BY DEF TypeOK
<1>2. CASE BreakerCools(g)
  <2> DEFINE r == [w[g] EXCEPT !.tripped = FALSE]
  <2>1. r \in Worker /\ r.pc = w[g].pc /\ SameView(r, w[g])
    BY <1>1 DEF Worker, SameView
  <2>2. w' = [w EXCEPT ![g] = r]
    BY <1>1, <1>2 DEF BreakerCools
  <2>3. QED  BY <1>1, <2>1, <2>2, Assign
<1>3. CASE IdleTimeout(g)
  <2> DEFINE r == [w[g] EXCEPT !.health = "Idle"]
  <2>1. r \in Worker /\ r.pc = w[g].pc /\ SameView(r, w[g])
    BY <1>1 DEF Worker, SameView
  <2>2. w' = [w EXCEPT ![g] = r]
    BY <1>1, <1>3 DEF IdleTimeout
  <2>3. QED  BY <1>1, <2>1, <2>2, Assign
<1>4. CASE RemoveAccount /\ g = slot
  <2> DEFINE r == [w[g] EXCEPT !.cancelled = TRUE]
  <2>1. r \in Worker /\ r.pc = w[g].pc /\ SameView(r, w[g])
    BY <1>1 DEF Worker, SameView
  <2>2. w' = [w EXCEPT ![g] = r]
    BY <1>1, <1>4 DEF RemoveAccount
  <2>3. QED  BY <1>1, <2>1, <2>2, Assign
<1>5. QED  BY <1>2, <1>3, <1>4

\* A failed worker waits with nothing in hand.
LEMMA FailStep ==
  ASSUME TypeOK, NEW g \in Gens, Fail(g)
  PROVE  /\ Moves(g) /\ w'[g].pc = "backoff"
         /\ w'[g].session = 0
<1>1. w \in [Gens -> Worker] /\ w[g] \in Worker
  BY DEF TypeOK
<1>2. PICK b \in BOOLEAN :
        w' = [w EXCEPT ![g] = [FreshWorker EXCEPT
                !.pc = "backoff", !.cancelled = w[g].cancelled,
                !.tripped = w[g].tripped \/ b]]
  BY DEF Fail
<1> DEFINE r == [FreshWorker EXCEPT
                !.pc = "backoff", !.cancelled = w[g].cancelled,
                !.tripped = w[g].tripped \/ b]
<1>3. w[g].cancelled \in BOOLEAN /\ (w[g].tripped \/ b) \in BOOLEAN
  BY <1>1 DEF Worker
<1>4. r \in Worker /\ r.pc = "backoff" /\ r.session = 0
  BY <1>3 DEF FreshWorker, Worker, Pcs
<1>5. QED  BY <1>1, <1>2, <1>4, Assign

\* A step that only moves the program counter.
LEMMA GotoStep ==
  ASSUME TypeOK, NEW g \in Gens, NEW x \in Pcs, Goto(g, x)
  PROVE  Moves(g) /\ w'[g].pc = x /\ SameView(w'[g], w[g])
<1>1. w \in [Gens -> Worker] /\ w[g] \in Worker
  BY DEF TypeOK
<1> DEFINE r == [w[g] EXCEPT !.pc = x]
<1>2. r \in Worker /\ r.pc = x /\ SameView(r, w[g])
  BY <1>1 DEF Worker, SameView
<1>3. w' = [w EXCEPT ![g] = r]
  BY <1>1 DEF Goto
<1>4. QED  BY <1>1, <1>2, <1>3, Assign

\* The types the steps below compute with.
LEMMA Types ==
  ASSUME TypeOK
  PROVE  /\ box \in Seq(Msgs \cup {Gone}) /\ Len(box) \in Nat
         /\ DOMAIN box = 1..Len(box)
         /\ validity \in Nat /\ validity # 0
         /\ cursor # Nil => /\ cursor.validity \in Nat /\ cursor.validity # 0
                            /\ cursor.last \in Nat
         /\ \A g \in Gens :
              /\ w[g] \in Worker
              /\ w[g].session \in Nat /\ w[g].next \in Nat /\ w[g].last \in Nat
              /\ w[g].merge \in Nat /\ w[g].todo \subseteq Nat
<1>1. box \in Seq(Msgs \cup {Gone}) /\ Len(box) \in Nat /\ DOMAIN box = 1..Len(box)
  BY LenProperties DEF TypeOK
<1>2. cursor # Nil => /\ cursor.validity \in Nat /\ cursor.validity # 0
                      /\ cursor.last \in Nat
  BY DEF TypeOK, Cursors
<1>3. \A g \in Gens :
              /\ w[g] \in Worker
              /\ w[g].session \in Nat /\ w[g].next \in Nat /\ w[g].last \in Nat
              /\ w[g].merge \in Nat /\ w[g].todo \subseteq Nat
  BY DEF TypeOK, Worker
<1>4. QED  BY <1>1, <1>2, <1>3 DEF TypeOK

\* SELECT takes the UIDVALIDITY and UIDNEXT of the mailbox as it is.
LEMMA SelectStep ==
  ASSUME TypeOK, NEW g \in Gens, Select(g)
  PROVE  /\ Moves(g) /\ w[g].pc = "select" /\ w'[g].pc = "resetGet"
         /\ w'[g].session = validity /\ w'[g].next = Len(box) + 1
<1>1. w \in [Gens -> Worker] /\ w[g] \in Worker /\ validity \in Nat /\ Len(box) + 1 \in Nat
  BY Types DEF TypeOK
<1> DEFINE r == [w[g] EXCEPT !.pc = "resetGet", !.session = validity,
                             !.next = Len(box) + 1]
<1>2. r \in Worker /\ r.pc = "resetGet" /\ r.session = validity /\ r.next = Len(box) + 1
  BY <1>1 DEF Worker, Pcs
<1>3. w' = [w EXCEPT ![g] = r]
  BY <1>1 DEF Select
<1>4. QED  BY <1>1, <1>2, <1>3, Assign DEF Select, At

\* reset_if_validity_changed: the row is as fresh as the session, or it is
\* going to be replaced.
LEMMA ResetGetStep ==
  ASSUME TypeOK, NEW g \in Gens, ResetGet(g)
  PROVE  /\ Moves(g) /\ w[g].pc = "resetGet"
         /\ w'[g].session = w[g].session /\ w'[g].next = w[g].next
         /\ \/ /\ w'[g].pc = "resetSet"
               /\ cursor = Nil \/ cursor.validity # w[g].session
            \/ /\ w'[g].pc = "bootstrap" /\ w'[g].last = cursor.last
               /\ cursor # Nil /\ cursor.validity = w[g].session
<1>1. w \in [Gens -> Worker] /\ w[g] \in Worker
  BY DEF TypeOK
<1>2. CASE CursorStale(g)
  <2>1. Goto(g, "resetSet") /\ "resetSet" \in Pcs
    BY <1>2 DEF ResetGet, Pcs
  <2>2. QED  BY <1>2, <2>1, GotoStep DEF CursorStale, SameView, ResetGet, At
<1>3. CASE ~CursorStale(g)
  <2> DEFINE r == [w[g] EXCEPT !.pc = "bootstrap", !.last = cursor.last]
  <2>1. cursor # Nil /\ cursor.validity = w[g].session
    BY <1>3 DEF CursorStale
  <2>2. r \in Worker /\ r.pc = "bootstrap" /\ r.last = cursor.last
        /\ r.session = w[g].session /\ r.next = w[g].next
    BY <1>1, <2>1, Types DEF Worker, Pcs, InSession
  <2>3. w' = [w EXCEPT ![g] = r]
    BY <1>1, <1>3 DEF ResetGet
  <2>4. QED  BY <1>1, <2>1, <2>2, <2>3, Assign DEF ResetGet, At
<1>4. QED  BY <1>2, <1>3

\* The reset writes the row of the session with UID zero.
LEMMA ResetSetStep ==
  ASSUME TypeOK, NEW g \in Gens, ResetSet(g)
  PROVE  /\ Moves(g) /\ w[g].pc = "resetSet" /\ w'[g].pc = "bootstrap"
         /\ w'[g].session = w[g].session /\ w'[g].next = w[g].next
         /\ w'[g].last = 0
         /\ cursor' = [validity |-> w[g].session, last |-> 0]
<1>1. w \in [Gens -> Worker] /\ w[g] \in Worker
  BY DEF TypeOK
<1> DEFINE r == [w[g] EXCEPT !.pc = "bootstrap", !.last = 0]
<1>2. r \in Worker /\ r.pc = "bootstrap" /\ r.last = 0
        /\ r.session = w[g].session /\ r.next = w[g].next
  BY <1>1 DEF Worker, Pcs, InSession
<1>3. w' = [w EXCEPT ![g] = r]
  BY <1>1 DEF ResetSet
<1>4. QED  BY <1>1, <1>2, <1>3, Assign DEF ResetSet, At

\* What bootstrap_limit jumps to: below the UID the SELECT announced, unless
\* limit + 1 wraps to 0.
LEMMA BootstrapUidType ==
  ASSUME NEW next \in Nat
  PROVE  /\ BootstrapUid(next) \in Nat
         /\ BootstrapUid(next) # 0 =>
              /\ Limit \in Nat /\ (Limit + 1) % U32 \in Nat
              /\ BootstrapUid(next) + ((Limit + 1) % U32) = next
<1>1. CASE Limit = Nil
  BY <1>1 DEF BootstrapUid
<1>2. CASE Limit # Nil
  <2>1. Limit \in Nat /\ (Limit + 1) % U32 \in Nat
    BY <1>2, InboundAssumption
  <2> DEFINE n == (Limit + 1) % U32
  <2>2. BootstrapUid(next) = IF next > n THEN next - n ELSE 0
    BY <1>2 DEF BootstrapUid
  <2> HIDE DEF n
  <2>3. n \in Nat /\ Limit \in Nat
    BY <2>1 DEF n
  <2>4. BootstrapUid(next) \in Nat /\ (BootstrapUid(next) # 0 => BootstrapUid(next) + n = next)
    BY <2>2, <2>3
  <2>5. QED  BY <2>3, <2>4 DEF n
<1>3. QED  BY <1>1, <1>2

\* The messages a jump passes over.
Jumped(last) == { box[u] : u \in { u \in DOMAIN box : u <= last /\ box[u] # Gone } }

\* The bootstrap either leaves the cursor alone or moves a cursor at zero to
\* the UID that leaves the last Limit messages, and marks those it passes over.
LEMMA BootstrapStep ==
  ASSUME TypeOK, NEW g \in Gens, Bootstrap(g)
  PROVE  /\ Moves(g) /\ w[g].pc = "bootstrap" /\ w'[g].pc = "search"
         /\ w'[g].session = w[g].session /\ w'[g].next = w[g].next
         /\ \/ w'[g].last = w[g].last /\ cursor' = cursor /\ skipped' = skipped
            \/ /\ w[g].last = 0 /\ w'[g].last = BootstrapUid(w[g].next)
               /\ BootstrapUid(w[g].next) # 0
               /\ cursor' = [validity |-> w[g].session, last |-> w'[g].last]
               /\ skipped' = IF w[g].session # validity THEN skipped
                             ELSE skipped \cup Jumped(w'[g].last)
<1> DEFINE last == BootstrapUid(w[g].next)
<1>1. w \in [Gens -> Worker] /\ w[g] \in Worker /\ last \in Nat /\ w[g].pc = "bootstrap"
  BY Types, BootstrapUidType DEF TypeOK, Bootstrap, At
<1>2. CASE w[g].last = 0 /\ last # 0
  <2>1. /\ cursor' = [validity |-> w[g].session, last |-> last]
        /\ w' = [w EXCEPT ![g].pc = "search", ![g].last = last]
        /\ skipped' = IF w[g].session # validity THEN skipped
                      ELSE skipped \cup Jumped(last)
    BY <1>2 DEF Bootstrap, Jumped
  <2> HIDE DEF last
  <2> DEFINE r == [w[g] EXCEPT !.pc = "search", !.last = last]
  <2>2. r \in Worker /\ r.pc = "search" /\ r.last = last
        /\ r.session = w[g].session /\ r.next = w[g].next
    BY <1>1 DEF Worker, Pcs, InSession
  <2>3. w' = [w EXCEPT ![g] = r]
    BY <1>1, <2>1
  <2>4. QED  BY <1>1, <1>2, <2>1, <2>2, <2>3, Assign DEF last
<1>3. CASE ~(w[g].last = 0 /\ last # 0)
  <2>1. Goto(g, "search") /\ "search" \in Pcs /\ cursor' = cursor /\ skipped' = skipped
    BY <1>3 DEF Bootstrap, Pcs, InSession
  <2>2. QED  BY <1>1, <2>1, GotoStep DEF SameView
<1>4. QED  BY <1>2, <1>3

\* SEARCH lists the UIDs above the last one, in the mailbox of the session.
LEMMA SearchStep ==
  ASSUME TypeOK, NEW g \in Gens, Search(g)
  PROVE  /\ Moves(g) /\ w[g].pc = "search" /\ w'[g].pc = "fetch"
         /\ w[g].session = validity /\ w'[g].session = w[g].session
         /\ w'[g].last = w[g].last /\ w'[g].todo = SearchSince(w[g].last)
<1>1. w \in [Gens -> Worker] /\ w[g] \in Worker
  BY DEF TypeOK
<1>2. SearchSince(w[g].last) \subseteq Nat
  BY Types DEF SearchSince
<1> DEFINE todo == SearchSince(w[g].last)
           r == [[w[g] EXCEPT !.pc = "fetch", !.todo = todo] EXCEPT !.heard = Len(box)]
<1> HIDE DEF todo
<1>3. r \in Worker /\ r.pc = "fetch" /\ r.todo = todo
      /\ r.session = w[g].session /\ r.last = w[g].last
  BY <1>1, <1>2, Types DEF Worker, Pcs, InSession, todo
<1>4. w' = [w EXCEPT ![g] = r]
  BY <1>1 DEF Search, todo
<1>5. QED  BY <1>1, <1>3, <1>4, Assign DEF Search, At, todo

\* What follows the parse of a message.
LEMMA RouteType ==
  ASSUME NEW m \in Msgs
  PROVE  \/ Kind[m] = "mail" /\ Route(m) = "publish"
         \/ Kind[m] = "dsn"  /\ Route(m) = "bounceStore"
         \/ Kind[m] = "loop" /\ Route(m) = "cursorGet"
<1>1. Kind[m] \in Kinds
  BY InboundAssumption
<1>2. CASE Kind[m] = "mail"
  BY <1>2 DEF Route
<1>3. CASE Kind[m] = "dsn"
  BY <1>3 DEF Route
<1>4. CASE Kind[m] = "loop"
  BY <1>4 DEF Route
<1>5. QED  BY <1>1, <1>2, <1>3, <1>4 DEF Kinds

\* fetch_uid takes the lowest UID left, which the mailbox still has.
LEMMA FetchStep ==
  ASSUME TypeOK, NEW g \in Gens, Fetch(g), w[g].todo \subseteq DOMAIN box
  PROVE  /\ Moves(g) /\ w[g].pc = "fetch" /\ w[g].session = validity
         /\ \E u \in w[g].todo :
              /\ \A v \in w[g].todo : u <= v
              /\ u \in DOMAIN box /\ box[u] \in Msgs
              /\ w'[g].session = validity /\ w'[g].msg = box[u] /\ w'[g].last = u
              /\ w'[g].todo = w[g].todo \ {u}
              /\ \/ w'[g].pc \in {"publish", "bounceStore"} /\ handled' = handled
                 \/ w'[g].pc = "cursorGet" /\ handled' = handled \cup {box[u]}
<1>1. w \in [Gens -> Worker] /\ w[g] \in Worker /\ w[g].pc = "fetch"
      /\ w[g].session = validity
  BY DEF TypeOK, Fetch, At
<1>2. PICK u \in w[g].todo :
        /\ \A v \in w[g].todo : u <= v
        /\ box[u] # Gone
        /\ w' = [w EXCEPT ![g].pc = Route(box[u]), ![g].msg = box[u],
                          ![g].last = u, ![g].todo = @ \ {u}]
        /\ handled' = IF Kind[box[u]] = "loop" THEN handled \cup {box[u]} ELSE handled
  BY DEF Fetch
<1> DEFINE m == box[u]
           to == Route(m)
           rest == w[g].todo \ {u}
           r == [[w[g] EXCEPT !.pc = to, !.msg = m] EXCEPT !.last = u, !.todo = rest]
<1>3. u \in DOMAIN box /\ u \in Nat /\ rest \subseteq Nat
  BY Types
<1>4. m \in Msgs
  BY <1>2, <1>3, Types
<1>5. \/ to = "publish" /\ handled' = handled
      \/ to = "bounceStore" /\ handled' = handled
      \/ to = "cursorGet" /\ handled' = handled \cup {m}
  BY <1>2, <1>4, RouteType
<1>6. to \in Pcs
  BY <1>5 DEF Pcs, InSession
<1>7. w' = [w EXCEPT ![g] = r]
  BY <1>1, <1>2
<1> HIDE DEF to, m, rest
<1>8. r \in Worker /\ r.pc = to /\ r.msg = m /\ r.last = u /\ r.todo = rest
      /\ r.session = w[g].session
  BY <1>1, <1>3, <1>4, <1>6 DEF Worker
<1>9. Moves(g) /\ w'[g] = r
  BY <1>1, <1>7, <1>8, Assign
<1> HIDE DEF r
<1>10. QED  BY <1>1, <1>2, <1>3, <1>4, <1>5, <1>8, <1>9 DEF m, rest

\* cursor.get: the row is there, or nothing will be set.
LEMMA CursorGetStep ==
  ASSUME TypeOK, NEW g \in Gens, CursorGet(g)
  PROVE  /\ Moves(g) /\ w[g].pc = "cursorGet"
         /\ w'[g].session = w[g].session /\ w'[g].last = w[g].last
         /\ w'[g].todo = w[g].todo
         /\ \/ /\ w'[g].pc = "fetch" /\ w'[g].msg = Gone /\ cursor = Nil
            \/ /\ w'[g].pc = "cursorSet" /\ w'[g].msg = w[g].msg
               /\ cursor # Nil /\ w'[g].merge = cursor.validity
<1>1. w \in [Gens -> Worker] /\ w[g] \in Worker
  BY DEF TypeOK
<1>2. CASE cursor = Nil
  <2> DEFINE r == [w[g] EXCEPT !.pc = "fetch", !.msg = Gone]
  <2>1. r \in Worker /\ r.pc = "fetch" /\ r.msg = Gone
        /\ r.session = w[g].session /\ r.last = w[g].last /\ r.todo = w[g].todo
    BY <1>1 DEF Worker, Pcs, InSession
  <2>2. w' = [w EXCEPT ![g] = r]
    BY <1>1, <1>2 DEF CursorGet
  <2>3. QED  BY <1>1, <1>2, <2>1, <2>2, Assign DEF CursorGet, At
<1>3. CASE cursor # Nil
  <2> DEFINE r == [w[g] EXCEPT !.pc = "cursorSet", !.merge = cursor.validity]
  <2>1. r \in Worker /\ r.pc = "cursorSet" /\ r.msg = w[g].msg /\ r.merge = cursor.validity
        /\ r.session = w[g].session /\ r.last = w[g].last /\ r.todo = w[g].todo
    BY <1>1, <1>3, Types DEF Worker, Pcs, InSession
  <2>2. w' = [w EXCEPT ![g] = r]
    BY <1>1, <1>3 DEF CursorGet
  <2>3. QED  BY <1>1, <1>3, <2>1, <2>2, Assign DEF CursorGet, At
<1>4. QED  BY <1>2, <1>3

\* The cursor is set to the message in hand, under the validity read before.
LEMMA CursorSetStep ==
  ASSUME TypeOK, NEW g \in Gens, CursorSet(g)
  PROVE  /\ Moves(g) /\ w[g].pc = "cursorSet" /\ w'[g].pc = "fetch"
         /\ w'[g].session = w[g].session /\ w'[g].last = w[g].last
         /\ w'[g].todo = w[g].todo /\ w'[g].msg = Gone
         /\ cursor' = [validity |-> w[g].merge, last |-> w[g].last]
<1>1. w \in [Gens -> Worker] /\ w[g] \in Worker
  BY DEF TypeOK
<1> DEFINE r == [w[g] EXCEPT !.pc = "fetch", !.msg = Gone]
<1>2. r \in Worker /\ r.pc = "fetch" /\ r.msg = Gone
        /\ r.session = w[g].session /\ r.last = w[g].last /\ r.todo = w[g].todo
  BY <1>1 DEF Worker, Pcs, InSession
<1>3. w' = [w EXCEPT ![g] = r]
  BY <1>1 DEF CursorSet
<1>4. QED  BY <1>1, <1>2, <1>3, Assign DEF CursorSet, At

\* drain_pending has nothing left.
LEMMA DrainStep ==
  ASSUME TypeOK, NEW g \in Gens, DrainDone(g)
  PROVE  /\ Moves(g) /\ w[g].pc = "fetch" /\ w'[g].pc = "wait"
         /\ SameView(w'[g], w[g])
<1>1. w \in [Gens -> Worker] /\ w[g] \in Worker
  BY DEF TypeOK
<1>2. PICK k \in {"Idle", "Polling"}, n \in Nat :
        w' = [w EXCEPT ![g].pc = "wait", ![g].health = k, ![g].heard = n]
  <2> DEFINE k == IF w[g].idle THEN "Idle" ELSE "Polling"
             n == IF AnnouncesLate THEN w[g].heard ELSE Len(box)
  <2>1. k \in {"Idle", "Polling"} /\ n \in Nat
    BY <1>1, Types DEF Worker
  <2>2. w' = [w EXCEPT ![g].pc = "wait", ![g].health = k, ![g].heard = n]
    BY <1>1 DEF DrainDone
  <2> HIDE DEF k, n
  <2>3. QED  BY <2>1, <2>2
<1> DEFINE r == [w[g] EXCEPT !.pc = "wait", !.health = k, !.heard = n]
<1>3. r \in Worker /\ r.pc = "wait" /\ SameView(r, w[g])
  BY <1>1 DEF Worker, Pcs, InSession, SameView
<1>4. w' = [w EXCEPT ![g] = r]
  BY <1>1, <1>2
<1>5. QED  BY <1>1, <1>3, <1>4, Assign DEF DrainDone, At

\* The steps that pass the message in hand on, and those that wake the loop.
LEMMA PassStep ==
  ASSUME TypeOK, NEW g \in Gens
  PROVE  /\ BounceStore(g) => /\ Moves(g) /\ SameView(w'[g], w[g])
                              /\ w[g].pc = "bounceStore" /\ w'[g].pc = "bouncePublish"
         /\ BouncePublish(g) => /\ Moves(g) /\ SameView(w'[g], w[g])
                                /\ w[g].pc = "bouncePublish" /\ w'[g].pc = "cursorGet"
         /\ Publish(g) => /\ Moves(g) /\ SameView(w'[g], w[g])
                          /\ w[g].pc = "publish" /\ w'[g].pc = "cursorGet"
         /\ IdleNewMessages(g) \/ PollTick(g) =>
              /\ Moves(g) /\ SameView(w'[g], w[g])
              /\ w[g].pc = "wait" /\ w'[g].pc = "search"
<1>1. {"bouncePublish", "cursorGet", "search"} \subseteq Pcs
  BY DEF Pcs, InSession
<1>2. BounceStore(g) => Goto(g, "bouncePublish") /\ w[g].pc = "bounceStore"
  BY DEF BounceStore, At
<1>3. BouncePublish(g) => Goto(g, "cursorGet") /\ w[g].pc = "bouncePublish"
  BY DEF BouncePublish, At
<1>4. Publish(g) => Goto(g, "cursorGet") /\ w[g].pc = "publish"
  BY DEF Publish, At
<1>5. IdleNewMessages(g) \/ PollTick(g) => Goto(g, "search") /\ w[g].pc = "wait"
  BY DEF IdleNewMessages, PollTick, At
<1>6. QED  BY <1>1, <1>2, <1>3, <1>4, <1>5, GotoStep

-----------------------------------------------------------------------------
(* Type correctness.                                                       *)

\* TypeOK is not inductive alone: what a worker writes to the history and to
\* the cursor must be a message and a UIDVALIDITY by the time it writes it, and
\* the UIDs it goes through must be UIDs of the mailbox it selected.
GoodWorker(r) ==
  /\ r.session <= validity
  /\ r.pc \in Draining /\ r.session = validity => r.todo \subseteq DOMAIN box
  /\ r.pc \in Holding => r.msg \in Msgs
  /\ r.pc \in Selected => r.session # 0
  /\ r.pc = "cursorSet" => r.merge # 0

TypeInv == TypeOK /\ \A g \in Gens : GoodWorker(w[g])

\* The messages in the mailbox are finitely many.
LEMMA PresentFinite ==
  ASSUME box \in Seq(Msgs \cup {Gone})
  PROVE  IsFiniteSet(Present) /\ Present \subseteq Msgs
<1>1. box \in Surjection(1..Len(box), Range(box))
  BY DEF Range, Surjection
<1>2. IsFiniteSet(1..Len(box))
  BY FS_Interval, LenProperties
<1>3. IsFiniteSet(Range(box))
  BY <1>1, <1>2, FS_Surjection
<1>4. Range(box) \subseteq Msgs \cup {Gone}
  BY DEF Range
<1>5. QED  BY <1>3, <1>4, FS_Subset DEF Present

\* A rotated mailbox holds the same messages, each once.
LEMMA RotatedBox ==
  ASSUME TypeOK, Rotate
  PROVE  /\ box' \in Seq(Msgs \cup {Gone})
         /\ \A u \in DOMAIN box' : box'[u] \in Present
         /\ \A u, v \in DOMAIN box' : box'[u] = box'[v] => u = v
<1>1. IsFiniteSet(Present) /\ Present \subseteq Msgs
  BY PresentFinite DEF TypeOK
<1> DEFINE n == Cardinality(Present)
<1>2. n \in Nat
  BY <1>1, FS_CardinalityType
<1>3. box' \in [1..n -> Present] /\ Range(box') = Present
  BY DEF Rotate
<1> HIDE DEF n
<1>4. box' \in Seq(Msgs \cup {Gone})
  BY <1>1, <1>2, <1>3
<1>5. \A u \in DOMAIN box' : box'[u] \in Present
  BY <1>3
<1>6. IsFiniteSet(1..n) /\ Cardinality(1..n) = Cardinality(Present)
  BY <1>2, FS_Interval DEF n
<1>7. box' \in Surjection(1..n, Present)
  BY <1>3 DEF Surjection, Range
<1>8. box' \in Injection(1..n, Present)
  BY <1>1, <1>6, <1>7, FS_SurjSameCardinalityImpliesInj
<1>9. \A u, v \in DOMAIN box' : box'[u] = box'[v] => u = v
  BY <1>3, <1>8 DEF Injection, IsInjective
<1>10. QED  BY <1>4, <1>5, <1>9

\* A worker that was never started.
LEMMA FreshWorkerType == FreshWorker \in Worker /\ FreshWorker.pc = "off"
                         /\ FreshWorker.session = 0
BY DEF FreshWorker, Worker, Pcs

\* Base case.
LEMMA TypeInit == Init => TypeInv
<1> SUFFICES ASSUME Init PROVE TypeInv
  OBVIOUS
<1>1. \A g \in Gens : GoodWorker(w[g])
  BY FreshWorkerType, Places
     DEF Init, GoodWorker, Draining, Holding, Selected, InSession
<1>2. TypeOK
  BY FreshWorkerType, EmptySeq DEF Init, TypeOK
<1>3. QED  BY <1>1, <1>2 DEF TypeInv

\* A counter goes up by one at one place.
LEMMA BumpType ==
  ASSUME NEW S, NEW f \in [S -> Nat], NEW k
  PROVE  /\ Bump(f, k) \in [S -> Nat]
         /\ \A x \in S : Bump(f, k)[x] = IF x = k THEN f[x] + 1 ELSE f[x]
<1>1. DOMAIN Bump(f, k) = S /\ Bump(f, k) = [x \in S |-> Bump(f, k)[x]]
  BY DEF Bump
<1>2. \A x \in S : Bump(f, k)[x] = IF x = k THEN f[x] + 1 ELSE f[x]
  BY DEF Bump
<1>3. \A x \in S : Bump(f, k)[x] \in Nat
  BY <1>2
<1>4. QED  BY <1>1, <1>2, <1>3

\* Spending a bound keeps the counters numbers.
LEMMA UsedType ==
  ASSUME used \in [{"rotations", "expunges", "faults", "crashes", "ops"} -> Nat],
         NEW k, Spend(k)
  PROVE  used' \in [{"rotations", "expunges", "faults", "crashes", "ops"} -> Nat]
<1>1. used' = Bump(used, k)
  BY DEF Spend, Bump
<1>2. QED  BY <1>1, BumpType

\* A step of one worker, in a mailbox that stays as it is.
LEMMA TypeMove ==
  ASSUME TypeInv, NEW g \in Gens, Moves(g), GoodWorker(w'[g]), UNCHANGED boxVars,
         slot' \in Gens \cup {NoGen} /\ leaving' \in Gens \cup {NoGen},
         cursor' \in Cursors \cup {Nil},
         UNCHANGED used \/ \E k : Spend(k),
         handled' \subseteq Msgs /\ skipped' \subseteq Msgs /\ unstored' \subseteq Msgs,
         published' \in [Msgs -> Nat] /\ stored' \in [Msgs -> Nat],
         bounced' \in [Msgs -> Nat] /\ excuse' \in [Msgs -> Nat]
  PROVE  TypeInv'
<1>1. used' \in [{"rotations", "expunges", "faults", "crashes", "ops"} -> Nat]
  BY UsedType DEF TypeInv, TypeOK
<1>2. TypeOK'
  BY <1>1 DEF TypeInv, TypeOK, Moves, boxVars
<1>3. \A h \in Gens : GoodWorker(w[h])'
  BY DEF TypeInv, Moves, boxVars, GoodWorker
<1>4. QED  BY <1>2, <1>3 DEF TypeInv

\* The same when nothing else changes, and the manager's variables are typed.
LEMMA TypeQuietMove ==
  ASSUME TypeInv, NEW g \in Gens, Moves(g), GoodWorker(w'[g]),
         UNCHANGED <<boxVars, cursor, histVars>>,
         UNCHANGED mgrVars \/ AddAccount(g) \/ RemoveAccount,
         UNCHANGED used \/ \E k : Spend(k)
  PROVE  TypeInv'
<1>1. slot' \in Gens \cup {NoGen} /\ leaving' \in Gens \cup {NoGen}
  BY DEF TypeInv, TypeOK, mgrVars, AddAccount, RemoveAccount
<1>2. /\ handled' \subseteq Msgs /\ skipped' \subseteq Msgs /\ unstored' \subseteq Msgs
      /\ published' \in [Msgs -> Nat] /\ stored' \in [Msgs -> Nat]
      /\ bounced' \in [Msgs -> Nat] /\ excuse' \in [Msgs -> Nat]
      /\ cursor' \in Cursors \cup {Nil}
  BY DEF TypeInv, TypeOK, histVars, bounceVars
<1>3. QED  BY <1>1, <1>2, TypeMove

\* What a worker knows changes only at the steps that read it.
LEMMA SameViewGood ==
  ASSUME TypeInv, NEW g \in Gens, SameView(w'[g], w[g]),
         w'[g].pc \in Draining => w[g].pc \in Draining,
         w'[g].pc \in Holding => w[g].pc \in Holding,
         w'[g].pc \in Selected => w[g].pc \in Selected,
         w'[g].pc = "cursorSet" => w[g].pc = "cursorSet"
  PROVE  GoodWorker(w'[g])
BY DEF TypeInv, GoodWorker, SameView

\* Every action keeps the types: workers, manager, cursor, then the world.
LEMMA TypeNext == TypeInv /\ [Next]_vars => TypeInv'
<1> SUFFICES ASSUME TypeInv, [Next]_vars PROVE TypeInv'
  OBVIOUS
<1>1. TypeOK /\ (\A g \in Gens : GoodWorker(w[g]))
  BY DEF TypeInv
<1>2. ASSUME NEW g \in Gens,
             \/ LoopTop(g) \/ BackoffEnds(g) \/ Connect(g) \/ WaitCancelled(g)
             \/ AddAccount(g)
      PROVE  TypeInv'
  <2>1. Moves(g) /\ w'[g].pc \in Resting /\ SameView(w'[g], w[g])
    BY <1>1, <1>2, RestStep
  <2>2. GoodWorker(w'[g])
    BY <2>1, SameViewGood, Places DEF Draining, Holding, Resting
  <2>3. UNCHANGED <<boxVars, cursor, histVars, used>>
        /\ (UNCHANGED mgrVars \/ AddAccount(g))
    BY <1>2 DEF LoopTop, BackoffEnds, Connect, WaitCancelled, AddAccount
  <2>4. QED  BY <2>1, <2>2, <2>3, TypeQuietMove
<1>3. ASSUME NEW g \in Gens,
             (BreakerCools(g) \/ IdleTimeout(g)) \/ (RemoveAccount /\ g = slot)
      PROVE  TypeInv'
  <2>1. Moves(g) /\ w'[g].pc = w[g].pc /\ SameView(w'[g], w[g])
    BY <1>1, <1>3, FlagStep
  <2>2. GoodWorker(w'[g])
    BY <2>1, SameViewGood
  <2>3. UNCHANGED <<boxVars, cursor, histVars>>
        /\ (UNCHANGED mgrVars \/ RemoveAccount) /\ (UNCHANGED used \/ \E k : Spend(k))
    BY <1>3 DEF BreakerCools, IdleTimeout, RemoveAccount
  <2>4. QED  BY <2>1, <2>2, <2>3, TypeQuietMove
<1>4. ASSUME NEW g \in Gens, Select(g) PROVE TypeInv'
  <2>1. Moves(g) /\ w'[g].pc = "resetGet" /\ w'[g].session = validity
    BY <1>1, <1>4, SelectStep
  <2>2. GoodWorker(w'[g])
    BY <1>1, <2>1, Types DEF GoodWorker, Draining, Holding
  <2>3. QED  BY <1>4, <2>1, <2>2, TypeQuietMove DEF Select
<1>5. ASSUME NEW g \in Gens, ResetGet(g) PROVE TypeInv'
  <2>1. /\ Moves(g) /\ w[g].pc = "resetGet" /\ w'[g].session = w[g].session
        /\ w'[g].pc = "resetSet" \/ w'[g].pc = "bootstrap"
    BY <1>1, <1>5, ResetGetStep
  <2>2. GoodWorker(w'[g])
    BY <1>1, <2>1 DEF GoodWorker, Draining, Holding, Selected, InSession
  <2>3. QED  BY <1>5, <2>1, <2>2, TypeQuietMove DEF ResetGet
<1>6. ASSUME NEW g \in Gens, ResetSet(g) PROVE TypeInv'
  <2>1. /\ Moves(g) /\ w[g].pc = "resetSet" /\ w'[g].session = w[g].session
        /\ w'[g].pc = "bootstrap"
        /\ cursor' = [validity |-> w[g].session, last |-> 0]
    BY <1>1, <1>6, ResetSetStep
  <2>2. GoodWorker(w'[g]) /\ w[g].session # 0
    BY <1>1, <2>1 DEF GoodWorker, Draining, Holding, Selected, InSession
  <2>3. cursor' \in Cursors
    BY <1>1, <2>1, <2>2, Types DEF Cursors
  <2>4. QED
    BY <1>6, <2>1, <2>2, <2>3, TypeMove
       DEF ResetSet, TypeInv, TypeOK, mgrVars, histVars, bounceVars
<1>7. ASSUME NEW g \in Gens, Bootstrap(g) PROVE TypeInv'
  <2>1. /\ Moves(g) /\ w[g].pc = "bootstrap" /\ w'[g].session = w[g].session
        /\ w'[g].pc = "search"
        /\ \/ cursor' = cursor /\ skipped' = skipped
           \/ /\ cursor' = [validity |-> w[g].session, last |-> w'[g].last]
              /\ skipped' = skipped \/ skipped' = skipped \cup Jumped(w'[g].last)
    BY <1>1, <1>7, BootstrapStep
  <2>2. GoodWorker(w'[g]) /\ w[g].session # 0
    BY <1>1, <2>1 DEF GoodWorker, Draining, Holding, Selected, InSession
  <2>3. cursor' \in Cursors \cup {Nil}
    <3>1. w'[g].last \in Nat
      BY <2>1 DEF Moves, Worker
    <3>2. QED  BY <1>1, <2>1, <2>2, <3>1, Types DEF Cursors, TypeOK
  <2>4. skipped' \subseteq Msgs
    <3>1. Jumped(w'[g].last) \subseteq Msgs
      BY <1>1, Types DEF Jumped
    <3>2. QED  BY <1>1, <2>1, <3>1 DEF TypeOK
  <2>5. QED
    BY <1>7, <2>1, <2>2, <2>3, <2>4, TypeMove
       DEF Bootstrap, TypeInv, TypeOK, mgrVars, histVars, bounceVars
<1>8. ASSUME NEW g \in Gens, SessionLost(g) \/ Error(g) PROVE TypeInv'
  <2>1. Moves(g) /\ w'[g].pc = "backoff" /\ w'[g].session = 0
    BY <1>1, <1>8, FailStep DEF SessionLost, Error
  <2>2. GoodWorker(w'[g])
    BY <1>1, <2>1, Types DEF GoodWorker, Draining, Holding, Selected, InSession
  <2>3. CASE SessionLost(g)
    BY <2>1, <2>2, <2>3, TypeQuietMove DEF SessionLost
  <2>4. CASE Error(g)
    <3>1. At(g, "publish") => w[g].msg \in Msgs
      BY <1>1 DEF At, GoodWorker, Holding
    <3>2. published' \in [Msgs -> Nat]
      <4>1. published \in [Msgs -> Nat]
        BY <1>1 DEF TypeOK
      <4>2. CASE UNCHANGED published
        BY <4>1, <4>2
      <4>3. CASE At(g, "publish") /\ published' = Bump(published, w[g].msg)
        BY <3>1, <4>1, <4>3, BumpType
      <4>4. QED  BY <2>4, <4>2, <4>3 DEF Error
    <3>3. excuse' \in [Msgs -> Nat]
      BY <1>1, <2>4 DEF Error, TypeOK
    <3>4. QED
      BY <2>1, <2>2, <2>4, <3>2, <3>3, TypeMove
         DEF Error, TypeInv, TypeOK, mgrVars, bounceVars
  <2>5. QED  BY <1>8, <2>3, <2>4
<1>9. ASSUME NEW g \in Gens, Search(g) PROVE TypeInv'
  <2>1. /\ Moves(g) /\ w[g].pc = "search" /\ w'[g].pc = "fetch"
        /\ w'[g].session = w[g].session /\ w'[g].todo \subseteq DOMAIN box
    BY <1>1, <1>9, SearchStep DEF SearchSince
  <2>2. GoodWorker(w'[g])
    BY <1>1, <2>1 DEF GoodWorker, Draining, Holding, Selected, InSession
  <2>3. QED  BY <1>9, <2>1, <2>2, TypeQuietMove DEF Search
<1>10. ASSUME NEW g \in Gens, Fetch(g) PROVE TypeInv'
  <2>1. w[g].todo \subseteq DOMAIN box
    BY <1>1, <1>10 DEF Fetch, At, GoodWorker, Draining
  <2>2. PICK u \in w[g].todo :
              /\ box[u] \in Msgs
              /\ w'[g].session = validity /\ w'[g].msg = box[u]
              /\ w'[g].todo = w[g].todo \ {u}
              /\ \/ w'[g].pc \in {"publish", "bounceStore"} /\ handled' = handled
                 \/ w'[g].pc = "cursorGet" /\ handled' = handled \cup {box[u]}
    BY <1>1, <1>10, <2>1, FetchStep
  <2>3. Moves(g) /\ w[g].pc = "fetch" /\ w[g].session = validity
    BY <1>1, <1>10, <2>1, FetchStep
  <2>4. GoodWorker(w'[g])
    BY <1>1, <2>1, <2>2, <2>3, Types DEF GoodWorker, Draining, Holding, Selected, InSession
  <2>5. handled' \subseteq Msgs
    BY <1>1, <2>2 DEF TypeOK
  <2>6. QED
    BY <1>10, <2>3, <2>4, <2>5, TypeMove DEF Fetch, TypeInv, TypeOK, mgrVars, bounceVars
<1>11. ASSUME NEW g \in Gens, BounceStore(g) \/ BouncePublish(g) \/ Publish(g)
       PROVE  TypeInv'
  <2>1. /\ Moves(g) /\ SameView(w'[g], w[g])
        /\ w[g].pc \in {"bounceStore", "bouncePublish", "publish"}
        /\ w'[g].pc \in {"bouncePublish", "cursorGet"}
    BY <1>1, <1>11, PassStep
  <2>2. GoodWorker(w'[g])
    BY <2>1, SameViewGood DEF Draining, Holding, Selected, InSession
  <2>3. w[g].msg \in Msgs
    BY <1>1, <2>1 DEF GoodWorker, Holding
  <2>4. /\ published' \in [Msgs -> Nat] /\ stored' \in [Msgs -> Nat]
        /\ bounced' \in [Msgs -> Nat]
    <3>1. /\ published' = published \/ published' = Bump(published, w[g].msg)
          /\ stored' = stored \/ stored' = Bump(stored, w[g].msg)
          /\ bounced' = bounced \/ bounced' = Bump(bounced, w[g].msg)
      BY <1>11 DEF BounceStore, BouncePublish, Publish, bounceVars
    <3>2. /\ Bump(published, w[g].msg) \in [Msgs -> Nat]
          /\ Bump(stored, w[g].msg) \in [Msgs -> Nat]
          /\ Bump(bounced, w[g].msg) \in [Msgs -> Nat]
      BY <1>1, BumpType DEF TypeOK
    <3>3. QED  BY <1>1, <3>1, <3>2 DEF TypeOK
  <2>5. handled' \subseteq Msgs /\ unstored' \subseteq Msgs
    BY <1>1, <1>11, <2>3 DEF BounceStore, BouncePublish, Publish, TypeOK, bounceVars
  <2>6. /\ UNCHANGED <<boxVars, cursor, mgrVars, skipped, excuse>>
        /\ UNCHANGED used \/ \E k : Spend(k)
    BY <1>11 DEF BounceStore, BouncePublish, Publish
  <2>7. QED
    BY <1>1, <2>1, <2>2, <2>4, <2>5, <2>6, TypeMove DEF TypeOK, mgrVars
<1>12. ASSUME NEW g \in Gens, IdleNewMessages(g) \/ PollTick(g) \/ DrainDone(g)
       PROVE  TypeInv'
  <2>1. /\ Moves(g) /\ SameView(w'[g], w[g])
        /\ w[g].pc \in {"wait", "fetch"} /\ w'[g].pc \in {"search", "wait"}
    BY <1>1, <1>12, PassStep, DrainStep
  <2>2. GoodWorker(w'[g])
    BY <2>1, SameViewGood DEF Draining, Holding, Selected, InSession
  <2>3. QED
    BY <1>12, <2>1, <2>2, TypeQuietMove DEF IdleNewMessages, PollTick, DrainDone
<1>13. ASSUME NEW g \in Gens, CursorGet(g) PROVE TypeInv'
  <2>1. /\ Moves(g) /\ w[g].pc = "cursorGet"
        /\ w'[g].session = w[g].session /\ w'[g].todo = w[g].todo
        /\ \/ w'[g].pc = "fetch"
           \/ w'[g].pc = "cursorSet" /\ w'[g].msg = w[g].msg
              /\ cursor # Nil /\ w'[g].merge = cursor.validity
    BY <1>1, <1>13, CursorGetStep
  <2>2. GoodWorker(w'[g])
    BY <1>1, <2>1, Types DEF GoodWorker, Draining, Holding, Selected, InSession
  <2>3. QED  BY <1>13, <2>1, <2>2, TypeQuietMove DEF CursorGet
<1>14. ASSUME NEW g \in Gens, CursorSet(g) PROVE TypeInv'
  <2>1. /\ Moves(g) /\ w[g].pc = "cursorSet" /\ w'[g].pc = "fetch"
        /\ w'[g].session = w[g].session /\ w'[g].todo = w[g].todo
        /\ cursor' = [validity |-> w[g].merge, last |-> w[g].last]
    BY <1>1, <1>14, CursorSetStep
  <2>2. GoodWorker(w'[g]) /\ w[g].merge # 0
    BY <1>1, <2>1 DEF GoodWorker, Draining, Holding, Selected, InSession
  <2>3. cursor' \in Cursors
    BY <1>1, <2>1, <2>2, Types DEF Cursors
  <2>4. QED
    BY <1>14, <2>1, <2>2, <2>3, TypeMove
       DEF CursorSet, TypeInv, TypeOK, mgrVars, histVars, bounceVars
<1>15. ASSUME NEW m \in Msgs, Arrive(m) PROVE TypeInv'
  <2>1. box' \in Seq(Msgs \cup {Gone}) /\ DOMAIN box \subseteq DOMAIN box'
    BY <1>1, <1>15, Types, AppendProperties DEF Arrive
  <2>2. \A g \in Gens : GoodWorker(w[g])'
    BY <1>1, <1>15, <2>1 DEF Arrive, GoodWorker
  <2>3. QED
    BY <1>1, <1>15, <2>1, <2>2 DEF Arrive, TypeInv, TypeOK, mgrVars, bounceVars
<1>16. ASSUME NEW u \in DOMAIN box, Expunge(u) PROVE TypeInv'
  <2>1. box' \in Seq(Msgs \cup {Gone}) /\ DOMAIN box' = DOMAIN box
    BY <1>1, <1>16, Types, ExceptSeq DEF Expunge
  <2>2. \A g \in Gens : GoodWorker(w[g])'
    BY <1>1, <1>16, <2>1 DEF Expunge, GoodWorker
  <2>3. QED
    BY <1>1, <1>16, <2>1, <2>2, UsedType
       DEF Expunge, TypeInv, TypeOK, mgrVars, histVars, bounceVars
<1>17. CASE Rotate
  <2>1. box' \in Seq(Msgs \cup {Gone})
    BY <1>1, <1>17, RotatedBox
  <2>2. validity' = validity + 1 /\ UNCHANGED w
    BY <1>17 DEF Rotate
  <2>3. \A g \in Gens : GoodWorker(w[g])'
    BY <1>1, <2>2, Types DEF GoodWorker
  <2>4. excuse' \in [Msgs -> Nat] /\ validity' \in Nat \ {0}
    BY <1>1, <1>17, <2>2 DEF Rotate, TypeOK
  <2>5. QED
    BY <1>1, <1>17, <2>1, <2>2, <2>3, <2>4, UsedType
       DEF Rotate, TypeInv, TypeOK, mgrVars, bounceVars
<1>18. CASE RemoveAccount
  BY <1>1, <1>3, <1>18 DEF RemoveAccount, TypeOK
<1>19. CASE RemoveFinish
  BY <1>19 DEF RemoveFinish, TypeInv, TypeOK, GoodWorker, boxVars, histVars, bounceVars
<1>20. CASE Crash
  <2>1. w' = [g \in Gens |-> FreshWorker] /\ UNCHANGED boxVars
    BY <1>20 DEF Crash
  <2>2. \A g \in Gens : GoodWorker(w[g])'
    BY <1>1, <2>1, FreshWorkerType, Types
       DEF GoodWorker, Draining, Holding, Selected, InSession, boxVars
  <2>3. excuse' \in [Msgs -> Nat]
    BY <1>1, <1>20 DEF Crash, TypeOK
  <2>4. w' \in [Gens -> Worker]
    BY <2>1, FreshWorkerType
  <2>5. QED
    BY <1>1, <1>20, <2>2, <2>3, <2>4, UsedType DEF Crash, TypeInv, TypeOK, boxVars, bounceVars
<1>21. CASE UNCHANGED vars
  BY <1>21 DEF vars, TypeInv, TypeOK, GoodWorker, boxVars, mgrVars, histVars, bounceVars
<1>22. ASSUME NEW g \in Gens, Step(g) \/ Error(g) \/ BreakerCools(g) \/ IdleTimeout(g)
       PROVE  TypeInv'
  <2>1. CASE LoopTop(g) \/ BackoffEnds(g) \/ Connect(g) \/ WaitCancelled(g)
    BY <1>2, <2>1
  <2>6. CASE BreakerCools(g)
    BY <1>3, <2>6
  <2>7. CASE IdleTimeout(g)
    BY <1>3, <2>7
  <2>2. CASE \/ Select(g) \/ ResetGet(g) \/ ResetSet(g) \/ Bootstrap(g)
             \/ SessionLost(g) \/ Error(g)
    BY <1>4, <1>5, <1>6, <1>7, <1>8, <2>2
  <2>3. CASE \/ Search(g) \/ Fetch(g) \/ BounceStore(g) \/ BouncePublish(g) \/ Publish(g)
    BY <1>9, <1>10, <1>11, <2>3
  <2>4. CASE \/ DrainDone(g) \/ IdleNewMessages(g) \/ PollTick(g)
             \/ CursorGet(g) \/ CursorSet(g)
    BY <1>12, <1>13, <1>14, <2>4
  <2>5. QED  BY <1>22, <2>1, <2>2, <2>3, <2>4, <2>6, <2>7 DEF Step
<1>23. ASSUME NEW g \in Gens, AddAccount(g) PROVE TypeInv'
  BY <1>2, <1>23
<1>24. Next => TypeInv'
  BY <1>23, <1>15, <1>16, <1>17, <1>18, <1>19, <1>20, <1>22 DEF Next
<1>25. QED  BY <1>21, <1>24

\* Type correctness, whatever the messages, limits and bounds.
THEOREM TypeCorrect == Spec => []TypeOK
<1>1. TypeInv => TypeOK
  BY DEF TypeInv
<1>2. QED  BY <1>1, TypeInit, TypeNext, PTL DEF Spec

-----------------------------------------------------------------------------
(* One worker at a time, and its session.                                  *)

\* The hypothesis of what follows: a cancelled worker ends within the 5 s
\* remove_account waits for, or there is one generation only.
OneWorker == ~JoinTimesOut \/ \A g, h \in Gens : g = h

Active(g) == w[g].pc \notin {"off", "exited"}

\* remove_account waits before add_account may spawn the next worker.
Steady ==
  ~JoinTimesOut =>
    /\ slot = NoGen \/ leaving = NoGen
    /\ \A g \in Gens : Active(g) => g = slot \/ g = leaving

\* While one worker is active no other one is.
LEMMA OthersRest ==
  ASSUME OneWorker, Steady, NEW g \in Gens, Active(g), NEW h \in Gens, h # g
  PROVE  ~Active(h)
BY InboundAssumption DEF OneWorker, Steady

\* The cursor a session works on is the one of its mailbox, at or below the
\* last UID it has taken; what is left to fetch is above it.
SessionOf(r) ==
  /\ r.pc \in Selected => (cursor # Nil => cursor.validity <= r.session)
  /\ r.pc \in InSession =>
       cursor # Nil /\ cursor.validity = r.session /\ cursor.last <= r.last
  /\ r.pc = "resetSet" => cursor = Nil \/ cursor.validity # r.session
  /\ r.pc = "cursorSet" => r.merge = r.session
  /\ r.pc \in Draining => \A u \in r.todo : u > r.last

CursorInv == cursor # Nil => cursor.validity <= validity

Core == Steady /\ CursorInv /\ \A g \in Gens : SessionOf(w[g])

\* Base case: no worker runs and there is no cursor.
LEMMA CoreInit == Init => Core
<1> SUFFICES ASSUME Init PROVE Core
  OBVIOUS
<1>1. \A g \in Gens : w[g].pc = "off"
  BY FreshWorkerType DEF Init
<1>2. QED
  BY <1>1 DEF Init, Core, Steady, Active, CursorInv, SessionOf, Selected, InSession,
              Draining, Holding

\* A step of the one worker that is active.
LEMMA CoreMove ==
  ASSUME Core, OneWorker, NEW g \in Gens, Active(g), Moves(g), UNCHANGED mgrVars,
         CursorInv', SessionOf(w[g])'
  PROVE  Core'
<1>1. \A h \in Gens : h # g => w'[h] = w[h] /\ ~Active(h)
  BY OthersRest DEF Core, Moves
<1>2. \A h \in Gens : SessionOf(w[h])'
  <2> SUFFICES ASSUME NEW h \in Gens, h # g PROVE SessionOf(w[h])'
    OBVIOUS
  <2>1. w'[h].pc \in {"off", "exited"}
    BY <1>1 DEF Active
  <2>2. QED  BY <2>1 DEF SessionOf, Selected, InSession, Draining, Holding
<1>3. Steady'
  BY <1>1 DEF Core, Steady, Active, mgrVars
<1>4. QED  BY <1>2, <1>3 DEF Core

\* A step that leaves the cursor alone and gives no worker anything new.
LEMMA CoreQuiet ==
  ASSUME Core, Steady', CursorInv', UNCHANGED cursor,
         \A h \in Gens : \/ w'[h].pc = w[h].pc /\ SameView(w'[h], w[h])
                         \/ w'[h].pc \in Resting \cup {"off"}
  PROVE  Core'
<1> SUFFICES ASSUME NEW h \in Gens PROVE SessionOf(w[h])'
  BY DEF Core
<1>1. CASE w'[h].pc = w[h].pc /\ SameView(w'[h], w[h])
  BY <1>1 DEF Core, SessionOf, SameView
<1>2. CASE w'[h].pc \in Resting \cup {"off"}
  BY <1>2 DEF SessionOf, Selected, InSession, Draining, Holding, Resting
<1>3. QED  BY <1>1, <1>2

\* Every action keeps Core; only ResetSet, Bootstrap and CursorSet write the row.
LEMMA CoreNext == TypeInv /\ Core /\ OneWorker /\ [Next]_vars => Core'
<1> SUFFICES ASSUME TypeInv, Core, OneWorker, [Next]_vars PROVE Core'
  OBVIOUS
<1>1. /\ TypeOK /\ (\A g \in Gens : GoodWorker(w[g]))
      /\ Steady /\ CursorInv /\ (\A g \in Gens : SessionOf(w[g]))
  BY DEF TypeInv, Core
\* Nothing but worker g moves, and the cursor is the one its session is on.
<1>2. ASSUME UNCHANGED <<cursor, validity>> PROVE CursorInv'
  BY <1>1, <1>2 DEF CursorInv
<1>3. ASSUME NEW g \in Gens, NEW c, w[g].pc \in Selected, UNCHANGED validity,
             cursor' = [validity |-> w[g].session, last |-> c]
      PROVE  CursorInv'
  BY <1>1, <1>3 DEF CursorInv, GoodWorker
<1>4. ASSUME NEW g \in Gens,
             \/ LoopTop(g) \/ BackoffEnds(g) \/ Connect(g) \/ WaitCancelled(g)
             \/ SessionLost(g) \/ Error(g)
      PROVE  Core'
  <2>1. Moves(g) /\ w'[g].pc \in Resting
    BY <1>1, <1>4, RestStep, FailStep DEF SessionLost, Error, Resting
  <2>2. Active(g)
    BY <1>4 DEF LoopTop, BackoffEnds, Connect, WaitCancelled, SessionLost, Error, At, Active
  <2>3. UNCHANGED <<boxVars, cursor, mgrVars>>
    BY <1>4 DEF LoopTop, BackoffEnds, Connect, WaitCancelled, SessionLost, Error
  <2>4. SessionOf(w[g])'
    BY <2>1 DEF SessionOf, Selected, InSession, Draining, Holding, Resting
  <2>5. QED  BY <1>2, <2>1, <2>2, <2>3, <2>4, CoreMove DEF boxVars
<1>5. ASSUME NEW g \in Gens, AddAccount(g) PROVE Core'
  <2>1. Moves(g) /\ w'[g].pc \in Resting /\ UNCHANGED <<boxVars, cursor, leaving>>
        /\ slot = NoGen /\ leaving = NoGen /\ slot' = g
    BY <1>1, <1>5, RestStep DEF AddAccount
  <2>2. \A h \in Gens : h # g => w'[h] = w[h]
    BY <2>1 DEF Moves
  <2>3. Steady'
    BY <1>1, <2>1, <2>2, InboundAssumption DEF Steady, Active
  <2>4. QED  BY <1>2, <2>1, <2>2, <2>3, CoreQuiet DEF SameView, boxVars
<1>6. ASSUME NEW g \in Gens,
             (BreakerCools(g) \/ IdleTimeout(g)) \/ (RemoveAccount /\ g = slot)
      PROVE  Core'
  <2>1. Moves(g) /\ w'[g].pc = w[g].pc /\ SameView(w'[g], w[g])
    BY <1>1, <1>6, FlagStep
  <2>2. UNCHANGED <<boxVars, cursor>>
        /\ (UNCHANGED mgrVars \/ (slot # NoGen /\ slot' = NoGen /\ leaving' = slot))
    BY <1>6 DEF BreakerCools, IdleTimeout, RemoveAccount
  <2>3. \A h \in Gens : w'[h].pc = w[h].pc /\ SameView(w'[h], w[h])
    BY <2>1 DEF Moves, SameView
  <2>4. Steady'
    BY <1>1, <2>2, <2>3 DEF Steady, Active, mgrVars
  <2>5. QED  BY <1>2, <2>2, <2>3, <2>4, CoreQuiet DEF boxVars
<1>7. ASSUME NEW g \in Gens, w[g].pc \in Selected \cup {"select"}, Moves(g),
             UNCHANGED <<validity, mgrVars>>,
             \/ UNCHANGED cursor
             \/ /\ w[g].pc \in Selected
                /\ \E c : cursor' = [validity |-> w[g].session, last |-> c],
             SessionOf(w[g])'
      PROVE  Core'
  <2>1. Active(g)
    BY <1>7, Places DEF Active, Resting, Selected, InSession
  <2>2. QED  BY <1>2, <1>3, <1>7, <2>1, CoreMove
<1>8. ASSUME NEW g \in Gens, Select(g) PROVE Core'
  <2>1. Moves(g) /\ w[g].pc = "select" /\ w'[g].pc = "resetGet" /\ w'[g].session = validity
    BY <1>1, <1>8, SelectStep
  <2>2. UNCHANGED <<boxVars, cursor, mgrVars>>
    BY <1>8 DEF Select
  <2>3. SessionOf(w[g])'
    BY <1>1, <2>1, <2>2 DEF SessionOf, CursorInv, InSession, Draining, Holding
  <2>4. QED  BY <1>7, <2>1, <2>2, <2>3 DEF boxVars
<1>9. ASSUME NEW g \in Gens, ResetGet(g) PROVE Core'
  <2>1. /\ Moves(g) /\ w[g].pc = "resetGet" /\ w'[g].session = w[g].session
        /\ \/ /\ w'[g].pc = "resetSet"
              /\ cursor = Nil \/ cursor.validity # w[g].session
           \/ /\ w'[g].pc = "bootstrap" /\ w'[g].last = cursor.last
              /\ cursor # Nil /\ cursor.validity = w[g].session
    BY <1>1, <1>9, ResetGetStep
  <2>2. UNCHANGED <<boxVars, cursor, mgrVars>>
    BY <1>9 DEF ResetGet
  <2>3. SessionOf(w[g])'
    BY <1>1, <2>1, <2>2, Types DEF SessionOf, Selected, InSession, Draining, Holding
  <2>4. QED  BY <1>7, <2>1, <2>2, <2>3 DEF boxVars, Selected
<1>10. ASSUME NEW g \in Gens, ResetSet(g) PROVE Core'
  <2>1. /\ Moves(g) /\ w[g].pc = "resetSet" /\ w'[g].pc = "bootstrap"
        /\ w'[g].session = w[g].session /\ w'[g].last = 0
        /\ cursor' = [validity |-> w[g].session, last |-> 0]
    BY <1>1, <1>10, ResetSetStep
  <2>2. UNCHANGED <<boxVars, mgrVars>>
    BY <1>10 DEF ResetSet
  <2>3. SessionOf(w[g])'
    BY <1>1, <2>1, Types, InboundAssumption DEF SessionOf, Selected, InSession, Draining, Holding
  <2>4. QED  BY <1>7, <2>1, <2>2, <2>3 DEF boxVars, Selected
<1>11. ASSUME NEW g \in Gens, Bootstrap(g) PROVE Core'
  <2>1. /\ Moves(g) /\ w[g].pc = "bootstrap" /\ w'[g].pc = "search"
        /\ w'[g].session = w[g].session
        /\ \/ w'[g].last = w[g].last /\ cursor' = cursor
           \/ cursor' = [validity |-> w[g].session, last |-> w'[g].last]
    BY <1>1, <1>11, BootstrapStep
  <2>2. UNCHANGED <<boxVars, mgrVars>>
    BY <1>11 DEF Bootstrap
  <2>3. SessionOf(w[g])'
    <3>1. w[g].session \in Nat /\ w'[g].last \in Nat /\ w[g].last \in Nat
      BY <1>1, <2>1, Types DEF Moves, Worker
    <3>2. SessionOf(w[g])
      BY <1>1
    <3>3. CASE w'[g].last = w[g].last /\ cursor' = cursor
      BY <2>1, <3>2, <3>3 DEF SessionOf, Selected, InSession, Draining, Holding
    <3>4. CASE cursor' = [validity |-> w[g].session, last |-> w'[g].last]
      <4>1. cursor' # Nil
        BY <3>1, <3>4, InboundAssumption
      <4>2. QED
        BY <2>1, <3>1, <3>4, <4>1 DEF SessionOf, Selected, InSession, Draining, Holding
    <3>5. QED  BY <2>1, <3>3, <3>4
  <2>4. QED  BY <1>7, <2>1, <2>2, <2>3 DEF boxVars, Selected, InSession
<1>12. ASSUME NEW g \in Gens, Search(g) PROVE Core'
  <2>1. /\ Moves(g) /\ w[g].pc = "search" /\ w'[g].pc = "fetch"
        /\ w'[g].session = w[g].session /\ w'[g].last = w[g].last
        /\ \A u \in w'[g].todo : u > w'[g].last
    BY <1>1, <1>12, SearchStep DEF SearchSince
  <2>2. UNCHANGED <<boxVars, cursor, mgrVars>>
    BY <1>12 DEF Search
  <2>3. SessionOf(w[g])'
    BY <1>1, <2>1, <2>2 DEF SessionOf, Selected, InSession
  <2>4. QED  BY <1>7, <2>1, <2>2, <2>3 DEF boxVars, Selected, InSession
<1>13. ASSUME NEW g \in Gens, Fetch(g) PROVE Core'
  <2>1. w[g].todo \subseteq DOMAIN box
    BY <1>1, <1>13 DEF Fetch, At, GoodWorker, Draining
  <2>2. PICK u \in w[g].todo :
              /\ \A v \in w[g].todo : u <= v
              /\ w'[g].session = validity /\ w'[g].last = u
              /\ w'[g].todo = w[g].todo \ {u}
              /\ w'[g].pc \in {"publish", "bounceStore", "cursorGet"}
    BY <1>1, <1>13, <2>1, FetchStep
  <2>3. Moves(g) /\ w[g].pc = "fetch" /\ w[g].session = validity
    BY <1>1, <1>13, <2>1, FetchStep
  <2>4. UNCHANGED <<boxVars, cursor, mgrVars>>
    BY <1>13 DEF Fetch
  <2>5. u > w[g].last /\ u \in Nat /\ cursor # Nil
        /\ cursor.validity = w[g].session /\ cursor.last <= w[g].last
    BY <1>1, <2>3, Types DEF SessionOf, Draining, InSession
  <2>6. \A v \in w'[g].todo : v > w'[g].last
    BY <1>1, <2>2, <2>5, Types
  <2>7. cursor.last <= w'[g].last
    BY <1>1, <2>2, <2>5, Types
  <2>8. SessionOf(w[g])'
    BY <2>2, <2>3, <2>4, <2>5, <2>6, <2>7, <1>1, Types DEF SessionOf, Selected, InSession
  <2>9. QED  BY <1>7, <2>3, <2>4, <2>8 DEF boxVars, Selected, InSession
<1>14. ASSUME NEW g \in Gens,
              \/ BounceStore(g) \/ BouncePublish(g) \/ Publish(g)
              \/ IdleNewMessages(g) \/ PollTick(g) \/ DrainDone(g)
       PROVE  Core'
  <2>1. /\ Moves(g) /\ SameView(w'[g], w[g]) /\ w[g].pc \in InSession
        /\ w'[g].pc \in {"bouncePublish", "cursorGet", "search", "wait"}
        /\ w'[g].pc \in Draining => w[g].pc \in Draining
    BY <1>1, <1>14, PassStep, DrainStep DEF InSession, Draining, Holding
  <2>2. UNCHANGED <<boxVars, cursor, mgrVars>>
    BY <1>14 DEF BounceStore, BouncePublish, Publish, IdleNewMessages, PollTick, DrainDone
  <2>3. SessionOf(w[g])'
    BY <1>1, <2>1, <2>2 DEF SessionOf, SameView, Selected, InSession
  <2>4. QED  BY <1>7, <2>1, <2>2, <2>3 DEF boxVars, Selected
<1>15. ASSUME NEW g \in Gens, CursorGet(g) PROVE Core'
  <2>1. /\ Moves(g) /\ w[g].pc = "cursorGet"
        /\ w'[g].session = w[g].session /\ w'[g].last = w[g].last
        /\ w'[g].todo = w[g].todo
        /\ \/ w'[g].pc = "fetch"
           \/ w'[g].pc = "cursorSet" /\ w'[g].merge = cursor.validity
    BY <1>1, <1>15, CursorGetStep
  <2>2. UNCHANGED <<boxVars, cursor, mgrVars>>
    BY <1>15 DEF CursorGet
  <2>3. SessionOf(w[g])'
    BY <1>1, <2>1, <2>2 DEF SessionOf, Selected, InSession, Draining, Holding
  <2>4. QED  BY <1>7, <2>1, <2>2, <2>3 DEF boxVars, Selected, InSession
<1>16. ASSUME NEW g \in Gens, CursorSet(g) PROVE Core'
  <2>1. /\ Moves(g) /\ w[g].pc = "cursorSet" /\ w'[g].pc = "fetch"
        /\ w'[g].session = w[g].session /\ w'[g].last = w[g].last
        /\ w'[g].todo = w[g].todo
        /\ cursor' = [validity |-> w[g].merge, last |-> w[g].last]
    BY <1>1, <1>16, CursorSetStep
  <2>2. UNCHANGED <<boxVars, mgrVars>> /\ w[g].merge = w[g].session
    BY <1>1, <1>16, <2>1 DEF CursorSet, SessionOf
  <2>3. SessionOf(w[g])'
    BY <1>1, <2>1, <2>2, Types, InboundAssumption
       DEF SessionOf, Selected, InSession, Draining, Holding
  <2>4. QED  BY <1>7, <2>1, <2>2, <2>3 DEF boxVars, Selected, InSession
<1>17. ASSUME UNCHANGED <<cursor, w, mgrVars>>, validity' = validity \/ validity' = validity + 1
       PROVE  Core'
  <2>1. CursorInv'
    BY <1>1, <1>17, Types DEF CursorInv
  <2>2. QED  BY <1>17, <2>1 DEF Core, Steady, Active, SessionOf, mgrVars
<1>18. CASE RemoveFinish
  <2>1. /\ UNCHANGED <<boxVars, cursor, w, slot>> /\ leaving # NoGen /\ leaving' = NoGen
        /\ w[leaving].pc = "exited" \/ JoinTimesOut
    BY <1>18 DEF RemoveFinish, At
  <2>2. Steady'
    BY <1>1, <2>1 DEF Steady, Active
  <2>3. QED  BY <1>2, <2>1, <2>2, CoreQuiet DEF SameView, boxVars
<1>19. CASE Crash
  <2>1. w' = [g \in Gens |-> FreshWorker] /\ UNCHANGED <<boxVars, cursor>>
        /\ slot' = NoGen /\ leaving' = NoGen
    BY <1>19 DEF Crash
  <2>2. \A g \in Gens : w'[g].pc = "off"
    BY <2>1, FreshWorkerType
  <2>3. Steady'
    BY <2>1, <2>2 DEF Steady, Active
  <2>4. QED  BY <1>2, <2>1, <2>2, <2>3, CoreQuiet DEF boxVars
<1>20. ASSUME NEW g \in Gens, Step(g) \/ Error(g) \/ BreakerCools(g) \/ IdleTimeout(g)
       PROVE  Core'
  <2>1. CASE LoopTop(g) \/ BackoffEnds(g) \/ Connect(g) \/ WaitCancelled(g)
    BY <1>4, <2>1
  <2>2. CASE SessionLost(g) \/ Error(g)
    BY <1>4, <2>2
  <2>3. CASE BreakerCools(g)
    BY <1>6, <2>3
  <2>4. CASE IdleTimeout(g)
    BY <1>6, <2>4
  <2>5. CASE Select(g) \/ ResetGet(g) \/ ResetSet(g) \/ Bootstrap(g) \/ Search(g) \/ Fetch(g)
    BY <1>8, <1>9, <1>10, <1>11, <1>12, <1>13, <2>5
  <2>6. CASE BounceStore(g) \/ BouncePublish(g) \/ Publish(g)
    BY <1>14, <2>6
  <2>7. CASE IdleNewMessages(g) \/ PollTick(g) \/ DrainDone(g)
    BY <1>14, <2>7
  <2>8. CASE CursorGet(g) \/ CursorSet(g)
    BY <1>15, <1>16, <2>8
  <2>9. QED  BY <1>20, <2>1, <2>2, <2>3, <2>4, <2>5, <2>6, <2>7, <2>8 DEF Step
<1>21. CASE RemoveAccount
  <2>1. slot \in Gens
    BY <1>1, <1>21 DEF RemoveAccount, TypeOK
  <2>2. QED  BY <1>6, <1>21, <2>1
<1>22. ASSUME NEW m \in Msgs, Arrive(m) PROVE Core'
  BY <1>17, <1>22 DEF Arrive
<1>23. ASSUME NEW u \in DOMAIN box, Expunge(u) PROVE Core'
  BY <1>17, <1>23 DEF Expunge
<1>24. CASE Rotate
  BY <1>17, <1>24 DEF Rotate
<1>25. CASE UNCHANGED vars
  BY <1>17, <1>25 DEF vars, boxVars
<1>26. Next => Core'
  BY <1>5, <1>18, <1>19, <1>20, <1>21, <1>22, <1>23, <1>24 DEF Next
<1>27. QED  BY <1>25, <1>26

\* Who writes the cursor's row, and who jumps over messages.
LEMMA CursorWriters ==
  ASSUME [Next]_vars
  PROVE  /\ cursor' # cursor =>
              \E g \in Gens : ResetSet(g) \/ Bootstrap(g) \/ CursorSet(g)
         /\ skipped' # skipped => \E g \in Gens : Bootstrap(g)
<1> USE DEF boxVars, mgrVars, histVars, bounceVars
<1>1. ASSUME NEW g \in Gens, Step(g)
      PROVE  /\ ResetSet(g) \/ Bootstrap(g) \/ CursorSet(g) \/ cursor' = cursor
             /\ Bootstrap(g) \/ skipped' = skipped
  <2>1. CASE LoopTop(g) \/ BackoffEnds(g) \/ Connect(g) \/ Select(g)
    BY <2>1 DEF LoopTop, BackoffEnds, Connect, Select
  <2>2. CASE ResetGet(g) \/ ResetSet(g) \/ SessionLost(g) \/ Search(g) \/ Fetch(g)
    BY <2>2 DEF ResetGet, ResetSet, SessionLost, Search, Fetch
  <2>3. CASE BounceStore(g) \/ BouncePublish(g) \/ Publish(g) \/ CursorGet(g) \/ CursorSet(g)
    BY <2>3 DEF BounceStore, BouncePublish, Publish, CursorGet, CursorSet
  <2>4. CASE DrainDone(g) \/ IdleNewMessages(g) \/ PollTick(g) \/ WaitCancelled(g)
    BY <2>4 DEF DrainDone, IdleNewMessages, PollTick, WaitCancelled
  <2>5. QED  BY <1>1, <2>1, <2>2, <2>3, <2>4 DEF Step
<1>2. ASSUME NEW g \in Gens, Error(g) \/ BreakerCools(g) \/ IdleTimeout(g) \/ AddAccount(g)
      PROVE  cursor' = cursor /\ skipped' = skipped
  BY <1>2 DEF Error, BreakerCools, IdleTimeout, AddAccount
<1>3. ASSUME \/ \E m \in Msgs : Arrive(m)
             \/ \E u \in DOMAIN box : Expunge(u)
             \/ Rotate \/ RemoveAccount \/ RemoveFinish \/ Crash \/ UNCHANGED vars
      PROVE  cursor' = cursor /\ skipped' = skipped
  BY <1>3 DEF Arrive, Expunge, Rotate, RemoveAccount, RemoveFinish, Crash, vars
<1>4. QED  BY <1>1, <1>2, <1>3 DEF Next

\* The cursor of one mailbox never moves back.
LEMMA ForwardStep ==
  ASSUME TypeInv, Core, [Next]_vars, cursor # Nil, cursor' # Nil,
         cursor.validity = cursor'.validity
  PROVE  cursor'.last >= cursor.last
<1>1. TypeOK /\ \A g \in Gens : GoodWorker(w[g]) /\ SessionOf(w[g])
  BY DEF TypeInv, Core
<1>2. ASSUME NEW g \in Gens, ResetSet(g) PROVE FALSE
  <2>1. w[g].pc = "resetSet" /\ cursor' = [validity |-> w[g].session, last |-> 0]
    BY <1>1, <1>2, ResetSetStep
  <2>2. QED  BY <1>1, <2>1 DEF SessionOf
<1>3. ASSUME NEW g \in Gens, Bootstrap(g) PROVE cursor'.last >= cursor.last
  <2>1. /\ w[g].pc = "bootstrap" /\ Moves(g)
        /\ \/ cursor' = cursor
           \/ /\ w[g].last = 0
              /\ cursor' = [validity |-> w[g].session, last |-> w'[g].last]
    BY <1>1, <1>3, BootstrapStep
  <2>2. cursor.last <= w[g].last /\ w'[g].last \in Nat
    BY <1>1, <2>1 DEF SessionOf, InSession, Moves, Worker
  <2>3. QED  BY <1>1, <2>1, <2>2, Types
<1>4. ASSUME NEW g \in Gens, CursorSet(g) PROVE cursor'.last >= cursor.last
  <2>1. w[g].pc = "cursorSet" /\ cursor' = [validity |-> w[g].merge, last |-> w[g].last]
    BY <1>1, <1>4, CursorSetStep
  <2>2. cursor.last <= w[g].last
    BY <1>1, <2>1 DEF SessionOf, InSession
  <2>3. QED  BY <1>1, <2>1, <2>2, Types
<1>5. CASE cursor' = cursor
  BY <1>1, <1>5, Types
<1>6. QED  BY <1>2, <1>3, <1>4, <1>5, CursorWriters

\* The invariant of the session holds in every reachable state.
LEMMA CoreHolds ==
  ASSUME OneWorker
  PROVE  Spec => [](TypeInv /\ Core)
<1>1. Init => TypeInv /\ Core
  BY TypeInit, CoreInit
<1>2. TypeInv /\ Core /\ [Next]_vars => (TypeInv /\ Core)'
  BY TypeNext, CoreNext
<1>3. QED  BY <1>1, <1>2, PTL DEF Spec

\* reset_if_validity_changed and the merge of cursor.get into cursor.set: with
\* one worker at a time no step moves the cursor of a mailbox back, so no
\* restart, reload or reconnection makes the plugin read old mail again.
THEOREM CursorOnlyForward ==
  ASSUME OneWorker
  PROVE  Spec => CursorMonotone
<1>1. TypeInv /\ Core /\ [Next]_vars =>
        [cursor # Nil /\ cursor' # Nil /\ cursor.validity = cursor'.validity
           => cursor'.last >= cursor.last]_cursor
  BY ForwardStep
<1>2. QED  BY <1>1, CoreHolds, PTL DEF Spec, CursorMonotone

-----------------------------------------------------------------------------
(* No message is left behind the cursor.                                   *)

\* The hypothesis on bootstrap_limit: limit + 1 does not wrap.
NoWrap == Limit # Nil => Limit + 1 < U32

\* UID u needs nothing more.
Done(u) == box[u] = Gone \/ box[u] \in handled \cup skipped

\* What a worker whose session is on the current mailbox has read: the UID the
\* SELECT announced is not beyond the mailbox; every UID at or below last is
\* done or in hand; above it, a UID is left to fetch, gone, or newer than the
\* search.
ReadOf(r) ==
  r.session = validity =>
    /\ r.pc \in {"resetGet", "resetSet", "bootstrap"} => r.next <= Len(box) + 1
    /\ r.pc \in InSession => \A u \in 1..r.last :
         /\ u \in DOMAIN box
         /\ \/ Done(u)
            \/ r.pc \in {"publish", "bounceStore", "bouncePublish"} /\ box[u] = r.msg
    /\ r.pc \in Draining => \A u \in DOMAIN box :
         u > r.last => u \in r.todo \/ box[u] = Gone \/ \A v \in r.todo : v < u

GapInv == NoGap /\ \A g \in Gens : ReadOf(w[g])

\* Base case: nothing is below a cursor that does not exist.
LEMMA GapInit == Init => GapInv
<1> SUFFICES ASSUME Init PROVE GapInv
  OBVIOUS
<1>1. \A g \in Gens : w[g].pc = "off"
  BY FreshWorkerType DEF Init
<1>2. QED
  BY <1>1 DEF Init, GapInv, NoGap, ReadOf, InSession, Draining, Holding

\* At rest a worker has read nothing.
LEMMA RestReads ==
  ASSUME NEW r, r.pc \in Resting \cup {"off"}
  PROVE  ReadOf(r)
BY DEF ReadOf, InSession, Draining, Holding, Resting

\* A step that takes no UID: what is done stays done, the cursor stays, and no
\* worker has read more.
LEMMA GapQuiet ==
  ASSUME TypeInv, GapInv, UNCHANGED <<boxVars, cursor, skipped>>,
         handled \subseteq handled',
         \A h \in Gens : \/ w'[h].pc = w[h].pc /\ SameView(w'[h], w[h])
                         \/ w'[h].pc \in Resting \cup {"off"}
                         \/ ReadOf(w[h])'
  PROVE  GapInv'
<1>1. NoGap'
  BY DEF GapInv, NoGap, boxVars
<1>2. \A h \in Gens : ReadOf(w[h])'
  <2> SUFFICES ASSUME NEW h \in Gens PROVE ReadOf(w[h])'
    OBVIOUS
  <2>1. CASE w'[h].pc = w[h].pc /\ SameView(w'[h], w[h])
    <3>1. ReadOf(w[h])
      BY DEF GapInv
    <3>2. box' = box /\ validity' = validity
      BY DEF boxVars
    <3>3. QED  BY <2>1, <3>1, <3>2 DEF ReadOf, SameView, Done
  <2>2. CASE w'[h].pc \in Resting \cup {"off"}
    BY <2>2 DEF ReadOf, InSession, Draining, Holding, Resting
  <2>3. QED  BY <2>1, <2>2
<1>3. QED  BY <1>1, <1>2 DEF GapInv

\* A step of the one active worker, which may write the cursor.
LEMMA GapMove ==
  ASSUME TypeInv, Core, OneWorker, GapInv, NEW g \in Gens, Active(g), Moves(g),
         UNCHANGED boxVars, NoGap', ReadOf(w[g])'
  PROVE  GapInv'
<1>1. \A h \in Gens : h # g => w'[h] = w[h] /\ ~Active(h)
  BY OthersRest DEF Core, Moves
<1>2. \A h \in Gens : ReadOf(w[h])'
  <2> SUFFICES ASSUME NEW h \in Gens, h # g PROVE ReadOf(w[h])'
    OBVIOUS
  <2>1. w'[h].pc \in {"off", "exited"}
    BY <1>1 DEF Active
  <2>2. QED  BY <2>1 DEF ReadOf, InSession, Draining, Holding
<1>3. QED  BY <1>2 DEF GapInv

\* bootstrap_limit keeps the newest Limit messages, as long as limit + 1 fits.
LEMMA BootstrapKeeps ==
  ASSUME NoWrap, NEW next \in Nat, BootstrapUid(next) # 0
  PROVE  Limit \in Nat /\ BootstrapUid(next) + Limit + 1 = next
<1> DEFINE n == (Limit + 1) % U32
           b == BootstrapUid(next)
<1>1. b \in Nat /\ Limit \in Nat /\ n \in Nat /\ b + n = next
  BY BootstrapUidType
<1>2. Limit # Nil
  BY <1>1, InboundAssumption
<1>3. n = Limit + 1
  BY <1>1, <1>2, InboundAssumption DEF NoWrap
<1> HIDE DEF n, b
<1>4. b + Limit + 1 = next
  BY <1>1, <1>3
<1>5. QED  BY <1>1, <1>4 DEF b

\* Every action keeps GapInv: a UID falls behind the cursor only when it was
\* handled, was gone, or was jumped over.
LEMMA GapNext ==
  TypeInv /\ Core /\ GapInv /\ OneWorker /\ NoWrap /\ [Next]_vars => GapInv'
<1> SUFFICES ASSUME TypeInv, Core, GapInv, OneWorker, NoWrap, [Next]_vars
             PROVE  GapInv'
  OBVIOUS
<1>1. /\ TypeOK /\ NoGap
      /\ \A g \in Gens : GoodWorker(w[g]) /\ SessionOf(w[g]) /\ ReadOf(w[g])
  BY DEF TypeInv, Core, GapInv
\* Steps that take no UID.
<1>2. ASSUME NEW g \in Gens,
             \/ LoopTop(g) \/ BackoffEnds(g) \/ Connect(g) \/ WaitCancelled(g)
             \/ AddAccount(g) \/ SessionLost(g) \/ Error(g)
      PROVE  GapInv'
  <2>1. Moves(g) /\ w'[g].pc \in Resting
    BY <1>1, <1>2, RestStep, FailStep DEF SessionLost, Error, Resting
  <2>2. UNCHANGED <<boxVars, cursor, handled, skipped>>
    BY <1>2 DEF LoopTop, BackoffEnds, Connect, WaitCancelled, AddAccount, SessionLost, Error,
                histVars
  <2>3. QED  BY <2>1, <2>2, GapQuiet DEF Moves, SameView
<1>3. ASSUME NEW g \in Gens,
             (BreakerCools(g) \/ IdleTimeout(g)) \/ (RemoveAccount /\ g = slot)
      PROVE  GapInv'
  <2>1. Moves(g) /\ w'[g].pc = w[g].pc /\ SameView(w'[g], w[g])
    BY <1>1, <1>3, FlagStep
  <2>2. UNCHANGED <<boxVars, cursor, handled, skipped>>
    BY <1>3 DEF BreakerCools, IdleTimeout, RemoveAccount, histVars
  <2>3. QED  BY <2>1, <2>2, GapQuiet DEF Moves, SameView
<1>4. ASSUME NEW g \in Gens, Moves(g), UNCHANGED <<boxVars, cursor, skipped>>,
             handled \subseteq handled', ReadOf(w[g])'
      PROVE  GapInv'
  BY <1>4, GapQuiet DEF Moves, SameView
<1>5. ASSUME NEW g \in Gens, Select(g) PROVE GapInv'
  <2>1. /\ Moves(g) /\ w'[g].pc = "resetGet" /\ w'[g].next = Len(box) + 1
    BY <1>1, <1>5, SelectStep
  <2>2. UNCHANGED <<boxVars, cursor, skipped, handled>>
    BY <1>5 DEF Select, histVars
  <2>3. ReadOf(w[g])'
    BY <1>1, <2>1, <2>2, Types DEF ReadOf, InSession, Draining, Holding, boxVars
  <2>4. QED  BY <1>4, <2>1, <2>2, <2>3
<1>6. ASSUME NEW g \in Gens, ResetGet(g) PROVE GapInv'
  <2>1. /\ Moves(g) /\ w[g].pc = "resetGet" /\ w'[g].session = w[g].session
        /\ w'[g].next = w[g].next
        /\ \/ w'[g].pc = "resetSet"
           \/ /\ w'[g].pc = "bootstrap" /\ w'[g].last = cursor.last
              /\ cursor # Nil /\ cursor.validity = w[g].session
    BY <1>1, <1>6, ResetGetStep
  <2>2. box' = box /\ validity' = validity /\ UNCHANGED <<cursor, skipped, handled>>
    BY <1>6 DEF ResetGet, histVars, boxVars
  <2>3. ReadOf(w[g])'
    <3> SUFFICES ASSUME w[g].session = validity PROVE ReadOf(w[g])'
      BY <2>1, <2>2 DEF ReadOf
    <3>1. w[g].next <= Len(box) + 1
      BY <1>1, <2>1 DEF ReadOf
    <3>2. CASE w'[g].pc = "resetSet"
      BY <2>1, <2>2, <3>1, <3>2 DEF ReadOf, InSession, Draining, Holding
    <3>3. CASE w'[g].pc = "bootstrap"
      <4>1. \A u \in 1..w'[g].last : u \in DOMAIN box /\ Done(u)
        BY <1>1, <2>1, <3>3 DEF NoGap, Done
      <4>2. QED
        BY <2>1, <2>2, <3>1, <3>3, <4>1 DEF ReadOf, Done, InSession, Draining, Holding
    <3>4. QED  BY <2>1, <3>2, <3>3
  <2>4. QED  BY <1>4, <2>1, <2>2, <2>3 DEF boxVars
\* Steps that may write the cursor.
<1>7. ASSUME NEW g \in Gens, w[g].pc \in Selected, Moves(g), UNCHANGED boxVars,
             NoGap', ReadOf(w[g])'
      PROVE  GapInv'
  <2>1. Active(g)
    BY <1>7, Places DEF Active, Resting, Selected, InSession
  <2>2. QED  BY <1>7, <2>1, GapMove
<1>8. ASSUME NEW g \in Gens, ResetSet(g) PROVE GapInv'
  <2>1. /\ Moves(g) /\ w[g].pc = "resetSet" /\ w'[g].pc = "bootstrap"
        /\ w'[g].session = w[g].session /\ w'[g].next = w[g].next /\ w'[g].last = 0
        /\ cursor' = [validity |-> w[g].session, last |-> 0]
    BY <1>1, <1>8, ResetSetStep
  <2>2. box' = box /\ validity' = validity /\ UNCHANGED <<skipped, handled>>
    BY <1>8 DEF ResetSet, histVars, boxVars
  <2>3. 1..0 = {}
    OBVIOUS
  <2>4. NoGap'
    BY <2>1, <2>3 DEF NoGap
  <2>5. ReadOf(w[g])'
    BY <1>1, <2>1, <2>2, <2>3 DEF ReadOf, InSession, Draining, Holding
  <2>6. QED  BY <1>7, <2>1, <2>2, <2>4, <2>5 DEF boxVars, Selected
<1>9. ASSUME NEW g \in Gens, Bootstrap(g) PROVE GapInv'
  <2>1. /\ Moves(g) /\ w[g].pc = "bootstrap" /\ w'[g].pc = "search"
        /\ w'[g].session = w[g].session
        /\ \/ w'[g].last = w[g].last /\ cursor' = cursor /\ skipped' = skipped
           \/ /\ w'[g].last = BootstrapUid(w[g].next) /\ BootstrapUid(w[g].next) # 0
              /\ cursor' = [validity |-> w[g].session, last |-> w'[g].last]
              /\ skipped' = IF w[g].session # validity THEN skipped
                            ELSE skipped \cup Jumped(w'[g].last)
    BY <1>1, <1>9, BootstrapStep
  <2>2. box' = box /\ validity' = validity /\ UNCHANGED handled
    BY <1>9 DEF Bootstrap, boxVars
  <2>3. CASE w'[g].last = w[g].last /\ cursor' = cursor /\ skipped' = skipped
    <3>1. NoGap'
      BY <1>1, <2>2, <2>3 DEF NoGap
    <3>2. ReadOf(w[g])'
      BY <1>1, <2>1, <2>2, <2>3 DEF ReadOf, Done, InSession, Draining, Holding
    <3>3. QED  BY <1>7, <2>1, <2>2, <3>1, <3>2 DEF boxVars, Selected, InSession
  <2>4. CASE /\ w'[g].last = BootstrapUid(w[g].next) /\ BootstrapUid(w[g].next) # 0
             /\ cursor' = [validity |-> w[g].session, last |-> w'[g].last]
             /\ skipped' = IF w[g].session # validity THEN skipped
                           ELSE skipped \cup Jumped(w'[g].last)
    <3>1. CASE w[g].session # validity
      <4>1. NoGap' /\ ReadOf(w[g])'
        BY <2>1, <2>2, <2>4, <3>1 DEF NoGap, ReadOf
      <4>2. QED  BY <1>7, <2>1, <2>2, <4>1 DEF boxVars, Selected, InSession
    <3>2. CASE w[g].session = validity
      <4> DEFINE last == w'[g].last
      <4>1. last \in Nat /\ w[g].next \in Nat
        BY <1>1, <2>1, Types DEF Moves, Worker
      <4>2. Limit \in Nat /\ last + Limit + 1 = w[g].next
        BY <2>4, <4>1, BootstrapKeeps
      <4>3. w[g].next <= Len(box) + 1
        BY <1>1, <2>1, <3>2 DEF ReadOf
      <4>4. last <= Len(box)
        BY <1>1, <4>1, <4>2, <4>3, Types
      <4> HIDE DEF last
      <4>5. \A u \in 1..last : u \in DOMAIN box
        BY <1>1, <4>1, <4>4, Types
      <4>6. \A u \in 1..last : box[u] = Gone \/ box[u] \in handled \cup skipped'
        <5> SUFFICES ASSUME NEW u \in 1..last, box[u] # Gone PROVE box[u] \in skipped'
          OBVIOUS
        <5>1. u \in DOMAIN box /\ u <= last
          BY <4>1, <4>5
        <5>2. box[u] \in Jumped(last)
          BY <5>1 DEF Jumped
        <5>3. QED  BY <2>4, <3>2, <5>2 DEF last
      <4>7. NoGap'
        BY <2>2, <2>4, <4>5, <4>6 DEF NoGap, last
      <4>8. ReadOf(w[g])'
        BY <2>1, <2>2, <4>5, <4>6 DEF ReadOf, Done, InSession, Draining, Holding, last
      <4>9. QED  BY <1>7, <2>1, <2>2, <4>7, <4>8 DEF boxVars, Selected, InSession
    <3>3. QED  BY <3>1, <3>2
  <2>5. QED  BY <2>1, <2>3, <2>4
<1>10. ASSUME NEW g \in Gens, Search(g) PROVE GapInv'
  <2>1. /\ Moves(g) /\ w[g].pc = "search" /\ w'[g].pc = "fetch"
        /\ w[g].session = validity /\ w'[g].session = w[g].session
        /\ w'[g].last = w[g].last /\ w'[g].todo = SearchSince(w[g].last)
    BY <1>1, <1>10, SearchStep
  <2>2. box' = box /\ validity' = validity /\ UNCHANGED <<cursor, skipped, handled>>
    BY <1>10 DEF Search, histVars, boxVars
  <2>3. \A u \in 1..w[g].last : u \in DOMAIN box /\ Done(u)
    BY <1>1, <2>1 DEF ReadOf, InSession
  <2>4. \A u \in DOMAIN box : u > w[g].last => u \in w'[g].todo \/ box[u] = Gone
    BY <2>1 DEF SearchSince
  <2>5. ReadOf(w[g])'
    BY <2>1, <2>2, <2>3, <2>4 DEF ReadOf, Done
  <2>6. QED  BY <1>4, <2>1, <2>2, <2>5 DEF boxVars
<1>11. ASSUME NEW g \in Gens, Fetch(g) PROVE GapInv'
  <2>1. w[g].todo \subseteq DOMAIN box /\ w[g].pc = "fetch" /\ w[g].session = validity
    BY <1>1, <1>11 DEF Fetch, At, GoodWorker, Draining
  <2>2. PICK u \in w[g].todo :
              /\ \A v \in w[g].todo : u <= v
              /\ u \in DOMAIN box
              /\ w'[g].session = validity /\ w'[g].msg = box[u] /\ w'[g].last = u
              /\ w'[g].todo = w[g].todo \ {u}
              /\ \/ w'[g].pc \in {"publish", "bounceStore"} /\ handled' = handled
                 \/ w'[g].pc = "cursorGet" /\ handled' = handled \cup {box[u]}
    BY <1>1, <1>11, <2>1, FetchStep
  <2>3. Moves(g)
    BY <1>1, <1>11, <2>1, FetchStep
  <2>4. box' = box /\ validity' = validity /\ UNCHANGED <<cursor, skipped>>
        /\ handled \subseteq handled'
    BY <1>11, <2>2 DEF Fetch, boxVars
  <2>5. DOMAIN box \subseteq Nat /\ u \in Nat /\ w[g].last \in Nat
    BY <1>1, <2>2, Types
  <2>6. \A v \in 1..w[g].last : v \in DOMAIN box /\ Done(v)
    BY <1>1, <2>1 DEF ReadOf, InSession
  <2>7. \A v \in DOMAIN box : v > w[g].last =>
          v \in w[g].todo \/ box[v] = Gone \/ \A t \in w[g].todo : t < v
    BY <1>1, <2>1 DEF ReadOf, Draining
  <2>8. \A v \in 1..u : v \in DOMAIN box /\ (v = u \/ Done(v))
    <3> SUFFICES ASSUME NEW v \in 1..u, v # u PROVE v \in DOMAIN box /\ Done(v)
      BY <2>2
    <3>1. v \in Nat /\ v < u /\ v >= 1 /\ v \in DOMAIN box
      BY <1>1, <2>2, <2>5, Types
    <3>2. CASE v <= w[g].last
      BY <2>5, <2>6, <3>1, <3>2
    <3>3. CASE v > w[g].last
      <4>1. v \notin w[g].todo /\ ~(u < v)
        BY <2>2, <2>5, <3>1
      <4>2. box[v] = Gone
        BY <2>7, <3>1, <3>3, <4>1
      <4>3. QED  BY <3>1, <4>2 DEF Done
    <3>4. QED  BY <2>5, <3>1, <3>2, <3>3
  <2>9. \A v \in 1..u : /\ v \in DOMAIN box
                        /\ \/ box[v] = Gone \/ box[v] \in handled' \cup skipped
                           \/ w'[g].pc \in {"publish", "bounceStore"} /\ v = u
    BY <2>2, <2>4, <2>8 DEF Done
  <2>10. \A v \in DOMAIN box : v > u =>
           v \in w'[g].todo \/ box[v] = Gone \/ \A t \in w'[g].todo : t < v
    <3> SUFFICES ASSUME NEW v \in DOMAIN box, v > u, v \notin w'[g].todo, box[v] # Gone,
                        NEW t \in w'[g].todo
                 PROVE  t < v
      OBVIOUS
    <3>1. v > w[g].last
      <4>1. u > w[g].last
        BY <1>1, <2>1, <2>2 DEF SessionOf, Draining
      <4>2. QED  BY <2>5, <4>1
    <3>2. v \notin w[g].todo
      BY <2>2, <2>5
    <3>3. QED  BY <2>2, <2>7, <3>1, <3>2
  <2>11. ReadOf(w[g])'
    BY <2>2, <2>4, <2>9, <2>10 DEF ReadOf, Done
  <2>12. QED  BY <1>4, <2>3, <2>4, <2>11 DEF boxVars
<1>12. ASSUME NEW g \in Gens, BounceStore(g) \/ BouncePublish(g) \/ Publish(g)
       PROVE  GapInv'
  <2>1. /\ Moves(g) /\ SameView(w'[g], w[g])
        /\ \/ /\ w[g].pc \in {"bouncePublish", "publish"} /\ w'[g].pc = "cursorGet"
              /\ handled' = handled \cup {w[g].msg}
           \/ /\ w[g].pc = "bounceStore" /\ w'[g].pc = "bouncePublish"
              /\ handled' = handled
    BY <1>1, <1>12, PassStep DEF BounceStore, BouncePublish, Publish
  <2>2. box' = box /\ validity' = validity /\ UNCHANGED <<cursor, skipped>>
    BY <1>12 DEF BounceStore, BouncePublish, Publish, boxVars
  <2>3. ReadOf(w[g])'
    BY <1>1, <2>1, <2>2 DEF ReadOf, SameView, Done, InSession, Draining, Holding
  <2>4. QED  BY <1>4, <2>1, <2>2, <2>3 DEF boxVars
<1>13. ASSUME NEW g \in Gens, IdleNewMessages(g) \/ PollTick(g) \/ DrainDone(g)
       PROVE  GapInv'
  <2>1. /\ Moves(g) /\ SameView(w'[g], w[g])
        /\ w[g].pc \in {"fetch", "wait"} /\ w'[g].pc \in {"search", "wait"}
    BY <1>1, <1>13, PassStep, DrainStep
  <2>2. box' = box /\ validity' = validity /\ UNCHANGED <<cursor, skipped, handled>>
    BY <1>13 DEF IdleNewMessages, PollTick, DrainDone, boxVars, histVars
  <2>3. ReadOf(w[g])'
    BY <1>1, <2>1, <2>2 DEF ReadOf, SameView, Done, InSession, Draining, Holding
  <2>4. QED  BY <1>4, <2>1, <2>2, <2>3 DEF boxVars
<1>14. ASSUME NEW g \in Gens, CursorGet(g) PROVE GapInv'
  <2>1. /\ Moves(g) /\ w[g].pc = "cursorGet" /\ w'[g].pc \in {"fetch", "cursorSet"}
        /\ w'[g].session = w[g].session /\ w'[g].last = w[g].last
        /\ w'[g].todo = w[g].todo
    BY <1>1, <1>14, CursorGetStep
  <2>2. box' = box /\ validity' = validity /\ UNCHANGED <<cursor, skipped, handled>>
    BY <1>14 DEF CursorGet, boxVars, histVars
  <2>3. ReadOf(w[g])'
    BY <1>1, <2>1, <2>2 DEF ReadOf, Done, InSession, Draining, Holding
  <2>4. QED  BY <1>4, <2>1, <2>2, <2>3 DEF boxVars
<1>15. ASSUME NEW g \in Gens, CursorSet(g) PROVE GapInv'
  <2>1. /\ Moves(g) /\ w[g].pc = "cursorSet" /\ w'[g].pc = "fetch"
        /\ w'[g].session = w[g].session /\ w'[g].last = w[g].last
        /\ w'[g].todo = w[g].todo
        /\ cursor' = [validity |-> w[g].merge, last |-> w[g].last]
    BY <1>1, <1>15, CursorSetStep
  <2>2. box' = box /\ validity' = validity /\ UNCHANGED <<skipped, handled>>
        /\ w[g].merge = w[g].session
    BY <1>1, <1>15, <2>1 DEF CursorSet, SessionOf, boxVars, histVars
  <2>3. NoGap'
    BY <1>1, <2>1, <2>2 DEF NoGap, ReadOf, Done, InSession
  <2>4. ReadOf(w[g])'
    BY <1>1, <2>1, <2>2 DEF ReadOf, Done, InSession, Draining, Holding
  <2>5. QED  BY <1>7, <2>1, <2>2, <2>3, <2>4 DEF boxVars, Selected, InSession
\* The mailbox and the process.
<1>16. ASSUME NEW m \in Msgs, Arrive(m) PROVE GapInv'
  <2>1. /\ box' = Append(box, m) /\ validity' = validity
        /\ UNCHANGED <<cursor, w, handled, skipped>>
    BY <1>16 DEF Arrive
  <2>2. /\ Len(box') = Len(box) + 1 /\ DOMAIN box' = 1..(Len(box) + 1)
        /\ \A u \in DOMAIN box : u \in DOMAIN box' /\ box'[u] = box[u]
    BY <1>1, <2>1, Types, AppendProperties
  <2>3. \A u \in DOMAIN box : Done(u) => Done(u)'
    BY <2>1, <2>2 DEF Done
  <2>4. NoGap'
    BY <1>1, <2>1, <2>2, <2>3 DEF NoGap, Done
  <2>5. ASSUME NEW g \in Gens PROVE ReadOf(w[g])'
    <3> SUFFICES ASSUME w[g].session = validity PROVE ReadOf(w[g])'
      BY <2>1 DEF ReadOf
    <3>1. w[g].pc \in {"resetGet", "resetSet", "bootstrap"} => w[g].next <= Len(box) + 2
      BY <1>1, Types DEF ReadOf
    <3>2. w[g].pc \in Draining => \A u \in DOMAIN box' :
            u > w[g].last => u \in w[g].todo \/ box'[u] = Gone \/ \A v \in w[g].todo : v < u
      <4> SUFFICES ASSUME w[g].pc \in Draining, NEW u \in DOMAIN box', u > w[g].last
                   PROVE  u \in w[g].todo \/ box'[u] = Gone \/ \A v \in w[g].todo : v < u
        OBVIOUS
      <4>1. CASE u \in DOMAIN box
        BY <1>1, <2>2, <4>1 DEF ReadOf
      <4>2. CASE u \notin DOMAIN box
        <5>1. u = Len(box) + 1
          BY <1>1, <2>2, <4>2, Types
        <5>2. w[g].todo \subseteq 1..Len(box)
          BY <1>1, Types DEF GoodWorker
        <5>3. QED  BY <1>1, <5>1, <5>2, Types
      <4>3. QED  BY <4>1, <4>2
    <3>3. w[g].pc \in InSession => \A u \in 1..w[g].last :
         /\ u \in DOMAIN box'
         /\ \/ Done(u)'
            \/ /\ w[g].pc \in {"publish", "bounceStore", "bouncePublish"}
               /\ box'[u] = w[g].msg
      BY <1>1, <2>2, <2>3 DEF ReadOf
    <3>4. w' = w /\ Len(box') + 1 = Len(box) + 2
      BY <1>1, <2>1, <2>2, Types
    <3>5. QED  BY <3>1, <3>2, <3>3, <3>4 DEF ReadOf
  <2>6. QED  BY <2>4, <2>5 DEF GapInv
<1>17. ASSUME NEW u \in DOMAIN box, Expunge(u) PROVE GapInv'
  <2>1. /\ box' = [box EXCEPT ![u] = Gone] /\ validity' = validity
        /\ UNCHANGED <<cursor, w, handled, skipped>>
    BY <1>17 DEF Expunge, histVars
  <2>2. /\ Len(box') = Len(box) /\ DOMAIN box' = DOMAIN box
        /\ \A v \in DOMAIN box : box'[v] = Gone \/ box'[v] = box[v]
    BY <1>1, <2>1, Types, ExceptSeq
  <2>3. \A v \in DOMAIN box : Done(v) => Done(v)'
    BY <2>1, <2>2 DEF Done
  <2>4. \A v \in DOMAIN box : box'[v] # box[v] => Done(v)'
    BY <2>2 DEF Done
  <2>5. NoGap'
    BY <1>1, <2>1, <2>2, <2>3 DEF NoGap, Done
  <2>6. ASSUME NEW g \in Gens PROVE ReadOf(w[g])'
    BY <1>1, <2>1, <2>2, <2>3, <2>4 DEF ReadOf
  <2>7. QED  BY <2>5, <2>6 DEF GapInv
<1>18. CASE Rotate
  <2>1. validity' = validity + 1 /\ UNCHANGED <<cursor, w>>
    BY <1>18 DEF Rotate
  <2>2. cursor # Nil => cursor.validity # validity'
    BY <1>1, <2>1, Types DEF Core, CursorInv
  <2>3. \A g \in Gens : w[g].session # validity'
    BY <1>1, <2>1, Types DEF GoodWorker
  <2>4. QED  BY <2>1, <2>2, <2>3 DEF GapInv, NoGap, ReadOf
<1>19. CASE RemoveFinish
  BY <1>19, GapQuiet DEF RemoveFinish, SameView, histVars
<1>20. CASE Crash
  <2>1. w' = [g \in Gens |-> FreshWorker] /\ UNCHANGED <<boxVars, cursor, handled, skipped>>
    BY <1>20 DEF Crash
  <2>2. \A g \in Gens : w'[g].pc = "off"
    BY <2>1, FreshWorkerType
  <2>3. QED  BY <2>1, <2>2, GapQuiet
<1>21. CASE UNCHANGED vars
  BY <1>21, GapQuiet DEF vars, SameView, histVars
<1>22. ASSUME NEW g \in Gens, Step(g) \/ Error(g) \/ BreakerCools(g) \/ IdleTimeout(g)
       PROVE  GapInv'
  <2>1. CASE LoopTop(g) \/ BackoffEnds(g) \/ Connect(g) \/ WaitCancelled(g)
    BY <1>2, <2>1
  <2>2. CASE SessionLost(g) \/ Error(g)
    BY <1>2, <2>2
  <2>3. CASE BreakerCools(g)
    BY <1>3, <2>3
  <2>4. CASE IdleTimeout(g)
    BY <1>3, <2>4
  <2>5. CASE Select(g) \/ ResetGet(g) \/ ResetSet(g) \/ Bootstrap(g) \/ Search(g) \/ Fetch(g)
    BY <1>5, <1>6, <1>8, <1>9, <1>10, <1>11, <2>5
  <2>6. CASE BounceStore(g) \/ BouncePublish(g) \/ Publish(g)
    BY <1>12, <2>6
  <2>7. CASE IdleNewMessages(g) \/ PollTick(g) \/ DrainDone(g)
    BY <1>13, <2>7
  <2>8. CASE CursorGet(g) \/ CursorSet(g)
    BY <1>14, <1>15, <2>8
  <2>9. QED  BY <1>22, <2>1, <2>2, <2>3, <2>4, <2>5, <2>6, <2>7, <2>8 DEF Step
<1>23. CASE RemoveAccount
  <2>1. slot \in Gens
    BY <1>1, <1>23 DEF RemoveAccount, TypeOK
  <2>2. QED  BY <1>3, <1>23, <2>1
<1>24. Next => GapInv'
  <2>1. ASSUME NEW g \in Gens, AddAccount(g) PROVE GapInv'
    BY <1>2, <2>1
  <2>2. QED  BY <1>16, <1>17, <1>18, <1>19, <1>20, <1>22, <1>23, <2>1 DEF Next
<1>25. QED  BY <1>21, <1>24

\* The invariant of the gap holds in every reachable state.
LEMMA GapHolds ==
  ASSUME OneWorker, NoWrap
  PROVE  Spec => [](TypeInv /\ Core /\ GapInv)
<1>1. Init => TypeInv /\ Core /\ GapInv
  BY TypeInit, CoreInit, GapInit
<1>2. TypeInv /\ Core /\ GapInv /\ [Next]_vars => (TypeInv /\ Core /\ GapInv)'
  BY TypeNext, CoreNext, GapNext
<1>3. QED  BY <1>1, <1>2, PTL DEF Spec

\* "at-least-once" (drain_pending): every UID at or below the durable cursor was
\* published, suppressed, expunged or jumped over, whatever arrives, is expunged,
\* fails or crashes in between.
THEOREM NothingBehindTheCursor ==
  ASSUME OneWorker, NoWrap
  PROVE  Spec => []NoGap
<1>1. GapInv => NoGap
  BY DEF GapInv
<1>2. QED  BY <1>1, GapHolds, PTL

\* bootstrap_limit keeps "the most recent N UIDs", however many messages arrive
\* between the SELECT and the jump.
LEMMA RecentStep ==
  ASSUME NoWrap, TypeInv, GapInv, [Next]_vars, skipped' # skipped
  PROVE  Len(box) >= cursor'.last + Limit
<1>1. TypeOK /\ \A g \in Gens : ReadOf(w[g])
  BY DEF TypeInv, GapInv
<1>2. PICK g \in Gens : Bootstrap(g)
  BY CursorWriters
<1>3. /\ w[g].pc = "bootstrap" /\ w[g].session = validity /\ Moves(g)
      /\ w'[g].last = BootstrapUid(w[g].next) /\ BootstrapUid(w[g].next) # 0
      /\ cursor' = [validity |-> w[g].session, last |-> w'[g].last]
  BY <1>1, <1>2, BootstrapStep
<1>4. w[g].next <= Len(box) + 1
  BY <1>1, <1>3 DEF ReadOf
<1>5. w[g].next \in Nat /\ w'[g].last \in Nat /\ Len(box) \in Nat
  BY <1>1, <1>3, Types DEF Moves, Worker
<1>6. Limit \in Nat /\ w'[g].last + Limit + 1 = w[g].next
  BY <1>3, <1>5, BootstrapKeeps
<1>7. QED  BY <1>3, <1>4, <1>5, <1>6

\* bootstrap_limit (connect_select_and_loop): whenever the first connect jumps
\* over old mail, at least the newest Limit UIDs stay above the cursor.
THEOREM NewestMailIsKept ==
  ASSUME OneWorker, NoWrap
  PROVE  Spec => RecentIsKept
<1>1. TypeInv /\ GapInv /\ [Next]_vars =>
        [skipped' # skipped => Len(box) >= cursor'.last + Limit]_skipped
  BY RecentStep
<1>2. QED  BY <1>1, GapHolds, PTL DEF Spec, RecentIsKept

-----------------------------------------------------------------------------
(* No message is passed on twice without a disruption in between.          *)

\* How often message m was passed on: an InboundEvent, or a bounce record.
Copies(m) == published[m] + stored[m]

\* The UIDs at or below it are not read again.
Floor == IF cursor # Nil /\ cursor.validity = validity THEN cursor.last ELSE 0

\* The places where a message has been passed on and the cursor does not say so.
Owing == {"bouncePublish", "cursorGet", "cursorSet"}

Owes(r, m) == r.pc \in Owing /\ r.msg = m

OwedBy(m) == \E g \in Gens : Owes(w[g], m)

\* A message is in the mailbox once.
BoxInv == \A u, v \in DOMAIN box : box[u] = box[v] /\ box[u] # Gone => u = v

\* A message in hand: it is the last UID taken, if the session is on the current
\* mailbox; every copy made so far is excused until it is passed on; and where
\* the mailbox was recreated under the worker, the next copy is excused too.
HandOf(r) ==
  r.pc \in Holding =>
    /\ r.session = validity => \A u \in DOMAIN box : box[u] = r.msg => u = r.last
    /\ r.pc \in {"publish", "bounceStore"} => Copies(r.msg) <= excuse[r.msg]
    /\ r.session # validity /\ r.msg \in Present =>
         /\ Copies(r.msg) <= excuse[r.msg]
         /\ r.pc \in {"publish", "bounceStore"} => Copies(r.msg) + 1 <= excuse[r.msg]
    /\ r.pc \in {"cursorGet", "cursorSet"} => r.msg \in handled

\* A message has one copy more than the disruptions excuse; none more while it
\* can still be read, that is, before it was handled or above the cursor.
CountOf(m) ==
  /\ Copies(m) <= 1 + excuse[m]
  /\ m \notin handled /\ ~OwedBy(m) => Copies(m) <= excuse[m]
  /\ \A u \in DOMAIN box :
       u > Floor /\ box[u] = m /\ ~OwedBy(m) => Copies(m) <= excuse[m]

CopyInv ==
  /\ BoxInv
  /\ \A g \in Gens : HandOf(w[g])
  /\ \A m \in Msgs : CountOf(m)

\* The counters are numbers.
LEMMA CopyTypes ==
  ASSUME TypeOK
  PROVE  /\ Floor \in Nat
         /\ \A m \in Msgs : /\ published[m] \in Nat /\ stored[m] \in Nat
                            /\ Copies(m) \in Nat /\ excuse[m] \in Nat
<1>1. Floor \in Nat
  BY Types DEF Floor
<1>2. \A m \in Msgs : published[m] \in Nat /\ stored[m] \in Nat /\ excuse[m] \in Nat
  BY DEF TypeOK
<1>3. QED  BY <1>1, <1>2 DEF Copies

\* Base case: nothing was published or stored.
LEMMA CopyInit == Init => CopyInv
<1> SUFFICES ASSUME Init PROVE CopyInv
  OBVIOUS
<1>1. \A g \in Gens : HandOf(w[g])
  BY FreshWorkerType DEF Init, HandOf, Holding
<1>2. \A m \in Msgs : CountOf(m)
  BY DEF Init, CountOf, Copies
<1>3. BoxInv
  BY DEF Init, BoxInv
<1>4. QED  BY <1>1, <1>2, <1>3 DEF CopyInv

\* A step that passes nothing on, and lets no UID be read again.
LEMMA CopyQuiet ==
  ASSUME TypeInv, TypeOK', CopyInv, UNCHANGED <<box, validity, published, stored, excuse>>,
         handled \subseteq handled', Floor' >= Floor,
         \A h \in Gens : \/ w'[h].pc = w[h].pc /\ SameView(w'[h], w[h])
                         \/ w'[h].pc \notin Holding /\ w[h].pc \notin Holding
  PROVE  CopyInv'
<1>1. \A m : Copies(m)' = Copies(m) /\ (OwedBy(m)' <=> OwedBy(m))
  <2>1. \A m : \A h \in Gens : Owes(w[h], m)' <=> Owes(w[h], m)
    BY DEF Owes, Owing, Holding, SameView
  <2>2. QED  BY <2>1 DEF Copies, OwedBy
<1>2. BoxInv'
  BY DEF CopyInv, BoxInv
<1>3. ASSUME NEW h \in Gens PROVE HandOf(w[h])'
  <2>1. CASE w'[h].pc \notin Holding
    BY <2>1 DEF HandOf
  <2>2. CASE w'[h].pc = w[h].pc /\ SameView(w'[h], w[h])
    BY <1>1, <2>2 DEF CopyInv, HandOf, SameView, Present
  <2>3. QED  BY <2>1, <2>2
<1>4. ASSUME NEW m \in Msgs PROVE CountOf(m)'
  <2>1. \A u \in DOMAIN box : u > Floor' => u > Floor
    <3>1. Floor \in Nat /\ Floor' \in Nat /\ DOMAIN box \subseteq Nat
      <4>1. Floor' \in Nat
        BY DEF TypeOK, Cursors, Floor
      <4>2. QED  BY <4>1, CopyTypes, Types DEF TypeInv
    <3>2. QED  BY <3>1
  <2>2. QED  BY <1>1, <2>1 DEF CopyInv, CountOf
<1>5. QED  BY <1>2, <1>3, <1>4 DEF CopyInv

\* With one worker at a time, what is owed is what the active one owes.
LEMMA OwedByActive ==
  ASSUME Core, OneWorker, NEW g \in Gens, Active(g), Moves(g), NEW m
  PROVE  /\ OwedBy(m) <=> Owes(w[g], m)
         /\ OwedBy(m)' <=> Owes(w'[g], m)
<1>1. \A h \in Gens : h # g => w'[h] = w[h] /\ ~Active(h)
  BY OthersRest DEF Core, Moves
<1>2. \A h \in Gens : h # g => ~Owes(w[h], m) /\ ~Owes(w'[h], m)
  BY <1>1 DEF Owes, Owing, Active
<1>3. QED  BY <1>2 DEF OwedBy, Owes

\* A step of the one active worker.
LEMMA CopyMove ==
  ASSUME CopyInv, Core, OneWorker, NEW g \in Gens, Active(g), Moves(g),
         UNCHANGED box, HandOf(w[g])', \A m \in Msgs : CountOf(m)'
  PROVE  CopyInv'
<1>1. \A h \in Gens : h # g => w'[h] = w[h] /\ ~Active(h)
  BY OthersRest DEF Core, Moves
<1>2. \A h \in Gens : HandOf(w[h])'
  <2> SUFFICES ASSUME NEW h \in Gens, h # g PROVE HandOf(w[h])'
    OBVIOUS
  <2>1. w'[h].pc \in {"off", "exited"}
    BY <1>1 DEF Active
  <2>2. QED  BY <2>1 DEF HandOf, Holding
<1>3. BoxInv'
  BY DEF CopyInv, BoxInv
<1>4. QED  BY <1>2, <1>3 DEF CopyInv

\* fetch_uid takes a message none of whose copies is unexcused.
LEMMA CopyFetch ==
  ASSUME TypeInv, Core, OneWorker, CopyInv, NEW g \in Gens, Fetch(g)
  PROVE  CopyInv'
<1>1. /\ TypeOK /\ GoodWorker(w[g]) /\ SessionOf(w[g]) /\ HandOf(w[g]) /\ BoxInv
      /\ \A m \in Msgs : CountOf(m)
  BY DEF TypeInv, Core, CopyInv
<1>2. w[g].todo \subseteq DOMAIN box /\ w[g].pc = "fetch" /\ w[g].session = validity
  BY <1>1 DEF Fetch, At, GoodWorker, Draining
<1>3. PICK u \in w[g].todo :
        /\ u \in DOMAIN box /\ box[u] \in Msgs
        /\ w'[g].session = validity /\ w'[g].msg = box[u] /\ w'[g].last = u
        /\ \/ w'[g].pc \in {"publish", "bounceStore"} /\ handled' = handled
           \/ w'[g].pc = "cursorGet" /\ handled' = handled \cup {box[u]}
  BY <1>1, <1>2, FetchStep
<1>4. Moves(g) /\ Active(g)
  BY <1>1, <1>2, FetchStep DEF Active
<1>5. UNCHANGED <<box, validity, cursor, published, stored, excuse>>
  BY DEF Fetch, boxVars, bounceVars
<1>6. \A m \in Msgs : /\ ~OwedBy(m) /\ Copies(m)' = Copies(m) /\ excuse'[m] = excuse[m]
                      /\ OwedBy(m)' => m = box[u] /\ w'[g].pc = "cursorGet"
  BY <1>1, <1>2, <1>3, <1>4, <1>5, OwedByActive DEF Owes, Owing, Copies
<1>7. Copies(box[u]) <= excuse[box[u]]
  <2>1. u > w[g].last /\ cursor # Nil /\ cursor.validity = w[g].session
        /\ cursor.last <= w[g].last
    BY <1>1, <1>2 DEF SessionOf, Draining, InSession
  <2>2. u > Floor
    BY <1>1, <1>2, <1>3, <2>1, Types DEF Floor
  <2>3. QED  BY <1>1, <1>3, <1>6, <2>2 DEF CountOf
<1>8. HandOf(w[g])'
  <2>1. \A v \in DOMAIN box : box[v] = box[u] => v = u
    BY <1>1, <1>3, InboundAssumption DEF BoxInv
  <2>2. QED  BY <1>3, <1>5, <1>6, <1>7, <2>1 DEF HandOf, Holding
<1>9. \A m \in Msgs : CountOf(m)'
  BY <1>1, <1>3, <1>5, <1>6 DEF CountOf, Floor
<1>10. QED  BY <1>4, <1>5, <1>8, <1>9, CopyMove

\* Storing the bounce or publishing the mail makes the copy that is owed.
LEMMA CopyPass ==
  ASSUME TypeInv, Core, OneWorker, CopyInv, NEW g \in Gens,
         BounceStore(g) \/ BouncePublish(g) \/ Publish(g)
  PROVE  CopyInv'
<1>1. /\ TypeOK /\ GoodWorker(w[g]) /\ HandOf(w[g])
      /\ \A m \in Msgs : CountOf(m)
  BY DEF TypeInv, CopyInv
<1>0. PICK m : m = w[g].msg
  OBVIOUS
<1>2. /\ Moves(g) /\ SameView(w'[g], w[g])
      /\ \/ /\ w[g].pc = "publish" /\ w'[g].pc = "cursorGet"
            /\ handled' = handled \cup {m} /\ published' = Bump(published, m)
            /\ stored' = stored
         \/ /\ w[g].pc = "bouncePublish" /\ w'[g].pc = "cursorGet"
            /\ handled' = handled \cup {m} /\ published' = published /\ stored' = stored
         \/ /\ w[g].pc = "bounceStore" /\ w'[g].pc = "bouncePublish"
            /\ handled' = handled /\ published' = published
            /\ (stored' = Bump(stored, m) \/ stored' = stored)
  BY <1>0, <1>1, PassStep DEF BounceStore, BouncePublish, Publish, bounceVars
<1>3. UNCHANGED <<box, validity, cursor, excuse>>
  BY DEF BounceStore, BouncePublish, Publish, boxVars
<1>4. m \in Msgs /\ Active(g)
  BY <1>0, <1>1, <1>2 DEF GoodWorker, Holding, Active
<1>5. /\ published \in [Msgs -> Nat] /\ stored \in [Msgs -> Nat] /\ excuse \in [Msgs -> Nat]
  BY <1>1 DEF TypeOK
<1>6. \A n \in Msgs : n # m => Copies(n)' = Copies(n)
  BY <1>2, <1>4, <1>5, BumpType DEF Copies
<1>7. /\ Copies(m)' = Copies(m) \/ Copies(m)' = Copies(m) + 1
      /\ w[g].pc = "bouncePublish" => Copies(m)' = Copies(m)
  <2>1. Bump(published, m)[m] = published[m] + 1 /\ Bump(stored, m)[m] = stored[m] + 1
    BY <1>4, <1>5, BumpType
  <2>2. \/ published'[m] = published[m] + 1 /\ stored'[m] = stored[m]
           /\ w[g].pc = "publish"
        \/ published'[m] = published[m] /\ stored'[m] = stored[m]
        \/ published'[m] = published[m] /\ stored'[m] = stored[m] + 1
           /\ w[g].pc = "bounceStore"
    BY <1>2, <2>1
  <2>3. published[m] \in Nat /\ stored[m] \in Nat
    BY <1>4, <1>5
  <2>4. QED  BY <2>2, <2>3 DEF Copies
<1>8. w'[g].msg = m /\ w[g].msg = m
  BY <1>0, <1>2 DEF SameView
<1>9. \A n \in Msgs : /\ OwedBy(n) <=> Owes(w[g], n)
                      /\ OwedBy(n)' <=> n = m
  BY <1>2, <1>4, <1>8, OwedByActive DEF Core, Owes, Owing
<1>10. Copies(m) \in Nat /\ excuse[m] \in Nat
  BY <1>1, <1>4, CopyTypes
<1>11. w[g].pc \in {"publish", "bounceStore"} => Copies(m) <= excuse[m]
  BY <1>1, <1>8 DEF HandOf, Holding
<1>12. Copies(m)' <= 1 + excuse[m]
  BY <1>1, <1>2, <1>4, <1>7, <1>10, <1>11 DEF CountOf
<1>13. HandOf(w[g])'
  <2>1. /\ w[g].session = validity => \A u \in DOMAIN box : box[u] = m => u = w[g].last
        /\ w[g].session # validity /\ m \in Present =>
             /\ Copies(m) <= excuse[m]
             /\ w[g].pc \in {"publish", "bounceStore"} => Copies(m) + 1 <= excuse[m]
    BY <1>1, <1>2, <1>8 DEF HandOf, Holding
  <2>2. w[g].session # validity /\ m \in Present => Copies(m)' <= excuse[m]
    BY <1>2, <1>7, <1>10, <2>1
  <2>3. w'[g].pc \in {"cursorGet", "cursorSet"} => m \in handled'
    BY <1>2, <1>8
  <2>4. w'[g].pc \notin {"publish", "bounceStore"} /\ w'[g].session = w[g].session
        /\ w'[g].last = w[g].last /\ Present' = Present
    BY <1>2, <1>3 DEF SameView, Present
  <2>5. QED  BY <1>3, <1>8, <2>1, <2>2, <2>3, <2>4 DEF HandOf
<1>14. ASSUME NEW n \in Msgs PROVE CountOf(n)'
  <2>1. CASE n = m
    BY <1>3, <1>4, <1>9, <1>12, <2>1 DEF CountOf
  <2>2. CASE n # m
    <3>1. ~OwedBy(n) /\ ~OwedBy(n)'
      BY <1>8, <1>9, <2>2 DEF Owes
    <3>2. handled \subseteq handled' /\ Floor' = Floor
      BY <1>2, <1>3 DEF Floor
    <3>3. QED  BY <1>1, <1>3, <1>6, <2>2, <3>1, <3>2 DEF CountOf
  <2>3. QED  BY <2>1, <2>2
<1>15. QED  BY <1>2, <1>3, <1>4, <1>13, <1>14, CopyMove

\* cursor.set records the copy that was owed.
LEMMA CopyCursorSet ==
  ASSUME TypeInv, Core, OneWorker, CopyInv, NEW g \in Gens, CursorSet(g)
  PROVE  CopyInv'
<1>1. /\ TypeOK /\ GoodWorker(w[g]) /\ SessionOf(w[g]) /\ HandOf(w[g])
      /\ \A m \in Msgs : CountOf(m)
  BY DEF TypeInv, Core, CopyInv
<1> DEFINE m == w[g].msg
<1>2. /\ Moves(g) /\ w[g].pc = "cursorSet" /\ w'[g].pc = "fetch"
      /\ cursor' = [validity |-> w[g].merge, last |-> w[g].last]
  BY <1>1, CursorSetStep
<1>3. UNCHANGED <<box, validity, handled, published, stored, excuse>>
  BY DEF CursorSet, boxVars, histVars, bounceVars
<1>4. /\ w[g].merge = w[g].session /\ cursor # Nil /\ cursor.validity = w[g].session
      /\ cursor.last <= w[g].last /\ m \in handled /\ Active(g)
  BY <1>1, <1>2 DEF SessionOf, InSession, HandOf, Holding, Active
<1>5. \A n \in Msgs : /\ OwedBy(n) <=> n = m
                      /\ ~OwedBy(n)' /\ Copies(n)' = Copies(n)
  BY <1>2, <1>3, <1>4, OwedByActive DEF Owes, Owing, Copies
<1>6. HandOf(w[g])'
  BY <1>2 DEF HandOf, Holding
<1>7. Floor \in Nat /\ DOMAIN box \subseteq Nat /\ w[g].last \in Nat /\ cursor' # Nil
  BY <1>1, <1>2, <1>4, CopyTypes, Types, InboundAssumption
<1>8. ASSUME NEW n \in Msgs, NEW u \in DOMAIN box, u > Floor', box[u] = n
      PROVE  Copies(n) <= excuse[n]
  <2>1. CASE w[g].session = validity
    <3>1. u > w[g].last
      BY <1>2, <1>3, <1>4, <1>7, <1>8, <2>1 DEF Floor
    <3>2. n # m
      BY <1>1, <1>2, <1>7, <1>8, <2>1, <3>1 DEF HandOf, Holding
    <3>3. u > Floor
      BY <1>1, <1>4, <1>7, <2>1, <3>1, Types DEF Floor
    <3>4. QED  BY <1>1, <1>5, <1>8, <3>2, <3>3 DEF CountOf
  <2>2. CASE w[g].session # validity
    <3>1. Floor' = 0 /\ Floor = 0
      BY <1>2, <1>3, <1>4, <2>2 DEF Floor
    <3>2. CASE n = m
      <4>1. m \in Present
        BY <1>8, <3>2, InboundAssumption DEF Present, Range
      <4>2. QED  BY <1>1, <1>2, <2>2, <3>2, <4>1 DEF HandOf, Holding
    <3>3. CASE n # m
      BY <1>1, <1>5, <1>8, <3>1, <3>3 DEF CountOf
    <3>4. QED  BY <3>2, <3>3
  <2>3. QED  BY <2>1, <2>2
<1>9. ASSUME NEW n \in Msgs PROVE CountOf(n)'
  <2>1. Copies(n) <= 1 + excuse[n] /\ (n \notin handled => Copies(n) <= excuse[n])
    BY <1>1, <1>4, <1>5 DEF CountOf
  <2>2. QED  BY <1>3, <1>5, <1>8, <2>1 DEF CountOf
<1>10. QED  BY <1>2, <1>3, <1>4, <1>6, <1>9, CopyMove

\* An error excuses the copy that is owed, and the one a publish may have made.
LEMMA CopyError ==
  ASSUME TypeInv, Core, OneWorker, CopyInv, NEW g \in Gens, Error(g)
  PROVE  CopyInv'
<1>1. TypeOK /\ GoodWorker(w[g]) /\ \A m \in Msgs : CountOf(m)
  BY DEF TypeInv, CopyInv
<1>2. Moves(g) /\ w'[g].pc = "backoff"
  BY <1>1, FailStep DEF Error
<1>3. /\ UNCHANGED <<box, validity, cursor, handled, stored>>
      /\ w[g].pc # "bouncePublish" /\ Active(g)
  BY DEF Error, boxVars, bounceVars, Active
<1>4. \A m \in Msgs : \/ published'[m] = published[m]
                      \/ published'[m] = published[m] + 1
  <2>1. published \in [Msgs -> Nat]
    BY <1>1 DEF TypeOK
  <2>2. published' = published \/ published' = Bump(published, w[g].msg)
    BY DEF Error
  <2>3. \A m \in Msgs : Bump(published, w[g].msg)[m] = published[m]
                        \/ Bump(published, w[g].msg)[m] = published[m] + 1
    BY <2>1, BumpType
  <2>4. QED  BY <2>2, <2>3
<1>5. \A m \in Msgs :
        excuse'[m] = IF Unrecorded(g, m) \/ published'[m] # published[m]
                     THEN excuse[m] + 1 ELSE excuse[m]
  BY DEF Error
<1>6. \A m \in Msgs : /\ OwedBy(m) <=> Unrecorded(g, m)
                      /\ ~OwedBy(m)'
  BY <1>2, <1>3, OwedByActive DEF Core, Owes, Owing, Unrecorded
<1>7. HandOf(w[g])'
  BY <1>2 DEF HandOf, Holding
<1>8. ASSUME NEW m \in Msgs PROVE CountOf(m)'
  <2>1. /\ published[m] \in Nat /\ stored[m] \in Nat /\ excuse[m] \in Nat
        /\ Copies(m) = published[m] + stored[m]
        /\ Copies(m)' = published'[m] + stored[m] /\ stored'[m] = stored[m]
    BY <1>1, <1>3, CopyTypes DEF Copies
  <2>2. CASE Unrecorded(g, m)
    <3>1. published'[m] = published[m]
      BY <2>2 DEF Error, Unrecorded, At
    <3>2. Copies(m)' <= excuse'[m]
      BY <1>1, <1>5, <2>1, <2>2, <3>1 DEF CountOf
    <3>3. Copies(m)' <= 1 + excuse'[m]
      BY <1>5, <2>1, <2>2, <3>1, <3>2
    <3>4. QED  BY <3>2, <3>3 DEF CountOf
  <2>3. CASE ~Unrecorded(g, m)
    <3>1. \/ Copies(m)' = Copies(m) /\ excuse'[m] = excuse[m]
          \/ Copies(m)' = Copies(m) + 1 /\ excuse'[m] = excuse[m] + 1
      BY <1>4, <1>5, <2>1, <2>3
    <3>2. /\ Copies(m) <= 1 + excuse[m] => Copies(m)' <= 1 + excuse'[m]
          /\ Copies(m) <= excuse[m] => Copies(m)' <= excuse'[m]
      BY <2>1, <3>1
    <3>3. Floor' = Floor
      BY <1>3 DEF Floor
    <3>4. QED  BY <1>1, <1>3, <1>6, <2>3, <3>2, <3>3 DEF CountOf
  <2>4. QED  BY <2>2, <2>3
<1>9. QED  BY <1>2, <1>3, <1>7, <1>8, CopyMove

\* So does a crash.
LEMMA CopyCrash ==
  ASSUME TypeInv, CopyInv, Crash
  PROVE  CopyInv'
<1>1. TypeOK /\ BoxInv /\ \A m \in Msgs : CountOf(m)
  BY DEF TypeInv, CopyInv
<1>2. /\ w' = [g \in Gens |-> FreshWorker]
      /\ UNCHANGED <<box, validity, cursor, handled, published, stored>>
  BY DEF Crash, boxVars, bounceVars
<1>3. \A g \in Gens : w'[g].pc = "off"
  BY <1>2, FreshWorkerType
<1>4. \A m \in Msgs : excuse'[m] = IF OwedBy(m) THEN excuse[m] + 1 ELSE excuse[m]
  <2>1. \A m \in Msgs : OwedBy(m) <=>
          \E g \in Gens : Unrecorded(g, m) \/ (At(g, "bouncePublish") /\ w[g].msg = m)
    BY DEF OwedBy, Owes, Owing, Unrecorded, At
  <2>2. QED  BY <2>1 DEF Crash
<1>5. \A m \in Msgs : ~OwedBy(m)' /\ Copies(m)' = Copies(m)
  BY <1>2, <1>3 DEF OwedBy, Owes, Owing, Copies
<1>6. ASSUME NEW m \in Msgs PROVE CountOf(m)'
  <2>1. Copies(m) \in Nat /\ excuse[m] \in Nat
    BY <1>1, CopyTypes
  <2>2. CASE OwedBy(m)
    <3>1. Copies(m)' <= excuse'[m] /\ Copies(m)' <= 1 + excuse'[m]
      BY <1>1, <1>4, <1>5, <2>1, <2>2 DEF CountOf
    <3>2. QED  BY <3>1 DEF CountOf
  <2>3. CASE ~OwedBy(m)
    <3>1. excuse'[m] = excuse[m] /\ Floor' = Floor
      BY <1>2, <1>4, <2>3 DEF Floor
    <3>2. QED  BY <1>1, <1>2, <1>5, <2>3, <3>1 DEF CountOf
  <2>4. QED  BY <2>2, <2>3
<1>7. \A g \in Gens : HandOf(w[g])'
  BY <1>3 DEF HandOf, Holding
<1>8. QED  BY <1>1, <1>2, <1>6, <1>7 DEF CopyInv, BoxInv

\* A rotation excuses another copy of every message in the mailbox.
LEMMA CopyRotate ==
  ASSUME TypeInv, CopyInv, Rotate
  PROVE  CopyInv'
<1>1. /\ TypeOK /\ \A m \in Msgs : CountOf(m)
      /\ \A g \in Gens : GoodWorker(w[g]) /\ HandOf(w[g])
  BY DEF TypeInv, CopyInv
<1>2. /\ \A u \in DOMAIN box' : box'[u] \in Present
      /\ \A u, v \in DOMAIN box' : box'[u] = box'[v] => u = v
  BY <1>1, RotatedBox
<1>3. validity' = validity + 1 /\ UNCHANGED <<cursor, w, handled, published, stored>>
  BY DEF Rotate, bounceVars
<1>4. \A m \in Msgs : /\ excuse'[m] = IF m \in Present THEN excuse[m] + 1 ELSE excuse[m]
                      /\ Copies(m)' = Copies(m) /\ (OwedBy(m)' <=> OwedBy(m))
                      /\ Copies(m) \in Nat /\ excuse[m] \in Nat
  BY <1>1, <1>3, CopyTypes DEF Rotate, Copies, OwedBy, Owes
<1>5. Present' \subseteq Present
  BY <1>2 DEF Present, Range
<1>6. ASSUME NEW g \in Gens PROVE HandOf(w[g])'
  <2> SUFFICES ASSUME w[g].pc \in Holding PROVE HandOf(w[g])'
    BY <1>3 DEF HandOf
  <2>0. PICK m : m = w[g].msg
    OBVIOUS
  <2>1. m \in Msgs /\ w[g].session # validity'
    BY <1>1, <1>3, <2>0, Types DEF GoodWorker
  <2>2. w[g].pc \in {"publish", "bounceStore"} => Copies(m) <= excuse[m]
    BY <1>1, <2>0 DEF HandOf
  <2>3. Copies(m) <= 1 + excuse[m]
    BY <1>1, <2>1 DEF CountOf
  <2>4. w[g].pc \in {"publish", "bounceStore"} => Copies(m)' <= excuse'[m]
    BY <1>4, <2>1, <2>2
  <2>5. m \in Present => /\ Copies(m)' <= excuse'[m]
                         /\ w[g].pc \in {"publish", "bounceStore"} =>
                              Copies(m)' + 1 <= excuse'[m]
    BY <1>4, <2>1, <2>2, <2>3
  <2>6. w'[g] = w[g] /\ (w[g].pc \in {"cursorGet", "cursorSet"} => m \in handled')
    BY <1>1, <1>3, <2>0 DEF HandOf
  <2>7. QED  BY <1>5, <2>0, <2>1, <2>4, <2>5, <2>6 DEF HandOf
<1>7. ASSUME NEW m \in Msgs PROVE CountOf(m)'
  <2>1. /\ Copies(m)' <= 1 + excuse'[m]
        /\ Copies(m) <= excuse[m] => Copies(m)' <= excuse'[m]
        /\ m \in Present => Copies(m)' <= excuse'[m]
    BY <1>1, <1>4 DEF CountOf
  <2>2. QED  BY <1>1, <1>2, <1>3, <1>4, <2>1 DEF CountOf
<1>8. QED  BY <1>2, <1>6, <1>7 DEF CopyInv, BoxInv

\* A message that arrives was never passed on without an excuse.
LEMMA CopyArrive ==
  ASSUME TypeInv, CopyInv, NEW n \in Msgs, Arrive(n)
  PROVE  CopyInv'
<1>1. /\ TypeOK /\ BoxInv /\ \A m \in Msgs : CountOf(m)
      /\ \A g \in Gens : GoodWorker(w[g]) /\ HandOf(w[g])
  BY DEF TypeInv, CopyInv
<1>2. /\ n \notin Present /\ n \notin handled /\ \A g \in Gens : w[g].msg # n
      /\ box' = Append(box, n)
      /\ UNCHANGED <<validity, cursor, w, handled, published, stored, excuse>>
  BY DEF Arrive, bounceVars
<1>3. /\ DOMAIN box' = 1..(Len(box) + 1) /\ DOMAIN box = 1..Len(box) /\ Len(box) \in Nat
      /\ \A u \in DOMAIN box : u \in DOMAIN box' /\ box'[u] = box[u]
      /\ \A u \in DOMAIN box' : u \in DOMAIN box \/ box'[u] = n
      /\ \A u \in DOMAIN box' : u \notin DOMAIN box => u = Len(box) + 1
  <2>1. box \in Seq(Msgs \cup {Gone}) /\ n \in Msgs \cup {Gone}
    BY <1>1, Types
  <2>2. /\ Len(box') = Len(box) + 1 /\ \A u \in 1..Len(box) : box'[u] = box[u]
        /\ box'[Len(box) + 1] = n /\ box' \in Seq(Msgs \cup {Gone})
    BY <1>2, <2>1, AppendProperties
  <2>3. QED  BY <1>1, <2>1, <2>2, Types, LenProperties
<1>4. \A u \in DOMAIN box : box[u] # n
  BY <1>2, InboundAssumption DEF Present, Range
<1>5. \A m : m \in Present' => m = n \/ m \in Present
  BY <1>3 DEF Present, Range
<1>6. BoxInv'
  BY <1>1, <1>3, <1>4 DEF BoxInv
<1>7. \A m : Copies(m)' = Copies(m) /\ (OwedBy(m)' <=> OwedBy(m))
  BY <1>2 DEF Copies, OwedBy, Owes
<1>8. ASSUME NEW g \in Gens PROVE HandOf(w[g])'
  BY <1>1, <1>2, <1>3, <1>5, <1>7 DEF HandOf
<1>9. ~OwedBy(n)
  BY <1>2 DEF OwedBy, Owes
<1>10. ASSUME NEW m \in Msgs PROVE CountOf(m)'
  <2>1. Floor' = Floor
    BY <1>2 DEF Floor
  <2>2. CASE m = n
    BY <1>1, <1>2, <1>7, <1>9, <2>2 DEF CountOf
  <2>3. CASE m # n
    BY <1>1, <1>2, <1>3, <1>7, <2>1, <2>3 DEF CountOf
  <2>4. QED  BY <2>2, <2>3
<1>11. QED  BY <1>6, <1>8, <1>10 DEF CopyInv

\* An expunge takes a message out of the mailbox and changes no count.
LEMMA CopyExpunge ==
  ASSUME TypeInv, CopyInv, NEW x \in DOMAIN box, Expunge(x)
  PROVE  CopyInv'
<1>1. /\ TypeOK /\ BoxInv /\ \A m \in Msgs : CountOf(m)
      /\ \A g \in Gens : GoodWorker(w[g]) /\ HandOf(w[g])
  BY DEF TypeInv, CopyInv
<1>2. /\ box' = [box EXCEPT ![x] = Gone]
      /\ UNCHANGED <<validity, cursor, w, handled, published, stored, excuse>>
  BY DEF Expunge, histVars, bounceVars
<1>3. DOMAIN box' = DOMAIN box /\ \A u \in DOMAIN box : box'[u] = Gone \/ box'[u] = box[u]
  BY <1>2
<1>4. \A m : m \in Present' => m \in Present
  BY <1>3 DEF Present, Range
<1>5. BoxInv'
  BY <1>1, <1>3 DEF BoxInv
<1>6. \A m : Copies(m)' = Copies(m) /\ (OwedBy(m)' <=> OwedBy(m)) /\ Floor' = Floor
  BY <1>2 DEF Copies, OwedBy, Owes, Floor
<1>7. ASSUME NEW g \in Gens PROVE HandOf(w[g])'
  <2> SUFFICES ASSUME w[g].pc \in Holding PROVE HandOf(w[g])'
    BY <1>2 DEF HandOf
  <2>1. w[g].msg # Gone
    BY <1>1, InboundAssumption DEF GoodWorker
  <2>2. QED  BY <1>1, <1>2, <1>3, <1>4, <1>6, <2>1 DEF HandOf
<1>8. ASSUME NEW m \in Msgs PROVE CountOf(m)'
  <2>1. m # Gone
    BY InboundAssumption
  <2>2. QED  BY <1>1, <1>2, <1>3, <1>6, <2>1 DEF CountOf
<1>9. QED  BY <1>5, <1>7, <1>8 DEF CopyInv

\* cursor.get finds the row, and hands the message in hand to cursor.set.
LEMMA CopyCursorGet ==
  ASSUME TypeInv, Core, OneWorker, CopyInv, NEW g \in Gens, CursorGet(g)
  PROVE  CopyInv'
<1>1. /\ TypeOK /\ SessionOf(w[g]) /\ HandOf(w[g]) /\ \A m \in Msgs : CountOf(m)
  BY DEF TypeInv, Core, CopyInv
<1>2. UNCHANGED <<box, validity, cursor, handled, published, stored, excuse>>
  BY DEF CursorGet, boxVars, histVars, bounceVars
<1>3. /\ Moves(g) /\ w[g].pc = "cursorGet" /\ w'[g].pc = "cursorSet"
      /\ w'[g].session = w[g].session /\ w'[g].last = w[g].last
      /\ w'[g].msg = w[g].msg /\ Active(g)
  <2>1. w[g].pc = "cursorGet"
    BY <1>1, CursorGetStep
  <2>2. cursor # Nil
    BY <1>1, <2>1 DEF SessionOf, InSession
  <2>3. QED  BY <1>1, <2>1, <2>2, CursorGetStep DEF Active
<1>4. \A m : /\ Copies(m)' = Copies(m) /\ (OwedBy(m)' <=> OwedBy(m))
  BY <1>2, <1>3, OwedByActive DEF Owes, Owing, Copies
<1>5. HandOf(w[g])'
  BY <1>1, <1>2, <1>3, <1>4 DEF HandOf, Holding, Present
<1>6. \A m \in Msgs : CountOf(m)'
  BY <1>1, <1>2, <1>4 DEF CountOf, Floor
<1>7. QED  BY <1>2, <1>3, <1>5, <1>6, CopyMove

\* Every action keeps CopyInv: publishing and storing add a copy of the message
\* in hand, an excuse is added when that message may be read again.
LEMMA CopyNext ==
  TypeInv /\ TypeInv' /\ Core /\ CopyInv /\ OneWorker /\ [Next]_vars => CopyInv'
<1> SUFFICES ASSUME TypeInv, TypeInv', Core, CopyInv, OneWorker, [Next]_vars
             PROVE  CopyInv'
  OBVIOUS
<1>1. /\ TypeOK /\ TypeOK'
      /\ \A g \in Gens : GoodWorker(w[g]) /\ SessionOf(w[g])
  BY DEF TypeInv, Core
<1>2. UNCHANGED <<cursor, validity>> => Floor' >= Floor
  BY <1>1, CopyTypes DEF Floor
\* A step of worker g with nothing in hand.
<1>3. ASSUME NEW g \in Gens, Moves(g), w[g].pc \notin Holding, w'[g].pc \notin Holding,
             UNCHANGED <<boxVars, handled, published, stored, excuse>>, Floor' >= Floor
      PROVE  CopyInv'
  BY <1>1, <1>3, CopyQuiet DEF Moves, SameView, boxVars
<1>4. ASSUME NEW g \in Gens,
             \/ LoopTop(g) \/ BackoffEnds(g) \/ Connect(g) \/ WaitCancelled(g)
             \/ AddAccount(g) \/ SessionLost(g)
      PROVE  CopyInv'
  <2>1. Moves(g) /\ w'[g].pc \in Resting
    BY <1>1, <1>4, RestStep, FailStep DEF SessionLost, Resting
  <2>2. w[g].pc \notin Holding
    BY <1>4 DEF LoopTop, BackoffEnds, Connect, WaitCancelled, AddAccount, SessionLost, At,
                Holding
  <2>3. UNCHANGED <<boxVars, cursor, histVars>>
    BY <1>4 DEF LoopTop, BackoffEnds, Connect, WaitCancelled, AddAccount, SessionLost
  <2>4. w'[g].pc \notin Holding
    BY <2>1 DEF Resting, Holding
  <2>5. QED  BY <1>2, <1>3, <2>1, <2>2, <2>3, <2>4 DEF histVars, bounceVars, boxVars
<1>5. ASSUME NEW g \in Gens,
             (BreakerCools(g) \/ IdleTimeout(g)) \/ (RemoveAccount /\ g = slot)
      PROVE  CopyInv'
  <2>1. Moves(g) /\ w'[g].pc = w[g].pc /\ SameView(w'[g], w[g])
    BY <1>1, <1>5, FlagStep
  <2>2. UNCHANGED <<boxVars, cursor, histVars>>
    BY <1>5 DEF BreakerCools, IdleTimeout, RemoveAccount
  <2>3. QED
    BY <1>1, <1>2, <2>1, <2>2, CopyQuiet DEF Moves, SameView, boxVars, histVars, bounceVars
<1>6. ASSUME NEW g \in Gens,
             \/ Select(g) \/ ResetGet(g) \/ Search(g)
             \/ DrainDone(g) \/ IdleNewMessages(g) \/ PollTick(g)
      PROVE  CopyInv'
  <2>1. Moves(g) /\ w[g].pc \in {"select", "resetGet", "search", "fetch", "wait"}
        /\ w'[g].pc \in {"resetGet", "resetSet", "bootstrap", "fetch", "wait", "search"}
    BY <1>1, <1>6, SelectStep, ResetGetStep, SearchStep, DrainStep, PassStep
  <2>2. UNCHANGED <<boxVars, cursor, histVars>>
    BY <1>6 DEF Select, ResetGet, Search, DrainDone, IdleNewMessages, PollTick
  <2>3. w[g].pc \notin Holding /\ w'[g].pc \notin Holding
    BY <2>1 DEF Holding
  <2>4. QED  BY <1>2, <1>3, <2>1, <2>2, <2>3 DEF histVars, bounceVars, boxVars
<1>7. ASSUME NEW g \in Gens, ResetSet(g) PROVE CopyInv'
  <2>1. /\ Moves(g) /\ w[g].pc = "resetSet" /\ w'[g].pc = "bootstrap"
        /\ cursor' = [validity |-> w[g].session, last |-> 0]
    BY <1>1, <1>7, ResetSetStep
  <2>2. UNCHANGED <<boxVars, histVars>>
    BY <1>7 DEF ResetSet
  <2>3. Floor = 0
    <3>1. CASE cursor # Nil
      <4>1. cursor.validity <= w[g].session /\ cursor.validity # w[g].session
            /\ w[g].session <= validity
        BY <1>1, <2>1, <3>1 DEF SessionOf, Selected, GoodWorker
      <4>2. cursor.validity # validity
        BY <1>1, <3>1, <4>1, Types
      <4>3. QED  BY <4>2 DEF Floor
    <3>2. QED  BY <3>1 DEF Floor
  <2>4. Floor' = 0
    BY <2>1 DEF Floor
  <2>5. w[g].pc \notin Holding /\ w'[g].pc \notin Holding
    BY <2>1 DEF Holding
  <2>6. QED  BY <1>3, <2>1, <2>2, <2>3, <2>4, <2>5 DEF histVars, bounceVars
<1>8. ASSUME NEW g \in Gens, Bootstrap(g) PROVE CopyInv'
  <2>1. /\ Moves(g) /\ w[g].pc = "bootstrap" /\ w'[g].pc = "search"
        /\ \/ cursor' = cursor
           \/ /\ w[g].last = 0
              /\ cursor' = [validity |-> w[g].session, last |-> w'[g].last]
    BY <1>1, <1>8, BootstrapStep
  <2>2. UNCHANGED <<boxVars, handled, published, stored, excuse>>
    BY <1>8 DEF Bootstrap, bounceVars
  <2>3. Floor' >= Floor
    <3>1. CASE cursor' = cursor
      BY <1>2, <2>2, <3>1 DEF boxVars
    <3>2. CASE w[g].last = 0 /\ cursor' = [validity |-> w[g].session, last |-> w'[g].last]
      <4>1. Floor = 0
        BY <1>1, <2>1, <3>2, Types DEF SessionOf, InSession, Floor
      <4>2. Floor' \in Nat
        BY <1>1 DEF TypeOK, Cursors, Floor
      <4>3. QED  BY <4>1, <4>2
    <3>3. QED  BY <2>1, <3>1, <3>2
  <2>4. w[g].pc \notin Holding /\ w'[g].pc \notin Holding
    BY <2>1 DEF Holding
  <2>5. QED  BY <1>3, <2>1, <2>2, <2>3, <2>4
<1>9. CASE RemoveFinish
  BY <1>1, <1>2, <1>9, CopyQuiet DEF RemoveFinish, SameView, histVars, bounceVars, boxVars
<1>10. CASE UNCHANGED vars
  BY <1>1, <1>2, <1>10, CopyQuiet DEF vars, SameView, histVars, bounceVars, boxVars
<1>11. ASSUME NEW g \in Gens, Step(g) \/ Error(g) \/ BreakerCools(g) \/ IdleTimeout(g)
       PROVE  CopyInv'
  <2>1. CASE LoopTop(g) \/ BackoffEnds(g) \/ Connect(g) \/ WaitCancelled(g) \/ SessionLost(g)
    BY <1>4, <2>1
  <2>2. CASE BreakerCools(g)
    BY <1>5, <2>2
  <2>3. CASE IdleTimeout(g)
    BY <1>5, <2>3
  <2>4. CASE Select(g) \/ ResetGet(g) \/ Search(g)
    BY <1>6, <2>4
  <2>5. CASE IdleNewMessages(g) \/ PollTick(g) \/ DrainDone(g)
    BY <1>6, <2>5
  <2>6. CASE ResetSet(g) \/ Bootstrap(g) \/ Fetch(g) \/ CursorGet(g) \/ CursorSet(g)
    BY <1>7, <1>8, <2>6, CopyFetch, CopyCursorGet, CopyCursorSet
  <2>7. CASE BounceStore(g) \/ BouncePublish(g) \/ Publish(g)
    BY <2>7, CopyPass
  <2>8. CASE Error(g)
    BY <2>8, CopyError
  <2>9. QED  BY <1>11, <2>1, <2>2, <2>3, <2>4, <2>5, <2>6, <2>7, <2>8 DEF Step
<1>12. CASE RemoveAccount
  <2>1. slot \in Gens
    BY <1>1, <1>12 DEF RemoveAccount, TypeOK
  <2>2. QED  BY <1>5, <1>12, <2>1
<1>13. Next => CopyInv'
  <2>1. ASSUME NEW g \in Gens, AddAccount(g) PROVE CopyInv'
    BY <1>4, <2>1
  <2>2. QED
    BY <1>9, <1>11, <1>12, <2>1, CopyArrive, CopyExpunge, CopyRotate, CopyCrash DEF Next
<1>14. QED  BY <1>10, <1>13

\* An InboundEvent, or an increment of a bounce row, is repeated only as often as
\* an error, a crash or a rotation came between passing the message on and
\* recording it, whatever the order in which mail arrives and sessions end.
THEOREM CopiesAreExcused ==
  ASSUME OneWorker
  PROVE  Spec => []DuplicateOnlyIfDisrupted
<1>1. Init => TypeInv /\ Core /\ CopyInv
  BY TypeInit, CoreInit, CopyInit
<1>2. TypeInv /\ Core /\ CopyInv /\ [Next]_vars => (TypeInv /\ Core /\ CopyInv)'
  BY TypeNext, CoreNext, CopyNext
<1>3. TypeInv /\ CopyInv => DuplicateOnlyIfDisrupted
  <2> SUFFICES ASSUME TypeInv, CopyInv, NEW m \in Msgs
               PROVE  published[m] <= 1 + excuse[m] /\ stored[m] <= 1 + excuse[m]
    BY DEF DuplicateOnlyIfDisrupted
  <2>1. published[m] + stored[m] <= 1 + excuse[m]
    BY DEF CopyInv, CountOf, Copies
  <2>2. published[m] \in Nat /\ stored[m] \in Nat /\ excuse[m] \in Nat
    BY CopyTypes DEF TypeInv
  <2>3. QED  BY <2>1, <2>2
<1>4. QED  BY <1>1, <1>2, <1>3, PTL DEF Spec

-----------------------------------------------------------------------------
(* A bounce is stored before it is announced.                              *)

\* The row of message m was written, or writing it failed.
Rowed(m) == stored[m] > 0 \/ m \in unstored

\* BounceStoredFirst, and the worker that is about to announce a bounce.
BounceInv ==
  /\ BounceStoredFirst
  /\ \A g \in Gens : w[g].pc = "bouncePublish" => Rowed(w[g].msg)

\* Only BounceStore::record leads to the announcement.
LEMMA BouncePath ==
  ASSUME TypeInv, [Next]_vars
  PROVE  /\ \A h \in Gens :
              w'[h].pc = "bouncePublish" =>
                \/ w[h].pc = "bouncePublish" /\ w'[h].msg = w[h].msg
                \/ BounceStore(h)
         /\ \/ UNCHANGED <<stored, unstored, bounced>>
            \/ \E g \in Gens : BounceStore(g) \/ BouncePublish(g)
<1> DEFINE Path(h) == w'[h].pc = "bouncePublish" =>
                        \/ w[h].pc = "bouncePublish" /\ w'[h].msg = w[h].msg
                        \/ BounceStore(h)
           Quiet == UNCHANGED <<stored, unstored, bounced>>
<1>1. TypeOK /\ \A g \in Gens : GoodWorker(w[g])
  BY DEF TypeInv
<1>2. ASSUME NEW g \in Gens, Moves(g), Path(g) PROVE \A h \in Gens : Path(h)
  BY <1>2 DEF Moves
<1>3. ASSUME NEW g \in Gens, Step(g) \/ Error(g)
      PROVE  /\ \A h \in Gens : Path(h)
             /\ Quiet \/ BounceStore(g) \/ BouncePublish(g)
  <2>1. CASE LoopTop(g) \/ BackoffEnds(g) \/ Connect(g) \/ WaitCancelled(g)
    <3>1. Moves(g) /\ w'[g].pc # "bouncePublish"
      BY <1>1, <2>1, RestStep DEF Resting
    <3>2. Quiet
      BY <2>1 DEF LoopTop, BackoffEnds, Connect, WaitCancelled, histVars, bounceVars
    <3>3. QED  BY <1>2, <3>1, <3>2
  <2>2. CASE SessionLost(g) \/ Error(g)
    <3>1. Moves(g) /\ w'[g].pc # "bouncePublish"
      BY <1>1, <2>2, FailStep DEF SessionLost, Error
    <3>2. Quiet
      BY <2>2 DEF SessionLost, Error, histVars, bounceVars
    <3>3. QED  BY <1>2, <3>1, <3>2
  <2>3. CASE Select(g) \/ ResetGet(g) \/ ResetSet(g) \/ Bootstrap(g) \/ Search(g)
    <3>1. Moves(g) /\ w'[g].pc # "bouncePublish"
      BY <1>1, <2>3, SelectStep, ResetGetStep, ResetSetStep, BootstrapStep, SearchStep
    <3>2. Quiet
      BY <2>3 DEF Select, ResetGet, ResetSet, Bootstrap, Search, histVars, bounceVars
    <3>3. QED  BY <1>2, <3>1, <3>2
  <2>4. CASE Fetch(g)
    <3>1. w[g].todo \subseteq DOMAIN box
      BY <1>1, <2>4 DEF Fetch, At, GoodWorker, Draining
    <3>2. Moves(g) /\ w'[g].pc # "bouncePublish"
      BY <1>1, <2>4, <3>1, FetchStep
    <3>3. Quiet
      BY <2>4 DEF Fetch, bounceVars
    <3>4. QED  BY <1>2, <3>2, <3>3
  <2>5. CASE CursorGet(g) \/ CursorSet(g) \/ DrainDone(g)
    <3>1. Moves(g) /\ w'[g].pc # "bouncePublish"
      BY <1>1, <2>5, CursorGetStep, CursorSetStep, DrainStep
    <3>2. Quiet
      BY <2>5 DEF CursorGet, CursorSet, DrainDone, histVars, bounceVars
    <3>3. QED  BY <1>2, <3>1, <3>2
  <2>6. CASE IdleNewMessages(g) \/ PollTick(g) \/ Publish(g)
    <3>1. Moves(g) /\ w'[g].pc # "bouncePublish"
      BY <1>1, <2>6, PassStep
    <3>2. Quiet
      BY <2>6 DEF IdleNewMessages, PollTick, Publish, histVars, bounceVars
    <3>3. QED  BY <1>2, <3>1, <3>2
  <2>7. CASE BounceStore(g) \/ BouncePublish(g)
    <3>1. Moves(g) /\ Path(g)
      BY <1>1, <2>7, PassStep
    <3>2. QED  BY <1>2, <2>7, <3>1
  <2>8. QED  BY <1>3, <2>1, <2>2, <2>3, <2>4, <2>5, <2>6, <2>7 DEF Step
<1>4. ASSUME NEW g \in Gens,
             (BreakerCools(g) \/ IdleTimeout(g)) \/ (RemoveAccount /\ g = slot)
      PROVE  (\A h \in Gens : Path(h)) /\ Quiet
  <2>1. Moves(g) /\ w'[g].pc = w[g].pc /\ SameView(w'[g], w[g])
    BY <1>1, <1>4, FlagStep
  <2>2. Quiet
    BY <1>4 DEF BreakerCools, IdleTimeout, RemoveAccount, histVars, bounceVars
  <2>3. QED  BY <1>2, <2>1, <2>2 DEF SameView
<1>5. ASSUME NEW g \in Gens, AddAccount(g)
      PROVE  (\A h \in Gens : Path(h)) /\ Quiet
  <2>1. Moves(g) /\ w'[g].pc # "bouncePublish"
    BY <1>1, <1>5, RestStep DEF Resting
  <2>2. Quiet
    BY <1>5 DEF AddAccount, histVars, bounceVars
  <2>3. QED  BY <1>2, <2>1, <2>2
<1>6. ASSUME UNCHANGED w PROVE \A h \in Gens : Path(h)
  BY <1>6
<1>7. CASE \/ \E m \in Msgs : Arrive(m)
           \/ \E u \in DOMAIN box : Expunge(u)
           \/ Rotate \/ RemoveFinish \/ UNCHANGED vars
  <2>1. UNCHANGED w /\ Quiet
    BY <1>7 DEF Arrive, Expunge, Rotate, RemoveFinish, vars, histVars, bounceVars
  <2>2. QED  BY <1>6, <2>1
<1>8. CASE Crash
  <2>1. w' = [g \in Gens |-> FreshWorker] /\ Quiet
    BY <1>8 DEF Crash, bounceVars
  <2>2. QED  BY <2>1, FreshWorkerType
<1>9. CASE RemoveAccount
  <2>1. slot \in Gens
    BY <1>1, <1>9 DEF RemoveAccount, TypeOK
  <2>2. QED  BY <1>4, <1>9, <2>1
<1>10. ASSUME NEW g \in Gens, BreakerCools(g) \/ IdleTimeout(g)
       PROVE  (\A h \in Gens : Path(h)) /\ Quiet
  <2>1. CASE BreakerCools(g)
    BY <1>4, <2>1
  <2>2. CASE IdleTimeout(g)
    BY <1>4, <2>2
  <2>3. QED  BY <1>10, <2>1, <2>2
<1> HIDE DEF Path, Quiet
<1>11. CASE \E g \in Gens : Step(g) \/ Error(g)
  BY <1>3, <1>11 DEF Path, Quiet
<1>12. CASE \E g \in Gens : BreakerCools(g) \/ IdleTimeout(g) \/ AddAccount(g)
  BY <1>5, <1>10, <1>12 DEF Path, Quiet
<1>13. CASE ~\E g \in Gens : \/ Step(g) \/ Error(g) \/ BreakerCools(g) \/ IdleTimeout(g)
                             \/ AddAccount(g)
  <2>1. \/ \E m \in Msgs : Arrive(m)
        \/ \E u \in DOMAIN box : Expunge(u)
        \/ Rotate \/ RemoveFinish \/ UNCHANGED vars
        \/ Crash \/ RemoveAccount
    BY <1>13 DEF Next
  <2>2. QED  BY <1>7, <1>8, <1>9, <2>1 DEF Path, Quiet
<1>14. QED  BY <1>11, <1>12, <1>13

\* Every action keeps BounceInv; between BounceStore and BouncePublish the
\* message in hand does not change.
LEMMA BounceNext == TypeInv /\ BounceInv /\ [Next]_vars => BounceInv'
<1> SUFFICES ASSUME TypeInv, BounceInv, [Next]_vars PROVE BounceInv'
  OBVIOUS
<1>1. /\ TypeOK /\ \A g \in Gens : GoodWorker(w[g])
      /\ stored \in [Msgs -> Nat] /\ bounced \in [Msgs -> Nat]
  BY DEF TypeInv, TypeOK
<1>2. ASSUME NEW g \in Gens, BounceStore(g)
      PROVE  /\ w[g].msg \in Msgs /\ bounced' = bounced /\ w'[g].msg = w[g].msg
             /\ \A m \in Msgs : Rowed(m) \/ m = w[g].msg => Rowed(m)'
  <2>1. w[g].pc = "bounceStore" /\ w'[g].msg = w[g].msg
    BY <1>1, <1>2, PassStep DEF SameView
  <2>2. w[g].msg \in Msgs
    BY <1>1, <2>1 DEF GoodWorker, Holding
  <2>3. \A m \in Msgs : Bump(stored, w[g].msg)[m] =
                          IF m = w[g].msg THEN stored[m] + 1 ELSE stored[m]
    BY <1>1, BumpType
  <2>4. ASSUME stored' = Bump(stored, w[g].msg), unstored' = unstored
        PROVE  \A m \in Msgs : Rowed(m) \/ m = w[g].msg => Rowed(m)'
    BY <1>1, <2>3, <2>4 DEF Rowed
  <2>5. ASSUME stored' = stored, unstored' = unstored \cup {w[g].msg}
        PROVE  \A m \in Msgs : Rowed(m) \/ m = w[g].msg => Rowed(m)'
    BY <2>5 DEF Rowed
  <2>6. QED  BY <1>2, <2>1, <2>2, <2>4, <2>5 DEF BounceStore
<1>3. ASSUME NEW g \in Gens, BouncePublish(g)
      PROVE  /\ stored' = stored /\ unstored' = unstored
             /\ \A m \in Msgs : bounced'[m] > 0 => bounced[m] > 0 \/ Rowed(m)
  <2>1. w[g].pc = "bouncePublish"
    BY <1>1, <1>3, PassStep
  <2>2. Rowed(w[g].msg)
    BY <2>1 DEF BounceInv
  <2>3. bounced' = bounced \/ bounced' = Bump(bounced, w[g].msg)
    BY <1>3 DEF BouncePublish
  <2>4. \A m \in Msgs : Bump(bounced, w[g].msg)[m] =
                          IF m = w[g].msg THEN bounced[m] + 1 ELSE bounced[m]
    BY <1>1, BumpType
  <2>5. \A m \in Msgs : bounced'[m] > 0 => bounced[m] > 0 \/ Rowed(m)
    BY <2>2, <2>3, <2>4
  <2>6. QED  BY <1>3, <2>5 DEF BouncePublish
<1>4. \A m \in Msgs : /\ Rowed(m) => Rowed(m)'
                      /\ bounced'[m] > 0 => bounced[m] > 0 \/ Rowed(m)
  BY <1>2, <1>3, BouncePath DEF Rowed
<1>5. BounceStoredFirst'
  BY <1>4 DEF BounceInv, BounceStoredFirst, Rowed
<1>6. ASSUME NEW h \in Gens, w'[h].pc = "bouncePublish" PROVE Rowed(w[h].msg)'
  <2>1. CASE BounceStore(h)
    BY <1>2, <2>1 DEF Rowed
  <2>2. CASE w[h].pc = "bouncePublish" /\ w'[h].msg = w[h].msg
    <3>1. w[h].msg \in Msgs /\ Rowed(w[h].msg)
      BY <1>1, <2>2 DEF GoodWorker, Holding, BounceInv
    <3>2. QED  BY <1>4, <2>2, <3>1 DEF Rowed
  <2>3. QED  BY <1>6, <2>1, <2>2, BouncePath
<1>7. QED  BY <1>5, <1>6 DEF BounceInv

\* "Persist to the bounce store before publishing": who sees a BounceEvent finds
\* its row, unless writing the row failed.  Any number of workers may run.
THEOREM BouncesAreStoredFirst == Spec => []BounceStoredFirst
<1>1. Init => TypeInv /\ BounceInv
  <2>1. Init => BounceInv
    BY FreshWorkerType DEF Init, BounceInv, BounceStoredFirst
  <2>2. QED  BY <2>1, TypeInit
<1>2. TypeInv /\ BounceInv /\ [Next]_vars => (TypeInv /\ BounceInv)'
  BY TypeNext, BounceNext
<1>3. BounceInv => BounceStoredFirst
  BY DEF BounceInv
<1>4. QED  BY <1>1, <1>2, <1>3, PTL DEF Spec
=============================================================================
