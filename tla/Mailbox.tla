------------------------------ MODULE Mailbox ------------------------------
(***************************************************************************)
(* One account's INBOX, shared by the inbound worker, the agent's tools    *)
(* and the owner's other mail client, and the conversations that run       *)
(* through it (src/src/inbound.rs drain_pending; tool/reply.rs, archive.rs,*)
(* move_to.rs, thread.rs, imap_op.rs; mime_parse.rs, mime_build.rs).       *)
(*                                                                         *)
(* A tool takes UIDs and opens an IMAP session of its own; nothing ties a  *)
(* UID to the mail the agent was told about.  The IMAP server, the other   *)
(* client and the correspondents are outside this repository.              *)
(***************************************************************************)
EXTENDS Threading, FiniteSets, Functions

CONSTANTS
  Profiles,      \* what correspondents send: sender, recipients, markers
  Seeds,         \* headers of mails that open a conversation
  Calls,         \* tool calls that may run at once
  SearchLimit, ThreadLimit,   \* limit arguments of email_search, email_thread
  OrphanBase,    \* base of the synthetic roots
  MaxMails,      \* bound
  Scenarios      \* bounds of a behaviour: who writes, how conversations
                 \* open, how much of each happens

\* The mail with number n has Message-ID n.
MailNos == 1..MaxMails

ASSUME MailboxAssumption ==
  /\ MaxMails \in Nat /\ MailNos \subseteq Ids \ Junk
  /\ {OrphanBase, SearchLimit, ThreadLimit} \subseteq Nat
  /\ Profiles \subseteq [from : (Senders \ {Me}) \cup {Nobody}, others : SUBSET Senders,
                          report : BOOLEAN, marks : SUBSET Marks]
  /\ Seeds \subseteq [hasId : BOOLEAN, irt : Ids \cup {Nil}, refs : Seq(Ids)]
  /\ \A i \in Ids, u \in MailNos : i # OrphanBase + u
  /\ \A b \in Scenarios :
       /\ b.profiles \subseteq Profiles /\ b.seeds \subseteq Seeds
       /\ b.mails \in MailNos
       /\ {b.opens, b.moves, b.searches, b.faults, b.renumbers} \subseteq Nat
       /\ b.other \in BOOLEAN   \* the other client touches INBOX

VARIABLES
  mails,    \* every mail so far; its number is its position
  inbox,    \* INBOX by UID: the mail and its \Deleted flag
  kept,     \* mails in the folder the tools move to
  canMove,  \* the server has the MOVE extension
  cursor,   \* last UID the worker has handled
  listed,   \* UIDs of the rows the last email_search returned
  told,     \* <<UID, mail>> the agent was told by an inbound event
  call,     \* per tool call: its step and its UIDs
  bound,    \* the scenario
  moves, searches, faults, renumbers,   \* counted up to their bounds
  \* history
  raws,     \* mails published without their headers
  binned    \* mails the other client flagged and someone expunged

vars == <<mails, inbox, kept, canMove, cursor, told, listed, call, bound,
          moves, searches, faults, renumbers, raws, binned>>

server == <<inbox, kept, canMove>>
budgets == <<bound, moves, searches, faults, renumbers>>

Gone == [mail |-> 0, flag |-> "no"]
Live == { u \in DOMAIN inbox : inbox[u] # Gone }
MailAt(u) == mails[inbox[u].mail]
MailsAt(us) == { inbox[u].mail : u \in us \cap Live }
NoCall == [pc |-> "idle", uids |-> {}]

Orphan(u) == OrphanBase + u

TypeOK ==
  /\ Len(mails) <= MaxMails
  /\ \A n \in DOMAIN mails :
       LET m == mails[n] IN
       /\ m.from \in Senders \cup {Nobody} /\ m.others \subseteq Senders
       /\ m.report \in BOOLEAN /\ m.marks \subseteq Marks /\ m.bare \in BOOLEAN
       /\ m.mid \in {n, Nil} /\ m.irt \in Ids \cup {Nil}
       /\ m.refs \in Seq(Ids) /\ (m.from = Me => Len(m.refs) <= ReferencesMax)
       /\ m.parent \in 0..(n - 1) /\ m.thread \in 1..n /\ m.whole \in BOOLEAN
  /\ \A u \in Live : inbox[u].mail \in DOMAIN mails
                     /\ inbox[u].flag \in {"no", "user", "tool"}
  /\ \A u, v \in Live : inbox[u].mail = inbox[v].mail => u = v
  /\ kept \subseteq DOMAIN mails /\ cursor \in 0..Len(inbox)
  /\ \A t \in told : t[1] \in MailNos /\ t[2] \in DOMAIN mails
  /\ listed \subseteq MailNos
  /\ call \in [Calls -> [pc : {"idle", "selected", "copied", "stored"},
                         uids : SUBSET MailNos]]

Init ==
  /\ mails = <<>> /\ inbox = <<>> /\ kept = {} /\ canMove \in BOOLEAN
  /\ cursor = 0 /\ told = {} /\ listed = {} /\ call = [c \in Calls |-> NoCall]
  /\ bound \in Scenarios /\ (bound.moves = 0 => ~canMove)
  /\ searches = 0 /\ moves = 0 /\ faults = 0 /\ renumbers = 0
  /\ raws = {} /\ binned = {}

Fault == faults < bound.faults /\ faults' = faults + 1

-----------------------------------------------------------------------------
(* The correspondents.                                                     *)

Arrives(m) ==
  /\ Len(mails) < bound.mails
  /\ mails' = Append(mails, m)
  /\ inbox' = Append(inbox, [mail |-> Len(mails) + 1, flag |-> "no"])
  /\ UNCHANGED <<kept, canMove, cursor, told, listed, call, budgets, raws, binned>>

Mail(p, h, parent, thread, whole) ==
  [from |-> p.from, others |-> p.others, report |-> p.report, marks |-> p.marks,
   mid |-> h.mid, irt |-> h.irt, refs |-> h.refs, bare |-> FALSE,
   parent |-> parent, thread |-> thread, whole |-> whole]

\* The headers name the root of the thread: a mail that opens one, or one
\* whose References begin with a usable id.
Whole(h) ==
  IF h.refs = <<>> THEN Canonical(h.mid) /\ h.irt = Nil ELSE Canonical(h.refs[1])

Opened == Cardinality({ k \in DOMAIN mails : mails[k].parent = 0 })

\* A mail that answers none of ours; it may belong to an older conversation.
Open(p, s) ==
  LET n == Len(mails) + 1
      h == [mid |-> IF s.hasId THEN n ELSE Nil, irt |-> s.irt, refs |-> s.refs]
  IN ~p.report /\ Opened < bound.opens /\ Arrives(Mail(p, h, 0, n, Whole(h)))

\* References of an answer (RFC 5322): the parent's chain and its id.
RfcReferences(m) ==
  LET chain == IF m.refs = <<>> /\ m.irt # Nil THEN <<m.irt>> ELSE m.refs
  IN IF m.mid = Nil THEN chain ELSE Append(chain, m.mid)

\* What a client makes of them: all; In-Reply-To alone; or, when the parent
\* wrote them without brackets, the parent's id alone.
AnswerReferences(m) ==
  {RfcReferences(m), <<>>} \cup (IF m.bare THEN {<<m.mid>>} ELSE {})

\* An addressee of mail i answers it, by hand or not, or a daemon reports on
\* one of ours.
Answer(p, i) ==
  LET n == Len(mails) + 1 IN
  /\ i \in DOMAIN mails
  /\ \/ p.from \in mails[i].others
     \/ mails[i].from = Me /\ p.from # Me /\ (p.report \/ p.from \in Daemons)
  /\ \E refs \in AnswerReferences(mails[i]) :
       Arrives(Mail(p, [mid |-> n, irt |-> mails[i].mid, refs |-> refs],
                    i, mails[i].thread,
                    mails[i].whole /\ refs = RfcReferences(mails[i])))

-----------------------------------------------------------------------------
(* The worker and the agent.                                               *)

\* drain_pending on the next UID.  A delivery report is recorded as a bounce,
\* a robot's mail dropped, the rest published.  When parse_eml fails there are
\* no headers to judge by and the raw mail is published.
Route(u) ==
  LET n == inbox[u].mail IN
  \/ /\ told' = IF ~ParseBounce(MailAt(u)) /\ ~ShouldSkip(MailAt(u))
                THEN told \cup {<<u, n>>} ELSE told
     /\ UNCHANGED <<faults, raws>>
  \/ /\ Fault
     /\ told' = told \cup {<<u, n>>} /\ raws' = raws \cup {n}

Handle(u) ==
  /\ u \in Live /\ u > cursor /\ \A v \in Live : v > cursor => u <= v
  /\ Route(u)
  /\ cursor' = u
  /\ UNCHANGED <<mails, server, call, listed, bound, moves, searches,
                 renumbers, binned>>

\* build_mime: our mail with number n, an answer to mail i.  Attachments decide
\* which builder writes the ids; build_text_only writes them as parse_eml
\* returned them, bare.
BuildMime(n, i, h, to, attached) ==
  [from |-> Me, others |-> to.to \cup to.cc, report |-> FALSE, marks |-> {},
   mid |-> n, irt |-> h.irt, refs |-> h.refs, bare |-> ~attached,
   parent |-> i, thread |-> mails[i].thread, whole |-> mails[i].whole]

\* email_reply for a mail the agent was told about: it fetches whatever the
\* UID names now.
Reply(t, all, attached) ==
  LET u == t[1]
      i == inbox[u].mail
      to == ReplyRecipients(MailAt(u), all)
      n == Len(mails) + 1
      m == BuildMime(n, i, EnrichReplyThreading(MailAt(u)), to, attached)
  IN /\ t \in told /\ u \in Live /\ to.to # {}
     /\ \A k \in DOMAIN mails : ~(mails[k].from = Me /\ mails[k].parent = i)
     /\ IF Me \in m.others THEN Arrives(m)
        ELSE /\ n <= bound.mails /\ mails' = Append(mails, m)
             /\ UNCHANGED <<server, cursor, told, listed, call, budgets, raws, binned>>

-----------------------------------------------------------------------------
(* email_search and email_thread.                                          *)

\* The session key of a row, as for an inbound event.
RootAt(u) == ResolveThreadRoot(MailAt(u), Orphan(u))

\* Rows are the lowest UIDs up to the limit.
Rows(us, limit) == { v \in us : Cardinality({ w \in us : w < v }) < limit }

\* email_search, with a query that a set us of mails matches.
Search(us) ==
  /\ searches < bound.searches /\ searches' = searches + 1
  /\ us \subseteq Live
  /\ listed' = Rows(us, SearchLimit)
  /\ UNCHANGED <<mails, server, cursor, told, call, bound, moves, faults,
                 renumbers, raws, binned>>

\* Mutant: only HEADER REFERENCES.
ThreadMatchesReferences(u) ==
  { v \in Live : \E k \in DOMAIN MailAt(v).refs : MailAt(v).refs[k] = RootAt(u) }

\* The query of email_thread: OR HEADER MESSAGE-ID root HEADER REFERENCES root.
ThreadMatches(u) ==
  { v \in Live : MailAt(v).mid = RootAt(u)
                 \/ \E k \in DOMAIN MailAt(v).refs : MailAt(v).refs[k] = RootAt(u) }

ThreadRows(u) == Rows(ThreadMatches(u), ThreadLimit)

-----------------------------------------------------------------------------
(* email_archive and email_move_to: the session of run_imap_op.            *)

Begin(c, us) ==
  /\ call[c].pc = "idle" /\ moves < bound.moves /\ us # {}
  /\ us \subseteq { t[1] : t \in told } \cup listed
  /\ call' = [call EXCEPT ![c] = [pc |-> "selected", uids |-> us]]
  /\ moves' = moves + 1
  /\ UNCHANGED <<mails, server, cursor, told, listed, bound, searches, faults,
                 renumbers, raws, binned>>

\* INBOX without the mails at us.
Without(us) == [u \in DOMAIN inbox |-> IF u \in us THEN Gone ELSE inbox[u]]

Step(c, pc) ==
  /\ call' = [call EXCEPT ![c] = [pc |-> pc, uids |-> IF pc = "idle" THEN {} ELSE @.uids]]
  /\ UNCHANGED <<mails, canMove, cursor, told, listed, budgets, raws>>

\* UID MOVE.
MoveAll(c) ==
  /\ call[c].pc = "selected" /\ canMove
  /\ kept' = kept \cup MailsAt(call[c].uids)
  /\ inbox' = Without(call[c].uids)
  /\ Step(c, "idle") /\ UNCHANGED binned

\* UID COPY: UIDs that are gone are passed over.
Copy(c) ==
  /\ call[c].pc = "selected" /\ ~canMove
  /\ kept' = kept \cup MailsAt(call[c].uids)
  /\ Step(c, "copied") /\ UNCHANGED <<inbox, binned>>

Flagged(us) ==
  [u \in DOMAIN inbox |-> IF u \in us /\ inbox[u].flag = "no" /\ inbox[u] # Gone
                          THEN [inbox[u] EXCEPT !.flag = "tool"] ELSE inbox[u]]

\* Mutant: a range first:last in place of the list.
StoreRange(c) ==
  /\ call[c].pc = "copied"
  /\ inbox' = Flagged({ u \in Live : \E a, b \in call[c].uids : a <= u /\ u <= b })
  /\ Step(c, "stored") /\ UNCHANGED <<kept, binned>>

\* STORE +FLAGS (\Deleted).
Store(c) ==
  /\ call[c].pc = "copied"
  /\ inbox' = Flagged(call[c].uids)
  /\ Step(c, "stored") /\ UNCHANGED <<kept, binned>>

\* EXPUNGE: every flagged mail of INBOX, whoever flagged it.
Expunged ==
  /\ inbox' = Without({ u \in Live : inbox[u].flag # "no" })
  /\ binned' = binned \cup MailsAt({ u \in Live : inbox[u].flag = "user" })

Expunge(c) == call[c].pc = "stored" /\ Expunged /\ Step(c, "idle") /\ UNCHANGED kept

\* Any command of the session fails: the tool returns the error and undoes
\* nothing.
CallFails(c) ==
  /\ call[c].pc # "idle" /\ Fault
  /\ call' = [call EXCEPT ![c] = NoCall]
  /\ UNCHANGED <<mails, server, cursor, told, listed, bound, moves, searches,
                 renumbers, raws, binned>>

-----------------------------------------------------------------------------
(* The other client and the server.                                        *)

OtherFlags(u, flag) ==
  /\ bound.other /\ u \in Live /\ flag \in {"no", "user"} /\ inbox[u].flag # flag
  /\ inbox' = [inbox EXCEPT ![u].flag = flag]
  /\ UNCHANGED <<mails, kept, canMove, cursor, told, listed, call, budgets, raws, binned>>

OtherExpunges ==
  /\ bound.other /\ \E u \in Live : inbox[u].flag # "no"
  /\ Expunged
  /\ UNCHANGED <<mails, kept, canMove, cursor, told, listed, call, budgets, raws>>

\* UIDVALIDITY changes: the mails get new UIDs in the old order, the open
\* sessions are lost, and the worker bootstraps its cursor (Inbound).
Renumber ==
  /\ renumbers < bound.renumbers /\ renumbers' = renumbers + 1
  /\ \E old \in Bijection(1..Cardinality(Live), Live) :
       /\ \A u, v \in DOMAIN old : u < v => old[u] < old[v]
       /\ inbox' = [u \in DOMAIN old |-> inbox[old[u]]]
  /\ cursor' \in 0..Cardinality(Live)
  /\ call' = [c \in Calls |-> NoCall]
  /\ UNCHANGED <<mails, kept, canMove, told, listed, bound, moves,
                 searches, faults, raws, binned>>

Correspondent ==
  \E p \in bound.profiles :
    (\E s \in bound.seeds : Open(p, s)) \/ (\E i \in MailNos : Answer(p, i))
Worker == \E u \in MailNos : Handle(u)
Agent ==
  \/ \E t \in told, all, attached \in BOOLEAN : Reply(t, all, attached)
  \/ \E us \in SUBSET MailNos : Search(us)
  \/ \E c \in Calls :
       \/ \E us \in SUBSET MailNos : Begin(c, us)
       \/ MoveAll(c) \/ Copy(c) \/ Store(c) \/ Expunge(c) \/ CallFails(c)
Other ==
  \/ \E u \in MailNos, flag \in {"no", "user"} : OtherFlags(u, flag)
  \/ OtherExpunges \/ Renumber

Next == Correspondent \/ Worker \/ Agent \/ Other

Spec == Init /\ [][Next]_vars

-----------------------------------------------------------------------------
(* Properties.                                                             *)

\* However long a conversation grows and however often its References are cut
\* to REFERENCES_MAX, every mail of it resolves to the root of the mail that
\* opened it, so the agent sees one session, as long as that mail names its
\* root and every client in between passes References on
\* (threading.rs:89-119, "keep [refs[0], refs[len-(max-1)..len]]").
OneThread ==
  \A n \in DOMAIN mails : mails[n].whole =>
    ResolveThreadRoot(mails[n], 0) = ResolveThreadRoot(mails[mails[n].thread], 0)

\* The agent never writes to a machine: a mail it replies to is no delivery
\* report, no automatic or mass mail and not its own, unless the mail reached
\* it raw because parse_eml failed, or its UID has been renumbered since
\* (loop_prevent.rs:3-5, "drop messages that would otherwise re-trigger the
\* agent in a loop"; dsn.rs:3).
Machine(m) == ParseBounce(m) \/ m.marks # {} \/ m.from = Me

RobotsGetNoReply ==
  \A n \in DOMAIN mails :
    /\ mails[n].from = Me /\ mails[n].parent # 0
    /\ Machine(mails[mails[n].parent])
    => mails[n].parent \in raws \/ renumbers > 0

\* Whatever the tool calls, the worker, the other client and a failing server
\* do in between, a mail that reached INBOX is in INBOX or in the target
\* folder, unless the other client marked it deleted (archive.rs:88-92: COPY,
\* STORE \Deleted, EXPUNGE, with no way back).  Once UIDs have been renumbered
\* a UID that names nothing at COPY may name a new mail at STORE.
Delivered == { n \in DOMAIN mails : mails[n].from # Me \/ Me \in mails[n].others }

NothingVanishes ==
  renumbers = 0 => Delivered \subseteq MailsAt(Live) \cup kept \cup binned

\* email_thread on any mail lists every mail of INBOX that has the same root
\* (tool/thread.rs:56, "every message in the same RFC 5322 thread as seed_uid"),
\* except those tied to it by In-Reply-To alone, mails without a usable id,
\* and what falls over the limit.
ThreadListsItsRoot ==
  \A u, v \in Live : RootAt(u) = RootAt(v) =>
    \/ v \in ThreadRows(u)
    \/ MailAt(v).irt = RootAt(v) /\ ~Whole(MailAt(v))
    \/ RootAt(v) = Orphan(v)
    \/ Cardinality(ThreadMatches(u)) > ThreadLimit
=============================================================================
