----------------------------- MODULE Threading -----------------------------
(***************************************************************************)
(* What the plugin decides from the headers of one mail: the root of its   *)
(* thread, the headers of a reply to it (src/src/threading.rs), whether it *)
(* is a delivery report (dsn.rs) or a robot's mail (loop_prevent.rs).      *)
(*                                                                         *)
(* A Message-ID stands for its class under canonicalize_message_id: two    *)
(* spellings that differ in brackets or case are one value.                *)
(***************************************************************************)
EXTENDS Naturals, Sequences

CONSTANTS
  Ids,            \* Message-IDs
  Junk,           \* those canonicalize_message_id rejects
  Nil,            \* an absent header
  ReferencesMax,  \* REFERENCES_MAX
  Senders,        \* addresses, without Nobody
  Nobody,         \* From: missing or unreadable
  Me,             \* the account's own address
  Daemons,        \* addresses with a MAILER-DAEMON local part and a domain
                  \* aligned with the account's
  Rules           \* the loop-prevention rules that are switched on

\* The marks a mail can carry, one per rule of should_skip on the headers.
Marks == {"autoSubmitted", "list", "spam", "feedback", "esp"}

ASSUME ThreadingAssumption ==
  /\ Junk \subseteq Ids /\ Nil \notin Ids
  /\ ReferencesMax \in Nat /\ ReferencesMax >= 2
  /\ Me \in Senders /\ Daemons \subseteq Senders /\ Nobody \notin Senders
  /\ Rules \subseteq Marks \cup {"selfFrom"}

\* The threading headers of EmailMeta.
Headers == [mid : Ids \cup {Nil}, irt : Ids \cup {Nil}, refs : Seq(Ids)]

-----------------------------------------------------------------------------
(* threading.rs                                                            *)

\* canonicalize_message_id returns Some.
Canonical(id) == id \in Ids \ Junk

\* resolve_thread_root: the first of References, In-Reply-To, Message-ID, and
\* orphan (from the UID and the account) when none will do.
ResolveThreadRoot(h, orphan) ==
  IF h.refs # <<>> /\ Canonical(h.refs[1]) THEN h.refs[1]
  ELSE IF Canonical(h.irt) THEN h.irt
  ELSE IF Canonical(h.mid) THEN h.mid
  ELSE orphan

\* The first reference and the last max - 1.
Shortened(refs, max) ==
  IF Len(refs) <= max THEN refs
  ELSE <<refs[1]>> \o SubSeq(refs, Len(refs) - max + 2, Len(refs))

\* Mutant: no place is freed at the cap.
WithRoomNot(refs, max) == refs

\* One place freed at the cap by dropping the oldest that is not the root.
WithRoom(refs, max) ==
  IF Len(refs) >= max /\ Len(refs) > 1
  THEN <<refs[1]>> \o SubSeq(refs, 3, Len(refs)) ELSE refs

Present(id, refs) == Canonical(id) /\ \E i \in DOMAIN refs : refs[i] = id

\* Mutant: the newest max ids, the root as expendable as any.
TruncateKeepsNewest(refs, own, max) ==
  LET all == IF own = Nil \/ Present(own, refs) THEN refs ELSE Append(refs, own)
  IN IF Len(all) <= max THEN all ELSE SubSeq(all, Len(all) - max + 1, Len(all))

\* truncate_references: References shortened to max, with own appended.
TruncateReferences(refs, own, max) ==
  LET kept == Shortened(refs, max)
  IN IF own = Nil \/ Present(own, kept) THEN kept
     ELSE Append(WithRoom(kept, max), own)

\* enrich_reply_threading: the In-Reply-To and References of a reply.
EnrichReplyThreading(parent) ==
  [irt |-> parent.mid,
   refs |-> TruncateReferences(parent.refs, parent.mid, ReferencesMax)]

-----------------------------------------------------------------------------
(* dsn.rs and loop_prevent.rs                                              *)

\* parse_bounce returns Some: a multipart/report of type delivery-status, or
\* any mail of a daemon of our own domain.
ParseBounce(m) == m.report \/ m.from \in Daemons

IsSelfThread(m) == m.from = Me

\* Mutant: all the rules must match.
ShouldSkipAll(m) == Rules \ {"selfFrom"} \subseteq m.marks /\ IsSelfThread(m)

\* should_skip returns Some: a rule that is switched on matches.
ShouldSkip(m) ==
  \/ m.marks \cap Rules # {}
  \/ "selfFrom" \in Rules /\ IsSelfThread(m)

\* derive_reply_recipients: To and Cc of a reply, none for a mail that has no
\* From.
ReplyRecipients(m, all) ==
  [to |-> {m.from} \ {Nobody},
   cc |-> IF all THEN m.others \ {Me, m.from} ELSE {}]
=============================================================================
