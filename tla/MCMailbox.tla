----------------------------- MODULE MCMailbox -----------------------------
(* Constants for the model-checking run of Mailbox.                        *)
EXTENDS Mailbox

From(who, others, report, marks) ==
  [from |-> who, others |-> others, report |-> report, marks |-> marks]

\* A person who writes to us and to bob, bob, an auto-responder, a remote
\* report, and a plain bounce of our own daemon.
Somebody == {
  From("ann", {"me", "bob"}, FALSE, {}),
  From("bob", {"me"}, FALSE, {"autoSubmitted"}),
  From("daemon", {"me"}, FALSE, {}),
  From("far", {"me"}, TRUE, {}) }

\* A new conversation, one that goes on from before, one whose client sends
\* In-Reply-To alone, one with unusable References.
Openings == {
  [hasId |-> TRUE, irt |-> Nil, refs |-> <<>>],
  [hasId |-> TRUE, irt |-> 91, refs |-> <<90, 92, 91>>],
  [hasId |-> TRUE, irt |-> 91, refs |-> <<>>],
  [hasId |-> FALSE, irt |-> Nil, refs |-> <<99>>] }

Plain == { s \in Openings : s.hasId /\ s.refs = <<>> /\ s.irt = Nil }
Person(who) == { p \in Somebody : p.from = who }

\* A long conversation; a folder under several hands, first with its UIDs
\* stable, then renumbered; machines that write.
Stories == {
  [profiles |-> Person("ann") \cup Person("bob"), seeds |-> Openings, mails |-> 5,
   opens |-> 1, moves |-> 0, searches |-> 0, faults |-> 0, renumbers |-> 0,
   other |-> FALSE],
  [profiles |-> Person("ann"), seeds |-> Plain, mails |-> 3, opens |-> 3,
   moves |-> 2, searches |-> 0, faults |-> 1, renumbers |-> 0, other |-> TRUE],
  [profiles |-> Person("ann"), seeds |-> Plain, mails |-> 2, opens |-> 2,
   moves |-> 1, searches |-> 1, faults |-> 1, renumbers |-> 1, other |-> TRUE],
  [profiles |-> Somebody, seeds |-> Plain, mails |-> 3, opens |-> 2,
   moves |-> 0, searches |-> 0, faults |-> 1, renumbers |-> 1, other |-> FALSE] }

AllIds == MailNos \cup {90, 91, 92, 99}
=============================================================================
