------------------------------- MODULE Outbox -------------------------------
(***************************************************************************)
(* What the outbound side promises, without files, workers or restarts: a  *)
(* command is refused or queued; only a queued message is offered to the   *)
(* relay; it leaves the queue exactly once, as sent (then the relay has    *)
(* it) or as dead.                                                         *)
(***************************************************************************)
EXTENDS Naturals

CONSTANT Cmds

VARIABLES st,      \* "new", "refused", "queued", "sent" or "dead"
          copies   \* how many copies the relay accepted

vars == <<st, copies>>

Init ==
  /\ st = [c \in Cmds |-> "new"]
  /\ copies = [c \in Cmds |-> 0]

Move(c, from, to) == st[c] = from /\ st' = [st EXCEPT ![c] = to]

Submit(c)  == Move(c, "new", "queued") /\ UNCHANGED copies
Refuse(c)  == Move(c, "new", "refused") /\ UNCHANGED copies
Deliver(c) == /\ st[c] = "queued" /\ copies' = [copies EXCEPT ![c] = @ + 1]
              /\ UNCHANGED st
Sent(c)    == copies[c] > 0 /\ Move(c, "queued", "sent") /\ UNCHANGED copies
GiveUp(c)  == Move(c, "queued", "dead") /\ UNCHANGED copies

\* A dying process refuses every call it was serving at once.
RefuseAll ==
  /\ \E C \in SUBSET { c \in Cmds : st[c] = "new" } :
       st' = [c \in Cmds |-> IF c \in C THEN "refused" ELSE st[c]]
  /\ UNCHANGED copies

Next == \/ RefuseAll
        \/ \E c \in Cmds : \/ Submit(c) \/ Refuse(c) \/ Deliver(c)
                           \/ Sent(c) \/ GiveUp(c)

Spec == Init /\ [][Next]_vars
=============================================================================
