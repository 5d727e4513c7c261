---------------------------- MODULE MailboxProofs ----------------------------
(***************************************************************************)
(* Theorems about Mailbox, for every correspondent, conversation and       *)
(* number of mails, calls and faults.                                      *)
(***************************************************************************)
EXTENDS Mailbox, ThreadingProofs, FiniteSetTheorems, TLAPS

MailRec == [from : Senders \cup {Nobody}, others : SUBSET Senders, report : BOOLEAN,
            marks : SUBSET Marks, mid : Ids \cup {Nil}, irt : Ids \cup {Nil},
            refs : Seq(Ids), bare : BOOLEAN, parent : Nat, thread : Nat,
            whole : BOOLEAN]
Slot    == [mail : Nat, flag : {"no", "user", "tool"}]
CallRec == [pc : {"idle", "selected", "copied", "stored"}, uids : SUBSET MailNos]

\* Mail m can be the one with number n.
Fits(m, n) ==
  /\ m.mid \in {n, Nil} /\ (m.bare => m.mid # Nil)
  /\ m.from = Me => Len(m.refs) <= ReferencesMax
  /\ m.parent \in 0..(n - 1) /\ m.thread \in 1..n

TypeInv ==
  /\ mails \in Seq(MailRec) /\ Len(mails) <= MaxMails
  /\ \A n \in DOMAIN mails : Fits(mails[n], n)
  /\ inbox \in Seq(Slot)
  /\ \A u \in Live : inbox[u].mail \in DOMAIN mails
  /\ \A u, v \in Live : inbox[u].mail = inbox[v].mail => u = v
  /\ kept \subseteq DOMAIN mails /\ cursor \in 0..Len(inbox)
  /\ told \subseteq MailNos \X DOMAIN mails /\ listed \subseteq MailNos
  /\ call \in [Calls -> CallRec] /\ bound \in Scenarios /\ renumbers \in Nat

\* What the constants are.
LEMMA Constants ==
  /\ MaxMails \in Nat /\ ReferencesMax \in Nat /\ ReferencesMax >= 2
  /\ \A b \in Scenarios : b.mails \in 1..MaxMails /\ b.profiles \subseteq Profiles
                          /\ b.seeds \subseteq Seeds
  /\ \A n \in 1..MaxMails : n \in Ids /\ Canonical(n)
  /\ Nil \notin Ids
BY MailboxAssumption, ThreadingAssumption DEF MailNos, Canonical

\* The mails one sees in INBOX are mails.
LEMMA MailAtType ==
  ASSUME TypeInv, NEW u \in Live
  PROVE  /\ u \in DOMAIN inbox /\ inbox[u].mail \in DOMAIN mails /\ inbox[u] \in Slot
         /\ MailAt(u) \in MailRec /\ MailAt(u) = mails[inbox[u].mail]
BY DEF TypeInv, Live, MailAt

\* TypeInv is at least TypeOK.
LEMMA TypeOkHolds == TypeInv => TypeOK
<1> SUFFICES ASSUME TypeInv PROVE TypeOK
  OBVIOUS
<1>1. ASSUME NEW n \in DOMAIN mails
      PROVE  LET m == mails[n] IN
             /\ m.from \in Senders \cup {Nobody} /\ m.others \subseteq Senders
             /\ m.report \in BOOLEAN /\ m.marks \subseteq Marks /\ m.bare \in BOOLEAN
             /\ m.mid \in {n, Nil} /\ m.irt \in Ids \cup {Nil}
             /\ m.refs \in Seq(Ids) /\ (m.from = Me => Len(m.refs) <= ReferencesMax)
             /\ m.parent \in 0..(n - 1) /\ m.thread \in 1..n /\ m.whole \in BOOLEAN
  <2>1. mails[n] \in MailRec /\ Fits(mails[n], n)
    BY DEF TypeInv
  <2>2. QED  BY <2>1 DEF MailRec, Fits
<1>2. \A u \in Live : inbox[u].mail \in DOMAIN mails
                      /\ inbox[u].flag \in {"no", "user", "tool"}
  BY MailAtType DEF Slot
<1>3. \A t \in told : t[1] \in MailNos /\ t[2] \in DOMAIN mails
  BY DEF TypeInv
<1>4. QED  BY <1>1, <1>2, <1>3 DEF TypeInv, TypeOK, CallRec

\* An empty mailbox.
LEMMA TypeInit == Init => TypeInv
<1> SUFFICES ASSUME Init PROVE TypeInv
  OBVIOUS
<1>1. mails = <<>> /\ inbox = <<>> /\ DOMAIN mails = {} /\ DOMAIN inbox = {}
      /\ Len(mails) = 0 /\ Len(inbox) = 0
  BY DEF Init
<1>2. mails \in Seq(MailRec) /\ inbox \in Seq(Slot)
  BY <1>1
<1>3. Live = {}
  BY <1>1 DEF Live
<1>4. NoCall \in CallRec
  BY DEF NoCall, CallRec
<1>5. QED  BY <1>1, <1>2, <1>3, <1>4, Constants DEF Init, TypeInv

-----------------------------------------------------------------------------
(* Headers.                                                                *)

\* The root a mail resolves to.
Root(m) == ResolveThreadRoot(m, 0)

\* A mail that names its root: where the root stands.
LEMMA RootNamed ==
  ASSUME NEW m \in MailRec, Whole(m)
  PROVE  /\ m.refs = <<>> => Root(m) = m.mid /\ Canonical(m.mid) /\ m.irt = Nil
         /\ m.refs # <<>> => Root(m) = m.refs[1] /\ Canonical(m.refs[1])
BY ThreadingAssumption DEF Whole, Root, ResolveThreadRoot, Canonical

\* A mail whose References begin with a usable id names its root, that id.
LEMMA FirstIsRoot ==
  ASSUME NEW m \in MailRec, m.refs # <<>>, Canonical(m.refs[1])
  PROVE  Whole(m) /\ Root(m) = m.refs[1]
BY DEF Whole, Root, ResolveThreadRoot

\* References cut for a reply to a mail without any.
LEMMA TruncateEmpty ==
  ASSUME NEW own \in Ids \cup {Nil}
  PROVE  TruncateReferences(<<>>, own, ReferencesMax) = IF own = Nil THEN <<>> ELSE <<own>>
<1>1. ReferencesMax \in Nat /\ ReferencesMax >= 2
  BY Constants
<1>2. Shortened(<<>>, ReferencesMax) = <<>>
  BY <1>1 DEF Shortened
<1>3. WithRoom(<<>>, ReferencesMax) = <<>>
  BY <1>1 DEF WithRoom
<1>4. ~Present(own, <<>>)
  BY DEF Present
<1>5. TruncateReferences(<<>>, own, ReferencesMax) = IF own = Nil THEN <<>> ELSE Append(<<>>, own)
  BY <1>2, <1>3, <1>4, Zenon DEF TruncateReferences
<1>6. Append(<<>>, own) = <<own>>
  OBVIOUS
<1>7. QED  BY <1>5, <1>6

\* The headers of a reply: within the cap, and with the root of its parent
\* where that names it.
LEMMA EnrichHeaders ==
  ASSUME NEW m \in MailRec
  PROVE  /\ EnrichReplyThreading(m).irt = m.mid
         /\ EnrichReplyThreading(m).refs \in Seq(Ids)
         /\ Len(EnrichReplyThreading(m).refs) <= ReferencesMax
         /\ Whole(m) => /\ EnrichReplyThreading(m).refs # <<>>
                        /\ EnrichReplyThreading(m).refs[1] = Root(m)
                        /\ Canonical(Root(m))
<1> DEFINE refs == TruncateReferences(m.refs, m.mid, ReferencesMax)
<1>1. EnrichReplyThreading(m).irt = m.mid /\ EnrichReplyThreading(m).refs = refs
  BY DEF EnrichReplyThreading
<1>2. /\ m.refs \in Seq(Ids) /\ m.mid \in Ids \cup {Nil}
      /\ ReferencesMax \in Nat /\ ReferencesMax >= 2 /\ Nil \notin Ids
  BY Constants DEF MailRec
<1>3. CASE m.refs # <<>>
  <2>1. refs \in Seq(Ids) /\ refs # <<>> /\ refs[1] = m.refs[1] /\ Len(refs) <= ReferencesMax
    BY <1>2, <1>3, TruncateKeepsRoot
  <2> HIDE DEF refs
  <2>2. QED  BY <1>1, <1>3, <2>1, RootNamed
<1>4. CASE m.refs = <<>>
  <2>1. refs = IF m.mid = Nil THEN <<>> ELSE <<m.mid>>
    BY <1>2, <1>4, TruncateEmpty
  <2> HIDE DEF refs
  <2>2. CASE m.mid = Nil
    <3>1. ~Whole(m)
      BY <1>2, <1>4, <2>2 DEF Whole, Canonical
    <3>2. refs \in Seq(Ids) /\ Len(refs) <= ReferencesMax
      BY <1>2, <2>1, <2>2
    <3>3. QED  BY <1>1, <3>1, <3>2
  <2>3. CASE m.mid # Nil
    <3>1. refs = <<m.mid>> /\ m.mid \in Ids
      BY <1>2, <2>1, <2>3
    <3>2. refs \in Seq(Ids) /\ Len(refs) = 1 /\ refs # <<>> /\ refs[1] = m.mid
      BY <3>1
    <3>3. Len(refs) <= ReferencesMax
      BY <1>2, <3>2
    <3>4. Whole(m) => Root(m) = m.mid /\ Canonical(m.mid)
      BY <1>4, RootNamed
    <3>5. QED  BY <1>1, <3>2, <3>3, <3>4
  <2>4. QED  BY <2>2, <2>3
<1>5. QED  BY <1>3, <1>4

\* The References of another client's answer.
LEMMA RfcHeaders ==
  ASSUME NEW m \in MailRec
  PROVE  /\ RfcReferences(m) \in Seq(Ids)
         /\ Whole(m) => /\ RfcReferences(m) # <<>>
                        /\ RfcReferences(m)[1] = Root(m)
                        /\ Canonical(Root(m))
<1> DEFINE chain == IF m.refs = <<>> /\ m.irt # Nil THEN <<m.irt>> ELSE m.refs
           refs  == IF m.mid = Nil THEN chain ELSE Append(chain, m.mid)
<1>1. RfcReferences(m) = refs
  BY DEF RfcReferences
<1>2. m.refs \in Seq(Ids) /\ m.mid \in Ids \cup {Nil} /\ m.irt \in Ids \cup {Nil}
      /\ Nil \notin Ids
  BY Constants DEF MailRec
<1>3. chain \in Seq(Ids)
  BY <1>2
<1>4. Whole(m) => chain = m.refs
  BY RootNamed
<1> HIDE DEF chain
<1>5. refs \in Seq(Ids)
  BY <1>2, <1>3
<1>6. ASSUME Whole(m), m.refs # <<>>
      PROVE  refs # <<>> /\ refs[1] = m.refs[1]
  BY <1>2, <1>4, <1>6
<1>7. ASSUME Whole(m), m.refs = <<>>
      PROVE  refs # <<>> /\ refs[1] = m.mid
  <2>1. m.mid \in Ids /\ m.mid # Nil
    BY <1>2, <1>7, RootNamed DEF Canonical
  <2>2. refs = Append(<<>>, m.mid)
    BY <1>4, <1>7, <2>1
  <2> HIDE DEF refs
  <2>3. refs = <<m.mid>>
    BY <2>2
  <2>4. QED  BY <2>3
<1> HIDE DEF refs
<1>8. QED  BY <1>1, <1>5, <1>6, <1>7, RootNamed

-----------------------------------------------------------------------------
(* A mail is written.                                                      *)

\* Mail m is the next one; unless it is ours and to others it is in INBOX.
Sent(m) ==
  /\ m \in MailRec /\ Fits(m, Len(mails) + 1) /\ Len(mails) < MaxMails
  /\ mails' = Append(mails, m)
  /\ \/ inbox' = Append(inbox, [mail |-> Len(mails) + 1, flag |-> "no"])
     \/ inbox' = inbox /\ m.from = Me /\ Me \notin m.others
  /\ UNCHANGED <<kept, canMove, cursor, told, listed, call, budgets, raws, binned>>

\* What a mail from outside is made of.
LEMMA MailType ==
  ASSUME NEW p \in Profiles, NEW h \in Headers, NEW i \in Nat, NEW k \in Nat,
         NEW whole \in BOOLEAN
  PROVE  LET m == Mail(p, h, i, k, whole) IN
         /\ m \in MailRec /\ m.from # Me /\ m.parent = i /\ m.thread = k /\ ~m.bare
         /\ m.mid = h.mid /\ m.irt = h.irt /\ m.refs = h.refs /\ m.whole = whole
<1>1. /\ p.from \in Senders \cup {Nobody} /\ p.from # Me /\ p.others \in SUBSET Senders
      /\ p.report \in BOOLEAN /\ p.marks \in SUBSET Marks
  BY MailboxAssumption, ThreadingAssumption
<1>2. h.mid \in Ids \cup {Nil} /\ h.irt \in Ids \cup {Nil} /\ h.refs \in Seq(Ids)
  BY DEF Headers
<1>3. QED  BY <1>1, <1>2 DEF Mail, MailRec

\* How many mails there are.
LEMMA Counted ==
  ASSUME TypeInv
  PROVE  /\ Len(mails) \in Nat /\ DOMAIN mails = 1..Len(mails)
         /\ Len(inbox) \in Nat /\ DOMAIN inbox = 1..Len(inbox)
         /\ Len(mails) < bound.mails => /\ Len(mails) < MaxMails
                                        /\ Len(mails) + 1 \in Ids
                                        /\ Canonical(Len(mails) + 1)
<1>1. /\ Len(mails) \in Nat /\ DOMAIN mails = 1..Len(mails)
      /\ Len(inbox) \in Nat /\ DOMAIN inbox = 1..Len(inbox)
  BY DEF TypeInv
<1>2. bound.mails \in 1..MaxMails /\ MaxMails \in Nat
  BY Constants DEF TypeInv
<1>3. Len(mails) < bound.mails => Len(mails) + 1 \in 1..MaxMails
  BY <1>1, <1>2
<1>4. QED  BY <1>1, <1>2, <1>3, Constants

\* A mail that opens a conversation.
LEMMA OpenSends ==
  ASSUME TypeInv, NEW p \in bound.profiles, NEW s \in bound.seeds, Open(p, s)
  PROVE  \E m \in MailRec : /\ Sent(m) /\ m.from # Me /\ m.thread = Len(mails) + 1
                            /\ m.whole => Whole(m)
<1> DEFINE n == Len(mails) + 1
           h == [mid |-> IF s.hasId THEN n ELSE Nil, irt |-> s.irt, refs |-> s.refs]
           m == Mail(p, h, 0, n, Whole(h))
<1>1. p \in Profiles /\ s \in Seeds
  BY Constants DEF TypeInv
<1>2. Len(mails) < bound.mails /\ Arrives(m)
  BY DEF Open, Arrives
<1>3. n \in Ids /\ n \in Nat /\ Len(mails) \in Nat /\ Len(mails) < MaxMails
  BY <1>2, Counted
<1>4. h \in Headers /\ h.mid \in {n, Nil}
  BY <1>1, <1>3, MailboxAssumption DEF Headers
<1> HIDE DEF h
<1>5. Whole(h) \in BOOLEAN
  <2>1. CASE h.refs = <<>>
    <3>1. Whole(h) = (Canonical(h.mid) /\ h.irt = Nil)
      BY <2>1, Zenon DEF Whole
    <3>2. (Canonical(h.mid) /\ h.irt = Nil) \in BOOLEAN
      OBVIOUS
    <3>3. QED  BY <3>1, <3>2, Zenon
  <2>2. CASE h.refs # <<>>
    <3>1. Whole(h) = Canonical(h.refs[1])
      BY <2>2, Zenon DEF Whole
    <3>2. Canonical(h.refs[1]) \in BOOLEAN
      BY DEF Canonical
    <3>3. QED  BY <3>1, <3>2, Zenon
  <2>3. QED  BY <2>1, <2>2
<1>6. /\ m \in MailRec /\ m.from # Me /\ m.parent = 0 /\ m.thread = n /\ ~m.bare
      /\ m.mid = h.mid /\ m.irt = h.irt /\ m.refs = h.refs /\ m.whole = Whole(h)
  BY <1>1, <1>3, <1>4, <1>5, MailType
<1> HIDE DEF m
<1>7. Fits(m, n)
  BY <1>3, <1>4, <1>6 DEF Fits
<1>8. Sent(m)
  BY <1>2, <1>3, <1>6, <1>7 DEF Sent, Arrives
<1>9. m.whole => Whole(m)
  BY <1>6 DEF Whole
<1>10. QED  BY <1>6, <1>8, <1>9

\* An answer to mail i.
LEMMA AnswerSends ==
  ASSUME TypeInv, NEW p \in bound.profiles, NEW i, Answer(p, i)
  PROVE  /\ i \in DOMAIN mails
         /\ \E m \in MailRec : /\ Sent(m) /\ m.from # Me /\ m.thread = mails[i].thread
                               /\ m.whole => /\ mails[i].whole
                                             /\ m.refs = RfcReferences(mails[i])
<1> DEFINE n == Len(mails) + 1
<1>1. p \in Profiles /\ i \in DOMAIN mails /\ mails[i] \in MailRec /\ Fits(mails[i], i)
      /\ i \in 1..Len(mails) /\ Len(mails) \in Nat
  BY Constants, Counted DEF TypeInv, Answer
<1>2. PICK refs \in AnswerReferences(mails[i]) :
        Arrives(Mail(p, [mid |-> n, irt |-> mails[i].mid, refs |-> refs],
                     i, mails[i].thread,
                     mails[i].whole /\ refs = RfcReferences(mails[i])))
  BY DEF Answer
<1> DEFINE h == [mid |-> n, irt |-> mails[i].mid, refs |-> refs]
           whole == mails[i].whole /\ refs = RfcReferences(mails[i])
           m == Mail(p, h, i, mails[i].thread, whole)
<1>3. Len(mails) < bound.mails /\ Arrives(m)
  BY <1>2 DEF Arrives
<1>4. n \in Ids /\ n \in Nat /\ Len(mails) < MaxMails
  BY <1>1, <1>3, Counted
<1>5. refs \in Seq(Ids)
  <2>1. <<>> \in Seq(Ids) /\ RfcReferences(mails[i]) \in Seq(Ids)
    BY <1>1, RfcHeaders
  <2>2. mails[i].bare => <<mails[i].mid>> \in Seq(Ids)
    BY <1>1 DEF Fits, MailRec
  <2>3. QED  BY <1>2, <2>1, <2>2 DEF AnswerReferences
<1>6. h \in Headers
  BY <1>1, <1>4, <1>5 DEF Headers, MailRec
<1>7. whole \in BOOLEAN /\ mails[i].thread \in 1..i /\ mails[i].thread \in Nat /\ i \in Nat
  BY <1>1 DEF Fits, MailRec
<1>8. h.mid = n /\ h.refs = refs
  OBVIOUS
<1> HIDE DEF h, whole
<1>9. /\ m \in MailRec /\ m.from # Me /\ m.parent = i /\ m.thread = mails[i].thread
      /\ ~m.bare /\ m.mid = h.mid /\ m.refs = h.refs /\ m.whole = whole
  BY <1>1, <1>6, <1>7, MailType
<1> HIDE DEF m
<1>10. Fits(m, n)
  BY <1>1, <1>4, <1>7, <1>8, <1>9 DEF Fits
<1>11. Sent(m)
  BY <1>3, <1>4, <1>9, <1>10 DEF Sent, Arrives
<1>12. m.whole => mails[i].whole /\ m.refs = RfcReferences(mails[i])
  BY <1>8, <1>9 DEF whole
<1>13. QED  BY <1>1, <1>9, <1>11, <1>12

\* A reply of email_reply.
LEMMA ReplySends ==
  ASSUME TypeInv, NEW t \in told, NEW all \in BOOLEAN, NEW attached \in BOOLEAN,
         Reply(t, all, attached)
  PROVE  /\ t[1] \in Live
         /\ \E m \in MailRec : /\ Sent(m) /\ m.from = Me /\ m.parent = inbox[t[1]].mail
                               /\ m.thread = MailAt(t[1]).thread
                               /\ m.whole => MailAt(t[1]).whole
                               /\ m.refs = EnrichReplyThreading(MailAt(t[1])).refs
<1> DEFINE i  == inbox[t[1]].mail
           x  == MailAt(t[1])
           n  == Len(mails) + 1
           h  == EnrichReplyThreading(x)
           to == ReplyRecipients(x, all)
           m  == BuildMime(n, i, h, to, attached)
<1>1. t[1] \in Live
  BY DEF Reply
<1>2. /\ i \in DOMAIN mails /\ x = mails[i] /\ x \in MailRec /\ Fits(x, i)
      /\ i \in 1..Len(mails) /\ Len(mails) \in Nat
  BY <1>1, MailAtType, Counted DEF TypeInv
<1>3. /\ h.irt \in Ids \cup {Nil} /\ h.refs \in Seq(Ids) /\ Len(h.refs) <= ReferencesMax
      /\ to.to \cup to.cc \in SUBSET Senders /\ Me \in Senders
  BY <1>2, EnrichHeaders, ThreadingAssumption DEF MailRec, ReplyRecipients
<1>4. \/ Arrives(m)
      \/ /\ n <= bound.mails /\ mails' = Append(mails, m) /\ Me \notin m.others
         /\ UNCHANGED <<server, cursor, told, listed, call, budgets, raws, binned>>
  BY DEF Reply
<1>5. Len(mails) < bound.mails
  <2>1. bound.mails \in Nat
    BY Constants DEF TypeInv
  <2>2. QED  BY <1>2, <1>4, <2>1 DEF Arrives
<1>6. n \in Ids /\ n \in Nat /\ Len(mails) < MaxMails /\ n # Nil
  BY <1>2, <1>5, Counted, Constants
<1>7. /\ m.from = Me /\ m.parent = i /\ m.thread = x.thread /\ m.whole = x.whole
      /\ m.refs = h.refs /\ m.mid = n
  BY <1>2 DEF BuildMime
<1>8. m \in MailRec
  <2>1. i \in Nat /\ mails[i].thread \in Nat /\ mails[i].whole \in BOOLEAN
    BY <1>2 DEF MailRec
  <2> HIDE DEF h, to, i, x
  <2>2. QED  BY <1>3, <1>6, <2>1 DEF BuildMime, MailRec
<1> HIDE DEF m
<1>9. Fits(m, n)
  BY <1>2, <1>3, <1>6, <1>7 DEF Fits
<1>10. Sent(m)
  BY <1>4, <1>6, <1>7, <1>8, <1>9 DEF Sent, Arrives, server
<1>11. QED  BY <1>1, <1>7, <1>8, <1>10

-----------------------------------------------------------------------------
(* Types.                                                                  *)

\* What sending changes, entry by entry.
LEMMA SentParts ==
  ASSUME TypeInv, NEW m, Sent(m)
  PROVE  /\ mails' \in Seq(MailRec) /\ Len(mails') = Len(mails) + 1
         /\ DOMAIN mails' = 1..(Len(mails) + 1) /\ mails'[Len(mails) + 1] = m
         /\ \A k \in DOMAIN mails : k \in DOMAIN mails' /\ mails'[k] = mails[k]
         /\ \A k \in DOMAIN mails' : k \in DOMAIN mails \/ k = Len(mails) + 1
         /\ inbox' \in Seq(Slot)
         /\ \A u \in DOMAIN inbox : u \in DOMAIN inbox' /\ inbox'[u] = inbox[u]
         /\ Live \subseteq Live'
         /\ \A u \in Live' \ Live : /\ u = Len(inbox) + 1 /\ u \notin DOMAIN inbox
                                    /\ inbox'[u].mail = Len(mails) + 1
                                    /\ inbox'[u].flag = "no"
         /\ Len(inbox') \in {Len(inbox), Len(inbox) + 1}
<1>1. /\ mails \in Seq(MailRec) /\ m \in MailRec /\ mails' = Append(mails, m)
      /\ inbox \in Seq(Slot) /\ Len(mails) \in Nat /\ Len(inbox) \in Nat
  BY Counted DEF TypeInv, Sent
<1>2. /\ mails' \in Seq(MailRec) /\ Len(mails') = Len(mails) + 1
      /\ DOMAIN mails' = 1..(Len(mails) + 1) /\ mails'[Len(mails) + 1] = m
      /\ \A k \in DOMAIN mails : k \in DOMAIN mails' /\ mails'[k] = mails[k]
      /\ \A k \in DOMAIN mails' : k \in DOMAIN mails \/ k = Len(mails) + 1
  BY <1>1
<1>3. CASE inbox' = inbox
  BY <1>1, <1>2, <1>3 DEF Live
<1>4. CASE inbox' = Append(inbox, [mail |-> Len(mails) + 1, flag |-> "no"])
  <2> DEFINE e == [mail |-> Len(mails) + 1, flag |-> "no"]
  <2>1. e \in Slot /\ e.mail = Len(mails) + 1 /\ e.flag = "no"
    BY <1>1 DEF Slot
  <2> HIDE DEF e
  <2>2. /\ inbox' \in Seq(Slot) /\ Len(inbox') = Len(inbox) + 1
        /\ DOMAIN inbox' = 1..(Len(inbox) + 1) /\ inbox'[Len(inbox) + 1] = e
        /\ \A u \in DOMAIN inbox : u \in DOMAIN inbox' /\ inbox'[u] = inbox[u]
        /\ \A u \in DOMAIN inbox' : u \in DOMAIN inbox \/ u = Len(inbox) + 1
        /\ Len(inbox) + 1 \notin DOMAIN inbox
    BY <1>1, <1>4, <2>1 DEF e
  <2>3. Live \subseteq Live' /\ \A u \in Live' \ Live : u = Len(inbox) + 1
    BY <2>2 DEF Live
  <2>4. QED  BY <1>2, <2>1, <2>2, <2>3
<1>5. QED  BY <1>3, <1>4 DEF Sent

\* Sending keeps the types.
LEMMA TypeSent ==
  ASSUME TypeInv, NEW m, Sent(m)
  PROVE  TypeInv'
<1> USE DEF budgets
<1>1. /\ Len(mails) \in Nat /\ DOMAIN mails = 1..Len(mails) /\ Len(inbox) \in Nat
      /\ MaxMails \in Nat
  BY Counted, Constants
<1>2. UNCHANGED <<kept, cursor, told, listed, call, bound, renumbers>>
  BY DEF Sent
<1>3. mails' \in Seq(MailRec) /\ Len(mails') <= MaxMails /\ inbox' \in Seq(Slot)
  BY <1>1, SentParts DEF Sent
<1>4. DOMAIN mails \subseteq DOMAIN mails'
  BY SentParts
<1>5. \A n \in DOMAIN mails' : Fits(mails'[n], n)
  BY SentParts DEF TypeInv, Sent
<1>6. ASSUME NEW u \in Live'
      PROVE  /\ u \in Live => inbox'[u].mail = inbox[u].mail /\ inbox[u].mail \in DOMAIN mails
             /\ u \notin Live => inbox'[u].mail = Len(mails) + 1 /\ u = Len(inbox) + 1
  BY <1>6, MailAtType, SentParts
<1>7. Len(mails) + 1 \in DOMAIN mails' /\ Len(mails) + 1 \notin DOMAIN mails
  BY <1>1, SentParts
<1>8. \A u \in Live' : inbox'[u].mail \in DOMAIN mails'
  BY <1>4, <1>6, <1>7
<1>9. \A u, v \in Live' : inbox'[u].mail = inbox'[v].mail => u = v
  BY <1>6, <1>7 DEF TypeInv
<1>10. cursor' \in 0..Len(inbox')
  BY <1>1, <1>2, SentParts DEF TypeInv
<1>11. QED
  BY <1>2, <1>3, <1>4, <1>5, <1>8, <1>9, <1>10 DEF TypeInv

\* INBOX loses the mails at us.
LEMMA WithoutType ==
  ASSUME TypeInv, NEW us, inbox' = Without(us)
  PROVE  /\ inbox' \in Seq(Slot) /\ Len(inbox') = Len(inbox)
         /\ DOMAIN inbox' = DOMAIN inbox /\ Live' = Live \ us
         /\ \A u \in Live' : inbox'[u] = inbox[u]
<1>1. inbox \in Seq(Slot) /\ DOMAIN inbox = 1..Len(inbox) /\ Len(inbox) \in Nat
  BY Counted DEF TypeInv
<1>2. Gone \in Slot
  BY DEF Gone, Slot
<1>3. /\ inbox' = [u \in 1..Len(inbox) |-> IF u \in us THEN Gone ELSE inbox[u]]
      /\ \A u \in 1..Len(inbox) : inbox'[u] \in Slot
  BY <1>1, <1>2 DEF Without
<1>4. inbox' \in Seq(Slot) /\ Len(inbox') = Len(inbox) /\ DOMAIN inbox' = DOMAIN inbox
  BY <1>1, <1>3
<1>5. Live' = Live \ us /\ \A u \in Live' : inbox'[u] = inbox[u]
  BY <1>1, <1>3 DEF Live
<1>6. QED  BY <1>4, <1>5

\* The tools flag the mails at us.
LEMMA FlaggedType ==
  ASSUME TypeInv, NEW us, inbox' = Flagged(us)
  PROVE  /\ inbox' \in Seq(Slot) /\ Len(inbox') = Len(inbox)
         /\ DOMAIN inbox' = DOMAIN inbox /\ Live' = Live
         /\ \A u \in Live : /\ inbox'[u].mail = inbox[u].mail
                            /\ inbox'[u].flag = inbox[u].flag \/ u \in us
<1>1. inbox \in Seq(Slot) /\ DOMAIN inbox = 1..Len(inbox) /\ Len(inbox) \in Nat
  BY Counted DEF TypeInv
<1>2. ASSUME NEW u \in 1..Len(inbox)
      PROVE  /\ inbox'[u] \in Slot /\ inbox'[u].mail = inbox[u].mail
             /\ inbox'[u] = Gone <=> inbox[u] = Gone
             /\ inbox'[u].flag = inbox[u].flag \/ u \in us
  <2>1. inbox[u] \in Slot
    BY <1>1
  <2>2. inbox'[u] = IF u \in us /\ inbox[u].flag = "no" /\ inbox[u] # Gone
                    THEN [inbox[u] EXCEPT !.flag = "tool"] ELSE inbox[u]
    BY <1>1 DEF Flagged
  <2>3. CASE u \in us /\ inbox[u].flag = "no" /\ inbox[u] # Gone
    <3>1. inbox'[u] = [inbox[u] EXCEPT !.flag = "tool"]
      BY <2>2, <2>3
    <3>2. inbox'[u] \in Slot /\ inbox'[u].mail = inbox[u].mail /\ inbox'[u].flag = "tool"
      BY <2>1, <3>1 DEF Slot
    <3>3. inbox'[u] # Gone
      BY <3>2 DEF Gone
    <3>4. QED  BY <2>3, <3>2, <3>3
  <2>4. CASE ~(u \in us /\ inbox[u].flag = "no" /\ inbox[u] # Gone)
    BY <2>1, <2>2, <2>4
  <2>5. QED  BY <2>3, <2>4
<1>3. inbox' \in Seq(Slot) /\ Len(inbox') = Len(inbox) /\ DOMAIN inbox' = DOMAIN inbox
  <2>1. DOMAIN inbox' = 1..Len(inbox) /\ inbox' = [u \in 1..Len(inbox) |-> inbox'[u]]
    BY <1>1 DEF Flagged
  <2>2. inbox' \in [1..Len(inbox) -> Slot]
    BY <1>2, <2>1
  <2>3. QED  BY <1>1, <2>1, <2>2
<1>4. QED  BY <1>1, <1>2, <1>3 DEF Live

\* The other client flags, or clears the flag of, the mail at u.
LEMMA OtherFlagsType ==
  ASSUME TypeInv, NEW u, NEW flag, OtherFlags(u, flag)
  PROVE  /\ inbox' \in Seq(Slot) /\ Len(inbox') = Len(inbox)
         /\ DOMAIN inbox' = DOMAIN inbox /\ Live' = Live
         /\ \A v \in Live : /\ inbox'[v].mail = inbox[v].mail
                            /\ inbox'[v].flag \in {inbox[v].flag, "no", "user"}
<1>1. inbox \in Seq(Slot) /\ DOMAIN inbox = 1..Len(inbox) /\ Len(inbox) \in Nat
      /\ u \in DOMAIN inbox /\ inbox[u] \in Slot /\ inbox[u].mail \in DOMAIN mails
      /\ DOMAIN mails = 1..Len(mails) /\ u \in Live
  BY Counted, MailAtType DEF TypeInv, OtherFlags
<1>2. inbox' = [inbox EXCEPT ![u].flag = flag] /\ flag \in {"no", "user"}
  BY DEF OtherFlags
<1>3. inbox'[u] \in Slot /\ inbox'[u].mail = inbox[u].mail /\ inbox'[u].flag = flag
  BY <1>1, <1>2 DEF Slot
<1>4. inbox[u].mail # 0
  BY <1>1, Counted
<1>5. inbox'[u] # Gone
  BY <1>3, <1>4 DEF Gone
<1>6. \A v \in DOMAIN inbox : v # u => inbox'[v] = inbox[v]
  BY <1>1, <1>2
<1>7. inbox' \in Seq(Slot) /\ Len(inbox') = Len(inbox) /\ DOMAIN inbox' = DOMAIN inbox
  BY <1>1, <1>2, <1>3, <1>6
<1>8. Live' = Live
  BY <1>1, <1>5, <1>6, <1>7 DEF Live
<1>9. \A v \in Live : v \in DOMAIN inbox
  BY DEF Live
<1>10. QED  BY <1>2, <1>3, <1>6, <1>7, <1>8, <1>9

\* INBOX under new UIDs: each mail of it at one of them.
LEMMA RenumberType ==
  ASSUME TypeInv, Renumber
  PROVE  /\ inbox' \in Seq(Slot) /\ cursor' \in 0..Len(inbox')
         /\ \A u \in Live' : inbox'[u].mail \in DOMAIN mails
         /\ \A u, v \in Live' : inbox'[u].mail = inbox'[v].mail => u = v
<1>1. inbox \in Seq(Slot) /\ DOMAIN inbox = 1..Len(inbox) /\ Len(inbox) \in Nat
  BY Counted DEF TypeInv
<1>2. IsFiniteSet(Live) /\ Cardinality(Live) \in Nat
  <2>1. IsFiniteSet(1..Len(inbox))
    BY <1>1, FS_Interval
  <2>2. Live \in SUBSET (1..Len(inbox))
    BY <1>1 DEF Live
  <2>3. IsFiniteSet(Live)
    BY <2>1, <2>2, FS_Subset
  <2>4. QED  BY <2>3, FS_CardinalityType
<1> DEFINE n == Cardinality(Live)
<1>3. PICK old \in Bijection(1..n, Live) : inbox' = [u \in DOMAIN old |-> inbox[old[u]]]
  BY DEF Renumber
<1>4. /\ old \in [1..n -> Live]
      /\ \A u, v \in 1..n : old[u] = old[v] => u = v
  BY <1>3 DEF Bijection, Injection, IsInjective
<1>5. /\ DOMAIN inbox' = 1..n /\ inbox' = [u \in 1..n |-> inbox[old[u]]]
      /\ \A u \in 1..n : old[u] \in Live /\ inbox'[u] = inbox[old[u]] /\ inbox'[u] \in Slot
  BY <1>3, <1>4, MailAtType
<1> HIDE DEF n
<1>6. inbox' \in Seq(Slot) /\ Len(inbox') = n
  BY <1>2, <1>5 DEF n
<1>7. cursor' \in 0..Len(inbox')
  BY <1>6 DEF Renumber, n
<1>8. \A u \in Live' : u \in 1..n
  BY <1>5 DEF Live
<1>9. \A u \in Live' : inbox'[u].mail \in DOMAIN mails
  BY <1>5, <1>8, MailAtType
<1>10. ASSUME NEW u \in Live', NEW v \in Live', inbox'[u].mail = inbox'[v].mail
       PROVE  u = v
  <2>1. u \in 1..n /\ v \in 1..n
    BY <1>8
  <2>2. /\ old[u] \in Live /\ old[v] \in Live
        /\ inbox[old[u]].mail = inbox[old[v]].mail
    BY <1>5, <1>10, <2>1
  <2>3. old[u] = old[v]
    BY <2>2 DEF TypeInv
  <2>4. QED  BY <1>4, <2>1, <2>3
<1>11. QED  BY <1>6, <1>7, <1>9, <1>10

\* A call of email_archive or email_move_to goes on.
LEMMA StepType ==
  ASSUME TypeInv, NEW c \in Calls, NEW pc \in {"idle", "copied", "stored"}, Step(c, pc)
  PROVE  /\ call' \in [Calls -> CallRec]
         /\ \A d \in Calls : d # c => call'[d] = call[d]
         /\ call'[c].pc = pc /\ (pc # "idle" => call'[c].uids = call[c].uids)
         /\ pc = "idle" => call'[c].uids = {}
<1>1. call \in [Calls -> CallRec] /\ call[c] \in CallRec
  BY DEF TypeInv
<1> DEFINE us == IF pc = "idle" THEN {} ELSE call[c].uids
           r  == [pc |-> pc, uids |-> us]
<1>2. call' = [call EXCEPT ![c] = r]
  BY <1>1 DEF Step
<1>3. r \in CallRec /\ r.pc = pc /\ r.uids = us
  BY <1>1 DEF CallRec
<1> HIDE DEF r
<1>4. QED  BY <1>1, <1>2, <1>3

\* A step that writes no mail: what it leaves has to keep its type.
LEMMA TypeStays ==
  ASSUME TypeInv, UNCHANGED <<mails, bound>>, inbox' \in Seq(Slot),
         \A u \in Live' : inbox'[u].mail \in DOMAIN mails,
         \A u, v \in Live' : inbox'[u].mail = inbox'[v].mail => u = v,
         kept' \subseteq DOMAIN mails, cursor' \in 0..Len(inbox'),
         told' \subseteq MailNos \X DOMAIN mails, listed' \subseteq MailNos,
         call' \in [Calls -> CallRec], renumbers' \in Nat
  PROVE  TypeInv'
BY DEF TypeInv

\* A step that takes mails out of INBOX or flags them.
LEMMA TypeInbox ==
  ASSUME TypeInv, UNCHANGED <<mails, bound, cursor, told, listed, renumbers>>,
         inbox' \in Seq(Slot), Len(inbox') = Len(inbox), Live' \subseteq Live,
         \A u \in Live' : inbox'[u].mail = inbox[u].mail,
         kept' \subseteq DOMAIN mails, call' \in [Calls -> CallRec]
  PROVE  TypeInv'
<1>1. /\ kept' \subseteq DOMAIN mails /\ cursor' \in 0..Len(inbox')
      /\ told' \subseteq MailNos \X DOMAIN mails /\ listed' \subseteq MailNos
      /\ renumbers' \in Nat
  BY DEF TypeInv
<1>2. \A u \in Live' : inbox'[u].mail \in DOMAIN mails
  BY DEF TypeInv
<1>3. \A u, v \in Live' : inbox'[u].mail = inbox'[v].mail => u = v
  BY DEF TypeInv
<1>4. QED  BY <1>1, <1>2, <1>3, TypeStays

\* A step of the tools or of the worker that leaves INBOX alone.
LEMMA TypeSame ==
  ASSUME TypeInv, UNCHANGED <<mails, inbox, bound, renumbers>>,
         kept' \subseteq DOMAIN mails, cursor' \in 0..Len(inbox),
         told' \subseteq MailNos \X DOMAIN mails, listed' \subseteq MailNos,
         call' \in [Calls -> CallRec]
  PROVE  TypeInv'
<1>1. Live' = Live
  BY DEF Live
<1>2. QED  BY <1>1 DEF TypeInv

\* The tools keep the types.
LEMMA TypeAgent == TypeInv /\ Agent => TypeInv'
<1> SUFFICES ASSUME TypeInv, Agent PROVE TypeInv'
  OBVIOUS
<1> USE DEF server, budgets
<1>1. /\ kept \subseteq DOMAIN mails /\ cursor \in 0..Len(inbox)
      /\ told \subseteq MailNos \X DOMAIN mails /\ listed \subseteq MailNos
      /\ call \in [Calls -> CallRec] /\ inbox \in Seq(Slot)
      /\ \A us : MailsAt(us) \subseteq DOMAIN mails
  BY MailAtType DEF TypeInv, MailsAt
<1>2. ASSUME NEW t \in told, NEW all \in BOOLEAN, NEW attached \in BOOLEAN,
             Reply(t, all, attached)
      PROVE  TypeInv'
  BY <1>2, ReplySends, TypeSent
<1>3. ASSUME NEW us \in SUBSET MailNos, Search(us)
      PROVE  TypeInv'
  <2>1. UNCHANGED <<mails, inbox, bound, renumbers, kept, cursor, told, call>>
    BY <1>3 DEF Search
  <2>2. listed' \subseteq MailNos
    BY <1>3 DEF Search, Rows
  <2>3. QED  BY <1>1, <2>1, <2>2, TypeSame
<1>4. ASSUME NEW c \in Calls, NEW us \in SUBSET MailNos, Begin(c, us)
      PROVE  TypeInv'
  <2>1. UNCHANGED <<mails, inbox, bound, renumbers, kept, cursor, told, listed>>
    BY <1>4 DEF Begin
  <2>2. call' \in [Calls -> CallRec]
    BY <1>1, <1>4 DEF Begin, CallRec
  <2>3. QED  BY <1>1, <2>1, <2>2, TypeSame
<1>5. ASSUME NEW c \in Calls, MoveAll(c) \/ Expunge(c)
      PROVE  TypeInv'
  <2>1. UNCHANGED <<mails, bound, cursor, told, listed, renumbers>> /\ Step(c, "idle")
        /\ kept' \subseteq DOMAIN mails
    BY <1>1, <1>5 DEF MoveAll, Expunge, Step
  <2>2. call' \in [Calls -> CallRec]
    BY <2>1, StepType
  <2>3. \E us : inbox' = Without(us)
    BY <1>5 DEF MoveAll, Expunge, Expunged
  <2>4. inbox' \in Seq(Slot) /\ Len(inbox') = Len(inbox) /\ Live' \subseteq Live
        /\ \A u \in Live' : inbox'[u].mail = inbox[u].mail
    BY <2>3, WithoutType
  <2>5. QED  BY <2>1, <2>2, <2>4, TypeInbox
<1>6. ASSUME NEW c \in Calls, Copy(c)
      PROVE  TypeInv'
  <2>1. UNCHANGED <<mails, inbox, bound, cursor, told, listed, renumbers>> /\ Step(c, "copied")
        /\ kept' \subseteq DOMAIN mails
    BY <1>1, <1>6 DEF Copy, Step
  <2>2. call' \in [Calls -> CallRec]
    BY <2>1, StepType
  <2>3. QED  BY <1>1, <2>1, <2>2, TypeSame
<1>7. ASSUME NEW c \in Calls, Store(c)
      PROVE  TypeInv'
  <2>1. UNCHANGED <<mails, kept, bound, cursor, told, listed, renumbers>> /\ Step(c, "stored")
    BY <1>7 DEF Store, Step
  <2>2. call' \in [Calls -> CallRec]
    BY <2>1, StepType
  <2>3. inbox' = Flagged(call[c].uids)
    BY <1>7 DEF Store
  <2>4. inbox' \in Seq(Slot) /\ Len(inbox') = Len(inbox) /\ Live' \subseteq Live
        /\ \A u \in Live' : inbox'[u].mail = inbox[u].mail
    BY <2>3, FlaggedType
  <2>5. QED  BY <1>1, <2>1, <2>2, <2>4, TypeInbox
<1>8. ASSUME NEW c \in Calls, CallFails(c)
      PROVE  TypeInv'
  <2>1. UNCHANGED <<mails, inbox, bound, renumbers, kept, cursor, told, listed>>
    BY <1>8 DEF CallFails
  <2>2. call' \in [Calls -> CallRec]
    BY <1>1, <1>8 DEF CallFails, CallRec, NoCall
  <2>3. QED  BY <1>1, <2>1, <2>2, TypeSame
<1>9. QED  BY <1>2, <1>3, <1>4, <1>5, <1>6, <1>7, <1>8 DEF Agent

\* Every action keeps the types.
LEMMA TypeNext == TypeInv /\ [Next]_vars => TypeInv'
<1> SUFFICES ASSUME TypeInv, [Next]_vars PROVE TypeInv'
  OBVIOUS
<1> USE DEF server, budgets
<1>1. /\ kept \subseteq DOMAIN mails /\ cursor \in 0..Len(inbox)
      /\ told \subseteq MailNos \X DOMAIN mails /\ listed \subseteq MailNos
      /\ call \in [Calls -> CallRec] /\ renumbers \in Nat
  BY DEF TypeInv
<1>2. CASE Correspondent
  BY <1>2, OpenSends, AnswerSends, TypeSent DEF Correspondent
<1>3. ASSUME NEW u \in MailNos, Handle(u)
      PROVE  TypeInv'
  <2>1. UNCHANGED <<mails, inbox, kept, call, listed, bound, renumbers>> /\ cursor' = u
        /\ u \in Live
    BY <1>3 DEF Handle
  <2>2. u \in 0..Len(inbox) /\ inbox[u].mail \in DOMAIN mails
    BY <2>1, MailAtType, Counted
  <2>3. told' \subseteq told \cup {<<u, inbox[u].mail>>}
    BY <1>3 DEF Handle, Route
  <2>4. told' \subseteq MailNos \X DOMAIN mails
    BY <1>1, <2>2, <2>3
  <2>5. QED  BY <1>1, <2>1, <2>2, <2>4, TypeSame
<1>4. ASSUME NEW u \in MailNos, NEW flag \in {"no", "user"}, OtherFlags(u, flag)
      PROVE  TypeInv'
  <2>1. UNCHANGED <<mails, kept, cursor, told, listed, call, bound, renumbers>>
    BY <1>4 DEF OtherFlags
  <2>2. inbox' \in Seq(Slot) /\ Len(inbox') = Len(inbox) /\ Live' \subseteq Live
        /\ \A v \in Live' : inbox'[v].mail = inbox[v].mail
    BY <1>4, OtherFlagsType
  <2>3. QED  BY <1>1, <2>1, <2>2, TypeInbox
<1>5. CASE OtherExpunges
  <2>1. UNCHANGED <<mails, kept, cursor, told, listed, call, bound, renumbers>>
    BY <1>5 DEF OtherExpunges
  <2>2. \E us : inbox' = Without(us)
    BY <1>5 DEF OtherExpunges, Expunged
  <2>3. inbox' \in Seq(Slot) /\ Len(inbox') = Len(inbox) /\ Live' \subseteq Live
        /\ \A v \in Live' : inbox'[v].mail = inbox[v].mail
    BY <2>2, WithoutType
  <2>4. QED  BY <1>1, <2>1, <2>3, TypeInbox
<1>6. CASE Renumber
  <2>1. UNCHANGED <<mails, kept, told, listed, bound>> /\ renumbers' \in Nat
        /\ call' = [c \in Calls |-> NoCall]
    BY <1>1, <1>6 DEF Renumber
  <2>2. call' \in [Calls -> CallRec]
    BY <2>1 DEF NoCall, CallRec
  <2>3. QED  BY <1>1, <1>6, <2>1, <2>2, RenumberType, TypeStays
<1>7. CASE UNCHANGED vars
  BY <1>1, <1>7, TypeSame DEF vars
<1>8. QED
  BY <1>2, <1>3, <1>4, <1>5, <1>6, <1>7, TypeAgent DEF Next, Worker, Other

\* Every variable keeps its type, whoever writes and whatever the tools do.
THEOREM TypeCorrect == Spec => []TypeOK
BY TypeInit, TypeNext, TypeOkHolds, PTL DEF Spec

-----------------------------------------------------------------------------
(* One session per conversation.                                           *)

\* A mail of a conversation whose headers were passed on names its root, and
\* that is the root of the mail that opened it.
RootInv ==
  \A n \in DOMAIN mails : mails[n].whole =>
    Whole(mails[n]) /\ Root(mails[n]) = Root(mails[mails[n].thread])

\* Base case.
LEMMA RootInit == Init => RootInv
BY DEF Init, RootInv

\* A mail that names its root, if it goes into a thread that does.
LEMMA RootSent ==
  ASSUME TypeInv, RootInv, NEW m, Sent(m),
         m.whole => /\ Whole(m)
                    /\ \/ m.thread = Len(mails) + 1
                       \/ m.thread \in DOMAIN mails /\ Root(m) = Root(mails[m.thread])
  PROVE  RootInv'
<1>1. ASSUME NEW n \in DOMAIN mails', mails'[n].whole
      PROVE  Whole(mails'[n]) /\ Root(mails'[n]) = Root(mails'[mails'[n].thread])
  <2>1. CASE n \in DOMAIN mails
    <3>1. mails[n].thread \in DOMAIN mails
      BY <2>1, Counted DEF TypeInv, Fits
    <3>2. mails'[n] = mails[n] /\ mails[n].thread \in DOMAIN mails
      BY <2>1, <3>1, SentParts
    <3>3. mails'[mails[n].thread] = mails[mails[n].thread]
      BY <3>2, SentParts
    <3>4. QED  BY <1>1, <2>1, <3>2, <3>3 DEF RootInv
  <2>2. CASE n = Len(mails) + 1
    <3>1. mails'[n] = m
      BY <2>2, SentParts
    <3>2. m.thread \in DOMAIN mails => mails'[m.thread] = mails[m.thread]
      BY SentParts
    <3>3. QED  BY <1>1, <2>2, <3>1, <3>2
  <2>3. QED  BY <2>1, <2>2, SentParts
<1>2. QED  BY <1>1 DEF RootInv, Root, Whole, Canonical, ResolveThreadRoot

\* Every action keeps RootInv: a mail that is sent is the first of its thread,
\* or its References begin with its parent's root.
LEMMA RootNext == TypeInv /\ RootInv /\ [Next]_vars => RootInv'
<1> SUFFICES ASSUME TypeInv, RootInv, [Next]_vars PROVE RootInv'
  OBVIOUS
<1> USE DEF server, budgets
<1>1. ASSUME NEW p \in bound.profiles, NEW s \in bound.seeds, Open(p, s)
      PROVE  RootInv'
  BY <1>1, OpenSends, RootSent
<1>2. ASSUME NEW i \in DOMAIN mails, NEW m \in MailRec, Sent(m), m.thread = mails[i].thread,
             m.whole => mails[i].whole,
             mails[i].whole /\ m.whole => m.refs # <<>> /\ m.refs[1] = Root(mails[i])
                                          /\ Canonical(Root(mails[i]))
      PROVE  RootInv'
  <2>1. m.thread \in DOMAIN mails
    BY <1>2, Counted DEF TypeInv, Fits
  <2>2. ASSUME m.whole PROVE Whole(m) /\ Root(m) = Root(mails[m.thread])
    <3>1. Whole(m) /\ Root(m) = Root(mails[i])
      BY <1>2, <2>2, FirstIsRoot
    <3>2. QED  BY <1>2, <2>2, <3>1 DEF RootInv
  <2>3. QED  BY <1>2, <2>1, <2>2, RootSent
<1>3. ASSUME NEW p \in bound.profiles, NEW i \in MailNos, Answer(p, i)
      PROVE  RootInv'
  <2>1. i \in DOMAIN mails /\ mails[i] \in MailRec
    BY <1>3, AnswerSends DEF TypeInv
  <2>2. PICK m \in MailRec : /\ Sent(m) /\ m.from # Me /\ m.thread = mails[i].thread
                             /\ m.whole => /\ mails[i].whole
                                           /\ m.refs = RfcReferences(mails[i])
    BY <1>3, AnswerSends
  <2>3. mails[i].whole => Whole(mails[i])
    BY <2>1 DEF RootInv
  <2>4. mails[i].whole /\ m.whole => m.refs # <<>> /\ m.refs[1] = Root(mails[i])
                                     /\ Canonical(Root(mails[i]))
    BY <2>1, <2>2, <2>3, RfcHeaders
  <2>5. QED  BY <1>2, <2>1, <2>2, <2>4
<1>4. ASSUME NEW t \in told, NEW all \in BOOLEAN, NEW attached \in BOOLEAN,
             Reply(t, all, attached)
      PROVE  RootInv'
  <2> DEFINE i == inbox[t[1]].mail
  <2>1. i \in DOMAIN mails /\ mails[i] \in MailRec /\ MailAt(t[1]) = mails[i]
    BY <1>4, ReplySends, MailAtType
  <2>2. PICK m \in MailRec : /\ Sent(m) /\ m.thread = MailAt(t[1]).thread
                             /\ m.whole => MailAt(t[1]).whole
                             /\ m.refs = EnrichReplyThreading(MailAt(t[1])).refs
    BY <1>4, ReplySends
  <2> HIDE DEF i
  <2>3. mails[i].whole => Whole(mails[i])
    BY <2>1 DEF RootInv
  <2>4. mails[i].whole /\ m.whole => m.refs # <<>> /\ m.refs[1] = Root(mails[i])
                                     /\ Canonical(Root(mails[i]))
    BY <2>1, <2>2, <2>3, EnrichHeaders
  <2>5. QED  BY <1>2, <2>1, <2>2, <2>4
<1>5. CASE UNCHANGED mails
  BY <1>5 DEF RootInv, Root, Whole, Canonical, ResolveThreadRoot
<1>6. \/ UNCHANGED mails \/ Correspondent
      \/ \E t \in told, all, attached \in BOOLEAN : Reply(t, all, attached)
  BY DEF Next, vars, Worker, Handle, Agent, Search, Begin, MoveAll, Copy, Store, Expunge,
         CallFails, Step, Other, OtherFlags, OtherExpunges, Renumber
<1>7. QED  BY <1>1, <1>3, <1>4, <1>5, <1>6 DEF Correspondent

\* Every mail of a conversation whose headers were passed on resolves to the
\* root of its first mail, however long the chain and wherever it was cut to
\* REFERENCES_MAX (threading.rs:83-138): the agent sees one session.
THEOREM ConversationsStay == Spec => []OneThread
<1>1. RootInv => OneThread
  BY DEF RootInv, OneThread, Root
<1>2. QED  BY <1>1, TypeInit, TypeNext, RootInit, RootNext, PTL DEF Spec

-----------------------------------------------------------------------------
(* Replies to machines.                                                    *)

\* Until UIDs are renumbered, what the agent was told of is still at its UID,
\* or no mail is, and it is no machine's unless it came raw.
ToldInv ==
  /\ renumbers = 0 => \A t \in told :
       /\ t[1] \in DOMAIN inbox
       /\ inbox[t[1]] = Gone \/ inbox[t[1]].mail = t[2]
       /\ t[2] \in raws \/ ~Machine(mails[t[2]])
  /\ RobotsGetNoReply

\* Base case.
LEMMA ToldInit == Init => ToldInv
<1> SUFFICES ASSUME Init PROVE ToldInv
  OBVIOUS
<1>1. told = {} /\ DOMAIN mails = {}
  BY DEF Init
<1>2. QED  BY <1>1 DEF ToldInv, RobotsGetNoReply

\* A mail is sent; ours answers no machine.
LEMMA ToldSent ==
  ASSUME TypeInv, ToldInv, NEW m, Sent(m),
         m.from = Me => /\ m.parent \in DOMAIN mails
                        /\ \/ m.parent \in raws \/ renumbers > 0
                           \/ ~Machine(mails[m.parent])
  PROVE  ToldInv'
<1>1. UNCHANGED <<told, raws, renumbers>>
  BY DEF Sent, budgets
<1>2. \A k \in DOMAIN mails : Machine(mails[k])' <=> Machine(mails[k])
  BY SentParts DEF Machine, ParseBounce
<1>3. ASSUME renumbers = 0, NEW t \in told
      PROVE  /\ t[1] \in DOMAIN inbox'
             /\ inbox'[t[1]] = Gone \/ inbox'[t[1]].mail = t[2]
             /\ t[2] \in raws \/ ~Machine(mails[t[2]])'
  <2>1. t[2] \in DOMAIN mails
    BY DEF TypeInv
  <2>2. /\ t[1] \in DOMAIN inbox
        /\ inbox[t[1]] = Gone \/ inbox[t[1]].mail = t[2]
        /\ t[2] \in raws \/ ~Machine(mails[t[2]])
    BY <1>3 DEF ToldInv
  <2>3. t[1] \in DOMAIN inbox' /\ inbox'[t[1]] = inbox[t[1]]
    BY <2>2, SentParts
  <2>4. QED  BY <1>2, <2>1, <2>2, <2>3
<1>4. ASSUME NEW n \in DOMAIN mails', mails'[n].from = Me, mails'[n].parent # 0,
             Machine(mails[mails[n].parent])'
      PROVE  mails'[n].parent \in raws \/ renumbers > 0
  <2>1. CASE n \in DOMAIN mails
    <3>1. n \in 1..Len(mails) /\ Len(mails) \in Nat /\ mails[n].parent \in 0..(n - 1)
      BY <2>1, Counted DEF TypeInv, Fits
    <3>2. mails'[n] = mails[n]
      BY <2>1, SentParts
    <3>3. mails[n].parent \in DOMAIN mails
      BY <1>4, <3>1, <3>2, Counted
    <3>4. Machine(mails[mails[n].parent])
      BY <1>2, <1>4, <3>2, <3>3
    <3>5. QED  BY <1>4, <2>1, <3>2, <3>4 DEF ToldInv, RobotsGetNoReply
  <2>2. CASE n = Len(mails) + 1
    <3>1. mails'[n] = m
      BY <2>2, SentParts
    <3>2. QED  BY <1>2, <1>4, <3>1
  <2>3. QED  BY <2>1, <2>2, SentParts
<1>5. QED  BY <1>1, <1>3, <1>4 DEF ToldInv, RobotsGetNoReply

\* Mails leave INBOX or are flagged.
LEMMA ToldInbox ==
  ASSUME TypeInv, ToldInv, UNCHANGED <<mails, told, raws, renumbers>>,
         DOMAIN inbox' = DOMAIN inbox, Live' \subseteq Live,
         \A u \in Live' : inbox'[u].mail = inbox[u].mail
  PROVE  ToldInv'
<1>1. \A k : Machine(mails[k])' <=> Machine(mails[k])
  BY DEF Machine, ParseBounce
<1>2. \A u \in DOMAIN inbox : \/ inbox'[u] = Gone
                              \/ inbox'[u].mail = inbox[u].mail /\ inbox[u] # Gone
  BY DEF Live
<1>3. QED  BY <1>1, <1>2 DEF ToldInv, RobotsGetNoReply

\* The worker routes a mail: with every rule on, a machine's is published only
\* raw.
LEMMA ToldHandle ==
  ASSUME Rules = Marks \cup {"selfFrom"}, TypeInv, ToldInv, NEW u, Handle(u)
  PROVE  ToldInv'
<1> DEFINE n == inbox[u].mail
<1>1. UNCHANGED <<mails, inbox, renumbers>> /\ u \in Live
  BY DEF Handle, server
<1>2. u \in DOMAIN inbox /\ MailAt(u) = mails[n] /\ mails[n] \in MailRec
  BY <1>1, MailAtType
<1>3. \A k : Machine(mails[k])' <=> Machine(mails[k])
  BY <1>1 DEF Machine, ParseBounce
<1>4. ~ParseBounce(MailAt(u)) /\ ~ShouldSkip(MailAt(u)) => ~Machine(mails[n])
  BY <1>2 DEF ShouldSkip, IsSelfThread, Machine, MailRec
<1>5. raws \subseteq raws' /\ \A t \in told' :
        t \in told \/ (t = <<u, n>> /\ (n \in raws' \/ ~Machine(mails[n])))
  BY <1>4 DEF Handle, Route
<1> HIDE DEF n
<1>6. ASSUME renumbers = 0, NEW t \in told'
      PROVE  /\ t[1] \in DOMAIN inbox
             /\ inbox[t[1]] = Gone \/ inbox[t[1]].mail = t[2]
             /\ t[2] \in raws' \/ ~Machine(mails[t[2]])
  <2>1. CASE t \in told
    BY <1>5, <1>6, <2>1 DEF ToldInv
  <2>2. CASE t = <<u, n>> /\ (n \in raws' \/ ~Machine(mails[n]))
    <3>1. t[1] = u /\ t[2] = n
      BY <2>2
    <3>2. QED  BY <1>2, <2>2, <3>1 DEF n
  <2>3. QED  BY <1>5, <2>1, <2>2
<1>7. RobotsGetNoReply'
  BY <1>1, <1>3, <1>5 DEF ToldInv, RobotsGetNoReply
<1>8. QED  BY <1>1, <1>3, <1>6, <1>7 DEF ToldInv

\* Every action keeps ToldInv.
LEMMA ToldNext ==
  ASSUME Rules = Marks \cup {"selfFrom"}
  PROVE  TypeInv /\ ToldInv /\ [Next]_vars => ToldInv'
<1> SUFFICES ASSUME TypeInv, ToldInv, [Next]_vars PROVE ToldInv'
  OBVIOUS
<1> USE DEF server, budgets
<1>1. CASE Correspondent
  BY <1>1, OpenSends, AnswerSends, ToldSent DEF Correspondent
<1>2. CASE Worker
  BY <1>2, ToldHandle DEF Worker
<1>3. ASSUME NEW t \in told, NEW all \in BOOLEAN, NEW attached \in BOOLEAN,
             Reply(t, all, attached)
      PROVE  ToldInv'
  <2>1. PICK m \in MailRec : Sent(m) /\ m.parent = inbox[t[1]].mail
    BY <1>3, ReplySends
  <2>2. t[1] \in Live /\ inbox[t[1]].mail \in DOMAIN mails /\ inbox[t[1]] # Gone
    BY <1>3, ReplySends, MailAtType DEF Live
  <2>3. renumbers = 0 => m.parent = t[2] /\ (t[2] \in raws \/ ~Machine(mails[t[2]]))
    BY <2>1, <2>2 DEF ToldInv
  <2>4. renumbers = 0 \/ renumbers > 0
    BY DEF TypeInv
  <2>5. QED  BY <2>1, <2>2, <2>3, <2>4, ToldSent
<1>4. CASE Renumber
  <2>1. UNCHANGED <<mails, raws>> /\ renumbers' > 0 /\ renumbers' # 0
    BY <1>4 DEF Renumber, TypeInv
  <2>2. QED  BY <2>1 DEF ToldInv, RobotsGetNoReply
<1>5. ASSUME /\ UNCHANGED <<mails, told, raws, renumbers>>
             /\ \/ inbox' = inbox \/ \E us : inbox' = Without(us) \/ inbox' = Flagged(us)
                \/ \E u \in MailNos, flag \in {"no", "user"} : OtherFlags(u, flag)
      PROVE  ToldInv'
  <2>1. DOMAIN inbox' = DOMAIN inbox /\ Live' \subseteq Live
        /\ \A u \in Live' : inbox'[u].mail = inbox[u].mail
    <3>1. CASE inbox' = inbox
      BY <3>1 DEF Live
    <3>2. CASE \E us : inbox' = Without(us)
      BY <3>2, WithoutType
    <3>3. CASE \E us : inbox' = Flagged(us)
      BY <3>3, FlaggedType
    <3>4. CASE \E u \in MailNos, flag \in {"no", "user"} : OtherFlags(u, flag)
      BY <3>4, OtherFlagsType
    <3>5. QED  BY <1>5, <3>1, <3>2, <3>3, <3>4
  <2>2. QED  BY <1>5, <2>1, ToldInbox
<1>6. ASSUME NEW c \in Calls,
             \/ \E us \in SUBSET MailNos : Begin(c, us)
             \/ MoveAll(c) \/ Copy(c) \/ Store(c) \/ Expunge(c) \/ CallFails(c)
      PROVE  ToldInv'
  BY <1>5, <1>6 DEF Begin, MoveAll, Copy, Store, Expunge, Expunged, CallFails, Step
<1>7. CASE OtherExpunges \/ (\E us \in SUBSET MailNos : Search(us)) \/ UNCHANGED vars
  BY <1>5, <1>7 DEF OtherExpunges, Expunged, Search, vars
<1>8. ASSUME NEW u \in MailNos, NEW flag \in {"no", "user"}, OtherFlags(u, flag)
      PROVE  ToldInv'
  <2>1. UNCHANGED <<mails, told, raws, renumbers>>
    BY <1>8 DEF OtherFlags
  <2>2. QED  BY <1>5, <1>8, <2>1
<1>9. QED
  BY <1>1, <1>2, <1>3, <1>4, <1>6, <1>7, <1>8 DEF Next, Agent, Other

\* With every loop-prevention rule on, no reply goes to a machine: a report, a
\* marked mail or one's own, but for a mail parse_eml could not read, or after
\* UIDs were renumbered (loop_prevent.rs:3-5).
THEOREM MachinesGetNoReply ==
  ASSUME Rules = Marks \cup {"selfFrom"}
  PROVE  Spec => []RobotsGetNoReply
<1>1. ToldInv => RobotsGetNoReply
  BY DEF ToldInv
<1>2. TypeInv /\ ToldInv /\ [Next]_vars => ToldInv'
  BY ToldNext
<1>3. QED  BY <1>1, <1>2, TypeInit, TypeNext, ToldInit, PTL DEF Spec

-----------------------------------------------------------------------------
(* No mail is lost.                                                        *)

\* Until UIDs are renumbered, every UID anyone holds is one of INBOX, and what
\* a tool has flagged, or is going to flag, is in the other folder.
HeldInv ==
  /\ NothingVanishes
  /\ renumbers = 0 =>
       /\ \A t \in told : t[1] \in DOMAIN inbox
       /\ listed \subseteq DOMAIN inbox
       /\ \A c \in Calls : call[c].uids \subseteq DOMAIN inbox
       /\ \A c \in Calls : call[c].pc \in {"copied", "stored"} =>
            \A u \in call[c].uids \cap Live : inbox[u].mail \in kept
       /\ \A u \in Live : inbox[u].flag = "tool" => inbox[u].mail \in kept

\* Base case.
LEMMA HeldInit == Init => HeldInv
<1> SUFFICES ASSUME Init PROVE HeldInv
  OBVIOUS
<1>1. told = {} /\ listed = {} /\ DOMAIN mails = {} /\ Live = {}
      /\ call = [c \in Calls |-> NoCall]
  BY DEF Init, Live
<1>2. \A c \in Calls : call[c].pc = "idle" /\ call[c].uids = {}
  BY <1>1 DEF NoCall
<1>3. Delivered = {}
  BY <1>1 DEF Delivered
<1>4. QED  BY <1>1, <1>2, <1>3 DEF HeldInv, NothingVanishes

\* A mail is written: it is in INBOX, or ours to others.
LEMMA HeldSent ==
  ASSUME TypeInv, HeldInv, NEW m, Sent(m)
  PROVE  HeldInv'
<1>1. UNCHANGED <<kept, told, listed, call, renumbers, binned>>
  BY DEF Sent, budgets
<1>2. Live \subseteq DOMAIN inbox
  BY DEF Live
<1>3. ASSUME renumbers = 0 PROVE Delivered' \subseteq MailsAt(Live)' \cup kept \cup binned
  <2>1. Delivered \subseteq MailsAt(Live) \cup kept \cup binned
    BY <1>3 DEF HeldInv, NothingVanishes
  <2>2. MailsAt(Live) \subseteq MailsAt(Live)'
    BY <1>2, SentParts DEF MailsAt
  <2>3. ASSUME NEW n \in Delivered' PROVE n \in MailsAt(Live)' \cup kept \cup binned
    <3>1. CASE n \in DOMAIN mails
      <4>1. mails'[n] = mails[n]
        BY <3>1, SentParts
      <4>2. n \in Delivered
        BY <2>3, <3>1, <4>1 DEF Delivered
      <4>3. QED  BY <2>1, <2>2, <4>2
    <3>2. CASE n = Len(mails) + 1
      <4>1. mails'[n] = m
        BY <3>2, SentParts
      <4>2. inbox' = Append(inbox, [mail |-> Len(mails) + 1, flag |-> "no"])
        BY <2>3, <4>1 DEF Delivered, Sent
      <4> DEFINE e == [mail |-> Len(mails) + 1, flag |-> "no"]
                 u == Len(inbox) + 1
      <4>3. Len(inbox) \in Nat /\ Len(mails) \in Nat /\ inbox \in Seq(Slot)
        BY Counted DEF TypeInv
      <4>4. e.mail = n /\ e # Gone /\ e \in Slot
        BY <3>2, <4>3 DEF Gone, Slot
      <4> HIDE DEF e
      <4>5. u \in DOMAIN inbox' /\ inbox'[u] = e
        BY <4>2, <4>3, <4>4 DEF e
      <4>6. u \in Live'
        BY <4>4, <4>5 DEF Live
      <4>7. QED  BY <4>4, <4>5, <4>6 DEF MailsAt
    <3>3. n \in DOMAIN mails'
      BY <2>3 DEF Delivered
    <3>4. QED  BY <3>1, <3>2, <3>3, SentParts
  <2>4. QED  BY <2>3
<1>4. ASSUME renumbers = 0
      PROVE  /\ \A t \in told : t[1] \in DOMAIN inbox'
             /\ listed \subseteq DOMAIN inbox'
             /\ \A c \in Calls : call[c].uids \subseteq DOMAIN inbox'
  BY <1>4, SentParts DEF HeldInv
<1>5. ASSUME renumbers = 0, NEW c \in Calls, call[c].pc \in {"copied", "stored"},
             NEW u \in call[c].uids \cap Live'
      PROVE  inbox'[u].mail \in kept
  <2>1. u \in DOMAIN inbox
    BY <1>5 DEF HeldInv
  <2>2. u \in Live /\ inbox'[u] = inbox[u]
    BY <2>1, SentParts
  <2>3. QED  BY <1>5, <2>2 DEF HeldInv
<1>6. ASSUME renumbers = 0, NEW u \in Live', inbox'[u].flag = "tool"
      PROVE  inbox'[u].mail \in kept
  <2>1. u \in Live
    BY <1>6, SentParts
  <2>2. inbox'[u] = inbox[u]
    BY <1>2, <2>1, SentParts
  <2>3. QED  BY <1>6, <2>1, <2>2 DEF HeldInv
<1>7. QED  BY <1>1, <1>3, <1>4, <1>5, <1>6 DEF HeldInv, NothingVanishes

\* INBOX stands as it is, or a flag moves; a call holds UIDs of INBOX, whose
\* mails have been copied when it is past COPY.
LEMMA HeldCalls ==
  ASSUME TypeInv, HeldInv, UNCHANGED <<mails, renumbers, binned>>, kept \subseteq kept',
         DOMAIN inbox' = DOMAIN inbox, Live' = Live,
         \A u \in Live : inbox'[u].mail = inbox[u].mail,
         renumbers = 0 =>
           /\ \A t \in told' : t[1] \in DOMAIN inbox
           /\ listed' \subseteq DOMAIN inbox
           /\ \A c \in Calls : call'[c].uids \subseteq DOMAIN inbox
           /\ \A c \in Calls : call'[c].pc \in {"copied", "stored"} =>
                \A u \in call'[c].uids \cap Live : inbox[u].mail \in kept'
           /\ \A u \in Live : inbox'[u].flag = "tool" => inbox[u].mail \in kept'
  PROVE  HeldInv'
<1>1. Delivered' = Delivered /\ MailsAt(Live)' = MailsAt(Live)
  BY DEF Delivered, MailsAt
<1>2. QED  BY <1>1 DEF HeldInv, NothingVanishes

\* Mails leave INBOX: those copied, and those the other client had flagged.
LEMMA HeldLeave ==
  ASSUME TypeInv, HeldInv, UNCHANGED <<mails, told, listed, renumbers>>,
         NEW us, inbox' = Without(us), kept \subseteq kept', binned \subseteq binned',
         renumbers = 0 => \A u \in us \cap Live : inbox[u].mail \in kept' \cup binned',
         \A c \in Calls : call'[c] = call[c]
                          \/ (call'[c].pc = "idle" /\ call'[c].uids = {})
  PROVE  HeldInv'
<1>1. /\ DOMAIN inbox' = DOMAIN inbox /\ Live' = Live \ us
      /\ \A u \in Live' : inbox'[u] = inbox[u]
  BY WithoutType
<1>2. Delivered' = Delivered
  BY DEF Delivered
<1>3. ASSUME renumbers = 0
      PROVE  Delivered' \subseteq MailsAt(Live)' \cup kept' \cup binned'
  <2>1. Delivered \subseteq MailsAt(Live) \cup kept \cup binned
    BY <1>3 DEF HeldInv, NothingVanishes
  <2>2. MailsAt(Live) \subseteq MailsAt(Live)' \cup kept' \cup binned'
    BY <1>1, <1>3 DEF MailsAt
  <2>3. QED  BY <1>2, <2>1, <2>2
<1>4. ASSUME renumbers = 0, NEW c \in Calls
      PROVE  /\ call'[c].uids \subseteq DOMAIN inbox'
             /\ call'[c].pc \in {"copied", "stored"} =>
                  \A u \in call'[c].uids \cap Live' : inbox'[u].mail \in kept'
  BY <1>1, <1>4 DEF HeldInv
<1>5. renumbers = 0 => \A u \in Live' : inbox'[u].flag = "tool" => inbox'[u].mail \in kept'
  BY <1>1 DEF HeldInv
<1>6. QED  BY <1>1, <1>3, <1>4, <1>5 DEF HeldInv, NothingVanishes

\* The tools: COPY comes before STORE, STORE before EXPUNGE.
LEMMA HeldAgent == TypeInv /\ HeldInv /\ Agent => HeldInv'
<1> SUFFICES ASSUME TypeInv, HeldInv, Agent PROVE HeldInv'
  OBVIOUS
<1> USE DEF server, budgets
<1>1. call \in [Calls -> CallRec]
  BY DEF TypeInv
<1>2. ASSUME NEW t \in told, NEW all \in BOOLEAN, NEW attached \in BOOLEAN,
             Reply(t, all, attached)
      PROVE  HeldInv'
  BY <1>2, ReplySends, HeldSent
<1>3. ASSUME NEW us \in SUBSET MailNos, Search(us)
      PROVE  HeldInv'
  <2>1. UNCHANGED <<mails, inbox, kept, told, call, renumbers, binned>> /\ Live' = Live
    BY <1>3 DEF Search, Live
  <2>2. listed' \subseteq DOMAIN inbox
    BY <1>3 DEF Search, Rows, Live
  <2>3. QED  BY <2>1, <2>2, HeldCalls DEF HeldInv
<1>4. ASSUME NEW c \in Calls, NEW us \in SUBSET MailNos, Begin(c, us)
      PROVE  HeldInv'
  <2>1. UNCHANGED <<mails, inbox, kept, told, listed, renumbers, binned>> /\ Live' = Live
        /\ call' = [call EXCEPT ![c] = [pc |-> "selected", uids |-> us]]
        /\ us \subseteq { t[1] : t \in told } \cup listed
    BY <1>4 DEF Begin, Live
  <2>2. call'[c].pc = "selected" /\ call'[c].uids = us
        /\ \A d \in Calls : d # c => call'[d] = call[d]
    BY <1>1, <2>1
  <2>3. renumbers = 0 => us \subseteq DOMAIN inbox
    BY <2>1 DEF HeldInv
  <2>4. QED  BY <2>1, <2>2, <2>3, HeldCalls DEF HeldInv
<1>5. ASSUME NEW c \in Calls, MoveAll(c)
      PROVE  HeldInv'
  <2>1. /\ UNCHANGED <<mails, told, listed, renumbers, binned>> /\ Step(c, "idle")
        /\ inbox' = Without(call[c].uids) /\ kept' = kept \cup MailsAt(call[c].uids)
    BY <1>5 DEF MoveAll, Step
  <2>2. \A u \in call[c].uids \cap Live : inbox[u].mail \in kept'
    BY <2>1 DEF MailsAt
  <2>3. \A d \in Calls : call'[d] = call[d] \/ (call'[d].pc = "idle" /\ call'[d].uids = {})
    BY <2>1, StepType
  <2>4. QED  BY <2>1, <2>2, <2>3, HeldLeave
<1>6. ASSUME NEW c \in Calls, Copy(c)
      PROVE  HeldInv'
  <2>1. /\ UNCHANGED <<mails, inbox, told, listed, renumbers, binned>> /\ Live' = Live
        /\ Step(c, "copied") /\ kept' = kept \cup MailsAt(call[c].uids)
    BY <1>6 DEF Copy, Step, Live
  <2>2. /\ call'[c].uids = call[c].uids
        /\ \A d \in Calls : d # c => call'[d] = call[d]
    BY <2>1, StepType
  <2>3. \A u \in call[c].uids \cap Live : inbox[u].mail \in kept'
    BY <2>1 DEF MailsAt
  <2>4. QED  BY <2>1, <2>2, <2>3, HeldCalls DEF HeldInv
<1>7. ASSUME NEW c \in Calls, Store(c)
      PROVE  HeldInv'
  <2>1. /\ UNCHANGED <<mails, kept, told, listed, renumbers, binned>> /\ Step(c, "stored")
        /\ inbox' = Flagged(call[c].uids) /\ call[c].pc = "copied"
    BY <1>7 DEF Store, Step
  <2>2. /\ call'[c].uids = call[c].uids
        /\ \A d \in Calls : d # c => call'[d] = call[d]
    BY <2>1, StepType
  <2>3. /\ DOMAIN inbox' = DOMAIN inbox /\ Live' = Live
        /\ \A u \in Live : /\ inbox'[u].mail = inbox[u].mail
                           /\ inbox'[u].flag = inbox[u].flag \/ u \in call[c].uids
    BY <2>1, FlaggedType
  <2>4. renumbers = 0 => \A u \in call[c].uids \cap Live : inbox[u].mail \in kept
    BY <2>1 DEF HeldInv
  <2>5. QED  BY <2>1, <2>2, <2>3, <2>4, HeldCalls DEF HeldInv
<1>8. ASSUME NEW c \in Calls, Expunge(c)
      PROVE  HeldInv'
  <2> DEFINE us == { u \in Live : inbox[u].flag # "no" }
  <2>1. /\ UNCHANGED <<mails, told, listed, renumbers, kept>> /\ Step(c, "idle") /\ Expunged
    BY <1>8 DEF Expunge, Step
  <2>2. \A d \in Calls : call'[d] = call[d] \/ (call'[d].pc = "idle" /\ call'[d].uids = {})
    BY <2>1, StepType
  <2>3. inbox' = Without(us) /\ binned \subseteq binned'
    BY <2>1 DEF Expunged
  <2>4. renumbers = 0 => \A u \in us \cap Live : inbox[u].mail \in kept \cup binned'
    BY <2>1, MailAtType DEF Expunged, MailsAt, HeldInv, Slot
  <2> HIDE DEF us
  <2>5. QED  BY <2>1, <2>2, <2>3, <2>4, HeldLeave
<1>9. ASSUME NEW c \in Calls, CallFails(c)
      PROVE  HeldInv'
  <2>1. UNCHANGED <<mails, inbox, kept, told, listed, renumbers, binned>> /\ Live' = Live
        /\ call' = [call EXCEPT ![c] = NoCall]
    BY <1>9 DEF CallFails, Live
  <2>2. call'[c].pc = "idle" /\ call'[c].uids = {}
        /\ \A d \in Calls : d # c => call'[d] = call[d]
    BY <1>1, <2>1 DEF NoCall
  <2>3. QED  BY <2>1, <2>2, HeldCalls DEF HeldInv
<1>10. QED  BY <1>2, <1>3, <1>4, <1>5, <1>6, <1>7, <1>8, <1>9 DEF Agent

\* Every action keeps HeldInv.
LEMMA HeldNext == TypeInv /\ HeldInv /\ [Next]_vars => HeldInv'
<1> SUFFICES ASSUME TypeInv, HeldInv, [Next]_vars PROVE HeldInv'
  OBVIOUS
<1> USE DEF server, budgets
<1>1. CASE Correspondent
  BY <1>1, OpenSends, AnswerSends, HeldSent DEF Correspondent
<1>2. ASSUME NEW u \in MailNos, Handle(u)
      PROVE  HeldInv'
  <2>1. UNCHANGED <<mails, inbox, kept, listed, call, renumbers, binned>> /\ Live' = Live
        /\ u \in DOMAIN inbox
    BY <1>2 DEF Handle, Live
  <2>2. \A t \in told' : t \in told \/ t[1] = u
    BY <1>2 DEF Handle, Route
  <2>3. QED  BY <2>1, <2>2, HeldCalls DEF HeldInv
<1>3. ASSUME NEW u \in MailNos, NEW flag \in {"no", "user"}, OtherFlags(u, flag)
      PROVE  HeldInv'
  <2>1. UNCHANGED <<mails, kept, told, listed, call, renumbers, binned>>
    BY <1>3 DEF OtherFlags
  <2>2. /\ DOMAIN inbox' = DOMAIN inbox /\ Live' = Live
        /\ \A v \in Live : /\ inbox'[v].mail = inbox[v].mail
                           /\ inbox'[v].flag = "tool" => inbox[v].flag = "tool"
    BY <1>3, OtherFlagsType
  <2>3. QED  BY <2>1, <2>2, HeldCalls DEF HeldInv
<1>4. CASE OtherExpunges
  <2> DEFINE us == { u \in Live : inbox[u].flag # "no" }
  <2>1. UNCHANGED <<mails, kept, told, listed, call, renumbers>> /\ Expunged
    BY <1>4 DEF OtherExpunges
  <2>2. inbox' = Without(us) /\ binned \subseteq binned'
    BY <2>1 DEF Expunged
  <2>3. renumbers = 0 => \A u \in us \cap Live : inbox[u].mail \in kept \cup binned'
    BY <2>1, MailAtType DEF Expunged, MailsAt, HeldInv, Slot
  <2> HIDE DEF us
  <2>4. QED  BY <2>1, <2>2, <2>3, HeldLeave
<1>5. CASE Renumber
  <2>1. renumbers' # 0
    BY <1>5 DEF Renumber, TypeInv
  <2>2. QED  BY <2>1 DEF HeldInv, NothingVanishes
<1>6. CASE UNCHANGED vars
  <2>1. UNCHANGED <<mails, inbox, kept, told, listed, call, renumbers, binned>> /\ Live' = Live
    BY <1>6 DEF vars, Live
  <2>2. QED  BY <2>1, HeldCalls DEF HeldInv
<1>7. QED
  BY <1>1, <1>2, <1>3, <1>4, <1>5, <1>6, HeldAgent DEF Next, Worker, Other

\* Until UIDs are renumbered, a mail that reached INBOX is there, in the
\* folder it was moved to, or was deleted by the other client, whatever the
\* tools, that client and a failing server do (archive.rs:88-92).
THEOREM MailsAreKept == Spec => []NothingVanishes
<1>1. HeldInv => NothingVanishes
  BY DEF HeldInv
<1>2. QED  BY <1>1, TypeInit, TypeNext, HeldInit, HeldNext, PTL DEF Spec

-----------------------------------------------------------------------------
(* The rows of email_thread.                                               *)

\* Of a set of UIDs within the limit every one is a row.
LEMMA AllAreRows ==
  ASSUME NEW us, IsFiniteSet(us), us \subseteq Nat, NEW limit \in Nat,
         Cardinality(us) <= limit, NEW v \in us
  PROVE  v \in Rows(us, limit)
<1> DEFINE below == { w \in us : w < v }
<1>1. below \in SUBSET us /\ below # us
  <2>1. ~(v < v)
    OBVIOUS
  <2>2. QED  BY <2>1
<1> HIDE DEF below
<1>2. /\ IsFiniteSet(below) /\ Cardinality(below) <= Cardinality(us)
      /\ Cardinality(us) = Cardinality(below) => us = below
  BY <1>1, FS_Subset
<1>3. Cardinality(us) \in Nat /\ Cardinality(below) \in Nat
  BY <1>2, FS_CardinalityType
<1>4. Cardinality(below) < limit
  BY <1>1, <1>2, <1>3
<1>5. QED  BY <1>4 DEF Rows, below

\* In every state email_thread on a mail lists each mail of INBOX with the
\* same root, but for those tied by In-Reply-To alone, those without a usable
\* id, and a thread over the limit (tool/thread.rs:56).
THEOREM ThreadsAreListed == Spec => []ThreadListsItsRoot
<1>1. TypeInv => ThreadListsItsRoot
  <2> SUFFICES ASSUME TypeInv, NEW u \in Live, NEW v \in Live, RootAt(u) = RootAt(v),
                      ~(MailAt(v).irt = RootAt(v) /\ ~Whole(MailAt(v))),
                      RootAt(v) # Orphan(v),
                      ~(Cardinality(ThreadMatches(u)) > ThreadLimit)
               PROVE  v \in ThreadRows(u)
    BY DEF ThreadListsItsRoot
  <2> DEFINE m == MailAt(v)
  <2>1. m \in MailRec
    BY MailAtType
  <2>2. v \in ThreadMatches(u)
    <3>1. CASE m.refs # <<>> /\ Canonical(m.refs[1])
      <4>1. RootAt(v) = m.refs[1]
        BY <3>1 DEF RootAt, ResolveThreadRoot
      <4>2. 1 \in DOMAIN m.refs
        BY <2>1, <3>1 DEF MailRec
      <4>3. QED  BY <4>1, <4>2 DEF ThreadMatches
    <3>2. CASE ~(m.refs # <<>> /\ Canonical(m.refs[1])) /\ Canonical(m.irt)
      <4>1. RootAt(v) = m.irt
        BY <3>2 DEF RootAt, ResolveThreadRoot
      <4>2. m.irt # Nil
        BY <3>2, ThreadingAssumption DEF Canonical
      <4>3. ~Whole(m)
        BY <3>2, <4>2 DEF Whole
      <4>4. QED  BY <4>1, <4>3
    <3>3. CASE ~(m.refs # <<>> /\ Canonical(m.refs[1])) /\ ~Canonical(m.irt)
      <4>1. RootAt(v) = m.mid
        BY <3>3 DEF RootAt, ResolveThreadRoot
      <4>2. QED  BY <4>1 DEF ThreadMatches
    <3>4. QED  BY <3>1, <3>2, <3>3
  <2>3. /\ IsFiniteSet(ThreadMatches(u)) /\ ThreadMatches(u) \subseteq Nat
        /\ Cardinality(ThreadMatches(u)) \in Nat
    <3>1. Len(inbox) \in Nat /\ DOMAIN inbox = 1..Len(inbox)
      BY Counted
    <3>2. IsFiniteSet(1..Len(inbox))
      BY <3>1, FS_Interval
    <3>3. ThreadMatches(u) \in SUBSET (1..Len(inbox))
      BY <3>1 DEF ThreadMatches, Live
    <3>4. IsFiniteSet(ThreadMatches(u))
      BY <3>2, <3>3, FS_Subset
    <3>5. QED  BY <3>1, <3>3, <3>4, FS_CardinalityType
  <2>4. ThreadLimit \in Nat
    BY MailboxAssumption
  <2>5. Cardinality(ThreadMatches(u)) <= ThreadLimit
    BY <2>3, <2>4
  <2>6. QED  BY <2>2, <2>3, <2>4, <2>5, AllAreRows DEF ThreadRows
<1>2. QED  BY <1>1, TypeInit, TypeNext, PTL DEF Spec
=============================================================================
