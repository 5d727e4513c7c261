-------------------------- MODULE ThreadingProofs --------------------------
(***************************************************************************)
(* What truncate_references and enrich_reply_threading promise, for every  *)
(* list of References, every parent and every cap of two or more           *)
(* (src/src/threading.rs:83-138).                                          *)
(***************************************************************************)
EXTENDS Threading, TLAPS

\* Shortening keeps the root first and at most max ids.
LEMMA ShortenedKeepsRoot ==
  ASSUME NEW refs \in Seq(Ids), refs # <<>>, NEW max \in Nat, max >= 2
  PROVE  /\ Shortened(refs, max) \in Seq(Ids)
         /\ Shortened(refs, max) # <<>>
         /\ Shortened(refs, max)[1] = refs[1]
         /\ Len(Shortened(refs, max)) <= max
<1>1. CASE Len(refs) <= max
  BY <1>1 DEF Shortened
<1>2. CASE ~(Len(refs) <= max)
  <2> DEFINE from == Len(refs) - max + 2
             tail == SubSeq(refs, from, Len(refs))
  <2>1. /\ Len(refs) \in Nat /\ from \in 1..Len(refs) /\ refs[1] \in Ids
        /\ from - 1 + max - 1 = Len(refs)
    BY <1>2
  <2>2. tail \in Seq(Ids) /\ Len(tail) = max - 1
    BY <2>1
  <2>3. Shortened(refs, max) = <<refs[1]>> \o tail
    BY <1>2 DEF Shortened
  <2>4. <<refs[1]>> \in Seq(Ids) /\ Len(<<refs[1]>>) = 1
    BY <2>1
  <2> HIDE DEF tail
  <2> QED BY <2>2, <2>3, <2>4
<1> QED BY <1>1, <1>2

\* Making room keeps the root first and leaves a place below the cap.
LEMMA WithRoomKeepsRoot ==
  ASSUME NEW refs \in Seq(Ids), refs # <<>>, NEW max \in Nat, max >= 2,
         Len(refs) <= max
  PROVE  /\ WithRoom(refs, max) \in Seq(Ids)
         /\ WithRoom(refs, max) # <<>>
         /\ WithRoom(refs, max)[1] = refs[1]
         /\ Len(WithRoom(refs, max)) <= max - 1
<1>1. CASE ~(Len(refs) >= max)
  BY <1>1 DEF WithRoom
<1>2. CASE Len(refs) >= max
  <2> DEFINE tail == SubSeq(refs, 3, Len(refs))
  <2>1. Len(refs) = max /\ refs[1] \in Ids
    BY <1>2
  <2>2. tail \in Seq(Ids) /\ Len(tail) = max - 2
    BY <2>1
  <2>3. WithRoom(refs, max) = <<refs[1]>> \o tail
    BY <2>1 DEF WithRoom
  <2>4. <<refs[1]>> \in Seq(Ids) /\ Len(<<refs[1]>>) = 1
    BY <2>1
  <2> HIDE DEF tail
  <2> QED BY <2>2, <2>3, <2>4
<1> QED BY <1>1, <1>2

\* Whatever the length of References and the cap, the result keeps the root
\* first and stays within the cap (threading.rs:86, "keep [refs[0], refs[len-(max-1)..len]]").
THEOREM TruncateKeepsRoot ==
  ASSUME NEW refs \in Seq(Ids), refs # <<>>, NEW own \in Ids \cup {Nil},
         NEW max \in Nat, max >= 2
  PROVE  /\ TruncateReferences(refs, own, max) \in Seq(Ids)
         /\ TruncateReferences(refs, own, max) # <<>>
         /\ TruncateReferences(refs, own, max)[1] = refs[1]
         /\ Len(TruncateReferences(refs, own, max)) <= max
<1> DEFINE kept == Shortened(refs, max)
<1>1. kept \in Seq(Ids) /\ kept # <<>> /\ kept[1] = refs[1] /\ Len(kept) <= max
  BY ShortenedKeepsRoot
<1>2. CASE own = Nil \/ Present(own, kept)
  BY <1>1, <1>2 DEF TruncateReferences
<1>3. CASE ~(own = Nil \/ Present(own, kept))
  <2> DEFINE room == WithRoom(kept, max)
  <2> HIDE DEF kept
  <2>1. room \in Seq(Ids) /\ room # <<>> /\ room[1] = kept[1] /\ Len(room) <= max - 1
    BY <1>1, WithRoomKeepsRoot
  <2>2. own \in Ids
    BY <1>3
  <2>3. TruncateReferences(refs, own, max) = Append(room, own)
    BY <1>3 DEF TruncateReferences, kept
  <2> HIDE DEF room
  <2> QED BY <1>1, <2>1, <2>2, <2>3
<1> QED BY <1>2, <1>3

\* The headers of a parent that name the root of its thread.
NamesItsRoot(h) ==
  /\ Canonical(h.mid)
  /\ IF h.refs = <<>> THEN h.irt = Nil ELSE Canonical(h.refs[1])

\* A reply to a mail that names its root resolves to the same root, whatever
\* the id the reply gets and however long the chain has grown: the conversation
\* stays one session (threading.rs:121-138, "Enrich an outbound reply so the
\* chain stays threaded").
THEOREM ReplyKeepsRoot ==
  ASSUME NEW parent \in Headers, NamesItsRoot(parent),
         NEW mid, NEW orphan, NEW otherOrphan
  PROVE  LET r == EnrichReplyThreading(parent)
         IN ResolveThreadRoot([mid |-> mid, irt |-> r.irt, refs |-> r.refs], orphan)
              = ResolveThreadRoot(parent, otherOrphan)
<1> DEFINE refs == TruncateReferences(parent.refs, parent.mid, ReferencesMax)
           reply == [mid |-> mid, irt |-> parent.mid, refs |-> refs]
<1>1. /\ parent.refs \in Seq(Ids) /\ parent.mid \in Ids /\ Canonical(parent.mid)
      /\ parent.mid # Nil /\ ReferencesMax \in Nat /\ ReferencesMax >= 2
  BY ThreadingAssumption DEF Headers, NamesItsRoot, Canonical
<1>2. SUFFICES ResolveThreadRoot(reply, orphan) = ResolveThreadRoot(parent, otherOrphan)
  BY DEF EnrichReplyThreading
<1>3. CASE parent.refs = <<>>
  <2>1. ResolveThreadRoot(parent, otherOrphan) = parent.mid
    <3>1. ~Canonical(parent.irt)
      BY <1>3, ThreadingAssumption DEF NamesItsRoot, Canonical
    <3> QED BY <1>1, <1>3, <3>1 DEF ResolveThreadRoot
  <2>2. refs = <<parent.mid>>
    <3>1. Shortened(parent.refs, ReferencesMax) = <<>>
      BY <1>1, <1>3 DEF Shortened
    <3>2. ~Present(parent.mid, <<>>)
      BY DEF Present
    <3>3. WithRoom(<<>>, ReferencesMax) = <<>>
      BY <1>1 DEF WithRoom
    <3>4. refs = Append(<<>>, parent.mid)
      BY <1>1, <3>1, <3>2, <3>3, Zenon DEF TruncateReferences
    <3> HIDE DEF refs
    <3> QED BY <3>4
  <2> HIDE DEF refs
  <2>3. refs # <<>> /\ refs[1] = parent.mid
    BY <2>2
  <2> QED BY <1>1, <2>1, <2>3 DEF ResolveThreadRoot
<1>4. CASE parent.refs # <<>>
  <2>1. Canonical(parent.refs[1])
    BY <1>4 DEF NamesItsRoot
  <2>2. refs # <<>> /\ refs[1] = parent.refs[1]
    BY <1>1, <1>4, TruncateKeepsRoot
  <2> HIDE DEF refs
  <2> QED BY <1>4, <2>1, <2>2 DEF ResolveThreadRoot
<1> QED BY <1>3, <1>4
=============================================================================
