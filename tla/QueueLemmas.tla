----------------------------- MODULE QueueLemmas -----------------------------
(***************************************************************************)
(* Queues as the modules use them: frames are put at the end, taken from   *)
(* the head, and what is under way is the range of the sequence.           *)
(***************************************************************************)
EXTENDS SequenceTheorems, TLAPS

(* Nothing is under way in an empty queue.                                 *)
LEMMA RangeOfEmpty == Range(<<>>) = {}
  BY DEF Range

(* What a queue holds is of the type of its elements.                      *)
LEMMA RangeInType ==
  ASSUME NEW S, NEW s \in Seq(S)
  PROVE  Range(s) \subseteq S
  BY RangeOfSeq

(* A queue that is not empty has its head and what comes after.            *)
LEMMA RangeHeadTail ==
  ASSUME NEW S, NEW s \in Seq(S), s # <<>>
  PROVE  /\ Head(s) \in S
         /\ Tail(s) \in Seq(S)
         /\ Len(Tail(s)) = Len(s) - 1
         /\ Range(s) = {Head(s)} \cup Range(Tail(s))
<1>1. /\ Head(s) \in S /\ Tail(s) \in Seq(S)
      /\ Len(Tail(s)) = Len(s) - 1
      /\ \A i \in 1 .. Len(Tail(s)) : Tail(s)[i] = s[i + 1]
  BY HeadTailProperties
<1>2. Len(s) \in Nat \ {0}
  BY EmptySeq
<1>3. /\ Range(s) = {s[i] : i \in 1 .. Len(s)}
      /\ Range(Tail(s)) = {Tail(s)[i] : i \in 1 .. Len(s) - 1}
  BY <1>1, RangeEquality
<1>4. Head(s) = s[1]
  OBVIOUS
<1>5. ASSUME NEW i \in 1 .. Len(s), i # 1
      PROVE  s[i] = Tail(s)[i - 1] /\ i - 1 \in 1 .. Len(s) - 1
  BY <1>1, <1>2, <1>5
<1>6. Range(s) \subseteq {Head(s)} \cup Range(Tail(s))
  BY <1>3, <1>4, <1>5, ZenonT(30)
<1>7. \A i \in 1 .. Len(s) - 1 : Tail(s)[i] = s[i + 1] /\ i + 1 \in 1 .. Len(s)
  BY <1>1, <1>2
<1>8. Range(Tail(s)) \subseteq Range(s)
  BY <1>3, <1>7
<1>9. Head(s) \in Range(s)
  BY <1>2, <1>3, <1>4
<1> QED
  BY <1>1, <1>6, <1>8, <1>9

(* A frame put at the end joins those under way.                           *)
LEMMA RangeAppend ==
  ASSUME NEW S, NEW s \in Seq(S), NEW e \in S
  PROVE  /\ Append(s, e) \in Seq(S)
         /\ Append(s, e) # <<>>
         /\ Len(Append(s, e)) = Len(s) + 1
         /\ Range(Append(s, e)) = Range(s) \cup {e}
<1>1. /\ Append(s, e) \in Seq(S) /\ Append(s, e) # <<>>
      /\ Len(Append(s, e)) = Len(s) + 1
      /\ \A i \in 1 .. Len(s) : Append(s, e)[i] = s[i]
      /\ Append(s, e)[Len(s) + 1] = e
  BY AppendProperties
<1>2. Len(s) \in Nat
  BY LenProperties
<1>3. /\ Range(s) = {s[i] : i \in 1 .. Len(s)}
      /\ Range(Append(s, e)) = {Append(s, e)[i] : i \in 1 .. Len(s) + 1}
  BY <1>1, RangeEquality
<1>4. 1 .. Len(s) + 1 = (1 .. Len(s)) \cup {Len(s) + 1}
  BY <1>2
<1> QED
  BY <1>1, <1>3, <1>4

(* It leaves the head in place, unless it is the head.                     *)
LEMMA RangeTailAppend ==
  ASSUME NEW S, NEW s \in Seq(S), NEW e \in S
  PROVE  Range(Tail(Append(s, e))) = IF s = <<>> THEN {} ELSE Range(Tail(s)) \cup {e}
<1>1. Tail(Append(s, e)) = IF s = <<>> THEN <<>> ELSE Append(Tail(s), e)
  BY HeadTailAppend
<1>2. CASE s = <<>>
  BY <1>1, <1>2, RangeOfEmpty
<1>3. CASE s # <<>>
  <2>1. Tail(s) \in Seq(S)
    BY <1>3, HeadTailProperties
  <2>2. \A t \in Seq(S) : Range(Append(t, e)) = Range(t) \cup {e}
    BY RangeAppend
  <2> QED
    BY <1>1, <1>3, <2>1, <2>2
<1> QED
  BY <1>2, <1>3
=============================================================================
