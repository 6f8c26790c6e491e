------------------------------ MODULE Pipes_proofs ----------------------------
(* What appending a line to a pipe, and taking its first one, do to its lines. *)
EXTENDS Pipes, SequenceTheorems, TLAPS

\* A new pipe holds nothing.
LEMMA LinesEmpty == Lines(<<>>) = {} /\ \A e: AtMostOnce(<<>>, e)
  BY DEF Lines, AtMostOnce

\* Appending adds that line and no other.
LEMMA LinesAppend ==
  ASSUME NEW S, NEW s \in Seq(S), NEW e \in S
  PROVE  Lines(Append(s, e)) = Lines(s) \cup {e}
<1>1. Len(Append(s, e)) = Len(s) + 1 /\ Append(s, e)[Len(s) + 1] = e
  BY AppendProperties
<1>2. \A i \in 1..Len(s): Append(s, e)[i] = s[i]
  BY AppendProperties
<1>3. Len(s) \in Nat
  BY LenProperties
<1>4. ASSUME NEW x \in Lines(Append(s, e))
      PROVE  x \in Lines(s) \cup {e}
  <2>1. PICK i \in 1..(Len(s) + 1): x = Append(s, e)[i]
    BY <1>1 DEF Lines
  <2>2. QED
    BY <1>1, <1>2, <1>3, <2>1 DEF Lines
<1>5. ASSUME NEW x \in Lines(s) \cup {e}
      PROVE  x \in Lines(Append(s, e))
  <2>1. CASE x = e
    <3>1. Len(s) + 1 \in 1..Len(Append(s, e))
      BY <1>1, <1>3
    <3>2. QED
      BY <1>1, <2>1, <3>1 DEF Lines
  <2>2. CASE x \in Lines(s)
    <3>1. PICK i \in 1..Len(s): x = s[i]
      BY <2>2 DEF Lines
    <3>2. i \in 1..Len(Append(s, e)) /\ x = Append(s, e)[i]
      BY <1>1, <1>2, <1>3, <3>1
    <3>3. QED
      BY <3>2 DEF Lines
  <2>3. QED
    BY <2>1, <2>2
<1>6. QED
  BY <1>4, <1>5

\* The first line is one of the lines, and so are those after it.
LEMMA LinesHeadTail ==
  ASSUME NEW S, NEW s \in Seq(S), s # <<>>
  PROVE  Head(s) \in Lines(s) /\ Lines(Tail(s)) \subseteq Lines(s)
<1>1. Len(s) \in Nat /\ Len(s) >= 1 /\ Head(s) = s[1]
  BY LenProperties, EmptySeq
<1>2. Len(Tail(s)) = Len(s) - 1
      /\ \A i \in 1..Len(Tail(s)): Tail(s)[i] = s[i + 1]
  BY HeadTailProperties
<1>3. Head(s) \in Lines(s)
  BY <1>1 DEF Lines
<1>4. ASSUME NEW x \in Lines(Tail(s))
      PROVE  x \in Lines(s)
  <2>1. PICK i \in 1..Len(Tail(s)): x = Tail(s)[i]
    BY DEF Lines
  <2>2. i + 1 \in 1..Len(s) /\ x = s[i + 1]
    BY <1>1, <1>2, <2>1
  <2>3. QED
    BY <2>2 DEF Lines
<1>5. QED
  BY <1>3, <1>4

\* A line that is appended once is there once.
LEMMA OnceAppend ==
  ASSUME NEW S, NEW s \in Seq(S), NEW f \in S, NEW e,
         AtMostOnce(s, e), f = e => e \notin Lines(s)
  PROVE  AtMostOnce(Append(s, f), e)
<1>1. Len(s) \in Nat /\ Len(Append(s, f)) = Len(s) + 1
  BY AppendProperties, LenProperties
<1>2. Append(s, f)[Len(s) + 1] = f
      /\ \A i \in 1..Len(s): Append(s, f)[i] = s[i]
  BY AppendProperties
<1>3. ASSUME f = e
      PROVE  \A i \in 1..Len(s): s[i] # e
  BY <1>3 DEF Lines
<1>4. QED
  BY <1>1, <1>2, <1>3 DEF AtMostOnce

\* A line that is there once is gone when it is taken.
LEMMA OnceTail ==
  ASSUME NEW S, NEW s \in Seq(S), s # <<>>, NEW e, AtMostOnce(s, e)
  PROVE  AtMostOnce(Tail(s), e) /\ (Head(s) = e => e \notin Lines(Tail(s)))
<1>1. Len(s) \in Nat /\ Len(s) >= 1 /\ Head(s) = s[1]
  BY LenProperties, EmptySeq
<1>2. Len(Tail(s)) = Len(s) - 1
      /\ \A i \in 1..Len(Tail(s)): Tail(s)[i] = s[i + 1]
  BY HeadTailProperties
<1>3. AtMostOnce(Tail(s), e)
  BY <1>1, <1>2 DEF AtMostOnce
<1>4. ASSUME Head(s) = e, NEW i \in 1..Len(Tail(s)), Tail(s)[i] = e
      PROVE  FALSE
  <2>1. 1 \in 1..Len(s) /\ i + 1 \in 1..Len(s) /\ s[i + 1] = e /\ s[1] = e
    BY <1>1, <1>2, <1>4
  <2>2. QED
    BY <2>1 DEF AtMostOnce
<1>5. QED
  BY <1>3, <1>4 DEF Lines

\* Two pipes end to end: a line written to the second joins the end.
LEMMA ConcatAppend ==
  ASSUME NEW S, NEW s \in Seq(S), NEW t \in Seq(S), NEW m \in S
  PROVE  s \o Append(t, m) = Append(s \o t, m)
<1>1. <<m>> \in Seq(S) /\ s \o t \in Seq(S)
  BY ConcatProperties
<1>2. Append(t, m) = t \o <<m>> /\ Append(s \o t, m) = (s \o t) \o <<m>>
  BY <1>1, AppendIsConcat
<1>3. s \o (t \o <<m>>) = (s \o t) \o <<m>>
  BY <1>1, ConcatAssociative
<1>4. QED
  BY <1>2, <1>3

\* A sequence is its first line and the rest.
LEMMA HeadTailConcat ==
  ASSUME NEW S, NEW s \in Seq(S), s # <<>>
  PROVE  s = <<Head(s)>> \o Tail(s)
<1>1. /\ Head(s) \in S /\ Tail(s) \in Seq(S) /\ Len(Tail(s)) = Len(s) - 1
      /\ \A i \in 1..Len(Tail(s)): Tail(s)[i] = s[i + 1]
  BY HeadTailProperties
<1>2. Len(s) \in Nat /\ Len(s) >= 1 /\ Head(s) = s[1]
  BY LenProperties, EmptySeq
<1>3. <<Head(s)>> \in Seq(S) /\ Len(<<Head(s)>>) = 1 /\ <<Head(s)>>[1] = s[1]
  BY <1>1, <1>2
<1>4. /\ <<Head(s)>> \o Tail(s) \in Seq(S)
      /\ Len(<<Head(s)>> \o Tail(s)) = Len(s)
      /\ \A i \in 1..Len(s): (<<Head(s)>> \o Tail(s))[i] = s[i]
  BY <1>1, <1>2, <1>3, ConcatProperties
<1>5. QED
  BY <1>4, SeqEqual

\* Moving the first line of the second pipe to the end of the first one leaves
\* the two together as they are.
LEMMA ConcatMove ==
  ASSUME NEW S, NEW s \in Seq(S), NEW t \in Seq(S), t # <<>>
  PROVE  Append(s, Head(t)) \o Tail(t) = s \o t
<1>1. Head(t) \in S /\ Tail(t) \in Seq(S)
  BY HeadTailProperties
<1>2. <<Head(t)>> \in Seq(S)
  BY <1>1
<1>3. Append(s, Head(t)) = s \o <<Head(t)>>
  BY <1>1, AppendIsConcat
<1>4. (s \o <<Head(t)>>) \o Tail(t) = s \o (<<Head(t)>> \o Tail(t))
  BY <1>1, <1>2, ConcatAssociative
<1>5. t = <<Head(t)>> \o Tail(t)
  BY HeadTailConcat
<1>6. QED
  BY <1>3, <1>4, <1>5

\* Taking the first line of the first pipe takes it from the two together.
LEMMA ConcatTake ==
  ASSUME NEW S, NEW s \in Seq(S), NEW t \in Seq(S), s # <<>>
  PROVE  /\ s \o t # <<>>
         /\ Head(s \o t) = Head(s)
         /\ Tail(s \o t) = Tail(s) \o t
<1> DEFINE w == s \o t
           v == Tail(s) \o t
<1>1. /\ Tail(s) \in Seq(S) /\ Len(Tail(s)) = Len(s) - 1
      /\ \A i \in 1..Len(Tail(s)): Tail(s)[i] = s[i + 1]
  BY HeadTailProperties
<1>2. /\ Len(s) \in Nat /\ Len(s) >= 1 /\ Len(t) \in Nat
      /\ Head(s) = s[1]
  BY LenProperties, EmptySeq
<1>3. /\ w \in Seq(S) /\ Len(w) = Len(s) + Len(t)
      /\ \A i \in 1..Len(s) + Len(t):
            w[i] = IF i <= Len(s) THEN s[i] ELSE t[i - Len(s)]
  BY ConcatProperties
<1>4. w # <<>> /\ Head(w) = Head(s)
  BY <1>2, <1>3
<1>5. /\ Tail(w) \in Seq(S) /\ Len(Tail(w)) = Len(w) - 1
      /\ \A i \in 1..Len(Tail(w)): Tail(w)[i] = w[i + 1]
  BY <1>3, <1>4, HeadTailProperties
<1>6. /\ v \in Seq(S) /\ Len(v) = Len(Tail(s)) + Len(t)
      /\ \A i \in 1..Len(Tail(s)) + Len(t):
            v[i] = IF i <= Len(Tail(s)) THEN Tail(s)[i]
                                        ELSE t[i - Len(Tail(s))]
  BY <1>1, ConcatProperties
<1>7. Len(v) = Len(Tail(w))
  BY <1>1, <1>2, <1>3, <1>5, <1>6
<1>8. \A i \in 1..Len(v): v[i] = Tail(w)[i]
  BY <1>1, <1>2, <1>3, <1>5, <1>6
<1>9. v = Tail(w)
  BY <1>5, <1>6, <1>7, <1>8, SeqEqual
<1>10. QED
  BY <1>4, <1>9
===============================================================================
