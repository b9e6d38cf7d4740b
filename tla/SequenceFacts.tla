---------------------------- MODULE SequenceFacts ----------------------------
(***************************************************************************)
(* Facts about sequences that the proofs share: what Append, Tail and \o   *)
(* do to the elements of a sequence, to its order and to its repetitions.  *)
(***************************************************************************)
EXTENDS Naturals, Sequences, TLAPS

Elems(seq) == {seq[i] : i \in DOMAIN seq}

\* No element occurs twice.
Distinct(seq) == \A i, j \in DOMAIN seq : seq[i] = seq[j] => i = j

LEMMA SeqElem ==
    ASSUME NEW S, NEW s \in Seq(S)
    PROVE  /\ Len(s) \in Nat /\ DOMAIN s = 1..Len(s)
           /\ \A i \in 1..Len(s) : s[i] \in S
           /\ Elems(s) \subseteq S
           /\ \A i \in DOMAIN s : s[i] \in Elems(s)
           /\ s # <<>> => 1 \in DOMAIN s
  BY DEF Elems

LEMMA ElemIndex ==
    ASSUME NEW S, NEW s \in Seq(S), NEW x \in Elems(s)
    PROVE  \E i \in DOMAIN s : i \in 1..Len(s) /\ s[i] = x
  BY DEF Elems

LEMMA SeqOne ==
    ASSUME NEW S, NEW e \in S
    PROVE  <<e>> \in Seq(S) /\ Len(<<e>>) = 1 /\ <<e>>[1] = e /\ Elems(<<e>>) = {e}
  BY DEF Elems

LEMMA SeqNone ==
    ASSUME NEW S
    PROVE  <<>> \in Seq(S) /\ Len(<<>>) = 0 /\ Elems(<<>>) = {} /\ Distinct(<<>>)
  BY DEF Elems, Distinct

LEMMA SeqAppend ==
    ASSUME NEW S, NEW s \in Seq(S), NEW e \in S
    PROVE  /\ Append(s, e) \in Seq(S)
           /\ Len(Append(s, e)) = Len(s) + 1
           /\ \A i \in 1..Len(s) : Append(s, e)[i] = s[i]
           /\ Append(s, e)[Len(s) + 1] = e
           /\ Append(s, e) # <<>>
  OBVIOUS

LEMMA SeqConcat ==
    ASSUME NEW S, NEW s \in Seq(S), NEW t \in Seq(S)
    PROVE  /\ s \o t \in Seq(S)
           /\ Len(s \o t) = Len(s) + Len(t)
           /\ \A i \in 1..Len(s) : (s \o t)[i] = s[i]
           /\ \A i \in 1..Len(t) : (s \o t)[i + Len(s)] = t[i]
           /\ \A i \in (Len(s) + 1)..(Len(s) + Len(t)) :
                 i - Len(s) \in 1..Len(t) /\ (s \o t)[i] = t[i - Len(s)]
  OBVIOUS

LEMMA SeqTail ==
    ASSUME NEW S, NEW s \in Seq(S), s # <<>>
    PROVE  /\ Head(s) \in S /\ Tail(s) \in Seq(S)
           /\ Head(s) = s[1] /\ 1 \in 1..Len(s)
           /\ Len(Tail(s)) = Len(s) - 1 /\ Len(s) \in Nat \ {0}
           /\ \A i \in 1..Len(Tail(s)) : i + 1 \in 1..Len(s) /\ Tail(s)[i] = s[i + 1]
  OBVIOUS

LEMMA ElemsAppend ==
    ASSUME NEW S, NEW s \in Seq(S), NEW e \in S
    PROVE  Elems(Append(s, e)) = Elems(s) \union {e}
  <1> DEFINE t == Append(s, e)
  <1>1. t \in Seq(S) /\ DOMAIN t = 1..(Len(s) + 1) /\ DOMAIN s = 1..Len(s) /\ Len(s) \in Nat
    BY SeqAppend, SeqElem
  <1>2. \A i \in 1..Len(s) : t[i] = s[i]
    BY SeqAppend
  <1>3. t[Len(s) + 1] = e
    BY SeqAppend
  <1> HIDE DEF t
  <1>4. \A i \in 1..(Len(s) + 1) : i \in 1..Len(s) \/ i = Len(s) + 1
    BY <1>1
  <1>5. Elems(t) \subseteq Elems(s) \union {e}
    BY <1>1, <1>2, <1>3, <1>4 DEF Elems
  <1>6. Elems(s) \subseteq Elems(t)
    BY <1>1, <1>2 DEF Elems
  <1>7. e \in Elems(t)
    BY <1>1, <1>3 DEF Elems
  <1> QED
    BY <1>5, <1>6, <1>7 DEF t

LEMMA ElemsConcat ==
    ASSUME NEW S, NEW s \in Seq(S), NEW t \in Seq(S)
    PROVE  Elems(s \o t) = Elems(s) \union Elems(t)
  <1> DEFINE u == s \o t
  <1>1. /\ u \in Seq(S) /\ DOMAIN u = 1..(Len(s) + Len(t))
        /\ DOMAIN s = 1..Len(s) /\ DOMAIN t = 1..Len(t) /\ Len(s) \in Nat /\ Len(t) \in Nat
    BY SeqConcat, SeqElem
  <1>2. /\ \A i \in 1..Len(s) : u[i] = s[i]
        /\ \A i \in 1..Len(t) : u[i + Len(s)] = t[i]
        /\ \A i \in (Len(s) + 1)..(Len(s) + Len(t)) : i - Len(s) \in 1..Len(t) /\ u[i] = t[i - Len(s)]
    BY SeqConcat
  <1> HIDE DEF u
  <1>3. \A i \in 1..(Len(s) + Len(t)) : i \in 1..Len(s) \/ i \in (Len(s) + 1)..(Len(s) + Len(t))
    BY <1>1
  <1>4. Elems(u) \subseteq Elems(s) \union Elems(t)
    BY <1>1, <1>2, <1>3 DEF Elems
  <1>5. Elems(s) \subseteq Elems(u)
    BY <1>1, <1>2 DEF Elems
  <1>6. \A i \in 1..Len(t) : i + Len(s) \in 1..(Len(s) + Len(t))
    BY <1>1
  <1>7. Elems(t) \subseteq Elems(u)
    <2> SUFFICES ASSUME NEW x \in Elems(t) PROVE x \in Elems(u)
      OBVIOUS
    <2>1. PICK i \in 1..Len(t) : t[i] = x
      BY <1>1 DEF Elems
    <2>2. u[i + Len(s)] = x /\ i + Len(s) \in DOMAIN u
      BY <1>1, <1>2, <1>6, <2>1
    <2> QED
      BY <2>2 DEF Elems
  <1> QED
    BY <1>4, <1>5, <1>7 DEF u

LEMMA ElemsTail ==
    ASSUME NEW S, NEW s \in Seq(S), s # <<>>
    PROVE  /\ Elems(s) = Elems(Tail(s)) \union {Head(s)}
           /\ Distinct(s) => Head(s) \notin Elems(Tail(s)) /\ Distinct(Tail(s))
  <1> DEFINE t == Tail(s)
  <1>1. /\ t \in Seq(S) /\ Len(s) \in Nat \ {0} /\ DOMAIN t = 1..(Len(s) - 1)
        /\ DOMAIN s = 1..Len(s) /\ Head(s) = s[1]
    BY SeqTail, SeqElem
  <1>2. \A i \in 1..(Len(s) - 1) : t[i] = s[i + 1] /\ i + 1 \in 1..Len(s) /\ i + 1 # 1
    BY <1>1, SeqTail
  <1> HIDE DEF t
  <1>3. \A i \in 1..Len(s) : i = 1 \/ (i - 1 \in 1..(Len(s) - 1) /\ t[i - 1] = s[i])
    BY <1>1, <1>2
  <1>4. Elems(t) \subseteq Elems(s) /\ Head(s) \in Elems(s)
    BY SMTT(30), <1>1, <1>2 DEF Elems
  <1>5. Elems(s) \subseteq Elems(t) \union {Head(s)}
    BY <1>1, <1>3 DEF Elems
  <1>6. ASSUME Distinct(s) PROVE Head(s) \notin Elems(t) /\ Distinct(t)
    <2>1. Head(s) \notin Elems(t)
      <3> SUFFICES ASSUME NEW i \in 1..(Len(s) - 1), t[i] = s[1] PROVE FALSE
        BY <1>1 DEF Elems
      <3>1. s[i + 1] = s[1] /\ i + 1 \in DOMAIN s /\ 1 \in DOMAIN s /\ i + 1 # 1
        BY <1>1, <1>2
      <3> QED
        BY <3>1, <1>6 DEF Distinct
    <2>2. Distinct(t)
      BY <1>1, <1>2, <1>6 DEF Distinct
    <2> QED
      BY <2>1, <2>2
  <1> QED
    BY <1>4, <1>5, <1>6 DEF t

LEMMA DistinctAppend ==
    ASSUME NEW S, NEW s \in Seq(S), NEW e \in S, Distinct(s), e \notin Elems(s)
    PROVE  Distinct(Append(s, e))
  <1> DEFINE t == Append(s, e)
  <1>1. t \in Seq(S) /\ DOMAIN t = 1..(Len(s) + 1) /\ DOMAIN s = 1..Len(s) /\ Len(s) \in Nat
    BY SeqAppend, SeqElem
  <1>2. (\A i \in 1..Len(s) : t[i] = s[i] /\ s[i] # e) /\ t[Len(s) + 1] = e
    BY <1>1, SeqAppend DEF Elems
  <1> HIDE DEF t
  <1>4. \A i \in 1..(Len(s) + 1) : i \in 1..Len(s) \/ i = Len(s) + 1
    BY <1>1
  <1>5. Distinct(t)
    BY <1>1, <1>2, <1>4 DEF Distinct
  <1> QED
    BY <1>5 DEF t

LEMMA DistinctConcat ==
    ASSUME NEW S, NEW s \in Seq(S), NEW t \in Seq(S), Distinct(s), Distinct(t),
           \A e \in Elems(s) : e \notin Elems(t)
    PROVE  Distinct(s \o t)
  <1> DEFINE u == s \o t
  <1>1. /\ u \in Seq(S) /\ DOMAIN u = 1..(Len(s) + Len(t))
        /\ DOMAIN s = 1..Len(s) /\ DOMAIN t = 1..Len(t) /\ Len(s) \in Nat /\ Len(t) \in Nat
    BY SeqConcat, SeqElem
  <1>2. /\ \A i \in 1..Len(s) : u[i] = s[i]
        /\ \A i \in (Len(s) + 1)..(Len(s) + Len(t)) : i - Len(s) \in 1..Len(t) /\ u[i] = t[i - Len(s)]
    BY SeqConcat
  <1> HIDE DEF u
  <1>3. \A i \in 1..(Len(s) + Len(t)) : i \in 1..Len(s) \/ i \in (Len(s) + 1)..(Len(s) + Len(t))
    BY <1>1
  <1>4. \A i \in 1..Len(s), j \in (Len(s) + 1)..(Len(s) + Len(t)) : u[i] # u[j]
    BY <1>1, <1>2 DEF Elems
  <1>5. \A i, j \in 1..Len(s) : u[i] = u[j] => i = j
    BY <1>1, <1>2 DEF Distinct
  <1>6. ASSUME NEW i \in (Len(s) + 1)..(Len(s) + Len(t)), NEW j \in (Len(s) + 1)..(Len(s) + Len(t)),
               u[i] = u[j]
        PROVE  i = j
    <2>1. /\ i - Len(s) \in DOMAIN t /\ j - Len(s) \in DOMAIN t
          /\ t[i - Len(s)] = t[j - Len(s)]
      BY <1>1, <1>2, <1>6
    <2>2. i - Len(s) = j - Len(s)
      BY <2>1 DEF Distinct
    <2> QED
      BY <1>1, <2>2
  <1>7. Distinct(u)
    BY <1>1, <1>3, <1>4, <1>5, <1>6 DEF Distinct
  <1> QED
    BY <1>7 DEF u
=============================================================================
