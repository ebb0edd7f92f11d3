---------------------------- MODULE SequenceLemmas ----------------------------
(***************************************************************************)
(* What the operators on lists that the models are built from return, for  *)
(* every list: std::vector::erase, std::list::remove and enet_list_remove  *)
(* are RemoveAt and RemoveFirst, a walk that packs a message for each      *)
(* element is FlattenSeq.  The library's induction theorems cannot be      *)
(* cited (README.md); least counterexamples take their place.              *)
(***************************************************************************)
EXTENDS Integers, Sequences, FiniteSets, FiniteSetsExt, SequencesExt, SequenceTheorems,
        FiniteSetTheorems, WellFoundedInduction, TLAPS

\* Every nonempty set of natural numbers has a least element.
LEMMA LeastExists ==
    ASSUME NEW T, T \subseteq Nat, T # {}
    PROVE  \E m \in T : \A n \in T : m <= n
<1>1. IsWellFoundedOn(OpToRel(<, Nat), Nat)
  BY NatLessThanWellFounded
<1>2. PICK m \in T : \A n \in T : <<n, m>> \notin OpToRel(<, Nat)
  BY <1>1, WFMin
<1>3. \A n \in T : m \in Nat /\ n \in Nat /\ ~(n < m)
  BY <1>2 DEF OpToRel
<1>4. \A n \in T : m <= n
  BY <1>3
<1> QED BY <1>4

\* Taking one element out of a sequence leaves a sequence of the others.
LEMMA RemoveAtFacts ==
    ASSUME NEW S, NEW s \in Seq(S), NEW i \in 1 .. Len(s)
    PROVE  /\ RemoveAt(s, i) \in Seq(S)
           /\ Len(RemoveAt(s, i)) = Len(s) - 1
           /\ \A j \in 1 .. (Len(s) - 1) :
                RemoveAt(s, i)[j] = IF j < i THEN s[j] ELSE s[j + 1]
<1> DEFINE a == SubSeq(s, 1, i - 1)
           b == SubSeq(s, i + 1, Len(s))
<1>1. Len(s) \in Nat /\ i \in Int /\ \A j \in 1 .. Len(s) : s[j] \in S
  BY LenProperties, ElementOfSeq
<1>2. a \in Seq(S) /\ Len(a) = i - 1 /\ \A j \in 1 .. (i - 1) : a[j] = s[j]
  BY <1>1, SubSeqProperties
<1>3. b \in Seq(S) /\ Len(b) = Len(s) - i /\ \A j \in 1 .. (Len(s) - i) : b[j] = s[j + i]
  <2>1. Len(b) = IF i + 1 <= Len(s) THEN Len(s) - (i + 1) + 1 ELSE 0
    BY <1>1, SubSeqProperties
  <2>2. \A j \in 1 .. Len(s) - (i + 1) + 1 : b[j] = s[i + 1 + j - 1]
    BY <1>1, SubSeqProperties
  <2>3. b \in Seq(S)
    BY <1>1, SubSeqProperties
  <2> HIDE DEF b
  <2> QED BY <2>1, <2>2, <2>3, <1>1
<1>4. RemoveAt(s, i) = a \o b
  BY DEF RemoveAt
<1> HIDE DEF a, b
<1>5. /\ a \o b \in Seq(S)
      /\ Len(a \o b) = Len(a) + Len(b)
      /\ \A j \in 1 .. Len(a) + Len(b) :
            (a \o b)[j] = IF j <= Len(a) THEN a[j] ELSE b[j - Len(a)]
  BY <1>2, <1>3, ConcatProperties
<1>6. \A j \in 1 .. (Len(s) - 1) : (a \o b)[j] = IF j < i THEN s[j] ELSE s[j + 1]
  <2> TAKE j \in 1 .. (Len(s) - 1)
  <2>1. (a \o b)[j] = IF j <= i - 1 THEN a[j] ELSE b[j - (i - 1)]
    BY <1>1, <1>2, <1>3, <1>5, SMTT(30)
  <2>2. CASE j < i
    BY <2>1, <2>2, <1>1, <1>2
  <2>3. CASE ~(j < i)
    <3>1. j - (i - 1) \in 1 .. (Len(s) - i) /\ j - (i - 1) + i = j + 1
      BY <2>3, <1>1
    <3> QED BY <2>1, <2>3, <3>1, <1>1, <1>3
  <2> QED BY <2>2, <2>3
<1> QED BY <1>1, <1>2, <1>3, <1>4, <1>5, <1>6

\* What the list operations do to the set of commands in a list.
LEMMA ToSetFacts ==
    ASSUME NEW S, NEW s \in Seq(S)
    PROVE  /\ \A i \in 1 .. Len(s) : s[i] \in ToSet(s)
           /\ \A e \in S : ToSet(Append(s, e)) = ToSet(s) \cup {e}
           /\ \A e \in S : ToSet(<<e>> \o s) = ToSet(s) \cup {e}
           /\ s # <<>> => ToSet(s) = ToSet(Tail(s)) \cup {Head(s)}
           /\ \A i \in 1 .. Len(s) : ToSet(s) = ToSet(RemoveAt(s, i)) \cup {s[i]}
<1>1. \A t \in Seq(S) : \A x : x \in ToSet(t) <=> \E i \in 1 .. Len(t) : x = t[i]
  BY LenProperties DEF ToSet
<1>2. \A i \in 1 .. Len(s) : s[i] \in ToSet(s)
  BY <1>1
<1>3. ASSUME NEW e \in S PROVE ToSet(Append(s, e)) = ToSet(s) \cup {e}
  <2> DEFINE t == Append(s, e)
  <2>1. /\ t \in Seq(S) /\ Len(t) = Len(s) + 1
        /\ \A i \in 1 .. Len(s) : t[i] = s[i]
        /\ t[Len(s) + 1] = e
    OBVIOUS
  <2> HIDE DEF t
  <2>2. Len(s) \in Nat /\ \A i \in 1 .. Len(s) + 1 : i \in 1 .. Len(s) \/ i = Len(s) + 1
    BY LenProperties
  <2>3. ASSUME NEW x, x \in ToSet(t) PROVE x \in ToSet(s) \cup {e}
    <3>1. PICK i \in 1 .. Len(s) + 1 : x = t[i]
      BY <1>1, <2>1, <2>3
    <3> QED BY <1>1, <2>1, <2>2, <3>1
  <2>4. ASSUME NEW x, x \in ToSet(s) PROVE x \in ToSet(t)
    <3>1. PICK i \in 1 .. Len(s) : x = s[i]
      BY <1>1, <2>4
    <3>2. i \in 1 .. Len(t) /\ x = t[i]
      BY <2>1, <2>2, <3>1
    <3> QED BY <1>1, <2>1, <3>2
  <2>5. e \in ToSet(t)
    <3>1. Len(s) + 1 \in 1 .. Len(t)
      BY <2>1, <2>2
    <3> QED BY <1>1, <2>1, <3>1
  <2> QED BY <2>3, <2>4, <2>5 DEF t
<1>4. ASSUME NEW e \in S PROVE ToSet(<<e>> \o s) = ToSet(s) \cup {e}
  <2>1. <<e>> \in Seq(S) /\ Len(<<e>>) = 1 /\ <<e>>[1] = e
    OBVIOUS
  <2>2. /\ <<e>> \o s \in Seq(S) /\ Len(<<e>> \o s) = Len(s) + 1
        /\ \A i \in 1 .. Len(s) + 1 : (<<e>> \o s)[i] = IF i <= 1 THEN <<e>>[i] ELSE s[i - 1]
    BY <2>1, ConcatProperties, LenProperties
  <2>3. (<<e>> \o s)[1] = e /\ \A i \in 1 .. Len(s) : (<<e>> \o s)[i + 1] = s[i]
    BY <2>1, <2>2, LenProperties
  <2>4. \A i \in 1 .. Len(s) + 1 : i = 1 \/ (i - 1 \in 1 .. Len(s) /\ (<<e>> \o s)[i] = s[i - 1])
    BY <2>2, LenProperties
  <2>5. \A i \in 1 .. Len(s) : i + 1 \in 1 .. Len(s) + 1
    BY LenProperties
  <2> DEFINE t == <<e>> \o s
  <2> HIDE DEF t
  <2>6. ASSUME NEW x, x \in ToSet(t) PROVE x \in ToSet(s) \cup {e}
    <3>1. PICK i \in 1 .. Len(s) + 1 : x = t[i]
      BY <1>1, <2>2, <2>6 DEF t
    <3> QED BY <1>1, <2>3, <2>4, <3>1 DEF t
  <2>7. ASSUME NEW x, x \in ToSet(s) PROVE x \in ToSet(t)
    <3>1. PICK i \in 1 .. Len(s) : x = s[i]
      BY <1>1, <2>7
    <3>2. i + 1 \in 1 .. Len(t) /\ x = t[i + 1]
      BY <2>2, <2>3, <2>5, <3>1 DEF t
    <3> QED BY <1>1, <2>2, <3>2 DEF t
  <2>8. e \in ToSet(t)
    <3>1. 1 \in 1 .. Len(t) /\ e = t[1]
      BY <2>2, <2>3, LenProperties DEF t
    <3> QED BY <1>1, <2>2, <3>1 DEF t
  <2> QED BY <2>6, <2>7, <2>8 DEF t
<1>5. ASSUME s # <<>> PROVE ToSet(s) = ToSet(Tail(s)) \cup {Head(s)}
  <2> DEFINE t == Tail(s)
  <2>1. /\ t \in Seq(S) /\ Len(t) = Len(s) - 1 /\ Len(s) \in Nat \ {0}
        /\ \A i \in 1 .. (Len(s) - 1) : t[i] = s[i + 1]
        /\ Head(s) = s[1]
    BY <1>5, HeadTailProperties, EmptySeq
  <2> HIDE DEF t
  <2>2. ASSUME NEW x, x \in ToSet(s) PROVE x \in ToSet(t) \cup {Head(s)}
    <3>1. PICK i \in 1 .. Len(s) : x = s[i]
      BY <1>1, <2>2
    <3>2. CASE i = 1
      BY <2>1, <3>1, <3>2
    <3>3. CASE i # 1
      <4>1. i - 1 \in 1 .. Len(t) /\ x = t[i - 1]
        BY <2>1, <3>1, <3>3
      <4> QED BY <1>1, <2>1, <4>1
    <3> QED BY <3>2, <3>3
  <2>3. ASSUME NEW x, x \in ToSet(t) PROVE x \in ToSet(s)
    <3>1. PICK i \in 1 .. (Len(s) - 1) : x = t[i]
      BY <1>1, <2>1, <2>3
    <3>2. i + 1 \in 1 .. Len(s) /\ x = s[i + 1]
      BY <2>1, <3>1
    <3> QED BY <1>1, <3>2
  <2>4. Head(s) \in ToSet(s)
    BY <2>1, <1>2
  <2> QED BY <2>2, <2>3, <2>4 DEF t
<1>6. ASSUME NEW i \in 1 .. Len(s) PROVE ToSet(s) = ToSet(RemoveAt(s, i)) \cup {s[i]}
  <2>1. /\ RemoveAt(s, i) \in Seq(S) /\ Len(RemoveAt(s, i)) = Len(s) - 1 /\ Len(s) \in Nat
        /\ \A j \in 1 .. (Len(s) - 1) : RemoveAt(s, i)[j] = IF j < i THEN s[j] ELSE s[j + 1]
    BY RemoveAtFacts, LenProperties
  <2>2. \A j \in 1 .. Len(s) :
           \/ j = i
           \/ j < i /\ j \in 1 .. (Len(s) - 1) /\ RemoveAt(s, i)[j] = s[j]
           \/ j > i /\ j - 1 \in 1 .. (Len(s) - 1) /\ RemoveAt(s, i)[j - 1] = s[j]
    BY <2>1
  <2>3. \A j \in 1 .. (Len(s) - 1) :
           j \in 1 .. Len(s) /\ j + 1 \in 1 .. Len(s) /\ RemoveAt(s, i)[j] \in {s[j], s[j + 1]}
    BY <2>1
  <2> DEFINE t == RemoveAt(s, i)
  <2> HIDE DEF t
  <2>4. ASSUME NEW x, x \in ToSet(s) PROVE x \in ToSet(t) \cup {s[i]}
    <3>1. PICK j \in 1 .. Len(s) : x = s[j]
      BY <1>1, <2>4
    <3>2. CASE j = i
      BY <3>1, <3>2
    <3>3. CASE j < i
      BY <1>1, <2>1, <2>2, <3>1, <3>3 DEF t
    <3>4. CASE j > i
      BY <1>1, <2>1, <2>2, <3>1, <3>4 DEF t
    <3> QED BY <2>1, <3>2, <3>3, <3>4
  <2>5. ASSUME NEW x, x \in ToSet(t) PROVE x \in ToSet(s)
    <3>1. PICK j \in 1 .. (Len(s) - 1) : x = t[j]
      BY <1>1, <2>1, <2>5 DEF t
    <3> QED BY <1>1, <2>3, <3>1 DEF t
  <2> QED BY <1>2, <2>4, <2>5 DEF t
<1> QED BY <1>2, <1>3, <1>4, <1>5, <1>6

\* Min is the least number of a set.
LEMMA MinFacts ==
    ASSUME NEW T \in SUBSET Nat, T # {}
    PROVE  Min(T) \in T /\ \A k \in T : Min(T) <= k
BY LeastExists DEF Min

\* No value occurs twice.
Distinct(s) == \A i, j \in 1 .. Len(s) : s[i] = s[j] => i = j

\* RemoveFirst is RemoveAt the first place at which the value is found.
LEMMA RemoveFirstAt ==
    ASSUME NEW S, NEW s \in Seq(S), NEW e
    PROVE  \/ e \notin ToSet(s) /\ RemoveFirst(s, e) = s
           \/ \E i \in 1 .. Len(s) : /\ s[i] = e /\ RemoveFirst(s, e) = RemoveAt(s, i)
                                     /\ \A j \in 1 .. i - 1 : s[j] # e
<1>1. DOMAIN s = 1 .. Len(s) /\ Len(s) \in Nat
  BY LenProperties
<1>2. CASE ~\E i \in 1 .. Len(s) : s[i] = e
  BY <1>1, <1>2 DEF RemoveFirst, ToSet
<1>3. CASE \E i \in 1 .. Len(s) : s[i] = e
  <2> DEFINE I == {i \in 1 .. Len(s) : s[i] = e}
             first == Min(I)
  <2>1. I \in SUBSET Nat /\ I # {}
    BY <1>3
  <2>2. first \in I /\ \A k \in I : first <= k
    <3> HIDE DEF I
    <3> QED BY <2>1, MinFacts
  <2>3. SelectInSeq(s, LAMBDA v : v = e) = first
    BY <2>1 DEF SelectInSeq
  <2>4. RemoveFirst(s, e) = RemoveAt(s, SelectInSeq(s, LAMBDA v : v = e))
    BY <1>3 DEF RemoveFirst
  <2>5. RemoveFirst(s, e) = RemoveAt(s, first)
    <3> HIDE DEF first
    <3> QED BY <2>3, <2>4, Zenon
  <2> HIDE DEF first
  <2>6. first \in 1 .. Len(s) /\ s[first] = e /\ \A j \in 1 .. first - 1 : s[j] # e
    BY <2>2
  <2> QED BY <2>5, <2>6, Zenon
<1> QED BY <1>2, <1>3

\* Taking the first occurrence of a value out of a list.
LEMMA RemoveFirstFacts ==
    ASSUME NEW S, NEW s \in Seq(S), NEW e
    PROVE  /\ RemoveFirst(s, e) \in Seq(S)
           /\ ToSet(RemoveFirst(s, e)) \subseteq ToSet(s)
           /\ ToSet(s) \ {e} \subseteq ToSet(RemoveFirst(s, e))
           /\ Len(RemoveFirst(s, e)) = IF e \in ToSet(s) THEN Len(s) - 1 ELSE Len(s)
<1>1. CASE e \notin ToSet(s) /\ RemoveFirst(s, e) = s
  BY <1>1
<1>2. ASSUME NEW i \in 1 .. Len(s), s[i] = e, RemoveFirst(s, e) = RemoveAt(s, i)
      PROVE  /\ RemoveFirst(s, e) \in Seq(S)
             /\ ToSet(RemoveFirst(s, e)) \subseteq ToSet(s)
             /\ ToSet(s) \ {e} \subseteq ToSet(RemoveFirst(s, e))
             /\ Len(RemoveFirst(s, e)) = Len(s) - 1
             /\ e \in ToSet(s)
  <2> DEFINE t == RemoveAt(s, i)
  <2>1. ToSet(s) = ToSet(t) \cup {s[i]} /\ s[i] \in ToSet(s)
    BY ToSetFacts
  <2>2. t \in Seq(S) /\ Len(t) = Len(s) - 1
    BY RemoveAtFacts
  <2> HIDE DEF t
  <2> QED BY <1>2, <2>1, <2>2 DEF t
<1> QED BY <1>1, <1>2, RemoveFirstAt

\* In a list without duplicates it is the only occurrence.
LEMMA RemoveFirstDistinct ==
    ASSUME NEW S, NEW s \in Seq(S), NEW e, Distinct(s)
    PROVE  /\ Distinct(RemoveFirst(s, e))
           /\ ToSet(RemoveFirst(s, e)) = ToSet(s) \ {e}
<1>1. CASE e \notin ToSet(s) /\ RemoveFirst(s, e) = s
  BY <1>1
<1>2. ASSUME NEW i \in 1 .. Len(s), s[i] = e, RemoveFirst(s, e) = RemoveAt(s, i)
      PROVE  Distinct(RemoveFirst(s, e)) /\ e \notin ToSet(RemoveFirst(s, e))
  <2> DEFINE t == RemoveAt(s, i)
  <2>1. /\ t \in Seq(S) /\ Len(t) = Len(s) - 1 /\ Len(s) \in Nat
        /\ \A j \in 1 .. (Len(s) - 1) : t[j] = IF j < i THEN s[j] ELSE s[j + 1]
    BY RemoveAtFacts, LenProperties
  <2> HIDE DEF t
  <2>2. ASSUME NEW j \in 1 .. Len(t)
        PROVE  \E k \in 1 .. Len(s) : t[j] = s[k] /\ k # i /\ (k = j \/ k = j + 1) /\ (k = j <=> j < i)
    <3>1. j \in Nat /\ i \in Nat /\ j \in 1 .. Len(s) /\ j + 1 \in 1 .. Len(s)
      BY <2>1
    <3>2. CASE j < i
      <4>1. t[j] = s[j] /\ j # i
        BY <2>1, <3>1, <3>2
      <4> QED BY <3>1, <3>2, <4>1
    <3>3. CASE ~(j < i)
      <4>1. t[j] = s[j + 1] /\ j + 1 # i /\ j + 1 # j
        BY <2>1, <3>1, <3>3
      <4> QED BY <3>1, <3>3, <4>1
    <3> QED BY <3>2, <3>3
  <2>3. ASSUME NEW j \in 1 .. Len(t), NEW l \in 1 .. Len(t), t[j] = t[l] PROVE j = l
    <3>1. PICK k \in 1 .. Len(s) : t[j] = s[k] /\ k # i /\ (k = j \/ k = j + 1) /\ (k = j <=> j < i)
      BY <2>2
    <3>2. PICK m \in 1 .. Len(s) : t[l] = s[m] /\ m # i /\ (m = l \/ m = l + 1) /\ (m = l <=> l < i)
      BY <2>2
    <3>3. k = m
      BY <2>3, <3>1, <3>2 DEF Distinct
    <3> QED BY <3>1, <3>2, <3>3, <2>1
  <2>4. e \notin ToSet(t)
    <3>1. \A j \in 1 .. Len(t) : t[j] # e
      BY <1>2, <2>2 DEF Distinct
    <3>2. DOMAIN t = 1 .. Len(t)
      BY <2>1, LenProperties
    <3> QED BY <3>1, <3>2 DEF ToSet
  <2> QED BY <1>2, <2>3, <2>4 DEF Distinct, t
<1> QED BY <1>1, <1>2, RemoveFirstAt, RemoveFirstFacts

\* A list without duplicates has as many places as values.
LEMMA DistinctCardinality ==
    ASSUME NEW S, NEW s \in Seq(S), Distinct(s)
    PROVE  IsFiniteSet(ToSet(s)) /\ Cardinality(ToSet(s)) = Len(s)
<1>1. Len(s) \in Nat /\ DOMAIN s = 1 .. Len(s) /\ s \in [1 .. Len(s) -> S]
  BY LenProperties
<1>2. ToSet(s) = {s[i] : i \in 1 .. Len(s)}
  BY <1>1 DEF ToSet
<1>3. s \in Bijection(1 .. Len(s), ToSet(s))
  <2>1. s \in [1 .. Len(s) -> ToSet(s)]
    BY <1>1, <1>2
  <2>2. s \in Injection(1 .. Len(s), ToSet(s))
    BY <2>1 DEF Injection, IsInjective, Distinct
  <2>3. s \in Surjection(1 .. Len(s), ToSet(s))
    BY <2>1, <1>2 DEF Surjection
  <2> QED BY <2>2, <2>3 DEF Bijection
<1>4. IsFiniteSet(1 .. Len(s)) /\ Cardinality(1 .. Len(s)) = Len(s)
  BY <1>1, FS_Interval
<1> QED BY <1>1, <1>3, <1>4, FS_Bijection DEF ExistsBijection

\* The values of two lists put together.
LEMMA ConcatToSet ==
    ASSUME NEW S, NEW s \in Seq(S), NEW t \in Seq(S)
    PROVE  s \o t \in Seq(S) /\ ToSet(s \o t) = ToSet(s) \cup ToSet(t)
<1> DEFINE c == s \o t
<1>1. /\ c \in Seq(S) /\ Len(c) = Len(s) + Len(t)
      /\ \A i \in 1 .. Len(s) + Len(t) : c[i] = IF i <= Len(s) THEN s[i] ELSE t[i - Len(s)]
  BY ConcatProperties
<1>2. /\ Len(s) \in Nat /\ Len(t) \in Nat
      /\ DOMAIN s = 1 .. Len(s) /\ DOMAIN t = 1 .. Len(t) /\ DOMAIN c = 1 .. Len(c)
  BY <1>1, LenProperties
<1> HIDE DEF c
<1>3. ASSUME NEW i \in 1 .. Len(c) PROVE c[i] \in ToSet(s) \cup ToSet(t)
  <2>1. CASE i <= Len(s)
    BY <1>1, <1>2, <2>1 DEF ToSet
  <2>2. CASE ~(i <= Len(s))
    <3>1. i - Len(s) \in 1 .. Len(t) /\ c[i] = t[i - Len(s)]
      BY <1>1, <1>2, <2>2
    <3> QED BY <1>2, <3>1 DEF ToSet
  <2> QED BY <2>1, <2>2
<1>4. ASSUME NEW i \in 1 .. Len(s) PROVE s[i] \in ToSet(c)
  <2>1. i \in 1 .. Len(c) /\ c[i] = s[i]
    BY <1>1, <1>2
  <2> QED BY <1>2, <2>1 DEF ToSet
<1>5. ASSUME NEW i \in 1 .. Len(t) PROVE t[i] \in ToSet(c)
  <2>1. i + Len(s) \in 1 .. Len(c) /\ i + Len(s) - Len(s) = i /\ ~(i + Len(s) <= Len(s))
    BY <1>1, <1>2
  <2>2. c[i + Len(s)] = t[i]
    BY <1>1, <2>1
  <2> QED BY <1>2, <2>1, <2>2 DEF ToSet
<1>6. ToSet(c) = ToSet(s) \cup ToSet(t)
  BY <1>2, <1>3, <1>4, <1>5 DEF ToSet
<1> QED BY <1>1, <1>6 DEF c

\* f is the recursive function in FlattenSeq, for the first k lists.
Flattens(f, ss, k) == f = [i \in 1 .. k |-> IF i = 1 THEN ss[i] ELSE f[i - 1] \o ss[i]]

\* There is such a function, for however many lists.
LEMMA FlattenExists ==
    ASSUME NEW ss, NEW n \in Nat
    PROVE  \E f : Flattens(f, ss, n)
<1> DEFINE Bad == {k \in Nat : ~\E f : Flattens(f, ss, k)}
<1>1. SUFFICES ASSUME Bad # {} PROVE FALSE
  OBVIOUS
<1>2. PICK k \in Bad : \A m \in Bad : k <= m
  BY <1>1, LeastExists
<1>3. CASE k = 0
  <2> DEFINE f == [i \in 1 .. 0 |-> ss[i]]
  <2>1. f = [i \in 1 .. 0 |-> IF i = 1 THEN ss[i] ELSE f[i - 1] \o ss[i]]
    OBVIOUS
  <2> QED BY <1>2, <1>3, <2>1 DEF Flattens
<1>4. CASE k # 0
  <2>1. k - 1 \in Nat /\ k - 1 \notin Bad
    BY <1>2, <1>4
  <2>2. PICK f : Flattens(f, ss, k - 1)
    BY <2>1
  <2> DEFINE last == IF k = 1 THEN ss[k] ELSE f[k - 1] \o ss[k]
             g == [i \in 1 .. k |-> IF i = k THEN last ELSE f[i]]
  <2>3. ASSUME NEW i \in 1 .. k PROVE g[i] = IF i = 1 THEN ss[i] ELSE g[i - 1] \o ss[i]
    <3>1. CASE i = k
      <4>1. g[i] = last /\ (k # 1 => g[k - 1] = f[k - 1])
        BY <3>1, <1>2, <1>4
      <4> HIDE DEF g
      <4> QED BY <3>1, <4>1
    <3>2. CASE i # k
      <4>1. i \in 1 .. k - 1 /\ (i # 1 => i - 1 \in 1 .. k /\ i - 1 # k)
        BY <3>2, <1>2
      <4>2. g[i] = f[i] /\ (i # 1 => g[i - 1] = f[i - 1])
        BY <3>2, <4>1
      <4>3. f[i] = IF i = 1 THEN ss[i] ELSE f[i - 1] \o ss[i]
        BY <2>2, <4>1 DEF Flattens
      <4> HIDE DEF g
      <4> QED BY <4>2, <4>3
    <3> QED BY <3>1, <3>2
  <2> DEFINE h == [i \in 1 .. k |-> IF i = 1 THEN ss[i] ELSE g[i - 1] \o ss[i]]
  <2>4. g = h
    <3>1. \A i \in 1 .. k : g[i] = h[i]
      BY <2>3
    <3> QED BY <3>1
  <2> HIDE DEF g
  <2>5. Flattens(g, ss, k)
    BY <2>4 DEF Flattens
  <2> QED BY <2>5, <1>2
<1> QED BY <1>3, <1>4

\* FlattenSeq of lists over T is a list over T, of the values of all of them.
LEMMA FlattenSeqFacts ==
    ASSUME NEW T, NEW ss \in Seq(Seq(T))
    PROVE  /\ FlattenSeq(ss) \in Seq(T)
           /\ ToSet(FlattenSeq(ss)) = UNION {ToSet(ss[i]) : i \in 1 .. Len(ss)}
<1> DEFINE n == Len(ss)
           Before(k) == UNION {ToSet(ss[i]) : i \in 1 .. k}
<1>1. n \in Nat /\ \A i \in 1 .. n : ss[i] \in Seq(T)
  BY LenProperties, ElementOfSeq
<1>2. CASE n = 0
  <2>1. ss = <<>> /\ FlattenSeq(ss) = ss
    BY <1>2, EmptySeq DEF FlattenSeq
  <2>2. ToSet(ss) = {} /\ Before(n) = {}
    BY <1>2, <2>1 DEF ToSet
  <2>3. FlattenSeq(ss) = <<>> /\ <<>> \in Seq(T)
    BY <2>1
  <2> QED BY <2>2, <2>3, <2>1
<1>3. CASE n # 0
  <2> DEFINE flat == CHOOSE f : f = [i \in 1 .. n |-> IF i = 1 THEN ss[i] ELSE f[i - 1] \o ss[i]]
  <2>1. FlattenSeq(ss) = flat[n]
    BY <1>3 DEF FlattenSeq
  <2>2. flat = [i \in 1 .. n |-> IF i = 1 THEN ss[i] ELSE flat[i - 1] \o ss[i]]
    <3>1. \E f : f = [i \in 1 .. n |-> IF i = 1 THEN ss[i] ELSE f[i - 1] \o ss[i]]
      BY <1>1, FlattenExists DEF Flattens
    <3> QED BY <3>1, Zenon
  <2> HIDE DEF flat
  <2> DEFINE Good(k) == flat[k] \in Seq(T) /\ ToSet(flat[k]) = Before(k)
             Bad == {k \in 1 .. n : ~Good(k)}
  <2>3. ASSUME Bad # {} PROVE FALSE
    <3>1. PICK k \in Bad : \A m \in Bad : k <= m
      <4>1. Bad \subseteq Nat
        OBVIOUS
      <4> HIDE DEF Bad
      <4> QED BY <2>3, <4>1, LeastExists
    <3>2. CASE k = 1
      <4>1. flat[k] = ss[1] /\ Before(k) = ToSet(ss[1])
        BY <2>2, <3>1, <3>2
      <4> QED BY <1>1, <1>3, <3>1, <3>2, <4>1
    <3>3. CASE k # 1
      <4>1. k - 1 \in 1 .. n /\ Good(k - 1)
        <5>1. k - 1 \in 1 .. n /\ ~(k <= k - 1)
          BY <1>1, <3>1, <3>3
        <5> HIDE DEF Good
        <5> QED BY <3>1, <5>1
      <4>2. flat[k] = flat[k - 1] \o ss[k] /\ ss[k] \in Seq(T)
        BY <1>1, <2>2, <3>1, <3>3
      <4>3. flat[k] \in Seq(T) /\ ToSet(flat[k]) = ToSet(flat[k - 1]) \cup ToSet(ss[k])
        BY <4>1, <4>2, ConcatToSet
      <4>4. Before(k) = Before(k - 1) \cup ToSet(ss[k])
        <5>1. k \in Nat /\ 1 .. k = (1 .. k - 1) \cup {k}
          BY <3>1, <3>3
        <5> QED BY <5>1
      <4> QED BY <3>1, <4>1, <4>3, <4>4
    <3> QED BY <3>2, <3>3
  <2>4. Good(n)
    <3>1. n \in 1 .. n
      BY <1>1, <1>3
    <3> HIDE DEF Good
    <3> QED BY <2>3, <3>1
  <2> QED BY <2>1, <2>4
<1> QED BY <1>2, <1>3

\* A list without duplicates that a new value joins.
LEMMA DistinctAppend ==
    ASSUME NEW S, NEW s \in Seq(S), NEW e \in S, Distinct(s), e \notin ToSet(s)
    PROVE  Distinct(Append(s, e))
<1> DEFINE t == Append(s, e)
<1>1. /\ Len(t) = Len(s) + 1 /\ t[Len(s) + 1] = e
      /\ \A i \in 1 .. Len(s) : t[i] = s[i]
  BY AppendProperties
<1>2. Len(s) \in Nat /\ \A i \in 1 .. Len(s) : s[i] # e
  BY LenProperties DEF ToSet
<1> HIDE DEF t
<1>3. \A i \in 1 .. Len(t) : i \in 1 .. Len(s) \/ i = Len(s) + 1
  BY <1>1, <1>2
<1>4. ASSUME NEW i \in 1 .. Len(t), NEW j \in 1 .. Len(t), t[i] = t[j] PROVE i = j
  BY <1>1, <1>2, <1>3, <1>4 DEF Distinct
<1> QED BY <1>4 DEF Distinct, t

-----------------------------------------------------------------------------
\* Sums.  The folds of the community modules take the elements of a set in the
\* order of a CHOOSE; what they return does not depend on it.

Chosen(t) == CHOOSE x \in t : TRUE

\* g is the recursive function in MapThenFoldSet, for a sum of the weights w.
Sums(g, w, T) ==
    g = [t \in SUBSET T |-> IF t = {} THEN 0 ELSE w[Chosen(t)] + g[t \ {Chosen(t)}]]

\* g is the sum of the weights w over every subset of T, in whatever order.
SumOn(g, w, T) ==
    \A t \in SUBSET T :
        /\ g[t] \in Int
        /\ t = {} => g[t] = 0
        /\ \A y \in t : g[t] = w[y] + g[t \ {y}]

\* There is such a function, for every finite set.
LEMMA SumExists ==
    ASSUME NEW w, NEW T, IsFiniteSet(T)
    PROVE  \E g : Sums(g, w, T)
<1> DEFINE Step(g, t) == g[t] = IF t = {} THEN 0 ELSE w[Chosen(t)] + g[t \ {Chosen(t)}]
           UpTo(g, k) == \A t \in SUBSET T : Cardinality(t) <= k => Step(g, t)
           Bad == {k \in Nat : ~\E g : UpTo(g, k)}
<1>1. \A t \in SUBSET T : IsFiniteSet(t) /\ Cardinality(t) \in Nat
  BY FS_Subset, FS_CardinalityType
<1>2. ASSUME NEW t \in SUBSET T, t # {}
      PROVE  /\ Chosen(t) \in t /\ t \ {Chosen(t)} \in SUBSET T
             /\ Cardinality(t \ {Chosen(t)}) = Cardinality(t) - 1
  <2>1. Chosen(t) \in t
    BY <1>2 DEF Chosen
  <2> QED BY <1>1, <2>1, FS_RemoveElement
<1>3. ASSUME NEW k \in Bad, \A m \in Bad : k <= m PROVE FALSE
  <2>1. CASE k = 0
    <3> DEFINE g == [t \in SUBSET T |-> 0]
    <3>1. \A t \in SUBSET T : Cardinality(t) <= 0 => t = {}
      BY <1>1, FS_EmptySet
    <3>2. UpTo(g, 0)
      BY <3>1
    <3> QED BY <2>1, <3>2
  <2>2. CASE k # 0
    <3>1. k \in Nat /\ k - 1 \in Nat
      BY <2>2
    <3>2. PICK g : UpTo(g, k - 1)
      <4>1. k - 1 \notin Bad
        <5> HIDE DEF Bad
        <5> QED BY <1>3, <3>1
      <4> HIDE DEF UpTo
      <4> QED BY <3>1, <4>1
    <3> DEFINE h == [t \in SUBSET T |-> IF t = {} THEN 0 ELSE w[Chosen(t)] + g[t \ {Chosen(t)}]]
    <3>3. \A t \in SUBSET T : h[t] = IF t = {} THEN 0 ELSE w[Chosen(t)] + g[t \ {Chosen(t)}]
      OBVIOUS
    <3> HIDE DEF h
    <3>4. ASSUME NEW t \in SUBSET T, Cardinality(t) <= k - 1 PROVE h[t] = g[t]
      BY <3>2, <3>3, <3>4
    <3>5. ASSUME NEW t \in SUBSET T, Cardinality(t) <= k PROVE Step(h, t)
      <4>1. CASE t = {}
        BY <3>3, <4>1
      <4>2. CASE t # {}
        <5>1. t \ {Chosen(t)} \in SUBSET T /\ Cardinality(t \ {Chosen(t)}) <= k - 1
          BY <1>1, <1>2, <3>5, <4>2
        <5>2. h[t \ {Chosen(t)}] = g[t \ {Chosen(t)}]
          BY <3>4, <5>1
        <5> QED BY <3>3, <4>2, <5>2
      <4> QED BY <4>1, <4>2
    <3>6. UpTo(h, k)
      BY <3>5
    <3> HIDE DEF UpTo
    <3> QED BY <3>6
  <2> QED BY <2>1, <2>2
<1>4. \A k \in Nat : \E g : UpTo(g, k)
  <2>1. Bad = {}
    <3>1. Bad \subseteq Nat
      OBVIOUS
    <3> HIDE DEF Bad
    <3> QED BY <1>3, <3>1, LeastExists
  <2> HIDE DEF UpTo
  <2> QED BY <2>1
<1>5. PICK g : UpTo(g, Cardinality(T))
  <2>1. Cardinality(T) \in Nat
    BY FS_CardinalityType
  <2> HIDE DEF UpTo
  <2> QED BY <1>4, <2>1
<1>6. \A t \in SUBSET T : g[t] = IF t = {} THEN 0 ELSE w[Chosen(t)] + g[t \ {Chosen(t)}]
  BY <1>5, FS_Subset
<1> DEFINE h == [t \in SUBSET T |-> IF t = {} THEN 0 ELSE w[Chosen(t)] + g[t \ {Chosen(t)}]]
<1>7. \A t \in SUBSET T : h[t] = g[t]
  BY <1>6
<1>8. h = [t \in SUBSET T |-> IF t = {} THEN 0 ELSE w[Chosen(t)] + h[t \ {Chosen(t)}]]
  <2>1. \A t \in SUBSET T : t \ {Chosen(t)} \in SUBSET T
    OBVIOUS
  <2>2. \A t \in SUBSET T : h[t \ {Chosen(t)}] = g[t \ {Chosen(t)}]
    <3> HIDE DEF h
    <3> QED BY <1>7, <2>1
  <2>3. \A t \in SUBSET T : w[Chosen(t)] + h[t \ {Chosen(t)}] = w[Chosen(t)] + g[t \ {Chosen(t)}]
    <3> HIDE DEF h
    <3> QED BY <2>2
  <2> DEFINE r == [t \in SUBSET T |-> IF t = {} THEN 0 ELSE w[Chosen(t)] + h[t \ {Chosen(t)}]]
  <2>4. \A t \in SUBSET T : r[t] = h[t]
    <3>1. \A t \in SUBSET T : h[t] = IF t = {} THEN 0 ELSE w[Chosen(t)] + g[t \ {Chosen(t)}]
      OBVIOUS
    <3> HIDE DEF h
    <3>2. \A t \in SUBSET T : r[t] = IF t = {} THEN 0 ELSE w[Chosen(t)] + h[t \ {Chosen(t)}]
      OBVIOUS
    <3> HIDE DEF r
    <3> QED BY <2>3, <3>1, <3>2
  <2>5. DOMAIN r = SUBSET T /\ DOMAIN h = SUBSET T /\ h = [t \in SUBSET T |-> h[t]]
        /\ r = [t \in SUBSET T |-> r[t]]
    <3>1. h = [t \in SUBSET T |-> h[t]]
      OBVIOUS
    <3> HIDE DEF h
    <3>2. r = [t \in SUBSET T |-> r[t]]
      OBVIOUS
    <3> HIDE DEF r
    <3> QED BY <3>1, <3>2
  <2> HIDE DEF r, h
  <2>6. r = h
    BY <2>4, <2>5
  <2> QED BY <2>6 DEF r
<1> HIDE DEF h
<1>9. Sums(h, w, T)
  BY <1>8 DEF Sums
<1> QED BY <1>9

\* What holds of a set when it holds of its proper subsets holds of every finite set:
\* induction, with a set of sets for the predicate.
LEMMA SubsetInduction ==
    ASSUME NEW T, IsFiniteSet(T), NEW G,
           \A t \in SUBSET T : (\A u \in SUBSET t : u # t => u \in G) => t \in G
    PROVE  \A t \in SUBSET T : t \in G
<1> DEFINE Bad == {k \in Nat : \E t \in SUBSET T : Cardinality(t) = k /\ t \notin G}
<1>1. \A t \in SUBSET T : IsFiniteSet(t) /\ Cardinality(t) \in Nat
  BY FS_Subset, FS_CardinalityType
<1>2. ASSUME NEW k \in Bad, \A m \in Bad : k <= m PROVE FALSE
  <2>1. PICK t \in SUBSET T : Cardinality(t) = k /\ t \notin G
    OBVIOUS
  <2>2. PICK u \in SUBSET t : u # t /\ u \notin G
    BY <2>1
  <2>3. u \in SUBSET T /\ Cardinality(u) <= Cardinality(t) /\ Cardinality(u) # Cardinality(t)
    BY <1>1, <2>2, FS_Subset
  <2>4. Cardinality(u) \in Bad
    BY <1>1, <2>2, <2>3
  <2>5. k <= Cardinality(u)
    <3> HIDE DEF Bad
    <3> QED BY <1>2, <2>4
  <2> QED BY <1>1, <2>1, <2>3, <2>5
<1>3. Bad = {}
  <2>1. Bad \subseteq Nat
    OBVIOUS
  <2> HIDE DEF Bad
  <2> QED BY <1>2, <2>1, LeastExists
<1> QED BY <1>1, <1>3

\* The order does not matter.
LEMMA SumAnyOrder ==
    ASSUME NEW T, IsFiniteSet(T), NEW w, \A x \in T : w[x] \in Int, NEW g, Sums(g, w, T)
    PROVE  SumOn(g, w, T)
<1> DEFINE Good(t) == /\ g[t] \in Int
                      /\ t = {} => g[t] = 0
                      /\ \A y \in t : g[t] = w[y] + g[t \ {y}]
           G == {t \in SUBSET T : Good(t)}
<1>1. \A t \in SUBSET T : g[t] = IF t = {} THEN 0 ELSE w[Chosen(t)] + g[t \ {Chosen(t)}]
  BY DEF Sums
<1>2. ASSUME NEW t \in SUBSET T, \A u \in SUBSET t : u # t => u \in G PROVE t \in G
  <2>1. CASE t = {}
    <3>1. g[t] = 0 /\ ~\E y : y \in t
      BY <1>1, <2>1
    <3> QED BY <3>1
  <2>2. CASE t # {}
    <3>1. \A u \in SUBSET t : u # t => Good(u)
      <4> HIDE DEF Good
      <4> QED BY <1>2
    <3>2. PICK x \in t : g[t] = w[x] + g[t \ {x}]
      BY <1>1, <2>2 DEF Chosen
    <3>3. t \ {x} \in SUBSET t /\ t \ {x} # t
      OBVIOUS
    <3>4. Good(t \ {x})
      BY <3>1, <3>3
    <3>5. g[t] \in Int
      BY <3>2, <3>4
    <3>6. ASSUME NEW y \in t PROVE g[t] = w[y] + g[t \ {y}]
      <4>1. CASE y = x
        BY <3>2, <4>1
      <4>2. CASE y # x
        <5> DEFINE u == (t \ {x}) \ {y}
        <5>1. y \in t \ {x} /\ x \in t \ {y} /\ u = (t \ {y}) \ {x}
          BY <4>2
        <5>2. t \ {y} \in SUBSET t /\ t \ {y} # t /\ u \in SUBSET t /\ u # t
          OBVIOUS
        <5>3. g[t \ {x}] = w[y] + g[u]
          BY <3>4, <5>1
        <5> HIDE DEF u
        <5>4. g[t \ {y}] = w[x] + g[u]
          BY <3>1, <5>1, <5>2
        <5>5. w[x] \in Int /\ w[y] \in Int /\ g[u] \in Int
          BY <3>1, <5>2
        <5> QED BY <3>2, <5>3, <5>4, <5>5
      <4> QED BY <4>1, <4>2
    <3> QED BY <2>2, <3>5, <3>6
  <2> QED BY <2>1, <2>2
<1> HIDE DEF G
<1>3. \A t \in SUBSET T : t \in G
  BY <1>2, SubsetInduction
<1> QED BY <1>3 DEF SumOn, G

\* A sum is the same when its terms are numbered differently.
LEMMA SumImage ==
    ASSUME NEW T, IsFiniteSet(T), NEW S, NEW w, NEW v, NEW g, NEW h,
           NEW f \in [T -> S], \A x, y \in T : f[x] = f[y] => x = y,
           \A x \in T : w[x] \in Int /\ w[x] = v[f[x]],
           SumOn(g, w, T), SumOn(h, v, S)
    PROVE  \A t \in SUBSET T : g[t] = h[{f[x] : x \in t}]
<1> DEFINE G == {t \in SUBSET T : g[t] = h[{f[x] : x \in t}]}
<1>1. ASSUME NEW t \in SUBSET T, \A u \in SUBSET t : u # t => u \in G PROVE t \in G
  <2>1. CASE t = {}
    <3>1. {f[x] : x \in t} = {}
      BY <2>1
    <3>2. g[t] = 0
      BY <2>1 DEF SumOn
    <3>3. h[{}] = 0
      BY DEF SumOn
    <3> QED BY <3>1, <3>2, <3>3
  <2>2. CASE t # {}
    <3>1. PICK x \in t : TRUE
      BY <2>2
    <3> DEFINE u == t \ {x}
               fu == {f[y] : y \in u}
               ft == {f[y] : y \in t}
    <3>2. u \in SUBSET t /\ u # t
      OBVIOUS
    <3>3. g[u] = h[fu]
      BY <1>1, <3>2
    <3>4. ft \in SUBSET S /\ f[x] \in ft /\ ft \ {f[x]} = fu
      OBVIOUS
    <3>5. g[t] = w[x] + g[u]
      BY DEF SumOn
    <3> HIDE DEF u, fu, ft
    <3>6. h[ft] = v[f[x]] + h[fu]
      BY <3>4 DEF SumOn
    <3> QED BY <3>3, <3>5, <3>6 DEF ft
  <2> QED BY <2>1, <2>2
<1>2. \A t \in SUBSET T : t \in G
  <2> HIDE DEF G
  <2> QED BY <1>1, SubsetInduction
<1> QED BY <1>2

\* A sum of larger terms is larger.
LEMMA SumMonotone ==
    ASSUME NEW T, IsFiniteSet(T), NEW w, NEW v, NEW g, NEW h,
           \A x \in T : w[x] \in Int /\ v[x] \in Int,
           SumOn(g, w, T), SumOn(h, v, T)
    PROVE  \A t \in SUBSET T : (\A x \in t : w[x] <= v[x]) => g[t] <= h[t]
<1> DEFINE G == {t \in SUBSET T : (\A x \in t : w[x] <= v[x]) => g[t] <= h[t]}
<1>1. ASSUME NEW t \in SUBSET T, \A u \in SUBSET t : u # t => u \in G PROVE t \in G
  <2>1. CASE t = {}
    BY <2>1 DEF SumOn
  <2>2. CASE t # {}
    <3>1. PICK x \in t : TRUE
      BY <2>2
    <3> DEFINE u == t \ {x}
    <3>2. u \in SUBSET t /\ u # t /\ u \in SUBSET T
      OBVIOUS
    <3>3. (\A y \in u : w[y] <= v[y]) => g[u] <= h[u]
      BY <1>1, <3>2
    <3>4. g[t] = w[x] + g[u] /\ h[t] = v[x] + h[u]
      BY DEF SumOn
    <3>5. g[u] \in Int /\ h[u] \in Int
      BY <3>2 DEF SumOn
    <3> QED BY <3>3, <3>4, <3>5
  <2> QED BY <2>1, <2>2
<1>2. \A t \in SUBSET T : t \in G
  <2> HIDE DEF G
  <2> QED BY <1>1, SubsetInduction
<1> QED BY <1>2

\* A sum of natural numbers is one.
LEMMA SumNatural ==
    ASSUME NEW T, IsFiniteSet(T), NEW w, NEW g, \A x \in T : w[x] \in Nat, SumOn(g, w, T)
    PROVE  \A t \in SUBSET T : g[t] \in Nat
<1> DEFINE zero == [x \in T |-> 0]
           none == [t \in SUBSET T |-> 0]
<1>1. SumOn(none, zero, T)
  BY DEF SumOn
<1>2. \A x \in T : zero[x] = 0
  OBVIOUS
<1>3. \A t \in SUBSET T : none[t] = 0 /\ g[t] \in Int
  BY DEF SumOn
<1> HIDE DEF zero, none
<1>4. \A t \in SUBSET T : none[t] <= g[t]
  BY <1>1, <1>2, SumMonotone
<1> QED BY <1>3, <1>4

\* A sum is the sum of two parts.
LEMMA SumSplit ==
    ASSUME NEW T, IsFiniteSet(T), NEW w, NEW g, \A x \in T : w[x] \in Int, SumOn(g, w, T),
           NEW a \in SUBSET T
    PROVE  \A t \in SUBSET a : g[a] = g[t] + g[a \ t]
<1> DEFINE G == {t \in SUBSET a : g[a] = g[t] + g[a \ t]}
<1>1. IsFiniteSet(a)
  BY FS_Subset
<1>2. ASSUME NEW t \in SUBSET a, \A u \in SUBSET t : u # t => u \in G PROVE t \in G
  <2>1. CASE t = {}
    <3> DEFINE b == a \ t
    <3>1. b = a /\ g[t] = 0 /\ g[a] \in Int
      BY <2>1 DEF SumOn
    <3> HIDE DEF b
    <3>2. g[a] = g[t] + g[b]
      BY <3>1
    <3> QED BY <3>2 DEF b
  <2>2. CASE t # {}
    <3>1. PICK x \in t : TRUE
      BY <2>2
    <3> DEFINE u == t \ {x}
    <3>2. u \in SUBSET t /\ u # t /\ u \in SUBSET T /\ a \ u \in SUBSET T /\ a \ t \in SUBSET T
          /\ x \in a \ u /\ (a \ u) \ {x} = a \ t
      OBVIOUS
    <3>3. g[a] = g[u] + g[a \ u]
      BY <1>2, <3>2
    <3>4. g[t] = w[x] + g[u]
      BY DEF SumOn
    <3> HIDE DEF u
    <3>5. g[a \ u] = w[x] + g[a \ t]
      BY <3>2 DEF SumOn
    <3>6. g[u] \in Int /\ g[a \ t] \in Int /\ w[x] \in Int
      BY <3>2 DEF SumOn
    <3> QED BY <3>3, <3>4, <3>5, <3>6
  <2> QED BY <2>1, <2>2
<1>3. \A t \in SUBSET a : t \in G
  <2> HIDE DEF G
  <2> QED BY <1>1, <1>2, SubsetInduction
<1> QED BY <1>3

\* A factor of all terms is one of the sum.
LEMMA SumScaled ==
    ASSUME NEW T, IsFiniteSet(T), NEW w, NEW v, NEW g, NEW h, NEW c \in Int,
           \A x \in T : w[x] \in Int /\ v[x] = c * w[x],
           SumOn(g, w, T), SumOn(h, v, T)
    PROVE  \A t \in SUBSET T : h[t] = c * g[t]
<1> DEFINE G == {t \in SUBSET T : h[t] = c * g[t]}
<1>1. ASSUME NEW t \in SUBSET T, \A u \in SUBSET t : u # t => u \in G PROVE t \in G
  <2>1. CASE t = {}
    <3>1. h[t] = 0 /\ g[t] = 0
      BY <2>1 DEF SumOn
    <3> QED BY <3>1
  <2>2. CASE t # {}
    <3>1. PICK x \in t : TRUE
      BY <2>2
    <3> DEFINE u == t \ {x}
    <3>2. u \in SUBSET t /\ u # t /\ u \in SUBSET T
      OBVIOUS
    <3>3. h[u] = c * g[u]
      BY <1>1, <3>2
    <3>4. g[t] = w[x] + g[u] /\ h[t] = v[x] + h[u]
      BY DEF SumOn
    <3>5. g[u] \in Int /\ w[x] \in Int /\ v[x] = c * w[x]
      BY <3>2 DEF SumOn
    <3>6. c * (w[x] + g[u]) = c * w[x] + c * g[u]
      BY <3>5
    <3> QED BY <3>3, <3>4, <3>5, <3>6
  <2> QED BY <2>1, <2>2
<1>2. \A t \in SUBSET T : t \in G
  <2> HIDE DEF G
  <2> QED BY <1>1, SubsetInduction
<1> QED BY <1>2

\* Every finite set has its sum.
LEMMA SumFor ==
    ASSUME NEW T, IsFiniteSet(T), NEW w, \A x \in T : w[x] \in Int
    PROVE  \E g : SumOn(g, w, T)
<1>1. PICK g : Sums(g, w, T)
  BY SumExists
<1> QED BY <1>1, SumAnyOrder

\* There is one sum.
LEMMA SumUnique ==
    ASSUME NEW T, IsFiniteSet(T), NEW w, NEW v, NEW g, NEW h,
           \A x \in T : w[x] \in Int /\ v[x] = w[x],
           SumOn(g, w, T), SumOn(h, v, T)
    PROVE  \A t \in SUBSET T : g[t] = h[t]
<1>1. \A x \in T : v[x] \in Int /\ v[x] <= w[x] /\ w[x] <= v[x]
  OBVIOUS
<1>2. \A t \in SUBSET T : g[t] <= h[t]
  BY <1>1, SumMonotone
<1>3. \A t \in SUBSET T : h[t] <= g[t]
  BY <1>1, SumMonotone
<1>4. \A t \in SUBSET T : g[t] \in Int /\ h[t] \in Int
  BY DEF SumOn
<1> QED BY <1>2, <1>3, <1>4

\* A sum of terms that are all greater is greater, if there are any.
LEMMA SumStrict ==
    ASSUME NEW T, IsFiniteSet(T), NEW w, NEW v, NEW g, NEW h,
           \A x \in T : w[x] \in Int /\ v[x] \in Int,
           SumOn(g, w, T), SumOn(h, v, T)
    PROVE  \A t \in SUBSET T : t # {} /\ (\A x \in t : w[x] < v[x]) => g[t] < h[t]
<1> SUFFICES ASSUME NEW t \in SUBSET T, t # {}, \A x \in t : w[x] < v[x]
             PROVE  g[t] < h[t]
  OBVIOUS
<1>1. PICK x \in t : TRUE
  OBVIOUS
<1> DEFINE u == t \ {x}
<1>2. u \in SUBSET T /\ \A y \in u : w[y] <= v[y]
  OBVIOUS
<1>3. g[t] = w[x] + g[u] /\ h[t] = v[x] + h[u]
  BY DEF SumOn
<1> HIDE DEF u
<1>4. g[u] <= h[u]
  BY <1>2, SumMonotone
<1>5. g[u] \in Int /\ h[u] \in Int
  BY <1>2 DEF SumOn
<1> QED BY <1>3, <1>4, <1>5
==============================================================================
