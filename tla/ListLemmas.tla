----------------------------- MODULE ListLemmas -----------------------------
(***************************************************************************)
(* Sequences as linked lists without duplicates: what appending, putting   *)
(* in front, inserting, unlinking and taking the first element do to the   *)
(* members of a list; and that a set of numbers has a smallest one.        *)
(***************************************************************************)
EXTENDS Lists, SequenceTheorems, WellFoundedInduction, TLAPS

\* A set of numbers that is not empty has a smallest one.
LEMMA SmallestOf ==
  ASSUME NEW N \in SUBSET Nat, N # {}
  PROVE  \E n \in N : \A m \in N : n <= m
<1>1. \A q, p \in Nat : <<q, p>> \in OpToRel(<, Nat) <=> q < p
  BY DEF OpToRel
<1>2. \E n \in N : \A m \in N : <<m, n>> \notin OpToRel(<, Nat)
  BY NatLessThanWellFounded, WFMin
<1>3. \E n \in N : \A m \in N : ~(m < n)
  BY <1>1, <1>2
<1> QED BY <1>3

\* Members and injectivity of a sequence in terms of its indices.
LEMMA SeqViews ==
  ASSUME NEW S, NEW s \in Seq(S)
  PROVE  /\ Len(s) \in Nat
         /\ DOMAIN s = 1 .. Len(s)
         /\ \A x : x \in ToSet(s) <=> \E i \in 1 .. Len(s) : s[i] = x
         /\ IsInjective(s) <=> \A a, b \in 1 .. Len(s) : s[a] = s[b] => a = b
<1>1. Len(s) \in Nat /\ DOMAIN s = 1 .. Len(s)
  BY LenProperties
<1>2. \A x : x \in ToSet(s) <=> \E i \in 1 .. Len(s) : s[i] = x
  BY <1>1 DEF ToSet
<1>3. IsInjective(s) <=> \A a, b \in 1 .. Len(s) : s[a] = s[b] => a = b
  BY <1>1 DEF IsInjective
<1> QED BY <1>1, <1>2, <1>3

\* Appending a new element keeps a list free of duplicates.
LEMMA AppendProps ==
  ASSUME NEW S, NEW s \in Seq(S), IsInjective(s), NEW t \in S, t \notin ToSet(s)
  PROVE  /\ Append(s, t) \in Seq(S)
         /\ IsInjective(Append(s, t))
         /\ ToSet(Append(s, t)) = ToSet(s) \cup {t}
<1>0. DOMAIN s = 1 .. Len(s) /\ Len(s) \in Nat
  BY LenProperties
<1> DEFINE r == Append(s, t)
<1>1. /\ r \in Seq(S) /\ DOMAIN r = 1 .. Len(s) + 1
      /\ \A j \in 1 .. Len(s) : r[j] = s[j]
      /\ r[Len(s) + 1] = t
  BY AppendProperties, <1>0
<1> HIDE DEF r
<1>2. IsInjective(r)
  BY <1>0, <1>1 DEF IsInjective, ToSet
<1>3. ToSet(r) = ToSet(s) \cup {t}
  BY <1>0, <1>1 DEF ToSet
<1> QED BY <1>1, <1>2, <1>3 DEF r

\* Putting a new element in front keeps a list free of duplicates.
LEMMA ConsProps ==
  ASSUME NEW S, NEW s \in Seq(S), IsInjective(s), NEW t \in S, t \notin ToSet(s)
  PROVE  /\ Cons(t, s) \in Seq(S)
         /\ IsInjective(Cons(t, s))
         /\ ToSet(Cons(t, s)) = ToSet(s) \cup {t}
<1>0. DOMAIN s = 1 .. Len(s) /\ Len(s) \in Nat
  BY LenProperties
<1> DEFINE r == Cons(t, s)
<1>1. /\ r \in Seq(S) /\ DOMAIN r = 1 .. Len(s) + 1
      /\ r[1] = t
      /\ \A j \in 1 .. Len(s) : r[j + 1] = s[j]
  BY <1>0 DEF Cons
<1> HIDE DEF r
<1>4. \A j \in 2 .. Len(s) + 1 : j - 1 \in 1 .. Len(s) /\ r[j] = s[j - 1]
  <2> SUFFICES ASSUME NEW j \in 2 .. Len(s) + 1
               PROVE  j - 1 \in 1 .. Len(s) /\ r[j] = s[j - 1]
    OBVIOUS
  <2>1. j - 1 \in 1 .. Len(s) /\ (j - 1) + 1 = j
    BY <1>0
  <2> QED BY <2>1, <1>1
<1>2. IsInjective(r)
  <2> SUFFICES ASSUME NEW a \in 1 .. Len(s) + 1, NEW b \in 1 .. Len(s) + 1, r[a] = r[b]
               PROVE  a = b
    BY <1>1 DEF IsInjective
  <2>1. \A j \in 2 .. Len(s) + 1 : r[j] \in ToSet(s)
    BY <1>0, <1>4 DEF ToSet
  <2>2. CASE a = 1 \/ b = 1
    BY <2>1, <2>2, <1>0, <1>1
  <2>3. CASE a # 1 /\ b # 1
    BY <2>3, <1>0, <1>4 DEF IsInjective
  <2> QED BY <2>2, <2>3
<1>3. ToSet(r) = ToSet(s) \cup {t}
  <2>1. \A x \in ToSet(r) : x \in ToSet(s) \cup {t}
    <3> SUFFICES ASSUME NEW x \in ToSet(r)
                 PROVE  x \in ToSet(s) \cup {t}
      OBVIOUS
    <3>1. PICK j \in 1 .. Len(s) + 1 : x = r[j]
      BY <1>1 DEF ToSet
    <3>2. CASE j = 1
      BY <3>1, <3>2, <1>1
    <3>3. CASE j # 1
      <4>1. j \in 2 .. Len(s) + 1
        BY <3>3, <1>0
      <4>2. j - 1 \in 1 .. Len(s) /\ x = s[j - 1]
        BY <4>1, <3>1, <1>4
      <4> QED BY <4>2, SeqViews
    <3> QED BY <3>2, <3>3
  <2>2. \A x \in ToSet(s) \cup {t} : x \in ToSet(r)
    <3>1. \A j \in 1 .. Len(s) : j + 1 \in DOMAIN r
      BY <1>0, <1>1
    <3>2. 1 \in DOMAIN r
      BY <1>0, <1>1
    <3> QED BY <1>0, <1>1, <3>1, <3>2 DEF ToSet
  <2> QED BY <2>1, <2>2
<1> QED BY <1>1, <1>2, <1>3 DEF r

\* A list is empty when it has no members; otherwise its head is one.
LEMMA EmptyToSet ==
  ASSUME NEW S, NEW s \in Seq(S)
  PROVE  /\ ToSet(s) = {} <=> s = <<>>
         /\ s # <<>> => Head(s) \in ToSet(s)
         /\ ToSet(s) \subseteq S
<1>1. CASE s = <<>>
  BY <1>1 DEF ToSet
<1>2. CASE s # <<>>
  <2>1. 1 \in 1 .. Len(s) /\ Head(s) = s[1]
    BY <1>2
  <2>2. Head(s) \in ToSet(s)
    BY <2>1, SeqViews
  <2>3. ToSet(s) \subseteq S
    BY SeqViews, ElementOfSeq
  <2> QED BY <2>2, <2>3, <1>2
<1> QED BY <1>1, <1>2

\* The list without its first thread.
LEMMA TailProps ==
  ASSUME NEW S, NEW s \in Seq(S), IsInjective(s), s # <<>>
  PROVE  /\ Tail(s) \in Seq(S) /\ IsInjective(Tail(s))
         /\ ToSet(Tail(s)) = ToSet(s) \ {Head(s)}
<1> DEFINE r == Tail(s)
<1>1. /\ Len(s) \in Nat /\ Len(s) >= 1 /\ DOMAIN s = 1 .. Len(s) /\ Head(s) = s[1]
      /\ r \in Seq(S) /\ Len(r) = Len(s) - 1 /\ \A i \in 1 .. Len(s) - 1 : r[i] = s[i + 1]
  BY LenProperties, HeadTailProperties
<1> HIDE DEF r
<1>2. \A a, b \in 1 .. Len(s) : s[a] = s[b] => a = b
  BY SeqViews
<1>3. IsInjective(r)
  <2> SUFFICES ASSUME NEW a \in 1 .. Len(r), NEW b \in 1 .. Len(r), r[a] = r[b]
               PROVE  a = b
    BY <1>1, SeqViews
  <2>1. a + 1 \in 1 .. Len(s) /\ b + 1 \in 1 .. Len(s) /\ s[a + 1] = s[b + 1]
    BY <1>1
  <2>2. a + 1 = b + 1
    BY <1>2, <2>1
  <2> QED BY <2>2, <1>1
<1>4. ASSUME NEW x \in ToSet(r) PROVE x \in ToSet(s) \ {Head(s)}
  <2>1. PICK i \in 1 .. Len(r) : r[i] = x
    BY <1>1, SeqViews
  <2>2. i + 1 \in 1 .. Len(s) /\ i + 1 # 1 /\ 1 \in 1 .. Len(s) /\ s[i + 1] = x
    BY <1>1, <2>1
  <2>3. x # s[1]
    BY <1>2, <2>2
  <2> QED BY <1>1, <2>2, <2>3, SeqViews
<1>5. ASSUME NEW x \in ToSet(s) \ {Head(s)} PROVE x \in ToSet(r)
  <2>1. PICK i \in 1 .. Len(s) : s[i] = x
    BY SeqViews
  <2>2. i # 1
    BY <1>1, <2>1
  <2>3. i - 1 \in 1 .. Len(r) /\ i - 1 + 1 = i
    BY <1>1, <2>2
  <2>4. r[i - 1] = x
    BY <1>1, <2>1, <2>3
  <2> QED BY <1>1, <2>3, <2>4, SeqViews
<1> QED BY <1>1, <1>3, <1>4, <1>5 DEF r

\* RemoveAt drops one element and keeps the order of the others.
LEMMA RemoveAtType ==
  ASSUME NEW S, NEW s \in Seq(S), NEW i \in 1 .. Len(s)
  PROVE  /\ RemoveAt(s, i) \in Seq(S)
         /\ Len(RemoveAt(s, i)) = Len(s) - 1
         /\ \A j \in 1 .. Len(s) - 1 : RemoveAt(s, i)[j] = IF j < i THEN s[j] ELSE s[j + 1]
<1>4. Len(s) \in Nat
  BY LenProperties
<1> DEFINE a == SubSeq(s, 1, i - 1)
           b == SubSeq(s, i + 1, Len(s))
<1>1. a \in Seq(S) /\ Len(a) = i - 1 /\ \A j \in 1 .. i - 1 : a[j] = s[j]
  OBVIOUS
<1>2. b \in Seq(S) /\ Len(b) = Len(s) - i /\ \A j \in 1 .. Len(s) - i : b[j] = s[i + j]
  OBVIOUS
<1>3. RemoveAt(s, i) = a \o b
  BY DEF RemoveAt
<1> HIDE DEF a, b
<1>5. a \o b \in Seq(S)
  BY <1>1, <1>2, ConcatProperties
<1>6. Len(a \o b) = Len(s) - 1
  <2>1. Len(a \o b) = Len(a) + Len(b)
    BY <1>1, <1>2, ConcatProperties
  <2> QED BY <2>1, <1>1, <1>2, <1>4
<1>7. ASSUME NEW j \in 1 .. Len(s) - 1
      PROVE  (a \o b)[j] = IF j < i THEN s[j] ELSE s[j + 1]
  <2>1. CASE j < i
    <3>1. (a \o b)[j] = a[j]
      BY <1>1, <1>2, <1>4, <2>1
    <3>2. j \in 1 .. i - 1
      BY <2>1, <1>4
    <3> QED BY <3>1, <3>2, <2>1, <1>1
  <2>2. CASE ~(j < i)
    <3>1. (a \o b)[j] = b[j - (i - 1)]
      BY <1>1, <1>2, <1>4, <2>2
    <3>2. j - (i - 1) \in 1 .. Len(s) - i
      BY <2>2, <1>4
    <3>3. b[j - (i - 1)] = s[i + (j - (i - 1))]
      BY <1>2, <3>2
    <3>4. i + (j - (i - 1)) = j + 1
      BY <1>4
    <3> QED BY <2>2, <3>1, <3>3, <3>4
  <2> QED BY <2>1, <2>2
<1> QED BY <1>3, <1>5, <1>6, <1>7

\* Unlink leaves a list without t alone and removes t at one place otherwise.
LEMMA UnlinkCases ==
  ASSUME NEW S, NEW s \in Seq(S), NEW t
  PROVE  \/ /\ \A i \in 1 .. Len(s) : s[i] # t
            /\ Unlink(s, t) = s
         \/ \E i \in 1 .. Len(s) : s[i] = t /\ Unlink(s, t) = RemoveAt(s, i)
<1>0. DOMAIN s = 1 .. Len(s)
  OBVIOUS
<1>1. CASE \A i \in DOMAIN s : s[i] # t
  BY <1>0, <1>1 DEF Unlink
<1>2. CASE \E i \in DOMAIN s : s[i] = t
  <2> DEFINE n == CHOOSE i \in DOMAIN s : s[i] = t
  <2>1. n \in DOMAIN s /\ s[n] = t
    BY <1>2
  <2>2. Unlink(s, t) = RemoveAt(s, n)
    BY <1>2 DEF Unlink
  <2> HIDE DEF n
  <2> QED BY <2>1, <2>2, <1>0
<1> QED BY <1>1, <1>2

\* Unlink of a sequence over S is a sequence over S.
LEMMA UnlinkType ==
  ASSUME NEW S, NEW s \in Seq(S), NEW t
  PROVE  Unlink(s, t) \in Seq(S)
BY UnlinkCases, RemoveAtType

\* Unlink removes t from a list without duplicates and nothing else.
LEMMA UnlinkProperties ==
  ASSUME NEW S, NEW s \in Seq(S), IsInjective(s), NEW t
  PROVE  /\ Unlink(s, t) \in Seq(S)
         /\ IsInjective(Unlink(s, t))
         /\ ToSet(Unlink(s, t)) = ToSet(s) \ {t}
<1>0. DOMAIN s = 1 .. Len(s) /\ Len(s) \in Nat
  BY LenProperties
<1>1. CASE Unlink(s, t) = s /\ \A i \in 1 .. Len(s) : s[i] # t
  BY <1>0, <1>1 DEF ToSet
<1>2. CASE \E i \in 1 .. Len(s) : s[i] = t /\ Unlink(s, t) = RemoveAt(s, i)
  <2>1. PICK i \in 1 .. Len(s) : s[i] = t /\ Unlink(s, t) = RemoveAt(s, i)
    BY <1>2
  <2> DEFINE r == Unlink(s, t)
  <2>2. /\ r \in Seq(S)
        /\ Len(r) = Len(s) - 1
        /\ \A j \in 1 .. Len(s) - 1 : r[j] = IF j < i THEN s[j] ELSE s[j + 1]
    BY <2>1, RemoveAtType
  <2>3. DOMAIN r = 1 .. Len(s) - 1
    BY <2>2, LenProperties
  <2> HIDE DEF r
  <2>0. \A a, b \in 1 .. Len(s) : s[a] = s[b] => a = b
    BY SeqViews
  <2>4. IsInjective(r)
    <3> SUFFICES ASSUME NEW a \in 1 .. Len(r), NEW b \in 1 .. Len(r), r[a] = r[b]
                 PROVE  a = b
      BY <2>2, SeqViews
    <3>1. a \in 1 .. Len(s) /\ a + 1 \in 1 .. Len(s) /\ b \in 1 .. Len(s) /\ b + 1 \in 1 .. Len(s)
      BY <1>0, <2>2
    <3>2. r[a] = (IF a < i THEN s[a] ELSE s[a + 1]) /\ r[b] = (IF b < i THEN s[b] ELSE s[b + 1])
      BY <2>2
    <3>3. CASE a < i /\ b < i
      BY <3>1, <3>2, <3>3, <2>0
    <3>4. CASE a < i /\ ~(b < i)
      <4>1. s[a] = s[b + 1]
        BY <3>2, <3>4
      <4>2. a = b + 1
        BY <4>1, <3>1, <2>0
      <4> QED BY <4>2, <3>4
    <3>5. CASE ~(a < i) /\ b < i
      <4>1. s[a + 1] = s[b]
        BY <3>2, <3>5
      <4>2. a + 1 = b
        BY <4>1, <3>1, <2>0
      <4> QED BY <4>2, <3>5
    <3>6. CASE ~(a < i) /\ ~(b < i)
      <4>1. s[a + 1] = s[b + 1]
        BY <3>2, <3>6
      <4>2. a + 1 = b + 1
        BY <4>1, <3>1, <2>0
      <4> QED BY <4>2
    <3> QED BY <3>3, <3>4, <3>5, <3>6
  <2>5. ASSUME NEW x \in ToSet(r)
        PROVE  x \in ToSet(s) \ {t}
    <3>1. PICK j \in 1 .. Len(s) - 1 : x = r[j]
      BY <2>3 DEF ToSet
    <3>2. j \in 1 .. Len(s) /\ j + 1 \in 1 .. Len(s)
      BY <1>0
    <3>3. PICK n \in 1 .. Len(s) : x = s[n] /\ n # i
      BY <3>1, <3>2, <2>2
    <3>4. x # t
      BY <3>3, <2>1, <2>0
    <3> QED BY <3>3, <3>4, SeqViews
  <2>6. ASSUME NEW x \in ToSet(s) \ {t}
        PROVE  x \in ToSet(r)
    <3>1. PICK j \in 1 .. Len(s) : x = s[j]
      BY <1>0 DEF ToSet
    <3>2. j # i
      BY <2>1, <3>1
    <3>3. CASE j < i
      <4>1. j \in 1 .. Len(s) - 1 /\ r[j] = x
        BY <3>1, <3>3, <2>2, <1>0
      <4> QED BY <4>1, <2>3 DEF ToSet
    <3>4. CASE j > i
      <4>1. j - 1 \in 1 .. Len(s) - 1 /\ r[j - 1] = x
        BY <3>1, <3>4, <2>2, <1>0
      <4> QED BY <4>1, <2>3 DEF ToSet
    <3> QED BY <3>2, <3>3, <3>4, <1>0
  <2> QED BY <2>2, <2>4, <2>5, <2>6 DEF r
<1> QED BY <1>1, <1>2, UnlinkCases

\* The element at a place of a list without duplicates is removed there.
LEMMA UnlinkAt ==
  ASSUME NEW S, NEW s \in Seq(S), IsInjective(s), NEW i \in 1 .. Len(s)
  PROVE  /\ Unlink(s, s[i]) = RemoveAt(s, i)
         /\ Len(RemoveAt(s, i)) = Len(s) - 1
         /\ \A j \in 1 .. Len(s) - 1 : RemoveAt(s, i)[j] = IF j < i THEN s[j] ELSE s[j + 1]
<1>1. PICK j \in 1 .. Len(s) : s[j] = s[i] /\ Unlink(s, s[i]) = RemoveAt(s, j)
  BY UnlinkCases
<1>2. j = i
  BY <1>1, SeqViews
<1> QED BY <1>1, <1>2, RemoveAtType

\* A list without t stays as it is.
LEMMA UnlinkAbsent ==
  ASSUME NEW S, NEW s \in Seq(S), NEW t, t \notin ToSet(s)
  PROVE  Unlink(s, t) = s
BY UnlinkCases, SeqViews

\* The first thread of a list leaves the others in their order.
LEMMA UnlinkHead ==
  ASSUME NEW S, NEW s \in Seq(S), IsInjective(s), s # <<>>
  PROVE  Unlink(s, Head(s)) = Tail(s)
<1>1. /\ Len(s) \in Nat /\ Len(s) >= 1 /\ Head(s) = s[1]
      /\ \A a, b \in 1 .. Len(s) : s[a] = s[b] => a = b
  BY SeqViews
<1>2. PICK i \in 1 .. Len(s) : s[i] = Head(s) /\ Unlink(s, Head(s)) = RemoveAt(s, i)
  BY <1>1, UnlinkCases
<1>3. i = 1
  BY <1>1, <1>2
<1>4. /\ RemoveAt(s, 1) \in Seq(S) /\ Len(RemoveAt(s, 1)) = Len(s) - 1
      /\ \A j \in 1 .. Len(s) - 1 : RemoveAt(s, 1)[j] = s[j + 1]
  BY <1>1, RemoveAtType
<1>5. /\ Tail(s) \in Seq(S) /\ Len(Tail(s)) = Len(s) - 1
      /\ \A j \in 1 .. Len(s) - 1 : Tail(s)[j] = s[j + 1]
  BY HeadTailProperties
<1>6. RemoveAt(s, 1) = Tail(s)
  BY <1>4, <1>5, SeqEqual
<1> QED BY <1>2, <1>3, <1>6

\* InsertAt puts one element at place n and keeps the order of the others.
LEMMA InsertAtType ==
  ASSUME NEW S, NEW s \in Seq(S), NEW n \in 1 .. Len(s) + 1, NEW e \in S
  PROVE  /\ InsertAt(s, n, e) \in Seq(S)
         /\ Len(InsertAt(s, n, e)) = Len(s) + 1
         /\ \A j \in 1 .. Len(s) + 1 :
              InsertAt(s, n, e)[j] = IF j < n THEN s[j] ELSE IF j = n THEN e ELSE s[j - 1]
<1>0. Len(s) \in Nat
  BY LenProperties
<1> DEFINE a == SubSeq(s, 1, n - 1)
           b == SubSeq(s, n, Len(s))
           m == a \o <<e>>
<1>1. a \in Seq(S) /\ Len(a) = n - 1 /\ \A j \in 1 .. n - 1 : a[j] = s[j]
  OBVIOUS
<1>2. b \in Seq(S) /\ Len(b) = Len(s) - n + 1 /\ \A j \in 1 .. Len(s) - n + 1 : b[j] = s[n + j - 1]
  BY <1>0
<1>3. InsertAt(s, n, e) = m \o b
  BY DEF InsertAt
<1> HIDE DEF a, b
<1>4. /\ m \in Seq(S) /\ Len(m) = n
      /\ \A j \in 1 .. n : m[j] = IF j < n THEN s[j] ELSE e
  <2>1. m \in Seq(S) /\ Len(m) = Len(a) + 1
    BY <1>1
  <2>2. \A j \in 1 .. n - 1 : m[j] = a[j]
    BY <1>1
  <2>3. m[n] = e
    BY <1>1
  <2> QED BY <2>1, <2>2, <2>3, <1>1
<1> HIDE DEF m
<1>5. /\ m \o b \in Seq(S)
      /\ Len(m \o b) = Len(m) + Len(b)
  BY <1>2, <1>4, ConcatProperties
<1>6. ASSUME NEW j \in 1 .. Len(s) + 1
      PROVE  (m \o b)[j] = IF j < n THEN s[j] ELSE IF j = n THEN e ELSE s[j - 1]
  <2>1. CASE j <= n
    <3>1. (m \o b)[j] = m[j]
      BY <2>1, <1>0, <1>2, <1>4
    <3> QED BY <2>1, <3>1, <1>4
  <2>2. CASE ~(j <= n)
    <3>1. (m \o b)[j] = b[j - n]
      BY <2>2, <1>0, <1>2, <1>4
    <3>2. j - n \in 1 .. Len(s) - n + 1 /\ n + (j - n) - 1 = j - 1
      BY <2>2, <1>0
    <3> QED BY <2>2, <3>1, <3>2, <1>2
  <2> QED BY <2>1, <2>2
<1> QED BY <1>0, <1>2, <1>3, <1>4, <1>5, <1>6

\* A new element of a list without duplicates.
LEMMA InsertAtProps ==
  ASSUME NEW S, NEW s \in Seq(S), IsInjective(s), NEW n \in 1 .. Len(s) + 1, NEW e \in S,
         e \notin ToSet(s)
  PROVE  /\ InsertAt(s, n, e) \in Seq(S) /\ IsInjective(InsertAt(s, n, e))
         /\ ToSet(InsertAt(s, n, e)) = ToSet(s) \cup {e}
<1> DEFINE r == InsertAt(s, n, e)
<1>1. /\ r \in Seq(S) /\ Len(r) = Len(s) + 1
      /\ \A j \in 1 .. Len(s) + 1 : r[j] = IF j < n THEN s[j] ELSE IF j = n THEN e ELSE s[j - 1]
  BY InsertAtType
<1> HIDE DEF r
<1>2. /\ Len(s) \in Nat /\ \A x : x \in ToSet(s) <=> \E i \in 1 .. Len(s) : s[i] = x
      /\ \A a, b \in 1 .. Len(s) : s[a] = s[b] => a = b
  BY SeqViews
<1>3. \A x : x \in ToSet(r) <=> \E i \in 1 .. Len(s) + 1 : r[i] = x
  BY <1>1, SeqViews
<1>4. IsInjective(r)
  <2>1. ASSUME NEW a \in 1 .. Len(s) + 1, NEW b \in 1 .. Len(s) + 1, r[a] = r[b] PROVE a = b
    <3>1. a # n => \E i \in 1 .. Len(s) : r[a] = s[i] /\ i = IF a < n THEN a ELSE a - 1
      BY <1>1, <1>2
    <3>2. b # n => \E i \in 1 .. Len(s) : r[b] = s[i] /\ i = IF b < n THEN b ELSE b - 1
      BY <1>1, <1>2
    <3>3. r[n] = e
      BY <1>1
    <3> QED BY <1>2, <2>1, <3>1, <3>2, <3>3
  <2> QED BY <1>1, <2>1, SeqViews
<1>5. ToSet(r) \subseteq ToSet(s) \cup {e}
  <2>1. ASSUME NEW x \in ToSet(r) PROVE x \in ToSet(s) \cup {e}
    <3>1. PICK j \in 1 .. Len(s) + 1 : r[j] = x
      BY <1>3
    <3>2. j # n => \E i \in 1 .. Len(s) : r[j] = s[i]
      BY <1>1, <1>2
    <3> QED BY <1>1, <1>2, <3>1, <3>2
  <2> QED BY <2>1
<1>6. ToSet(s) \cup {e} \subseteq ToSet(r)
  <2>1. e \in ToSet(r)
    <3>1. n \in 1 .. Len(s) + 1 /\ r[n] = e
      BY <1>1
    <3> QED BY <1>3, <3>1
  <2>2. ASSUME NEW x \in ToSet(s) PROVE x \in ToSet(r)
    <3>1. PICK i \in 1 .. Len(s) : s[i] = x
      BY <1>2
    <3>2. CASE i < n
      <4>1. i \in 1 .. Len(s) + 1 /\ r[i] = x
        BY <1>1, <1>2, <3>1, <3>2
      <4> QED BY <1>3, <4>1
    <3>3. CASE ~(i < n)
      <4>1. i + 1 \in 1 .. Len(s) + 1 /\ r[i + 1] = x
        BY <1>1, <1>2, <3>1, <3>3
      <4> QED BY <1>3, <4>1
    <3> QED BY <3>2, <3>3
  <2> QED BY <2>1, <2>2
<1> QED BY <1>1, <1>4, <1>5, <1>6 DEF r
=============================================================================
