----------------------------- MODULE ListLemmas -----------------------------
(***************************************************************************)
(* Facts that the proofs of several components need: the least element of  *)
(* a set of naturals, and what adding to and removing from a list without  *)
(* repetitions gives (the kernel's lists: an entry is on a list once).     *)
(***************************************************************************)
EXTENDS Integers, SequencesExt, TLAPS, FiniteSetTheorems, SequenceTheorems,
        WellFoundedInduction

LessThan == {ss \in Nat \X Nat : ss[1] < ss[2]}

\* The order of the naturals, as the relation WFMin is about, is well founded.
LEMMA LessThanWellFounded == IsWellFoundedOn(LessThan, Nat)
<1>1. OpToRel(<, Nat) = LessThan
  BY DEF OpToRel, LessThan
<1> QED BY <1>1, NatLessThanWellFounded, Zenon

\* A non-empty set of naturals has a least element, and Min is it.
LEMMA MinOfNaturals ==
  ASSUME NEW S \in SUBSET Nat, S # {}
  PROVE  Min(S) \in S /\ \A y \in S : Min(S) <= y
<1>1. PICK x \in S : \A y \in S : ~ (<<y, x>> \in LessThan)
  BY WFMin, LessThanWellFounded, Zenon
<1>2. ASSUME NEW y \in S, y < x PROVE FALSE
  <2>1. <<y, x>> \in LessThan
    BY <1>2 DEF LessThan
  <2> QED BY <1>1, <2>1
<1>3. \A y \in S : x <= y
  BY <1>2
<1> QED BY <1>3 DEF Min

\* Removing what a sequence does not hold changes nothing.
LEMMA RemoveFirstOut ==
  ASSUME NEW S, NEW s \in Seq(S), NEW e, \A i \in DOMAIN s : s[i] # e
  PROVE  RemoveFirst(s, e) = s
  BY DEF RemoveFirst

\* Removing an element drops one occurrence and moves the rest up.
LEMMA RemoveFirstIn ==
  ASSUME NEW S, NEW s \in Seq(S), NEW e, \E i \in DOMAIN s : s[i] = e
  PROVE \E m \in DOMAIN s :
     /\ s[m] = e
     /\ RemoveFirst(s, e) \in Seq(S)
     /\ Len(RemoveFirst(s, e)) = Len(s) - 1
     /\ \A i \in 1 .. Len(s) - 1 : RemoveFirst(s, e)[i] = s[IF i < m THEN i ELSE i + 1]
<1> DEFINE I == {i \in 1 .. Len(s) : s[i] = e}
           m == Min(I)
           a == SubSeq(s, 1, m - 1)
           b == SubSeq(s, m + 1, Len(s))
<1>1. I # {} /\ I \in SUBSET Nat
  OBVIOUS
<1>2. m \in I
  BY <1>1, MinOfNaturals
<1>3. SelectInSeq(s, LAMBDA v : v = e) = m
  BY <1>1 DEF SelectInSeq
<1>4. RemoveFirst(s, e) = a \o b
  BY <1>1, <1>3 DEF RemoveFirst, RemoveAt
<1> HIDE DEF m
<1>5. /\ a \in Seq(S) /\ Len(a) = m - 1
      /\ \A i \in 1 .. m - 1 : a[i] = s[i]
  BY <1>2, SubSeqProperties
<1>6. /\ b \in Seq(S) /\ Len(b) = Len(s) - m
      /\ \A i \in 1 .. Len(s) - m : b[i] = s[m + i]
  BY <1>2, SubSeqProperties
<1> HIDE DEF a, b
<1>7. /\ a \o b \in Seq(S)
      /\ Len(a \o b) = Len(s) - 1
      /\ \A i \in 1 .. Len(s) - 1 :
           (a \o b)[i] = IF i <= m - 1 THEN a[i] ELSE b[i - (m - 1)]
  <2>1. Len(a) + Len(b) = Len(s) - 1
    BY <1>2, <1>5, <1>6
  <2>2. /\ a \o b \in Seq(S)
        /\ Len(a \o b) = Len(a) + Len(b)
        /\ \A i \in 1 .. Len(a) + Len(b) : (a \o b)[i] =
                     IF i <= Len(a) THEN a[i] ELSE b[i - Len(a)]
    BY <1>5, <1>6, ConcatProperties
  <2> QED BY <2>1, <2>2, <1>5
<1>8. \A i \in 1 .. Len(s) - 1 : (a \o b)[i] = s[IF i < m THEN i ELSE i + 1]
  <2> SUFFICES ASSUME NEW i \in 1 .. Len(s) - 1
               PROVE (a \o b)[i] = s[IF i < m THEN i ELSE i + 1]
    OBVIOUS
  <2>1. CASE i < m
    BY <2>1, <1>2, <1>5, <1>7
  <2>2. CASE ~ (i < m)
    <3>1. i - (m - 1) \in 1 .. Len(s) - m /\ m + (i - (m-1)) = i + 1 /\ ~ (i <= m - 1)
      BY <2>2, <1>2
    <3> QED BY <2>2, <3>1, <1>6, <1>7
  <2> QED BY <2>1, <2>2
<1>9. m \in DOMAIN s /\ s[m] = e
  BY <1>2
<1> QED BY <1>4, <1>7, <1>8, <1>9

\* Appending a new element keeps a sequence without repetitions.
LEMMA AppendFresh ==
  ASSUME NEW S, NEW s \in Seq(S), IsInjective(s), NEW e \in S, e \notin ToSet(s)
  PROVE  /\ Append(s, e) # <<>>
         /\ IsInjective(Append(s, e))
         /\ ToSet(Append(s, e)) = ToSet(s) \cup {e}
<1> DEFINE a == Append(s, e)
           n == Len(s)
<1>1. /\ a \in Seq(S) /\ Len(a) = n + 1 /\ a[n + 1] = e
      /\ \A i \in 1 .. n : a[i] = s[i]
      /\ n \in Nat
  BY AppendProperties
<1>2. DOMAIN a = 1 .. n + 1 /\ DOMAIN s = 1 .. n
  BY <1>1
<1>3. \A i \in 1 .. n : s[i] # e
  BY <1>2 DEF ToSet
<1> HIDE DEF a
<1>4. a # <<>>
  BY <1>1
<1>5. IsInjective(a)
  <2> SUFFICES ASSUME NEW i \in DOMAIN a, NEW j \in DOMAIN a, a[i] = a[j]
               PROVE  i = j
    BY DEF IsInjective
  <2>1. CASE i \in 1 .. n /\ j \in 1 .. n
    BY <2>1, <1>1, <1>2 DEF IsInjective
  <2>2. CASE i = n + 1 \/ j = n + 1
    BY <2>2, <1>1, <1>2, <1>3
  <2> QED BY <2>1, <2>2, <1>1, <1>2
<1>6. ToSet(a) = ToSet(s) \cup {e}
  <2>1. \A x \in ToSet(a) : x \in ToSet(s) \cup {e}
    <3> SUFFICES ASSUME NEW i \in 1 .. n + 1 PROVE a[i] \in ToSet(s) \cup {e}
      BY <1>2 DEF ToSet
    <3> QED BY <1>1, <1>2 DEF ToSet
  <2>2. \A x \in ToSet(s) : x \in ToSet(a)
    <3> SUFFICES ASSUME NEW i \in 1 .. n PROVE s[i] \in ToSet(a)
      BY <1>2 DEF ToSet
    <3>1. i \in DOMAIN a /\ a[i] = s[i]
      BY <1>1, <1>2
    <3> QED BY <3>1 DEF ToSet
  <2>3. e \in ToSet(a)
    <3>1. n + 1 \in DOMAIN a
      BY <1>1, <1>2
    <3> QED BY <3>1, <1>1 DEF ToSet
  <2> QED BY <2>1, <2>2, <2>3
<1> QED BY <1>4, <1>5, <1>6 DEF a

\* In a sequence without repetitions RemoveFirst removes the element.
LEMMA RemoveOnce ==
  ASSUME NEW S, NEW s \in Seq(S), IsInjective(s), NEW e, e \in ToSet(s)
  PROVE  /\ RemoveFirst(s, e) \in Seq(S)
         /\ IsInjective(RemoveFirst(s, e))
         /\ ToSet(RemoveFirst(s, e)) = ToSet(s) \ {e}
<1> DEFINE r == RemoveFirst(s, e)
           n == Len(s)
<1>1. \E i \in DOMAIN s : s[i] = e
  BY DEF ToSet
<1>2. PICK m \in DOMAIN s :
        /\ s[m] = e /\ r \in Seq(S) /\ Len(r) = n - 1
        /\ \A i \in 1 .. n - 1 : r[i] = s[IF i < m THEN i ELSE i + 1]
  BY <1>1, RemoveFirstIn
<1> HIDE DEF r
<1>3. DOMAIN r = 1 .. n - 1 /\ DOMAIN s = 1 .. n /\ n \in Nat /\ m \in 1 .. n
  BY <1>2
<1>4. IsInjective(r)
  <2> SUFFICES ASSUME NEW i \in 1 .. n - 1, NEW j \in 1 .. n - 1, r[i] = r[j]
               PROVE  i = j
    BY <1>3 DEF IsInjective
  <2> DEFINE ii == IF i < m THEN i ELSE i + 1
             jj == IF j < m THEN j ELSE j + 1
  <2>1. ii \in DOMAIN s /\ jj \in DOMAIN s /\ s[ii] = s[jj]
    BY <1>2, <1>3
  <2>2. ii = jj
    BY <2>1 DEF IsInjective
  <2> QED BY <2>2, <1>3
<1>5. \A i \in 1 .. n - 1 : r[i] \in ToSet(s) \ {e}
  <2> TAKE i \in 1 .. n - 1
  <2> DEFINE ii == IF i < m THEN i ELSE i + 1
  <2>1. ii \in DOMAIN s /\ ii # m /\ r[i] = s[ii]
    BY <1>2, <1>3
  <2>2. s[ii] # s[m]
    BY <2>1 DEF IsInjective
  <2> QED BY <2>1, <2>2, <1>2 DEF ToSet
<1>6. \A k \in 1 .. n : s[k] # e => s[k] \in ToSet(r)
  <2> SUFFICES ASSUME NEW k \in 1 .. n, s[k] # e PROVE s[k] \in ToSet(r)
    OBVIOUS
  <2> DEFINE i == IF k < m THEN k ELSE k - 1
  <2>1. k # m
    BY <1>2
  <2>2. i \in 1 .. n - 1 /\ (IF i < m THEN i ELSE i + 1) = k
    BY <2>1, <1>3
  <2>3. r[i] = s[k] /\ i \in DOMAIN r
    BY <2>2, <1>2, <1>3
  <2> QED BY <2>3 DEF ToSet
<1>7. ToSet(r) = ToSet(s) \ {e}
  BY <1>3, <1>5, <1>6 DEF ToSet
<1> QED BY <1>2, <1>4, <1>7 DEF r

\* An entry put at place k of a list that does not hold it yet.
LEMMA PutFresh ==
  ASSUME NEW S, NEW s \in Seq(S), IsInjective(s), NEW e \in S, e \notin ToSet(s),
         NEW k \in 1 .. Len(s) + 1, NEW r \in Seq(S), Len(r) = Len(s) + 1,
         \A j \in 1 .. Len(s) + 1 : r[j] = IF j < k THEN s[j] ELSE IF j = k THEN e ELSE s[j - 1]
  PROVE  IsInjective(r) /\ ToSet(r) = ToSet(s) \cup {e}
<1> DEFINE n == Len(s)
<1>1. n \in Nat /\ DOMAIN s = 1 .. n /\ DOMAIN r = 1 .. n + 1 /\ k \in 1 .. n + 1
  OBVIOUS
<1>2. \A i \in 1 .. n : s[i] # e
  BY <1>1 DEF ToSet
<1>3. IsInjective(r)
  <2> SUFFICES ASSUME NEW i \in 1 .. n + 1, NEW j \in 1 .. n + 1, r[i] = r[j]
               PROVE  i = j
    BY <1>1 DEF IsInjective
  <2> DEFINE ii == IF i < k THEN i ELSE i - 1
             jj == IF j < k THEN j ELSE j - 1
  <2>1. CASE i = k \/ j = k
    BY <1>1, <1>2, <2>1
  <2>2. CASE i # k /\ j # k
    <3>1. ii \in DOMAIN s /\ jj \in DOMAIN s /\ s[ii] = s[jj]
      BY <1>1, <2>2
    <3>2. ii = jj
      BY <3>1 DEF IsInjective
    <3> QED BY <1>1, <2>2, <3>2
  <2> QED BY <2>1, <2>2
<1>4. \A x \in ToSet(r) : x \in ToSet(s) \cup {e}
  <2> SUFFICES ASSUME NEW j \in 1 .. n + 1 PROVE r[j] \in ToSet(s) \cup {e}
    BY <1>1 DEF ToSet
  <2>1. CASE j = k
    BY <1>1, <2>1
  <2>2. CASE j # k
    <3>1. \E i \in DOMAIN s : r[j] = s[i]
      BY <1>1, <2>2
    <3> QED BY <3>1 DEF ToSet
  <2> QED BY <2>1, <2>2
<1>5. \A i \in 1 .. n : s[i] \in ToSet(r)
  <2> SUFFICES ASSUME NEW i \in 1 .. n PROVE s[i] \in ToSet(r)
    OBVIOUS
  <2>1. \E j \in DOMAIN r : r[j] = s[i]
    <3>1. CASE i < k
      BY <1>1, <3>1
    <3>2. CASE ~ i < k
      <4>1. i + 1 \in DOMAIN r /\ r[i + 1] = s[i]
        BY <1>1, <3>2
      <4> QED BY <4>1
    <3> QED BY <3>1, <3>2
  <2> QED BY <2>1 DEF ToSet
<1>6. e \in ToSet(r)
  BY <1>1 DEF ToSet
<1> QED BY <1>1, <1>3, <1>4, <1>5, <1>6 DEF ToSet

\* InsertAt puts the element at the place.
LEMMA InsertAtPlaces ==
  ASSUME NEW S, NEW s \in Seq(S), NEW e \in S, NEW k \in DOMAIN s
  PROVE  /\ InsertAt(s, k, e) \in Seq(S) /\ Len(InsertAt(s, k, e)) = Len(s) + 1
         /\ \A j \in 1 .. Len(s) + 1 : InsertAt(s, k, e)[j] =
              IF j < k THEN s[j] ELSE IF j = k THEN e ELSE s[j - 1]
<1> DEFINE n == Len(s)
           a == SubSeq(s, 1, k - 1)
           b == SubSeq(s, k, n)
<1>1. n \in Nat /\ k \in 1 .. n
  OBVIOUS
<1>2. a \in Seq(S) /\ Len(a) = k - 1 /\ \A j \in 1 .. k - 1 : a[j] = s[j]
  BY <1>1
<1>3. b \in Seq(S) /\ Len(b) = n - k + 1 /\ \A j \in 1 .. n - k + 1 : b[j] = s[k + j - 1]
  BY <1>1
<1> HIDE DEF a, b
<1>4. a \o <<e>> \in Seq(S) /\ Len(a \o <<e>>) = k
      /\ \A j \in 1 .. k : (a \o <<e>>)[j] = IF j < k THEN s[j] ELSE e
  BY <1>1, <1>2
<1>5. InsertAt(s, k, e) = (a \o <<e>>) \o b
  BY DEF InsertAt, a, b
<1> DEFINE h == a \o <<e>>
<1> HIDE DEF h
<1>6. h \o b \in Seq(S) /\ Len(h \o b) = n + 1
      /\ \A j \in 1 .. n + 1 : (h \o b)[j] = IF j <= k THEN h[j] ELSE b[j - k]
  <2>1. h \in Seq(S) /\ Len(h) = k
    BY <1>4 DEF h
  <2>2. h \o b \in Seq(S) /\ Len(h \o b) = k + Len(b)
        /\ \A j \in 1 .. k + Len(b) : (h \o b)[j] = IF j <= k THEN h[j] ELSE b[j - k]
    BY <1>3, <2>1, ConcatProperties
  <2>3. k + Len(b) = n + 1
    BY <1>1, <1>3
  <2> QED BY <2>2, <2>3
<1>7. \A j \in 1 .. k : h[j] = IF j < k THEN s[j] ELSE e
  BY <1>4 DEF h
<1>8. \A j \in k + 1 .. n + 1 : b[j - k] = s[j - 1]
  BY <1>1, <1>3
<1>9. \A j \in 1 .. n + 1 : (h \o b)[j] = IF j < k THEN s[j] ELSE IF j = k THEN e ELSE s[j - 1]
  BY <1>1, <1>6, <1>7, <1>8
<1> QED BY <1>5, <1>6, <1>9 DEF h

\* A list has finitely many entries.
LEMMA ListFinite ==
  ASSUME NEW S, NEW s \in Seq(S)
  PROVE  IsFiniteSet(ToSet(s))
<1>1. s \in [1 .. Len(s) -> ToSet(s)] /\ \A x \in ToSet(s) : \E i \in 1 .. Len(s) : s[i] = x
  BY DEF ToSet
<1>2. s \in Surjection(1 .. Len(s), ToSet(s))
  BY <1>1 DEF Surjection
<1>3. IsFiniteSet(1 .. Len(s))
  BY FS_Interval
<1> QED BY <1>2, <1>3, FS_Surjection

=============================================================================
