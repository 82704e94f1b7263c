----------------------------- MODULE RecordsProofs -----------------------------
(***************************************************************************)
(* The index and its matches (module Matching), and edits of records       *)
(* (module RecordEdits), for every value of their constants.               *)
(*                                                                         *)
(* IndexMirrorsRows: the loops of Put, removeIndexesLocked and LoadIndex   *)
(* are followed one step after the other, by induction on the number of    *)
(* steps; of a secondary map it matters how often a record is under a key, *)
(* and that is as often as one of the record's own keys is that key.       *)
(* MatchIsComplete then comes down to when a URL and a page below its host *)
(* have the same registrable domain.                                       *)
(*                                                                         *)
(* EditsAreMerged: the revision a client has read is all the protection it *)
(* has: while the record still has that revision nobody has changed it, so *)
(* what the client has read of it, in however many requests, is what it    *)
(* still holds.                                                            *)
(***************************************************************************)
EXTENDS Matching, RecordEdits, FiniteSetTheorems, TLAPS

-------------------------------------------------------------------------------
(* Induction, and counting in sequences.                                   *)

\* Numbers have a least one.
LEMMA Least ==
    ASSUME NEW T \in SUBSET Nat, T # {}
    PROVE  \E x \in T : \A y \in T : x <= y
<1>1. PICK x \in T : \A y \in T : <<y, x>> \notin OpToRel(<, Nat)
  BY NatLessThanWellFounded, WFMin
<1>2. ASSUME NEW y \in T, y < x PROVE FALSE
  <2>1. <<y, x>> \in OpToRel(<, Nat)
    BY <1>2 DEF OpToRel
  <2> QED
    BY <1>1, <2>1
<1> QED
  BY <1>2

\* A set of numbers that has zero, and the successor of each of its members.
LEMMA Induction ==
    ASSUME NEW S, 0 \in S, \A n \in Nat : n \in S => n + 1 \in S
    PROVE  Nat \subseteq S
<1> SUFFICES ASSUME Nat \ S # {} PROVE FALSE
  OBVIOUS
<1>1. PICK x \in Nat \ S : \A y \in Nat \ S : x <= y
  BY Least
<1>2. x # 0 /\ x - 1 \in Nat /\ x = (x - 1) + 1 /\ ~(x <= x - 1)
  BY <1>1
<1> QED
  BY <1>1, <1>2

\* Bounded numbers have a greatest one.
LEMMA Greatest ==
    ASSUME NEW T \in SUBSET Nat, T # {}, NEW b \in Nat, \A y \in T : y <= b
    PROVE  \E x \in T : \A y \in T : y <= x
<1> DEFINE U == {u \in Nat : b - u \in T}
<1>1. PICK y \in T : TRUE
  OBVIOUS
<1>2. b - y \in U
  BY <1>1
<1>3. PICK u \in U : \A v \in U : u <= v
  BY <1>2, Least
<1>4. ASSUME NEW z \in T PROVE z <= b - u
  <2>1. b - z \in U
    OBVIOUS
  <2>2. u <= b - z /\ u \in Nat
    BY <1>3, <2>1
  <2> QED
    BY <2>2
<1>5. b - u \in T
  BY <1>3
<1> QED
  BY <1>4, <1>5

\* Where x is in a sequence.
At(s, x) == {i \in DOMAIN s : s[i] = x}

\* The places of x are finitely many, and counted.
LEMMA AtFinite ==
    ASSUME NEW S, NEW s \in Seq(S), NEW x
    PROVE  /\ DOMAIN s = 1..Len(s) /\ Len(s) \in Nat
           /\ IsFiniteSet(At(s, x))
           /\ Occurrences(s, x) = Cardinality(At(s, x))
           /\ Occurrences(s, x) \in Nat
<1>1. DOMAIN s = 1..Len(s) /\ Len(s) \in Nat
  OBVIOUS
<1>2. IsFiniteSet(1..Len(s))
  BY <1>1, FS_Interval
<1>3. At(s, x) \in SUBSET (1..Len(s))
  BY <1>1 DEF At
<1>4. IsFiniteSet(At(s, x))
  BY <1>2, <1>3, FS_Subset
<1>5. Occurrences(s, x) = Cardinality(At(s, x))
  BY DEF Occurrences, At
<1> QED
  BY <1>1, <1>4, <1>5, FS_CardinalityType

\* Nothing occurs in the empty sequence.
LEMMA OccurrencesEmpty == \A x : Occurrences(<<>>, x) = 0
<1> SUFFICES ASSUME NEW x PROVE Occurrences(<<>>, x) = 0
  OBVIOUS
<1>1. {i \in DOMAIN <<>> : <<>>[i] = x} = {}
  OBVIOUS
<1> QED
  BY <1>1, FS_EmptySet DEF Occurrences

\* x occurs in s if it is one of its elements.
LEMMA OccurrencesSome ==
    ASSUME NEW S, NEW s \in Seq(S), NEW x
    PROVE  (Occurrences(s, x) = 0) <=> (x \notin ToSet(s))
<1>1. (Occurrences(s, x) = 0) <=> (At(s, x) = {})
  BY AtFinite, FS_EmptySet
<1> QED
  BY <1>1 DEF At, ToSet

\* An element that is appended occurs once more.
LEMMA OccurrencesAppend ==
    ASSUME NEW S, NEW s \in Seq(S), NEW y \in S, NEW x
    PROVE  Occurrences(Append(s, y), x) = Occurrences(s, x) + (IF x = y THEN 1 ELSE 0)
<1> DEFINE t == Append(s, y)
           n == Len(s) + 1
<1>1. t \in Seq(S) /\ DOMAIN t = 1..n /\ t[n] = y /\ \A i \in 1..Len(s) : t[i] = s[i]
  OBVIOUS
<1>2. DOMAIN s = 1..Len(s) /\ Len(s) \in Nat
  OBVIOUS
<1>3. /\ Occurrences(t, x) = Cardinality(At(t, x))
      /\ IsFiniteSet(At(s, x)) /\ Occurrences(s, x) = Cardinality(At(s, x))
      /\ Occurrences(s, x) \in Nat
  BY <1>1, AtFinite
<1>4. CASE x = y
  <2>1. At(t, x) = At(s, x) \cup {n} /\ n \notin At(s, x)
    BY <1>1, <1>2, <1>4 DEF At
  <2>2. Cardinality(At(s, x) \cup {n}) = Cardinality(At(s, x)) + 1
    BY <1>3, <2>1, FS_AddElement
  <2>3. Occurrences(t, x) = Occurrences(s, x) + 1
    <3> HIDE DEF t, n
    <3> QED
      BY <1>3, <2>1, <2>2
  <2> QED
    BY <1>4, <2>3
<1>5. CASE x # y
  <2>1. At(t, x) = At(s, x)
    BY <1>1, <1>2, <1>5 DEF At
  <2>2. Occurrences(t, x) = Occurrences(s, x)
    <3> HIDE DEF t
    <3> QED
      BY <1>3, <2>1
  <2> QED
    BY <1>3, <1>5, <2>2
<1> QED
  BY <1>4, <1>5

\* A sequence without its element i.
LEMMA Removed ==
    ASSUME NEW S, NEW s \in Seq(S), NEW i \in 1..Len(s)
    PROVE  /\ RemoveAt(s, i) \in Seq(S)
           /\ Len(RemoveAt(s, i)) = Len(s) - 1
           /\ \A j \in 1..(Len(s) - 1) : RemoveAt(s, i)[j] = IF j < i THEN s[j] ELSE s[j + 1]
<1>1. SubSeq(s, 1, i - 1) \in Seq(S) /\ Len(SubSeq(s, 1, i - 1)) = i - 1
      /\ \A j \in 1..(i - 1) : SubSeq(s, 1, i - 1)[j] = s[j]
  OBVIOUS
<1>2. SubSeq(s, i + 1, Len(s)) \in Seq(S) /\ Len(SubSeq(s, i + 1, Len(s))) = Len(s) - i
      /\ \A j \in 1..(Len(s) - i) : SubSeq(s, i + 1, Len(s))[j] = s[i + j]
  OBVIOUS
<1> DEFINE a == SubSeq(s, 1, i - 1)
           b == SubSeq(s, i + 1, Len(s))
<1>3. a \o b \in Seq(S) /\ Len(a \o b) = Len(a) + Len(b)
      /\ \A j \in 1..(Len(a) + Len(b)) : (a \o b)[j] = IF j <= Len(a) THEN a[j] ELSE b[j - Len(a)]
  <2> HIDE DEF a, b
  <2>1. a \in Seq(S) /\ b \in Seq(S)
    BY <1>1, <1>2 DEF a, b
  <2> QED
    BY <2>1
<1>4. Len(a) = i - 1 /\ Len(b) = Len(s) - i /\ RemoveAt(s, i) = a \o b
      /\ (\A j \in 1..(i - 1) : a[j] = s[j]) /\ (\A j \in 1..(Len(s) - i) : b[j] = s[i + j])
  BY <1>1, <1>2 DEF RemoveAt
<1>5. Len(s) \in Nat
  OBVIOUS
<1> HIDE DEF a, b
<1>6. ASSUME NEW j \in 1..(Len(s) - 1)
      PROVE  (a \o b)[j] = IF j < i THEN s[j] ELSE s[j + 1]
  <2>1. CASE j < i
    BY <1>3, <1>4, <1>5, <2>1
  <2>2. CASE ~(j < i)
    <3>1. (a \o b)[j] = b[j - (i - 1)] /\ j - (i - 1) \in 1..(Len(s) - i)
      BY <1>3, <1>4, <1>5, <2>2
    <3>2. b[j - (i - 1)] = s[i + (j - (i - 1))] /\ i + (j - (i - 1)) = j + 1
      BY <1>4, <3>1
    <3> QED
      BY <2>2, <3>1, <3>2
  <2> QED
    BY <2>1, <2>2
<1>7. Len(a \o b) = Len(s) - 1
  BY <1>3, <1>4, <1>5
<1> QED
  BY <1>3, <1>4, <1>6, <1>7

\* An element that is taken out occurs once less.
LEMMA OccurrencesRemoveAt ==
    ASSUME NEW S, NEW s \in Seq(S), NEW i \in 1..Len(s), NEW x
    PROVE  Occurrences(RemoveAt(s, i), x) = Occurrences(s, x) - (IF x = s[i] THEN 1 ELSE 0)
<1> DEFINE t == RemoveAt(s, i)
           A == At(s, x) \ {i}
           f == [j \in At(t, x) |-> IF j < i THEN j ELSE j + 1]
<1>1. t \in Seq(S) /\ DOMAIN t = 1..(Len(s) - 1) /\ DOMAIN s = 1..Len(s) /\ Len(s) \in Nat
      /\ \A j \in 1..(Len(s) - 1) : t[j] = IF j < i THEN s[j] ELSE s[j + 1]
  BY Removed
<1>2. f \in Bijection(At(t, x), A)
  <2> HIDE DEF t
  <2>1. f \in [At(t, x) -> A]
    BY <1>1 DEF At
  <2>2. \A a, b \in At(t, x) : f[a] = f[b] => a = b
    BY <1>1 DEF At
  <2>3. \A b \in A : \E a \in At(t, x) : f[a] = b
    <3> SUFFICES ASSUME NEW b \in A PROVE \E a \in At(t, x) : f[a] = b
      OBVIOUS
    <3>1. b \in 1..Len(s) /\ s[b] = x /\ b # i
      BY <1>1 DEF At
    <3>2. CASE b < i
      <4>1. b \in At(t, x)
        BY <1>1, <3>1, <3>2 DEF At
      <4> QED
        BY <3>2, <4>1
    <3>3. CASE b > i
      <4>1. b - 1 \in At(t, x) /\ ~(b - 1 < i) /\ (b - 1) + 1 = b
        BY <1>1, <3>1, <3>3 DEF At
      <4> QED
        BY <4>1
    <3> QED
      BY <3>1, <3>2, <3>3
  <2> HIDE DEF f, A
  <2> QED
    BY <2>1, <2>2, <2>3 DEF Bijection, Injection, Surjection, IsInjective
<1>3. IsFiniteSet(At(t, x)) /\ Occurrences(t, x) = Cardinality(At(t, x))
  BY <1>1, AtFinite
<1>4. Cardinality(A) = Cardinality(At(t, x))
  <2> HIDE DEF f, A, t
  <2>1. ExistsBijection(At(t, x), A)
    BY <1>2 DEF ExistsBijection
  <2> QED
    BY <1>3, <2>1, FS_Bijection
<1>5. IsFiniteSet(At(s, x)) /\ Occurrences(s, x) = Cardinality(At(s, x))
  BY AtFinite
<1>6. Cardinality(A) = IF i \in At(s, x) THEN Cardinality(At(s, x)) - 1 ELSE Cardinality(At(s, x))
  BY <1>5, FS_RemoveElement
<1>7. i \in At(s, x) <=> x = s[i]
  BY <1>1 DEF At
<1>8. Occurrences(s, x) \in Nat
  BY AtFinite
<1>9. Occurrences(t, x) = IF x = s[i] THEN Occurrences(s, x) - 1 ELSE Occurrences(s, x)
  <2> HIDE DEF A, t
  <2> QED
    BY <1>3, <1>4, <1>5, <1>6, <1>7
<1> QED
  BY <1>8, <1>9

\* RemoveFirst takes one occurrence away if there is one.
LEMMA RemovedFirst ==
    ASSUME NEW S, NEW s \in Seq(S), NEW y
    PROVE  /\ RemoveFirst(s, y) \in Seq(S)
           /\ \A x : Occurrences(RemoveFirst(s, y), x) =
                       IF x = y /\ Occurrences(s, y) > 0 THEN Occurrences(s, x) - 1
                       ELSE Occurrences(s, x)
<1> DEFINE I == {i \in 1..Len(s) : s[i] = y}
<1>1. (Occurrences(s, y) = 0) <=> (I = {})
  <2>1. I = At(s, y)
    BY DEF At
  <2>2. (At(s, y) = {}) <=> (y \notin ToSet(s))
    BY DEF At, ToSet
  <2> QED
    BY <2>1, <2>2, OccurrencesSome
<1>2. Occurrences(s, y) \in Nat
  BY AtFinite
<1>3. CASE I = {}
  <2>1. RemoveFirst(s, y) = s
    BY <1>3 DEF RemoveFirst
  <2>2. Occurrences(s, y) = 0
    BY <1>1, <1>3
  <2> QED
    BY <2>1, <2>2
<1>4. CASE I # {}
  <2>1. \E i \in I : \A j \in I : i <= j
    <3>1. I \in SUBSET Nat
      OBVIOUS
    <3> HIDE DEF I
    <3> QED
      BY <1>4, <3>1, Least
  <2> DEFINE k == Min(I)
  <2>2. k \in I
    BY <2>1 DEF Min
  <2>3. RemoveFirst(s, y) = RemoveAt(s, k)
    BY <1>4 DEF RemoveFirst, SelectInSeq
  <2>4. k \in 1..Len(s) /\ s[k] = y
    BY <2>2
  <2>5. RemoveAt(s, k) \in Seq(S)
    <3> HIDE DEF k
    <3> QED
      BY <2>4, Removed
  <2>6. \A x : Occurrences(RemoveAt(s, k), x) = Occurrences(s, x) - (IF x = s[k] THEN 1 ELSE 0)
    <3> HIDE DEF k
    <3> QED
      BY <2>4, OccurrencesRemoveAt
  <2>7. Occurrences(s, y) > 0
    BY <1>1, <1>2, <1>4
  <2>8. \A x : Occurrences(s, x) \in Nat
    BY AtFinite
  <2> HIDE DEF k, I
  <2>9. RemoveFirst(s, y) \in Seq(S)
    BY <2>3, <2>5
  <2>10. ASSUME NEW x
         PROVE  Occurrences(RemoveAt(s, k), x) =
                  IF x = y /\ Occurrences(s, y) > 0 THEN Occurrences(s, x) - 1 ELSE Occurrences(s, x)
    BY <2>4, <2>6, <2>7, <2>8
  <2> QED
    BY <2>3, <2>9, <2>10
<1> QED
  BY <1>3, <1>4

-------------------------------------------------------------------------------
(* The maps of the index.                                                  *)

\* No bucket is empty, and what is in them is in S.
Buckets(m, S) == \A k \in DOMAIN m : m[k] \in Seq(S) /\ m[k] # <<>>

\* How often id is under the key k.
Count(m, id, k) == Occurrences(Lookup(m, k), id)

\* A key that is not there has the empty bucket.
LEMMA LookupType ==
    ASSUME NEW m, NEW S, Buckets(m, S)
    PROVE  \A k, id : /\ Lookup(m, k) \in Seq(S)
                      /\ Count(m, id, k) \in Nat
                      /\ (Lookup(m, k) = <<>>) <=> (k \notin DOMAIN m)
<1> SUFFICES ASSUME NEW k, NEW id
             PROVE  /\ Lookup(m, k) \in Seq(S)
                    /\ Count(m, id, k) \in Nat
                    /\ (Lookup(m, k) = <<>>) <=> (k \notin DOMAIN m)
  OBVIOUS
<1>1. Lookup(m, k) \in Seq(S)
  BY DEF Lookup, Buckets
<1>2. Count(m, id, k) \in Nat
  BY <1>1, AtFinite DEF Count
<1> QED
  BY <1>1, <1>2 DEF Lookup, Buckets

\* A key is added.
LEMMA KeyAdded ==
    ASSUME NEW S, NEW m, Buckets(m, S), NEW k, NEW id \in S
    PROVE  /\ Buckets(AddKey(m, k, id), S)
           /\ \A j, x : Count(AddKey(m, k, id), j, x) =
                          Count(m, j, x) + (IF j = id /\ x = k THEN 1 ELSE 0)
<1> DEFINE r == AddKey(m, k, id)
<1>1. DOMAIN r = DOMAIN m \cup {k}
      /\ \A x \in DOMAIN r : r[x] = IF x = k THEN Append(Lookup(m, k), id) ELSE m[x]
  BY DEF AddKey
<1>2. Lookup(m, k) \in Seq(S)
  BY LookupType
<1>3. Append(Lookup(m, k), id) \in Seq(S) /\ Append(Lookup(m, k), id) # <<>>
  <2>1. \A s \in Seq(S) : Append(s, id) \in Seq(S) /\ Len(Append(s, id)) = Len(s) + 1 /\ Len(s) \in Nat
    OBVIOUS
  <2>2. Len(<<>>) = 0
    OBVIOUS
  <2> QED
    BY <1>2, <2>1, <2>2
<1>4. Buckets(r, S)
  <2> HIDE DEF r
  <2> QED
    BY <1>1, <1>3 DEF Buckets
<1>5. ASSUME NEW x PROVE Lookup(r, x) = IF x = k THEN Append(Lookup(m, k), id) ELSE Lookup(m, x)
  <2> HIDE DEF r
  <2> QED
    BY <1>1 DEF Lookup
<1>6. ASSUME NEW j, NEW x
      PROVE  Count(r, j, x) = Count(m, j, x) + (IF j = id /\ x = k THEN 1 ELSE 0)
  <2>1. Count(m, j, x) \in Nat
    BY LookupType
  <2>2. CASE x = k
    <3>1. Lookup(r, x) = Append(Lookup(m, k), id)
      BY <1>5, <2>2
    <3>2. Occurrences(Append(Lookup(m, k), id), j) =
            Occurrences(Lookup(m, k), j) + (IF j = id THEN 1 ELSE 0)
      BY <1>2, OccurrencesAppend
    <3> HIDE DEF r
    <3> QED
      BY <2>2, <3>1, <3>2 DEF Count
  <2>3. CASE x # k
    <3>1. Lookup(r, x) = Lookup(m, x)
      BY <1>5, <2>3
    <3> HIDE DEF r
    <3>2. Count(r, j, x) = Count(m, j, x)
      BY <3>1 DEF Count
    <3> QED
      BY <2>1, <2>3, <3>2
  <2> QED
    BY <2>2, <2>3
<1> QED
  BY <1>4, <1>6

\* A key is removed once.
LEMMA KeyRemoved ==
    ASSUME NEW S, NEW m, Buckets(m, S), NEW k, NEW id
    PROVE  /\ Buckets(RemoveKey(m, k, id), S)
           /\ \A j, x : Count(RemoveKey(m, k, id), j, x) =
                          IF j = id /\ x = k /\ Count(m, id, k) > 0 THEN Count(m, j, x) - 1
                          ELSE Count(m, j, x)
<1> DEFINE r == RemoveKey(m, k, id)
           left == RemoveFirst(Lookup(m, k), id)
<1>1. Lookup(m, k) \in Seq(S)
  BY LookupType
<1>2. left \in Seq(S)
  BY <1>1, RemovedFirst
<1>3. ASSUME left = <<>>
      PROVE  Buckets(r, S) /\ \A x : Lookup(r, x) = IF x = k THEN left ELSE Lookup(m, x)
  <2>1. DOMAIN r = DOMAIN m \ {k} /\ \A x \in DOMAIN r : r[x] = m[x]
    BY <1>3 DEF RemoveKey
  <2> HIDE DEF r, left
  <2>2. Buckets(r, S)
    BY <2>1 DEF Buckets
  <2>3. \A x : Lookup(r, x) = IF x = k THEN left ELSE Lookup(m, x)
    BY <1>3, <2>1 DEF Lookup
  <2> QED
    BY <2>2, <2>3
<1>4. ASSUME left # <<>>
      PROVE  Buckets(r, S) /\ \A x : Lookup(r, x) = IF x = k THEN left ELSE Lookup(m, x)
  <2>1. k \in DOMAIN m
    <3>1. CASE Lookup(m, k) = <<>>
      <4>1. Occurrences(<<>>, id) = 0 /\ \A i \in 1..Len(<<>>) : FALSE
        BY OccurrencesEmpty
      <4>2. left = <<>>
        BY <3>1, <4>1 DEF RemoveFirst
      <4> QED
        BY <1>4, <4>2
    <3>2. CASE Lookup(m, k) # <<>>
      BY <3>2, LookupType
    <3> QED
      BY <3>1, <3>2
  <2>2. DOMAIN r = DOMAIN m /\ \A x \in DOMAIN r : r[x] = IF x = k THEN left ELSE m[x]
    BY <1>4, <2>1 DEF RemoveKey
  <2> HIDE DEF r, left
  <2>3. Buckets(r, S)
    BY <1>2, <1>4, <2>2 DEF Buckets
  <2>4. \A x : Lookup(r, x) = IF x = k THEN left ELSE Lookup(m, x)
    BY <2>1, <2>2 DEF Lookup
  <2> QED
    BY <2>3, <2>4
<1>5. Buckets(r, S) /\ \A x : Lookup(r, x) = IF x = k THEN left ELSE Lookup(m, x)
  BY <1>3, <1>4
<1>6. \A j : Occurrences(left, j) =
               IF j = id /\ Occurrences(Lookup(m, k), id) > 0
               THEN Occurrences(Lookup(m, k), j) - 1 ELSE Occurrences(Lookup(m, k), j)
  BY <1>1, RemovedFirst
<1>7. \A j, x : Count(r, j, x) =
                  IF j = id /\ x = k /\ Count(m, id, k) > 0 THEN Count(m, j, x) - 1 ELSE Count(m, j, x)
  <2> HIDE DEF r, left
  <2> QED
    BY <1>5, <1>6 DEF Count
<1> QED
  BY <1>5, <1>7

\* How often k is among the first n keys.
Times(ks, n, k) == Cardinality({i \in 1..n : ks[i] = k})

\* Going through the keys one by one meets each of them as often as it occurs.
LEMMA TimesSteps ==
    ASSUME NEW K, NEW ks \in Seq(K), NEW k
    PROVE  /\ Times(ks, 0, k) = 0
           /\ Times(ks, Len(ks), k) = Occurrences(ks, k)
           /\ \A n \in 0..Len(ks) : Times(ks, n, k) \in Nat /\ Times(ks, n, k) <= Occurrences(ks, k)
           /\ \A n \in 0..(Len(ks) - 1) :
                 Times(ks, n + 1, k) = Times(ks, n, k) + (IF ks[n + 1] = k THEN 1 ELSE 0)
<1> DEFINE P(n) == {i \in 1..n : ks[i] = k}
<1>1. Times(ks, 0, k) = 0
  <2>1. P(0) = {}
    OBVIOUS
  <2> QED
    BY <2>1, FS_EmptySet DEF Times
<1>2. P(Len(ks)) = At(ks, k) /\ Len(ks) \in Nat
  BY DEF At
<1>3. ASSUME NEW n \in 0..Len(ks)
      PROVE  IsFiniteSet(P(n)) /\ Times(ks, n, k) \in Nat /\ Times(ks, n, k) <= Occurrences(ks, k)
  <2>1. IsFiniteSet(1..n) /\ P(n) \in SUBSET (1..n)
    BY FS_Interval
  <2>2. IsFiniteSet(P(n))
    BY <2>1, FS_Subset
  <2>3. P(n) \in SUBSET At(ks, k)
    BY DEF At
  <2>4. /\ IsFiniteSet(At(ks, k))
        /\ Occurrences(ks, k) = Cardinality(At(ks, k))
    BY AtFinite
  <2>5. Cardinality(P(n)) <= Cardinality(At(ks, k))
    <3> HIDE DEF P
    <3> QED
      BY <2>3, <2>4, FS_Subset
  <2>6. Times(ks, n, k) = Cardinality(P(n)) /\ Cardinality(P(n)) \in Nat
    BY <2>2, FS_CardinalityType DEF Times
  <2> HIDE DEF P
  <2> QED
    BY <2>2, <2>4, <2>5, <2>6
<1>4. ASSUME NEW n \in 0..(Len(ks) - 1)
      PROVE  Times(ks, n + 1, k) = Times(ks, n, k) + (IF ks[n + 1] = k THEN 1 ELSE 0)
  <2>1. IsFiniteSet(P(n)) /\ Times(ks, n, k) \in Nat
    <3>1. n \in 0..Len(ks)
      OBVIOUS
    <3> HIDE DEF P
    <3> QED
      BY <1>3, <3>1
  <2>4. Times(ks, n, k) = Cardinality(P(n)) /\ Times(ks, n + 1, k) = Cardinality(P(n + 1))
    BY DEF Times
  <2>2. CASE ks[n + 1] = k
    <3>1. P(n + 1) = P(n) \cup {n + 1} /\ n + 1 \notin P(n)
      BY <2>2
    <3>2. Cardinality(P(n) \cup {n + 1}) = Cardinality(P(n)) + 1
      BY <2>1, <3>1, FS_AddElement
    <3> HIDE DEF P
    <3> QED
      BY <2>2, <2>4, <3>1, <3>2
  <2>3. CASE ks[n + 1] # k
    <3>1. P(n + 1) = P(n)
      BY <2>3
    <3> HIDE DEF P
    <3> QED
      BY <2>1, <2>3, <2>4, <3>1
  <2> QED
    BY <2>2, <2>3
<1>5. Times(ks, Len(ks), k) = Occurrences(ks, k)
  BY <1>2, AtFinite DEF Times
<1> QED
  BY <1>1, <1>3, <1>4, <1>5

\* The loop of Put passes from map to map.
AddRun(f, m, ks, id) ==
    /\ f[0] = m
    /\ \A n \in 0..(Len(ks) - 1) : f[n + 1] = AddKey(f[n], ks[n + 1], id)

\* Such a run exists, and AddKeys is its last map.
LEMMA AddLoop ==
    ASSUME NEW m, NEW ks, Len(ks) \in Nat, NEW id
    PROVE  \E f : AddRun(f, m, ks, id) /\ AddKeys(m, ks, id) = f[Len(ks)]
<1> DEFINE F(f, N) == f = [n \in 0..N |-> IF n = 0 THEN m ELSE AddKey(f[n - 1], ks[n], id)]
           S == {N \in Nat : \E f : F(f, N)}
<1>1. 0 \in S
  <2>1. F([n \in 0..0 |-> m], 0)
    OBVIOUS
  <2> QED
    BY <2>1
<1>2. ASSUME NEW N \in Nat, N \in S PROVE N + 1 \in S
  <2>1. PICK f : F(f, N)
    BY <1>2
  <2> DEFINE g == [n \in 0..(N + 1) |-> IF n = N + 1 THEN AddKey(f[N], ks[N + 1], id) ELSE f[n]]
  <2>2. F(g, N + 1)
    <3>1. \A n \in 0..(N + 1) : g[n] = IF n = 0 THEN m ELSE AddKey(g[n - 1], ks[n], id)
      <4> SUFFICES ASSUME NEW n \in 0..(N + 1)
                   PROVE  g[n] = IF n = 0 THEN m ELSE AddKey(g[n - 1], ks[n], id)
        OBVIOUS
      <4>1. \A i \in 0..N : g[i] = f[i]
        OBVIOUS
      <4>2. CASE n = 0
        BY <2>1, <4>1, <4>2
      <4>3. CASE n \in 1..N
        <5>1. n - 1 \in 0..N /\ n \in 0..N /\ n # 0
          BY <4>3
        <5>2. f[n] = AddKey(f[n - 1], ks[n], id)
          BY <2>1, <5>1
        <5> QED
          BY <4>1, <5>1, <5>2
      <4>4. CASE n = N + 1
        <5>1. g[n] = AddKey(f[N], ks[n], id) /\ n - 1 = N /\ g[N] = f[N] /\ n # 0
          BY <4>1, <4>4
        <5> QED
          BY <5>1
      <4> QED
        BY <4>2, <4>3, <4>4
    <3>2. g = [n \in 0..(N + 1) |-> g[n]]
      OBVIOUS
    <3> HIDE DEF g
    <3> QED
      BY <3>1, <3>2
  <2>3. \E e : F(e, N + 1)
    <3> HIDE DEF F, g
    <3> QED
      BY <2>2
  <2> HIDE DEF F
  <2> QED
    BY <2>3
<1>3. \E f : F(f, Len(ks))
  <2> HIDE DEF F
  <2>1. \A n \in Nat : n \in S => n + 1 \in S
    BY <1>2
  <2>2. Nat \subseteq S
    <3> HIDE DEF S
    <3> QED
      BY <1>1, <2>1, Induction
  <2> QED
    BY <2>2
<1> DEFINE h == CHOOSE f : F(f, Len(ks))
<1>4. F(h, Len(ks))
  BY <1>3
<1>5. AddKeys(m, ks, id) = h[Len(ks)]
  BY DEF AddKeys
<1> HIDE DEF h
<1>6. h[0] = m
  BY <1>4
<1>7. \A n \in 0..(Len(ks) - 1) : h[n + 1] = AddKey(h[n], ks[n + 1], id)
  <2> SUFFICES ASSUME NEW n \in 0..(Len(ks) - 1) PROVE h[n + 1] = AddKey(h[n], ks[n + 1], id)
    OBVIOUS
  <2>1. n + 1 \in 0..Len(ks) /\ n + 1 # 0 /\ (n + 1) - 1 = n
    OBVIOUS
  <2> QED
    BY <1>4, <2>1
<1> QED
  BY <1>5, <1>6, <1>7 DEF AddRun

\* The loop of removeIndexesLocked passes from map to map.
RemoveRun(f, m, ks, id) ==
    /\ f[0] = m
    /\ \A n \in 0..(Len(ks) - 1) : f[n + 1] = RemoveKey(f[n], ks[n + 1], id)

\* Such a run exists, and RemoveKeys is its last map.
LEMMA RemoveLoop ==
    ASSUME NEW m, NEW ks, Len(ks) \in Nat, NEW id
    PROVE  \E f : RemoveRun(f, m, ks, id) /\ RemoveKeys(m, ks, id) = f[Len(ks)]
<1> DEFINE F(f, N) == f = [n \in 0..N |-> IF n = 0 THEN m ELSE RemoveKey(f[n - 1], ks[n], id)]
           S == {N \in Nat : \E f : F(f, N)}
<1>1. 0 \in S
  <2>1. F([n \in 0..0 |-> m], 0)
    OBVIOUS
  <2> QED
    BY <2>1
<1>2. ASSUME NEW N \in Nat, N \in S PROVE N + 1 \in S
  <2>1. PICK f : F(f, N)
    BY <1>2
  <2> DEFINE g == [n \in 0..(N + 1) |-> IF n = N + 1 THEN RemoveKey(f[N], ks[N + 1], id) ELSE f[n]]
  <2>2. F(g, N + 1)
    <3>1. \A n \in 0..(N + 1) : g[n] = IF n = 0 THEN m ELSE RemoveKey(g[n - 1], ks[n], id)
      <4> SUFFICES ASSUME NEW n \in 0..(N + 1)
                   PROVE  g[n] = IF n = 0 THEN m ELSE RemoveKey(g[n - 1], ks[n], id)
        OBVIOUS
      <4>1. \A i \in 0..N : g[i] = f[i]
        OBVIOUS
      <4>2. CASE n = 0
        BY <2>1, <4>1, <4>2
      <4>3. CASE n \in 1..N
        <5>1. n - 1 \in 0..N /\ n \in 0..N /\ n # 0
          BY <4>3
        <5>2. f[n] = RemoveKey(f[n - 1], ks[n], id)
          BY <2>1, <5>1
        <5> QED
          BY <4>1, <5>1, <5>2
      <4>4. CASE n = N + 1
        <5>1. g[n] = RemoveKey(f[N], ks[n], id) /\ n - 1 = N /\ g[N] = f[N] /\ n # 0
          BY <4>1, <4>4
        <5> QED
          BY <5>1
      <4> QED
        BY <4>2, <4>3, <4>4
    <3>2. g = [n \in 0..(N + 1) |-> g[n]]
      OBVIOUS
    <3> HIDE DEF g
    <3> QED
      BY <3>1, <3>2
  <2>3. \E e : F(e, N + 1)
    <3> HIDE DEF F, g
    <3> QED
      BY <2>2
  <2> HIDE DEF F
  <2> QED
    BY <2>3
<1>3. \E f : F(f, Len(ks))
  <2> HIDE DEF F
  <2>1. \A n \in Nat : n \in S => n + 1 \in S
    BY <1>2
  <2>2. Nat \subseteq S
    <3> HIDE DEF S
    <3> QED
      BY <1>1, <2>1, Induction
  <2> QED
    BY <2>2
<1> DEFINE h == CHOOSE f : F(f, Len(ks))
<1>4. F(h, Len(ks))
  BY <1>3
<1>5. RemoveKeys(m, ks, id) = h[Len(ks)]
  BY DEF RemoveKeys
<1> HIDE DEF h
<1>6. h[0] = m
  BY <1>4
<1>7. \A n \in 0..(Len(ks) - 1) : h[n + 1] = RemoveKey(h[n], ks[n + 1], id)
  <2> SUFFICES ASSUME NEW n \in 0..(Len(ks) - 1) PROVE h[n + 1] = RemoveKey(h[n], ks[n + 1], id)
    OBVIOUS
  <2>1. n + 1 \in 0..Len(ks) /\ n + 1 # 0 /\ (n + 1) - 1 = n
    OBVIOUS
  <2> QED
    BY <1>4, <2>1
<1> QED
  BY <1>5, <1>6, <1>7 DEF RemoveRun

\* The loop of Put adds the record once for every occurrence of a key.
LEMMA KeysAdded ==
    ASSUME NEW S, NEW m, Buckets(m, S), NEW K, NEW ks \in Seq(K), NEW id \in S
    PROVE  /\ Buckets(AddKeys(m, ks, id), S)
           /\ \A j, x : Count(AddKeys(m, ks, id), j, x) =
                          Count(m, j, x) + (IF j = id THEN Occurrences(ks, x) ELSE 0)
<1>1. Len(ks) \in Nat
  OBVIOUS
<1>2. PICK f : AddRun(f, m, ks, id) /\ AddKeys(m, ks, id) = f[Len(ks)]
  BY <1>1, AddLoop
<1> DEFINE Done(n) == /\ Buckets(f[n], S)
                      /\ \A j, x : Count(f[n], j, x) =
                                     Count(m, j, x) + (IF j = id THEN Times(ks, n, x) ELSE 0)
           T == {n \in Nat : n <= Len(ks) => Done(n)}
<1>3. 0 \in T
  <2>1. \A j, x : Count(m, j, x) \in Nat /\ Times(ks, 0, x) = 0
    BY LookupType, TimesSteps
  <2>2. Done(0)
    BY <1>2, <2>1 DEF AddRun
  <2> QED
    BY <2>2
<1>4. ASSUME NEW n \in Nat, n \in T PROVE n + 1 \in T
  <2> SUFFICES ASSUME n + 1 <= Len(ks) PROVE Done(n + 1)
    OBVIOUS
  <2>1. Done(n) /\ n \in 0..(Len(ks) - 1)
    BY <1>1, <1>4
  <2> DEFINE k == ks[n + 1]
  <2>2. f[n + 1] = AddKey(f[n], k, id)
    BY <1>2, <2>1 DEF AddRun
  <2>3. Buckets(f[n + 1], S) /\ \A j, x : Count(f[n + 1], j, x) =
                                            Count(f[n], j, x) + (IF j = id /\ x = k THEN 1 ELSE 0)
    <3> HIDE DEF k
    <3> QED
      BY <2>1, <2>2, KeyAdded
  <2>4. ASSUME NEW j, NEW x
        PROVE  Count(f[n + 1], j, x) =
                 Count(m, j, x) + (IF j = id THEN Times(ks, n + 1, x) ELSE 0)
    <3>1. Times(ks, n + 1, x) = Times(ks, n, x) + (IF x = k THEN 1 ELSE 0) /\ Times(ks, n, x) \in Nat
      <4>1. n \in 0..Len(ks)
        BY <1>1, <2>1
      <4> QED
        BY <2>1, <4>1, TimesSteps
    <3>2. Count(m, j, x) \in Nat
      BY LookupType
    <3>3. Count(f[n], j, x) = Count(m, j, x) + (IF j = id THEN Times(ks, n, x) ELSE 0)
      BY <2>1
    <3>4. Count(f[n + 1], j, x) = Count(f[n], j, x) + (IF j = id /\ x = k THEN 1 ELSE 0)
      BY <2>3
    <3> HIDE DEF k
    <3> QED
      BY <3>1, <3>2, <3>3, <3>4
  <2> QED
    BY <2>3, <2>4
<1>5. Done(Len(ks))
  <2>1. \A n \in Nat : n \in T => n + 1 \in T
    BY <1>4
  <2>2. Nat \subseteq T
    <3> HIDE DEF T
    <3> QED
      BY <1>3, <2>1, Induction
  <2> QED
    BY <1>1, <2>2
<1>6. \A x : Times(ks, Len(ks), x) = Occurrences(ks, x)
  BY TimesSteps
<1> QED
  BY <1>2, <1>5, <1>6

\* The loop of removeIndexesLocked leaves nothing of a record that is under each of
\* its keys as often as it has it.
LEMMA KeysRemoved ==
    ASSUME NEW S, NEW m, Buckets(m, S), NEW K, NEW ks \in Seq(K), NEW id,
           \A x : Count(m, id, x) = Occurrences(ks, x)
    PROVE  /\ Buckets(RemoveKeys(m, ks, id), S)
           /\ \A j, x : Count(RemoveKeys(m, ks, id), j, x) = IF j = id THEN 0 ELSE Count(m, j, x)
<1>1. Len(ks) \in Nat
  OBVIOUS
<1>2. PICK f : RemoveRun(f, m, ks, id) /\ RemoveKeys(m, ks, id) = f[Len(ks)]
  BY <1>1, RemoveLoop
<1> DEFINE Done(n) == /\ Buckets(f[n], S)
                      /\ \A j, x : Count(f[n], j, x) =
                                     Count(m, j, x) - (IF j = id THEN Times(ks, n, x) ELSE 0)
           T == {n \in Nat : n <= Len(ks) => Done(n)}
<1>3. 0 \in T
  <2>1. \A j, x : Count(m, j, x) \in Nat /\ Times(ks, 0, x) = 0
    BY LookupType, TimesSteps
  <2>2. Done(0)
    BY <1>2, <2>1 DEF RemoveRun
  <2> QED
    BY <2>2
<1>4. ASSUME NEW n \in Nat, n \in T PROVE n + 1 \in T
  <2> SUFFICES ASSUME n + 1 <= Len(ks) PROVE Done(n + 1)
    OBVIOUS
  <2>1. Done(n) /\ n \in 0..(Len(ks) - 1)
    BY <1>1, <1>4
  <2> DEFINE k == ks[n + 1]
  <2>2. f[n + 1] = RemoveKey(f[n], k, id)
    BY <1>2, <2>1 DEF RemoveRun
  <2>3. \A x : /\ Times(ks, n + 1, x) = Times(ks, n, x) + (IF x = k THEN 1 ELSE 0)
               /\ Times(ks, n, x) \in Nat /\ Times(ks, n + 1, x) <= Occurrences(ks, x)
    <3>1. n \in 0..Len(ks) /\ n + 1 \in 0..Len(ks)
      BY <1>1, <2>1
    <3> QED
      BY <2>1, <3>1, TimesSteps
  <2>4. Count(f[n], id, k) > 0
    <3>1. Count(f[n], id, k) = Occurrences(ks, k) - Times(ks, n, k)
      BY <2>1
    <3>2. Times(ks, n + 1, k) = Times(ks, n, k) + 1 /\ Times(ks, n, k) \in Nat
          /\ Times(ks, n + 1, k) <= Occurrences(ks, k)
      BY <2>3
    <3>3. Occurrences(ks, k) \in Nat
      BY AtFinite
    <3> HIDE DEF k
    <3> QED
      BY <3>1, <3>2, <3>3
  <2>5. Buckets(f[n + 1], S) /\ \A j, x : Count(f[n + 1], j, x) =
              IF j = id /\ x = k THEN Count(f[n], j, x) - 1 ELSE Count(f[n], j, x)
    <3> HIDE DEF k
    <3> QED
      BY <2>1, <2>2, <2>4, KeyRemoved
  <2>6. ASSUME NEW j, NEW x
        PROVE  Count(f[n + 1], j, x) =
                 Count(m, j, x) - (IF j = id THEN Times(ks, n + 1, x) ELSE 0)
    <3>1. Count(m, j, x) \in Nat
      BY LookupType
    <3>2. Count(f[n], j, x) = Count(m, j, x) - (IF j = id THEN Times(ks, n, x) ELSE 0)
      BY <2>1
    <3>3. Count(f[n + 1], j, x) = IF j = id /\ x = k THEN Count(f[n], j, x) - 1 ELSE Count(f[n], j, x)
      BY <2>5
    <3>4. Times(ks, n + 1, x) = Times(ks, n, x) + (IF x = k THEN 1 ELSE 0) /\ Times(ks, n, x) \in Nat
      BY <2>3
    <3> HIDE DEF k
    <3> QED
      BY <3>1, <3>2, <3>3, <3>4
  <2> QED
    BY <2>5, <2>6
<1>5. Done(Len(ks))
  <2>1. \A n \in Nat : n \in T => n + 1 \in T
    BY <1>4
  <2>2. Nat \subseteq T
    <3> HIDE DEF T
    <3> QED
      BY <1>3, <2>1, Induction
  <2> QED
    BY <1>1, <2>2
<1>6. \A x : Times(ks, Len(ks), x) = Occurrences(ks, x) /\ Occurrences(ks, x) \in Nat
  BY TimesSteps, AtFinite
<1>7. \A j, x : Count(m, j, x) \in Nat
  BY LookupType
<1>8. \A j, x : Count(RemoveKeys(m, ks, id), j, x) = IF j = id THEN 0 ELSE Count(m, j, x)
  BY <1>2, <1>5, <1>6, <1>7
<1> QED
  BY <1>2, <1>5, <1>8

-------------------------------------------------------------------------------
(* The index as a whole.                                                   *)

\* An entry has a sequence of URLs, and each of them a sequence of labels.
IsEntry(e) ==
    /\ Len(e.urls) \in Nat /\ DOMAIN e.urls = 1..Len(e.urls)
    /\ \A i \in DOMAIN e.urls : e.urls[i].origin.host \in Seq(STRING)

\* How often the entries es put a record under a domain, and under a project.
DomainCount(es, id, d) == IF id \in DOMAIN es THEN Occurrences(Domains(es[id]), d) ELSE 0
NoProject == ""
ProjectCount(es, id, p) == IF id \in DOMAIN es /\ p # NoProject /\ es[id].project = p THEN 1 ELSE 0

\* The secondary maps are those of the entries.
IndexOK(ix) ==
    /\ ix = Maps(ix.entries, ix.byHost, ix.byProject)
    /\ \A id \in DOMAIN ix.entries : id \in RecordIDs /\ IsEntry(ix.entries[id])
    /\ Buckets(ix.byHost, RecordIDs) /\ Buckets(ix.byProject, RecordIDs)
    /\ \A id, d : Count(ix.byHost, id, d) = DomainCount(ix.entries, id, d)
    /\ \A id, p : Count(ix.byProject, id, p) = ProjectCount(ix.entries, id, p)

\* The keys of a record are a sequence.
LEMMA DomainsType ==
    ASSUME NEW e, IsEntry(e)
    PROVE  \E K : Domains(e) \in Seq(K)
<1> DEFINE K == {Domains(e)[i] : i \in DOMAIN e.urls}
<1>1. DOMAIN e.urls = 1..Len(e.urls) /\ Len(e.urls) \in Nat
  BY DEF IsEntry
<1>2. Domains(e) = [i \in 1..Len(e.urls) |-> RegistrableDomain(e.urls[i].origin)]
  BY <1>1 DEF Domains
<1>3. Domains(e) \in [1..Len(e.urls) -> K]
  BY <1>1, <1>2
<1>4. \A n \in Nat : \A s \in [1..n -> K] : s \in Seq(K)
  OBVIOUS
<1>5. Domains(e) \in Seq(K)
  <2> HIDE DEF K
  <2> QED
    BY <1>1, <1>3, <1>4
<1> QED
  BY <1>5

\* The empty index is one of no entries.
LEMMA EmptyOK == IndexOK(Empty)
<1>1. /\ Empty.entries = NoMap /\ Empty.byHost = NoMap /\ Empty.byProject = NoMap
      /\ DOMAIN NoMap = {}
  BY DEF Empty, Maps, NoMap
<1>2. \A id, k : Count(NoMap, id, k) = 0
  <2>1. \A k : Lookup(NoMap, k) = <<>>
    BY <1>1 DEF Lookup
  <2> QED
    BY <2>1, OccurrencesEmpty DEF Count
<1>3. Empty = Maps(NoMap, NoMap, NoMap)
  BY DEF Empty
<1> QED
  BY <1>1, <1>2, <1>3 DEF IndexOK, Buckets, DomainCount, ProjectCount

\* removeIndexesLocked leaves the secondary maps of the other entries.
LEMMA IndexesRemoved ==
    ASSUME NEW ix, IndexOK(ix), NEW id \in DOMAIN ix.entries
    PROVE  LET r == removeIndexes(ix, id)
           IN  /\ r.entries = ix.entries
               /\ Buckets(r.byHost, RecordIDs) /\ Buckets(r.byProject, RecordIDs)
               /\ \A j, d : Count(r.byHost, j, d) =
                              IF j = id THEN 0 ELSE DomainCount(ix.entries, j, d)
               /\ \A j, p : Count(r.byProject, j, p) =
                              IF j = id THEN 0 ELSE ProjectCount(ix.entries, j, p)
<1> DEFINE e == ix.entries[id]
           r == removeIndexes(ix, id)
<1>1. IsEntry(e)
  BY DEF IndexOK
<1>2. /\ r.entries = ix.entries
      /\ r.byHost = RemoveKeys(ix.byHost, Domains(e), id)
      /\ r.byProject = IF e.project = NoProject THEN ix.byProject ELSE RemoveKey(ix.byProject, e.project, id)
  BY DEF removeIndexes, Maps, NoProject
<1>3. PICK K : Domains(e) \in Seq(K)
  <2> HIDE DEF e
  <2> QED
    BY <1>1, DomainsType
<1>4. \A d : Count(ix.byHost, id, d) = Occurrences(Domains(e), d)
  BY DEF IndexOK, DomainCount
<1>5. Buckets(ix.byHost, RecordIDs) /\ Buckets(ix.byProject, RecordIDs)
  BY DEF IndexOK
<1>6. /\ Buckets(r.byHost, RecordIDs)
      /\ \A j, d : Count(r.byHost, j, d) = IF j = id THEN 0 ELSE Count(ix.byHost, j, d)
  <2> DEFINE m == ix.byHost
             ks == Domains(e)
  <2>1. /\ Buckets(m, RecordIDs) /\ ks \in Seq(K) /\ r.byHost = RemoveKeys(m, ks, id)
        /\ \A x : Count(m, id, x) = Occurrences(ks, x)
    BY <1>2, <1>3, <1>4, <1>5
  <2>2. /\ Buckets(r.byHost, RecordIDs)
        /\ \A j, d : Count(r.byHost, j, d) = IF j = id THEN 0 ELSE Count(m, j, d)
    <3> HIDE DEF e, r, m, ks
    <3> QED
      BY <2>1, KeysRemoved
  <2> QED
    BY <2>2
<1>7. \A j, d : Count(r.byHost, j, d) = IF j = id THEN 0 ELSE DomainCount(ix.entries, j, d)
  <2> HIDE DEF e, r
  <2> QED
    BY <1>6 DEF IndexOK
<1>8. /\ Buckets(r.byProject, RecordIDs)
      /\ \A j, p : Count(r.byProject, j, p) = IF j = id THEN 0 ELSE ProjectCount(ix.entries, j, p)
  <2>1. \A j, p : Count(ix.byProject, j, p) = ProjectCount(ix.entries, j, p)
    BY DEF IndexOK
  <2>2. \A p : ProjectCount(ix.entries, id, p) = IF p # NoProject /\ e.project = p THEN 1 ELSE 0
    BY DEF ProjectCount
  <2>3. CASE e.project = NoProject
    <3>1. \A p : ProjectCount(ix.entries, id, p) = 0
      BY <2>2, <2>3
    <3>2. r.byProject = ix.byProject
      BY <1>2, <2>3
    <3> HIDE DEF e, r
    <3> QED
      BY <1>5, <2>1, <3>1, <3>2
  <2>4. CASE e.project # NoProject
    <3> DEFINE q == e.project
    <3>1. r.byProject = RemoveKey(ix.byProject, q, id)
      BY <1>2, <2>4
    <3>2. /\ Buckets(r.byProject, RecordIDs)
          /\ \A j, p : Count(r.byProject, j, p) =
                         IF j = id /\ p = q /\ Count(ix.byProject, id, q) > 0
                         THEN Count(ix.byProject, j, p) - 1 ELSE Count(ix.byProject, j, p)
      <4> HIDE DEF q, e, r
      <4> QED
        BY <1>5, <3>1, KeyRemoved
    <3>3. Count(ix.byProject, id, q) = 1 /\ \A p : p # q => Count(ix.byProject, id, p) = 0
      <4>1. \A p : Count(ix.byProject, id, p) = IF p # NoProject /\ e.project = p THEN 1 ELSE 0
        BY <2>1, <2>2
      <4> QED
        BY <2>4, <4>1
    <3>4. \A j, p : Count(r.byProject, j, p) = IF j = id THEN 0 ELSE ProjectCount(ix.entries, j, p)
      <4> HIDE DEF q, e, r
      <4> QED
        BY <2>1, <3>2, <3>3
    <3> QED
      BY <3>2, <3>4
  <2> QED
    BY <2>3, <2>4
<1> QED
  BY <1>2, <1>6, <1>7, <1>8

\* Put.
LEMMA PutOK ==
    ASSUME NEW ix, IndexOK(ix), NEW id \in RecordIDs, NEW e, IsEntry(e)
    PROVE  LET r == PutEntry(ix, id, e)
           IN  /\ IndexOK(r)
               /\ DOMAIN r.entries = DOMAIN ix.entries \cup {id}
               /\ \A j \in DOMAIN r.entries : r.entries[j] = IF j = id THEN e ELSE ix.entries[j]
<1> DEFINE old == IF id \in DOMAIN ix.entries THEN removeIndexes(ix, id) ELSE ix
           r == PutEntry(ix, id, e)
<1>1. /\ Buckets(old.byHost, RecordIDs) /\ Buckets(old.byProject, RecordIDs)
      /\ \A j, d : Count(old.byHost, j, d) = IF j = id THEN 0 ELSE DomainCount(ix.entries, j, d)
      /\ \A j, p : Count(old.byProject, j, p) = IF j = id THEN 0 ELSE ProjectCount(ix.entries, j, p)
  <2>1. CASE id \in DOMAIN ix.entries
    <3>1. old = removeIndexes(ix, id)
      BY <2>1
    <3> HIDE DEF old
    <3> QED
      BY <2>1, <3>1, IndexesRemoved
  <2>2. CASE id \notin DOMAIN ix.entries
    <3>1. old = ix /\ \A k : DomainCount(ix.entries, id, k) = 0 /\ ProjectCount(ix.entries, id, k) = 0
      BY <2>2 DEF DomainCount, ProjectCount
    <3> HIDE DEF old
    <3> QED
      BY <3>1 DEF IndexOK
  <2> QED
    BY <2>1, <2>2
<1>2. /\ r = Maps(r.entries, r.byHost, r.byProject)
      /\ r.entries = [x \in DOMAIN ix.entries \cup {id} |-> IF x = id THEN e ELSE ix.entries[x]]
      /\ r.byHost = AddKeys(old.byHost, Domains(e), id)
      /\ r.byProject = IF e.project = NoProject THEN old.byProject ELSE AddKey(old.byProject, e.project, id)
  BY DEF PutEntry, Maps, NoProject
<1> HIDE DEF old, r
<1>3. /\ DOMAIN r.entries = DOMAIN ix.entries \cup {id}
      /\ \A j \in DOMAIN r.entries : r.entries[j] = IF j = id THEN e ELSE ix.entries[j]
  BY <1>2
<1>4. \A j \in DOMAIN r.entries : j \in RecordIDs /\ IsEntry(r.entries[j])
  BY <1>3 DEF IndexOK
<1>5. Buckets(r.byHost, RecordIDs)
      /\ \A j, d : Count(r.byHost, j, d) = DomainCount(r.entries, j, d)
  <2>1. PICK K : Domains(e) \in Seq(K)
    BY DomainsType
  <2>2. /\ Buckets(r.byHost, RecordIDs)
        /\ \A j, d : Count(r.byHost, j, d) =
                       Count(old.byHost, j, d) + (IF j = id THEN Occurrences(Domains(e), d) ELSE 0)
    <3> DEFINE m == old.byHost
               ks == Domains(e)
    <3>1. /\ Buckets(m, RecordIDs) /\ ks \in Seq(K) /\ r.byHost = AddKeys(m, ks, id)
      BY <1>1, <1>2, <2>1
    <3>2. /\ Buckets(r.byHost, RecordIDs)
          /\ \A j, d : Count(r.byHost, j, d) =
                         Count(m, j, d) + (IF j = id THEN Occurrences(ks, d) ELSE 0)
      <4> HIDE DEF m, ks
      <4> QED
        BY <3>1, KeysAdded
    <3> QED
      BY <3>2
  <2>3. ASSUME NEW j, NEW d PROVE Count(r.byHost, j, d) = DomainCount(r.entries, j, d)
    <3>1. Count(old.byHost, j, d) = IF j = id THEN 0 ELSE DomainCount(ix.entries, j, d)
      BY <1>1
    <3>2. Count(old.byHost, j, d) \in Nat /\ Occurrences(Domains(e), d) \in Nat
      BY <1>1, <2>1, LookupType, AtFinite
    <3>3. DomainCount(r.entries, j, d) =
            IF j = id THEN Occurrences(Domains(e), d) ELSE DomainCount(ix.entries, j, d)
      BY <1>3 DEF DomainCount
    <3> QED
      BY <2>2, <3>1, <3>2, <3>3
  <2> QED
    BY <2>2, <2>3
<1>6. Buckets(r.byProject, RecordIDs)
      /\ \A j, p : Count(r.byProject, j, p) = ProjectCount(r.entries, j, p)
  <2>1. \A j, p : ProjectCount(r.entries, j, p) =
                    IF j = id THEN IF p # NoProject /\ e.project = p THEN 1 ELSE 0
                    ELSE ProjectCount(ix.entries, j, p)
    BY <1>3 DEF ProjectCount
  <2>2. CASE e.project = NoProject
    BY <1>1, <1>2, <2>1, <2>2
  <2>3. CASE e.project # NoProject
    <3> DEFINE q == e.project
    <3>1. r.byProject = AddKey(old.byProject, q, id)
      BY <1>2, <2>3
    <3>2. Buckets(r.byProject, RecordIDs)
          /\ \A j, p : Count(r.byProject, j, p) =
                         Count(old.byProject, j, p) + (IF j = id /\ p = q THEN 1 ELSE 0)
      <4> HIDE DEF q
      <4> QED
        BY <1>1, <3>1, KeyAdded
    <3>3. ASSUME NEW j, NEW p PROVE Count(r.byProject, j, p) = ProjectCount(r.entries, j, p)
      <4>1. Count(old.byProject, j, p) = IF j = id THEN 0 ELSE ProjectCount(ix.entries, j, p)
        BY <1>1
      <4>2. Count(old.byProject, j, p) \in Nat
        BY <1>1, LookupType
      <4>3. Count(r.byProject, j, p) = Count(old.byProject, j, p) + (IF j = id /\ p = q THEN 1 ELSE 0)
        BY <3>2
      <4>4. CASE j = id
        BY <2>1, <2>3, <4>1, <4>3, <4>4
      <4>5. CASE j # id
        BY <2>1, <4>1, <4>2, <4>3, <4>5
      <4> QED
        BY <4>4, <4>5
    <3> QED
      BY <3>2, <3>3
  <2> QED
    BY <2>2, <2>3
<1>7. IndexOK(r)
  BY <1>2, <1>4, <1>5, <1>6 DEF IndexOK
<1> QED
  BY <1>3, <1>7 DEF r

\* Remove.
LEMMA RemoveOK ==
    ASSUME NEW ix, IndexOK(ix), NEW id
    PROVE  LET r == RemoveEntry(ix, id)
           IN  /\ IndexOK(r)
               /\ DOMAIN r.entries = DOMAIN ix.entries \ {id}
               /\ \A j \in DOMAIN r.entries : r.entries[j] = ix.entries[j]
<1> DEFINE old == removeIndexes(ix, id)
           r == RemoveEntry(ix, id)
<1>1. CASE id \notin DOMAIN ix.entries
  BY <1>1 DEF RemoveEntry
<1>2. ASSUME id \in DOMAIN ix.entries
      PROVE  /\ IndexOK(r)
             /\ DOMAIN r.entries = DOMAIN ix.entries \ {id}
             /\ \A j \in DOMAIN r.entries : r.entries[j] = ix.entries[j]
  <2>1. /\ r = Maps(r.entries, r.byHost, r.byProject)
        /\ r.entries = [x \in DOMAIN ix.entries \ {id} |-> ix.entries[x]]
        /\ r.byHost = old.byHost /\ r.byProject = old.byProject
    BY <1>2 DEF RemoveEntry, Maps
  <2>2. /\ Buckets(old.byHost, RecordIDs) /\ Buckets(old.byProject, RecordIDs)
        /\ \A j, d : Count(old.byHost, j, d) = IF j = id THEN 0 ELSE DomainCount(ix.entries, j, d)
        /\ \A j, p : Count(old.byProject, j, p) = IF j = id THEN 0 ELSE ProjectCount(ix.entries, j, p)
    BY <1>2, IndexesRemoved
  <2> HIDE DEF old, r
  <2>3. DOMAIN r.entries = DOMAIN ix.entries \ {id} /\ \A j \in DOMAIN r.entries : r.entries[j] = ix.entries[j]
    BY <2>1
  <2>4. \A j \in DOMAIN r.entries : j \in RecordIDs /\ IsEntry(r.entries[j])
    BY <2>3 DEF IndexOK
  <2>5. \A j, d : Count(r.byHost, j, d) = DomainCount(r.entries, j, d)
    BY <2>1, <2>2, <2>3 DEF DomainCount
  <2>6. \A j, p : Count(r.byProject, j, p) = ProjectCount(r.entries, j, p)
    BY <2>1, <2>2, <2>3 DEF ProjectCount
  <2> QED
    BY <2>1, <2>2, <2>3, <2>4, <2>5, <2>6 DEF IndexOK
<1> QED
  BY <1>1, <1>2

-------------------------------------------------------------------------------
(* Metadata.                                                               *)

\* The host of an origin is a sequence of labels.
LEMMA OriginType ==
    ASSUME NEW raw \in RawURLs
    PROVE  ParseOrigin(raw).host \in Seq(STRING)
<1>1. ToASCII[raw.host] \in Seq(STRING)
  BY MatchingAssumption DEF RawURLs
<1>2. <<>> \in Seq(STRING)
  OBVIOUS
<1>3. ParseOrigin(raw).host \in {<<>>, ToASCII[raw.host]}
  BY DEF ParseOrigin, Invalid
<1> QED
  BY <1>1, <1>2, <1>3

\* A list of raw URLs, with policies.
IsList(es) ==
    /\ Len(es) \in Nat /\ DOMAIN es = 1..Len(es)
    /\ \A i \in DOMAIN es : es[i].raw \in RawURLs

\* Functions on 1..n have the length n.
LEMMA Lengths == \A n \in Nat : \A s : s = [i \in 1..n |-> s[i]] => Len(s) = n
  OBVIOUS

\* The URLs of a list are those of an entry.
LEMMA LoginURLsType ==
    ASSUME NEW es, IsList(es), NEW p
    PROVE  IsEntry([urls |-> LoginURLs(es), project |-> p])
<1> DEFINE us == LoginURLs(es)
<1>1. /\ us = [i \in 1..Len(es) |-> us[i]]
      /\ \A i \in 1..Len(es) : us[i].origin.host \in Seq(STRING)
  <2>1. \A i \in 1..Len(es) : ParseOrigin(es[i].raw).host \in Seq(STRING)
    BY OriginType DEF IsList
  <2> QED
    BY <2>1 DEF LoginURLs, IsList
<1>2. Len(us) = Len(es) /\ Len(es) \in Nat
  <2> HIDE DEF us
  <2> QED
    BY <1>1, Lengths DEF IsList
<1>3. DOMAIN us = 1..Len(es)
  BY DEF LoginURLs, IsList
<1> HIDE DEF us
<1> QED
  BY <1>1, <1>2, <1>3 DEF IsEntry, us

\* The lists of a submission.
LEMMA EntriesType ==
    ASSUME NEW f \in Forms
    PROVE  IsList(Exact(f.urls)) /\ IsList(Entries(f))
<1>1. f.urls \in Seq(RawURLs)
  BY DEF Forms
<1>2. IsList(Exact(f.urls))
  <2> DEFINE us == f.urls
             x == Exact(us)
  <2>1. DOMAIN us = 1..Len(us) /\ Len(us) \in Nat /\ \A i \in 1..Len(us) : us[i] \in RawURLs
    BY <1>1
  <2>2. x = [i \in 1..Len(us) |-> x[i]] /\ \A i \in 1..Len(us) : x[i].raw = us[i]
    BY <2>1 DEF Exact
  <2> HIDE DEF us, x
  <2>3. Len(x) = Len(us) /\ DOMAIN x = 1..Len(us)
    BY <2>1, <2>2, Lengths
  <2>4. IsList(x)
    BY <2>1, <2>2, <2>3 DEF IsList
  <2> QED
    BY <2>4 DEF us, x
<1>3. IsList(f.urlEntries)
  <2> DEFINE T == [raw : RawURLs, sub : BOOLEAN]
             es == f.urlEntries
  <2>1. es \in Seq(T)
    BY DEF Forms
  <2>2. \A t \in T : t.raw \in RawURLs
    OBVIOUS
  <2>3. DOMAIN es = 1..Len(es) /\ Len(es) \in Nat /\ \A i \in 1..Len(es) : es[i] \in T
    <3> HIDE DEF T, es
    <3> QED
      BY <2>1
  <2> HIDE DEF T, es
  <2>4. IsList(es)
    BY <2>2, <2>3 DEF IsList
  <2> QED
    BY <2>4 DEF es
<1> QED
  BY <1>2, <1>3 DEF Entries

\* What a client submits is a record, and so is what an older daemon stored of it.
LEMMA FieldsType ==
    ASSUME NEW f \in Forms
    PROVE  IsEntry(fieldsToDomain(f)) /\ IsEntry(decodeMetadata(Legacy(f)))
<1>1. IsEntry(fieldsToDomain(f))
  BY EntriesType, LoginURLsType DEF fieldsToDomain
<1>2. Entries(Legacy(f)) = Exact(f.urls)
  BY DEF Entries, Legacy
<1>3. IsEntry(decodeMetadata(Legacy(f)))
  BY <1>2, EntriesType, LoginURLsType DEF decodeMetadata
<1> QED
  BY <1>1, <1>3

\* What is stored of a submission is read back as it was.
LEMMA RoundTrip ==
    ASSUME NEW f \in Forms
    PROVE  decodeMetadata(encodeMetadata(fieldsToDomain(f))) = fieldsToDomain(f)
<1> DEFINE m == fieldsToDomain(f)
           dto == encodeMetadata(m)
           es == [i \in DOMAIN m.urls |-> [raw |-> m.urls[i].raw, sub |-> m.urls[i].sub]]
<1>1. /\ m = [urls |-> m.urls, project |-> m.project] /\ m.urls = LoginURLs(Entries(f))
  BY DEF fieldsToDomain
<1>2. m.urls = [i \in DOMAIN m.urls |-> m.urls[i]]
  BY <1>1 DEF LoginURLs
<1>3. \A i \in DOMAIN m.urls : m.urls[i] =
        [raw |-> m.urls[i].raw, origin |-> ParseOrigin(m.urls[i].raw), sub |-> m.urls[i].sub]
  BY <1>1 DEF LoginURLs
<1>4. /\ dto.urlEntries = es /\ dto.urls = <<>> /\ dto.project = m.project
      /\ dto.present <=> m.urls # <<>>
  BY DEF encodeMetadata
<1> HIDE DEF m, dto
<1>5. LoginURLs(es) = m.urls
  <2>1. LoginURLs(es) = [i \in DOMAIN m.urls |->
          [raw |-> m.urls[i].raw, origin |-> ParseOrigin(m.urls[i].raw), sub |-> m.urls[i].sub]]
    BY DEF LoginURLs
  <2> QED
    BY <1>2, <1>3, <2>1
<1>6. LoginURLs(Entries(dto)) = m.urls
  <2>1. CASE m.urls # <<>>
    BY <1>4, <1>5, <2>1 DEF Entries
  <2>2. CASE m.urls = <<>>
    <3>1. DOMAIN m.urls = {}
      BY <2>2
    <3>2. Entries(dto) = Exact(<<>>)
      BY <1>4, <2>2 DEF Entries
    <3>3. DOMAIN Exact(<<>>) = {} /\ DOMAIN LoginURLs(Exact(<<>>)) = DOMAIN Exact(<<>>)
      BY DEF LoginURLs, Exact
    <3>4. LoginURLs(Exact(<<>>)) = [i \in {} |-> m.urls[i]]
      BY <3>3 DEF LoginURLs
    <3> QED
      BY <1>2, <3>1, <3>2, <3>4
  <2> QED
    BY <2>1, <2>2
<1>7. decodeMetadata(dto) = [urls |-> m.urls, project |-> m.project]
  BY <1>4, <1>6 DEF decodeMetadata
<1> QED
  BY <1>1, <1>7 DEF m, dto

-------------------------------------------------------------------------------
(* Loading the index.                                                      *)

\* What is stored can be decoded.
RowsOK == DOMAIN rows \subseteq RecordIDs /\ \A id \in DOMAIN rows : IsEntry(decodeMetadata(rows[id]))

\* The loop of LoadIndex passes from index to index.
LoadRun(f, order) ==
    /\ f[0] = Empty
    /\ \A n \in 0..(Len(order) - 1) :
          f[n + 1] = PutEntry(f[n], order[n + 1], decodeMetadata(rows[order[n + 1]]))

\* Such a run exists, and LoadIndex is its last index.
LEMMA LoadLoop ==
    ASSUME NEW order, Len(order) \in Nat
    PROVE  \E f : LoadRun(f, order) /\ LoadIndex(order) = f[Len(order)]
<1> DEFINE Put(i, n) == PutEntry(i, order[n], decodeMetadata(rows[order[n]]))
           F(f, N) == f = [n \in 0..N |-> IF n = 0 THEN Empty ELSE Put(f[n - 1], n)]
           S == {N \in Nat : \E f : F(f, N)}
<1> HIDE DEF Put
<1>1. 0 \in S
  <2>1. F([n \in 0..0 |-> Empty], 0)
    OBVIOUS
  <2> QED
    BY <2>1
<1>2. ASSUME NEW N \in Nat, N \in S PROVE N + 1 \in S
  <2>1. PICK f : F(f, N)
    BY <1>2
  <2> DEFINE g == [n \in 0..(N + 1) |-> IF n = N + 1 THEN Put(f[N], N + 1) ELSE f[n]]
  <2>2. F(g, N + 1)
    <3>1. \A n \in 0..(N + 1) : g[n] = IF n = 0 THEN Empty ELSE Put(g[n - 1], n)
      <4> SUFFICES ASSUME NEW n \in 0..(N + 1)
                   PROVE  g[n] = IF n = 0 THEN Empty ELSE Put(g[n - 1], n)
        OBVIOUS
      <4>1. \A i \in 0..N : g[i] = f[i]
        OBVIOUS
      <4>2. CASE n = 0
        BY <2>1, <4>1, <4>2
      <4>3. CASE n \in 1..N
        <5>1. n - 1 \in 0..N /\ n \in 0..N /\ n # 0
          BY <4>3
        <5>2. f[n] = Put(f[n - 1], n)
          BY <2>1, <5>1
        <5> QED
          BY <4>1, <5>1, <5>2
      <4>4. CASE n = N + 1
        <5>1. g[n] = Put(f[N], n) /\ n - 1 = N /\ g[N] = f[N] /\ n # 0
          BY <4>1, <4>4
        <5> QED
          BY <5>1
      <4> QED
        BY <4>2, <4>3, <4>4
    <3>2. g = [n \in 0..(N + 1) |-> g[n]]
      OBVIOUS
    <3> HIDE DEF g
    <3> QED
      BY <3>1, <3>2
  <2>3. \E e : F(e, N + 1)
    <3> HIDE DEF F, g
    <3> QED
      BY <2>2
  <2> HIDE DEF F
  <2> QED
    BY <2>3
<1>3. \E f : F(f, Len(order))
  <2> HIDE DEF F
  <2>1. \A n \in Nat : n \in S => n + 1 \in S
    BY <1>2
  <2>2. Nat \subseteq S
    <3> HIDE DEF S
    <3> QED
      BY <1>1, <2>1, Induction
  <2> QED
    BY <2>2
<1> DEFINE h == CHOOSE f : F(f, Len(order))
<1>4. F(h, Len(order))
  BY <1>3
<1>5. LoadIndex(order) = h[Len(order)]
  BY DEF LoadIndex, Put
<1> HIDE DEF h
<1>6. h[0] = Empty
  BY <1>4
<1>7. \A n \in 0..(Len(order) - 1) : h[n + 1] = Put(h[n], n + 1)
  <2> SUFFICES ASSUME NEW n \in 0..(Len(order) - 1) PROVE h[n + 1] = Put(h[n], n + 1)
    OBVIOUS
  <2>1. n + 1 \in 0..Len(order) /\ n + 1 # 0 /\ (n + 1) - 1 = n
    OBVIOUS
  <2> QED
    BY <1>4, <2>1
<1> QED
  BY <1>5, <1>6, <1>7 DEF LoadRun, Put

\* The order of the table is one of all its rows.
LEMMA OrderOfAll ==
    ASSUME NEW R \in SUBSET RecordIDs, NEW order \in SetToSeqs(R)
    PROVE  order \in Seq(R) /\ \A id \in R : \E i \in 1..Len(order) : order[i] = id
<1>1. IsFiniteSet(R) /\ Cardinality(R) \in Nat
  BY MatchingAssumption, FS_Subset, FS_CardinalityType
<1> DEFINE c == Cardinality(R)
<1>2. order \in [1..c -> R] /\ \A i, j \in 1..c : i # j => order[i] # order[j]
  BY DEF SetToSeqs
<1>3. order \in Injection(1..c, R)
  BY <1>2 DEF Injection, IsInjective
<1>4. IsFiniteSet(1..c) /\ Cardinality(1..c) = c
  <2>1. c \in Nat
    BY <1>1
  <2> HIDE DEF c
  <2> QED
    BY <2>1, FS_Interval
<1>5. order \in Surjection(1..c, R)
  <2>1. order \in Injection(1..c, R) /\ Cardinality(1..c) = Cardinality(R)
    BY <1>3, <1>4
  <2> HIDE DEF c
  <2> QED
    BY <1>1, <2>1, FS_Injection
<1>6. \A n \in Nat : \A s \in [1..n -> R] : s \in Seq(R) /\ Len(s) = n
  OBVIOUS
<1>7. order \in Seq(R) /\ Len(order) = c
  BY <1>1, <1>2, <1>6
<1> QED
  BY <1>5, <1>7 DEF Surjection

\* LoadIndex gives the index of the rows, in whatever order they are read.
LEMMA LoadOK ==
    ASSUME RowsOK, NEW order \in SetToSeqs(DOMAIN rows)
    PROVE  LET r == LoadIndex(order)
           IN  /\ IndexOK(r)
               /\ DOMAIN r.entries = DOMAIN rows
               /\ \A id \in DOMAIN rows : r.entries[id] = decodeMetadata(rows[id])
<1>1. DOMAIN rows \in SUBSET RecordIDs
  BY DEF RowsOK
<1>2. /\ order \in Seq(DOMAIN rows) /\ Len(order) \in Nat
      /\ \A id \in DOMAIN rows : \E i \in 1..Len(order) : order[i] = id
  <2> DEFINE R == DOMAIN rows
  <2>1. \A s \in Seq(R) : Len(s) \in Nat
    OBVIOUS
  <2>2. R \in SUBSET RecordIDs /\ order \in SetToSeqs(R)
    BY <1>1
  <2>3. order \in Seq(R) /\ \A id \in R : \E i \in 1..Len(order) : order[i] = id
    <3> HIDE DEF R
    <3> QED
      BY <2>2, OrderOfAll
  <2> QED
    BY <2>1, <2>3
<1>3. PICK f : LoadRun(f, order) /\ LoadIndex(order) = f[Len(order)]
  BY <1>2, LoadLoop
<1> DEFINE Ids(n) == {order[i] : i \in 1..n}
           Done(n) == /\ IndexOK(f[n]) /\ DOMAIN f[n].entries = Ids(n)
                      /\ \A id \in Ids(n) : f[n].entries[id] = decodeMetadata(rows[id])
           T == {n \in Nat : n <= Len(order) => Done(n)}
<1>4. 0 \in T
  <2>1. f[0] = Empty
    BY <1>3 DEF LoadRun
  <2>2. DOMAIN Empty.entries = {} /\ Ids(0) = {}
    BY DEF Empty, Maps, NoMap
  <2> QED
    BY <2>1, <2>2, EmptyOK
<1>5. ASSUME NEW n \in Nat, n \in T PROVE n + 1 \in T
  <2> SUFFICES ASSUME n + 1 <= Len(order) PROVE Done(n + 1)
    OBVIOUS
  <2>1. Done(n) /\ n \in 0..(Len(order) - 1) /\ n + 1 \in 1..Len(order)
    <3>1. Len(order) \in Nat
      BY <1>2
    <3>2. Done(n)
      BY <1>5, <3>1
    <3> HIDE DEF Done
    <3> QED
      BY <3>1, <3>2
  <2> DEFINE id == order[n + 1]
             e == decodeMetadata(rows[id])
             r == f[n + 1]
  <2>2. id \in DOMAIN rows
    BY <1>2, <2>1
  <2>3. id \in RecordIDs /\ IsEntry(e)
    BY <2>2 DEF RowsOK
  <2>4. r = PutEntry(f[n], id, e)
    BY <1>3, <2>1 DEF LoadRun
  <2>5. /\ IndexOK(r) /\ DOMAIN r.entries = DOMAIN f[n].entries \cup {id}
        /\ \A j \in DOMAIN r.entries : r.entries[j] = IF j = id THEN e ELSE f[n].entries[j]
    <3>1. IndexOK(f[n])
      BY <2>1
    <3> HIDE DEF id, e, r, Done
    <3> QED
      BY <2>3, <2>4, <3>1, PutOK
  <2>6. Ids(n + 1) = Ids(n) \cup {id}
    <3>1. 1..(n + 1) = (1..n) \cup {n + 1}
      OBVIOUS
    <3> QED
      BY <3>1
  <2>7. DOMAIN f[n].entries = Ids(n) /\ \A j \in Ids(n) : f[n].entries[j] = decodeMetadata(rows[j])
    BY <2>1
  <2>8. DOMAIN r.entries = Ids(n + 1)
    BY <2>5, <2>6, <2>7
  <2>9. \A j \in Ids(n + 1) : r.entries[j] = decodeMetadata(rows[j])
    <3> HIDE DEF id, Ids, r
    <3> QED
      BY <2>5, <2>6, <2>7, <2>8
  <2> QED
    BY <2>5, <2>8, <2>9
<1>6. Done(Len(order))
  <2>1. \A n \in Nat : n \in T => n + 1 \in T
    BY <1>5
  <2>2. Nat \subseteq T
    <3> HIDE DEF T
    <3> QED
      BY <1>4, <2>1, Induction
  <2> QED
    BY <1>2, <2>2
<1>7. Ids(Len(order)) = DOMAIN rows
  <2>1. \A i \in 1..Len(order) : order[i] \in DOMAIN rows
    BY <1>2
  <2> QED
    BY <1>2, <2>1
<1> QED
  BY <1>3, <1>6, <1>7

-------------------------------------------------------------------------------
(* The index mirrors the rows.                                             *)

\* While locked there is no index; while unlocked it is that of the rows.
IndexInv ==
    /\ unlocked \in BOOLEAN
    /\ RowsOK
    /\ ~unlocked => Current = Empty
    /\ unlocked => /\ IndexOK(Current)
                   /\ DOMAIN Current.entries = DOMAIN rows
                   /\ \A id \in DOMAIN rows : Current.entries[id] = decodeMetadata(rows[id])

\* An index that is set is the current one.
LEMMA CurrentSet ==
    ASSUME NEW ix, ix = Maps(ix.entries, ix.byHost, ix.byProject), SetIndex(ix)
    PROVE  Current' = ix
  BY DEF SetIndex, Current, Maps

\* An index is the record of its three maps.
LEMMA IndexOKMaps ==
    ASSUME NEW ix, IndexOK(ix)
    PROVE  ix = Maps(ix.entries, ix.byHost, ix.byProject)
  BY DEF IndexOK

\* The daemon starts locked, over rows an older one wrote.
LEMMA IndexInit == Init => IndexInv
<1> SUFFICES ASSUME Init PROVE IndexInv
  OBVIOUS
<1>1. Current = Empty
  BY DEF Init, Current, Empty
<1>2. PICK ids \in SUBSET RecordIDs :
        \E fs \in [ids -> {f \in Submissions : Accepted(f) /\ ~f.present}] :
           rows = [id \in ids |-> Legacy(fs[id])]
  BY DEF Init
<1>3. RowsOK
  <2> PICK fs \in [ids -> {f \in Submissions : Accepted(f) /\ ~f.present}] :
         rows = [id \in ids |-> Legacy(fs[id])]
    BY <1>2
  <2>1. DOMAIN rows = ids /\ \A id \in ids : rows[id] = Legacy(fs[id])
    OBVIOUS
  <2>2. \A id \in ids : fs[id] \in Forms
    BY MatchingAssumption
  <2> QED
    BY <2>1, <2>2, FieldsType DEF RowsOK
<1> QED
  BY <1>1, <1>3 DEF Init, IndexInv

\* An unlock loads the index.
LEMMA UnlockKeeps == ASSUME IndexInv, Unlock PROVE IndexInv'
<1>1. PICK order \in SetToSeqs(DOMAIN rows) : SetIndex(LoadIndex(order))
  BY DEF Unlock
<1> DEFINE ix == LoadIndex(order)
<1>2. /\ IndexOK(ix) /\ DOMAIN ix.entries = DOMAIN rows
      /\ \A id \in DOMAIN rows : ix.entries[id] = decodeMetadata(rows[id])
  BY LoadOK DEF IndexInv
<1>3. Current' = ix
  <2>1. SetIndex(ix)
    BY <1>1
  <2> HIDE DEF ix
  <2> QED
    BY <1>2, <2>1, IndexOKMaps, CurrentSet
<1>4. unlocked' = TRUE /\ rows' = rows
  BY DEF Unlock
<1>5. RowsOK'
  BY <1>4 DEF IndexInv, RowsOK
<1>6. \A id \in DOMAIN rows' : Current'.entries[id] = decodeMetadata(rows'[id])
  <2> HIDE DEF ix
  <2> QED
    BY <1>2, <1>3, <1>4
<1>7. IndexOK(Current') /\ DOMAIN Current'.entries = DOMAIN rows'
  <2> HIDE DEF ix
  <2> QED
    BY <1>2, <1>3, <1>4
<1> QED
  BY <1>4, <1>5, <1>6, <1>7 DEF IndexInv

\* A lock clears it.
LEMMA LockKeeps == ASSUME IndexInv, Lock PROVE IndexInv'
<1>1. Current' = Empty
  <2>1. Empty = Maps(Empty.entries, Empty.byHost, Empty.byProject)
    BY EmptyOK, IndexOKMaps
  <2> QED
    BY <2>1, CurrentSet DEF Lock
<1>2. unlocked' = FALSE /\ rows' = rows
  BY DEF Lock
<1>3. RowsOK'
  BY <1>2 DEF IndexInv, RowsOK
<1> QED
  BY <1>1, <1>2, <1>3 DEF IndexInv

\* Create and update put the entry they wrote.
LEMMA SaveKeeps == ASSUME IndexInv, Save PROVE IndexInv'
<1>1. PICK id \in RecordIDs, f \in Submissions :
        /\ unlocked
        /\ rows' = [x \in DOMAIN rows \cup {id} |->
                      IF x = id THEN encodeMetadata(fieldsToDomain(f)) ELSE rows[x]]
        /\ SetIndex(PutEntry(Current, id, fieldsToDomain(f)))
        /\ unlocked' = unlocked
  BY DEF Save
<1> DEFINE m == fieldsToDomain(f)
           ix == PutEntry(Current, id, m)
<1>2. IsEntry(m) /\ decodeMetadata(encodeMetadata(m)) = m
  BY MatchingAssumption, FieldsType, RoundTrip
<1>3. IndexOK(Current) /\ DOMAIN Current.entries = DOMAIN rows
      /\ \A j \in DOMAIN rows : Current.entries[j] = decodeMetadata(rows[j])
  BY <1>1 DEF IndexInv
<1>4. SetIndex(ix) /\ rows' = [x \in DOMAIN rows \cup {id} |-> IF x = id THEN encodeMetadata(m) ELSE rows[x]]
  BY <1>1
<1>5. /\ IndexOK(ix) /\ DOMAIN ix.entries = DOMAIN Current.entries \cup {id}
      /\ \A j \in DOMAIN ix.entries : ix.entries[j] = IF j = id THEN m ELSE Current.entries[j]
  <2> HIDE DEF m
  <2> QED
    BY <1>2, <1>3, PutOK
<1> HIDE DEF m, ix
<1>6. Current' = ix
  BY <1>4, <1>5, IndexOKMaps, CurrentSet
<1>7. /\ DOMAIN rows' = DOMAIN rows \cup {id}
      /\ \A j \in DOMAIN rows' : rows'[j] = IF j = id THEN encodeMetadata(m) ELSE rows[j]
  BY <1>4
<1>8. RowsOK'
  BY <1>2, <1>7 DEF IndexInv, RowsOK
<1>9. \A j \in DOMAIN rows' : Current'.entries[j] = decodeMetadata(rows'[j])
  BY <1>2, <1>3, <1>5, <1>6, <1>7
<1>10. IndexOK(Current') /\ DOMAIN Current'.entries = DOMAIN rows'
  BY <1>3, <1>5, <1>6, <1>7
<1> QED
  BY <1>1, <1>8, <1>9, <1>10 DEF IndexInv

\* Delete removes the entry whose row it deleted.
LEMMA DeleteKeeps == ASSUME IndexInv, Delete PROVE IndexInv'
<1>1. PICK id \in DOMAIN rows :
        /\ unlocked
        /\ rows' = [x \in DOMAIN rows \ {id} |-> rows[x]]
        /\ SetIndex(RemoveEntry(Current, id))
        /\ unlocked' = unlocked
  BY DEF Delete
<1> DEFINE ix == RemoveEntry(Current, id)
<1>2. IndexOK(Current) /\ DOMAIN Current.entries = DOMAIN rows
      /\ \A j \in DOMAIN rows : Current.entries[j] = decodeMetadata(rows[j])
  BY <1>1 DEF IndexInv
<1>3. /\ IndexOK(ix) /\ DOMAIN ix.entries = DOMAIN Current.entries \ {id}
      /\ \A j \in DOMAIN ix.entries : ix.entries[j] = Current.entries[j]
  BY <1>2, RemoveOK
<1>4. SetIndex(ix)
  BY <1>1
<1> HIDE DEF ix
<1>5. Current' = ix
  BY <1>3, <1>4, IndexOKMaps, CurrentSet
<1>6. DOMAIN rows' = DOMAIN rows \ {id} /\ \A j \in DOMAIN rows' : rows'[j] = rows[j]
  BY <1>1
<1>7. RowsOK'
  BY <1>6 DEF IndexInv, RowsOK
<1>8. \A j \in DOMAIN rows' : Current'.entries[j] = decodeMetadata(rows'[j])
  BY <1>2, <1>3, <1>5, <1>6
<1>9. IndexOK(Current') /\ DOMAIN Current'.entries = DOMAIN rows'
  BY <1>2, <1>3, <1>5, <1>6
<1> QED
  BY <1>1, <1>7, <1>8, <1>9 DEF IndexInv

\* The index of the rows is kept by every step.
LEMMA IndexInvariant == Spec => []IndexInv
<1>1. IndexInv /\ [Next]_vars => IndexInv'
  <2> SUFFICES ASSUME IndexInv, [Next]_vars PROVE IndexInv'
    OBVIOUS
  <2>1. CASE Unlock
    BY <2>1, UnlockKeeps
  <2>2. CASE Lock
    BY <2>2, LockKeeps
  <2>3. CASE Save
    BY <2>3, SaveKeeps
  <2>4. CASE Delete
    BY <2>4, DeleteKeeps
  <2>5. CASE UNCHANGED vars
    <3>1. rows' = rows /\ unlocked' = unlocked /\ Current' = Current
      BY <2>5 DEF vars, Current
    <3>2. RowsOK'
      BY <3>1 DEF IndexInv, RowsOK
    <3> QED
      BY <3>1, <3>2 DEF IndexInv
  <2> QED
    BY <2>1, <2>2, <2>3, <2>4, <2>5 DEF Next
<1> QED
  BY IndexInit, <1>1, PTL DEF Spec

\* An element that occurs at most once is in one place.
LEMMA OccurrencesOne ==
    ASSUME NEW S, NEW s \in Seq(S), NEW x, Occurrences(s, x) <= 1
    PROVE  \A a, b \in At(s, x) : a = b
<1> SUFFICES ASSUME NEW a \in At(s, x), NEW b \in At(s, x), a # b PROVE FALSE
  OBVIOUS
<1>1. IsFiniteSet(At(s, x)) /\ Cardinality(At(s, x)) = Occurrences(s, x) /\ Occurrences(s, x) \in Nat
  BY AtFinite
<1> DEFINE A == {a}
           B == A \cup {b}
<1>2. IsFiniteSet(A) /\ Cardinality(A) = 1
  BY FS_Singleton
<1>3. b \notin A /\ B \in SUBSET At(s, x)
  OBVIOUS
<1> HIDE DEF A
<1>4. Cardinality(B) = Cardinality(A) + 1
  BY <1>2, <1>3, FS_AddElement
<1> HIDE DEF B
<1>5. Cardinality(B) <= Cardinality(At(s, x))
  BY <1>1, <1>3, FS_Subset
<1> QED
  BY <1>1, <1>2, <1>4, <1>5

\* What the counts of an index say of its maps.
LEMMA MapsOfIndex ==
    ASSUME NEW ix, IndexOK(ix)
    PROVE  /\ \A d \in DOMAIN ix.byHost :
                 ix.byHost[d] # <<>> /\ ToSet(ix.byHost[d]) \subseteq DOMAIN ix.entries
           /\ \A id \in DOMAIN ix.entries : \A d :
                 Occurrences(Lookup(ix.byHost, d), id) = Occurrences(Domains(ix.entries[id]), d)
           /\ \A p \in DOMAIN ix.byProject :
                 /\ ix.byProject[p] # <<>> /\ IsInjective(ix.byProject[p])
                 /\ ToSet(ix.byProject[p]) = {id \in DOMAIN ix.entries : ix.entries[id].project = p}
           /\ \A id \in DOMAIN ix.entries : ix.entries[id].project \in {NoProject} \cup DOMAIN ix.byProject
<1>1. Buckets(ix.byHost, RecordIDs) /\ Buckets(ix.byProject, RecordIDs)
  BY DEF IndexOK
<1>2. \A id, d : Count(ix.byHost, id, d) = DomainCount(ix.entries, id, d)
  BY DEF IndexOK
<1>3. \A id, p : Count(ix.byProject, id, p) = ProjectCount(ix.entries, id, p)
  BY DEF IndexOK
<1>4. ASSUME NEW d \in DOMAIN ix.byHost
      PROVE  ix.byHost[d] # <<>> /\ ToSet(ix.byHost[d]) \subseteq DOMAIN ix.entries
  <2> DEFINE s == ix.byHost[d]
  <2>1. s \in Seq(RecordIDs) /\ s # <<>> /\ Lookup(ix.byHost, d) = s
    BY <1>1 DEF Buckets, Lookup
  <2>2. \A id : Occurrences(s, id) = DomainCount(ix.entries, id, d)
    BY <1>2, <2>1 DEF Count
  <2>3. \A id \in ToSet(s) : Occurrences(s, id) # 0
    <3> HIDE DEF s
    <3> QED
      BY <2>1, OccurrencesSome
  <2>4. \A id \in ToSet(s) : id \in DOMAIN ix.entries
    <3> HIDE DEF s
    <3> QED
      BY <2>2, <2>3 DEF DomainCount
  <2> QED
    BY <2>1, <2>4
<1>5. \A id \in DOMAIN ix.entries : \A d :
        Occurrences(Lookup(ix.byHost, d), id) = Occurrences(Domains(ix.entries[id]), d)
  BY <1>2 DEF Count, DomainCount
<1>6. ASSUME NEW p \in DOMAIN ix.byProject
      PROVE  /\ ix.byProject[p] # <<>> /\ IsInjective(ix.byProject[p])
             /\ ToSet(ix.byProject[p]) = {id \in DOMAIN ix.entries : ix.entries[id].project = p}
  <2> DEFINE s == ix.byProject[p]
  <2>1. s \in Seq(RecordIDs) /\ s # <<>> /\ Lookup(ix.byProject, p) = s
    BY <1>1 DEF Buckets, Lookup
  <2>2. \A id : Occurrences(s, id) = ProjectCount(ix.entries, id, p)
    BY <1>3, <2>1 DEF Count
  <2>3. \A id : (Occurrences(s, id) = 0) <=> (id \notin ToSet(s))
    <3> HIDE DEF s
    <3> QED
      BY <2>1, OccurrencesSome
  <2>4. \A id : id \in ToSet(s) <=>
                  id \in DOMAIN ix.entries /\ p # NoProject /\ ix.entries[id].project = p
    <3> HIDE DEF s
    <3> QED
      BY <2>2, <2>3 DEF ProjectCount
  <2>5. p # NoProject
    <3>1. \E id : id \in ToSet(s)
      <4>1. \A t \in Seq(RecordIDs) : t # <<>> => 1 \in DOMAIN t
        OBVIOUS
      <4>2. 1 \in DOMAIN s
        <5> HIDE DEF s
        <5> QED
          BY <2>1, <4>1
      <4> HIDE DEF s
      <4> QED
        BY <4>2 DEF ToSet
    <3> HIDE DEF s
    <3> QED
      BY <2>4, <3>1
  <2>6. ToSet(s) = {id \in DOMAIN ix.entries : ix.entries[id].project = p}
    <3> HIDE DEF s
    <3> QED
      BY <2>4, <2>5
  <2>7. IsInjective(s)
    <3> SUFFICES ASSUME NEW a \in DOMAIN s, NEW b \in DOMAIN s, s[a] = s[b] PROVE a = b
      BY DEF IsInjective
    <3> DEFINE x == s[a]
    <3>1. Occurrences(s, x) = ProjectCount(ix.entries, x, p)
      BY <2>2
    <3>2. Occurrences(s, x) <= 1
      <4> HIDE DEF s, x
      <4> QED
        BY <3>1 DEF ProjectCount
    <3>3. a \in At(s, x) /\ b \in At(s, x)
      BY DEF At
    <3> HIDE DEF s, x
    <3> QED
      BY <2>1, <3>2, <3>3, OccurrencesOne
  <2> QED
    BY <2>1, <2>6, <2>7
<1>7. ASSUME NEW id \in DOMAIN ix.entries
      PROVE  ix.entries[id].project \in {NoProject} \cup DOMAIN ix.byProject
  <2> DEFINE p == ix.entries[id].project
  <2> SUFFICES ASSUME p # NoProject PROVE p \in DOMAIN ix.byProject
    OBVIOUS
  <2>1. ProjectCount(ix.entries, id, p) = 1
    BY DEF ProjectCount
  <2> HIDE DEF p
  <2>2. Occurrences(Lookup(ix.byProject, p), id) = 1
    BY <1>3, <2>1 DEF Count
  <2>3. Lookup(ix.byProject, p) # <<>>
    BY <2>2, OccurrencesEmpty
  <2> QED
    BY <2>3 DEF Lookup
<1> QED
  BY <1>4, <1>5, <1>6, <1>7

\* The index and its maps are those of the stored rows (LoadIndex, Put, Remove,
\* Clear and removeFromMultimap), for every set of records, hosts and suffixes.
THEOREM IndexMirrors == Spec => []IndexMirrorsRows
<1>1. IndexInv => IndexMirrorsRows
  <2> SUFFICES ASSUME IndexInv PROVE IndexMirrorsRows
    OBVIOUS
  <2>1. CASE ~unlocked
    BY <2>1 DEF IndexInv, IndexMirrorsRows
  <2>2. CASE unlocked
    <3>1. Current.entries = entries /\ Current.byHost = byHost /\ Current.byProject = byProject
      BY DEF Current, Maps
    <3>2. IndexOK(Current)
      BY <2>2 DEF IndexInv
    <3>3. DOMAIN entries = DOMAIN rows /\ \A id \in DOMAIN rows : entries[id] = decodeMetadata(rows[id])
      BY <2>2, <3>1 DEF IndexInv
    <3>4. /\ \A d \in DOMAIN byHost : byHost[d] # <<>> /\ ToSet(byHost[d]) \subseteq DOMAIN entries
          /\ \A p \in DOMAIN byProject :
                /\ byProject[p] # <<>> /\ IsInjective(byProject[p])
                /\ ToSet(byProject[p]) = {id \in DOMAIN entries : entries[id].project = p}
          /\ \A id \in DOMAIN entries : entries[id].project \in {NoProject} \cup DOMAIN byProject
          /\ \A id \in DOMAIN entries : \A d :
                Occurrences(Lookup(byHost, d), id) = Occurrences(Domains(entries[id]), d)
      <4> DEFINE ix == Current
      <4>1. IndexOK(ix) /\ ix.entries = entries /\ ix.byHost = byHost /\ ix.byProject = byProject
        BY <3>1, <3>2
      <4> HIDE DEF ix
      <4>2. /\ \A d \in DOMAIN ix.byHost :
                  ix.byHost[d] # <<>> /\ ToSet(ix.byHost[d]) \subseteq DOMAIN ix.entries
            /\ \A p \in DOMAIN ix.byProject :
                  /\ ix.byProject[p] # <<>> /\ IsInjective(ix.byProject[p])
                  /\ ToSet(ix.byProject[p]) = {id \in DOMAIN ix.entries : ix.entries[id].project = p}
            /\ \A id \in DOMAIN ix.entries :
                  ix.entries[id].project \in {NoProject} \cup DOMAIN ix.byProject
            /\ \A id \in DOMAIN ix.entries : \A d :
                  Occurrences(Lookup(ix.byHost, d), id) = Occurrences(Domains(ix.entries[id]), d)
        BY <4>1, MapsOfIndex
      <4> QED
        BY <4>1, <4>2
    <3>5. \A id \in DOMAIN entries : Domains(entries[id]) =
            [i \in DOMAIN entries[id].urls |-> RegistrableDomain(entries[id].urls[i].origin)]
      BY DEF Domains
    <3> QED
      BY <2>2, <3>3, <3>4, <3>5 DEF IndexMirrorsRows, NoProject
  <2> QED
    BY <2>1, <2>2
<1> QED
  BY IndexInvariant, <1>1, PTL

-------------------------------------------------------------------------------
(* Suffixes of hosts.                                                      *)

\* t ends with the labels of s.
Ends(s, t) == Len(s) <= Len(t) /\ \A i \in 1..Len(s) : s[i] = t[i + (Len(t) - Len(s))]

\* A host reversed.
LEMMA Reversed ==
    ASSUME NEW S, NEW s \in Seq(S)
    PROVE  /\ Reverse(s) \in Seq(S) /\ Len(Reverse(s)) = Len(s)
           /\ \A i \in 1..Len(s) : Reverse(s)[i] = s[(Len(s) - i) + 1]
<1>1. Len(s) \in Nat /\ \A i \in 1..Len(s) : (Len(s) - i) + 1 \in 1..Len(s)
  OBVIOUS
<1>2. Reverse(s) \in [1..Len(s) -> S]
  <2>1. \A i \in 1..Len(s) : s[(Len(s) - i) + 1] \in S
    BY <1>1
  <2> QED
    BY <2>1 DEF Reverse
<1>3. \A n \in Nat : \A f \in [1..n -> S] : f \in Seq(S) /\ Len(f) = n
  OBVIOUS
<1>4. Reverse(s) \in Seq(S) /\ Len(Reverse(s)) = Len(s)
  BY <1>1, <1>2, <1>3
<1> QED
  BY <1>4 DEF Reverse

\* The first labels of a sequence.
LEMMA Firsts ==
    ASSUME NEW S, NEW s \in Seq(S), NEW n \in 0..Len(s)
    PROVE  SubSeq(s, 1, n) \in Seq(S) /\ Len(SubSeq(s, 1, n)) = n
           /\ \A i \in 1..n : SubSeq(s, 1, n)[i] = s[i]
  OBVIOUS

\* Sequences are equal when their elements are.
LEMMA SameSequence ==
    ASSUME NEW S, NEW s \in Seq(S), NEW t \in Seq(S), Len(s) = Len(t),
           \A i \in 1..Len(s) : s[i] = t[i]
    PROVE  s = t
  OBVIOUS

\* What IsSuffix says of the labels.
LEMMA SuffixEnds ==
    ASSUME NEW S, NEW s \in Seq(S), NEW t \in Seq(S)
    PROVE  IsSuffix(s, t) <=> Ends(s, t)
<1> DEFINE a == Reverse(s)
           b == Reverse(t)
           n == Len(s)
           m == Len(t)
<1>1. /\ a \in Seq(S) /\ Len(a) = n /\ \A i \in 1..n : a[i] = s[(n - i) + 1]
      /\ b \in Seq(S) /\ Len(b) = m /\ \A i \in 1..m : b[i] = t[(m - i) + 1]
      /\ n \in Nat /\ m \in Nat
  <2>1. n \in Nat /\ m \in Nat
    OBVIOUS
  <2> QED
    BY <2>1, Reversed
<1>2. IsSuffix(s, t) <=> Len(a) <= Len(b) /\ SubSeq(a, 1, Len(a)) = SubSeq(b, 1, Len(a))
  BY DEF IsSuffix, IsPrefix
<1> HIDE DEF a, b
<1>3. ASSUME n <= m
      PROVE  SubSeq(a, 1, n) = SubSeq(b, 1, n) <=> \A i \in 1..n : a[i] = b[i]
  <2> DEFINE x == SubSeq(a, 1, n)
             y == SubSeq(b, 1, n)
  <2>1. /\ x \in Seq(S) /\ Len(x) = n /\ \A i \in 1..n : x[i] = a[i]
        /\ y \in Seq(S) /\ Len(y) = n /\ \A i \in 1..n : y[i] = b[i]
    <3>1. n \in 0..Len(a) /\ n \in 0..Len(b)
      BY <1>1, <1>3
    <3> HIDE DEF n
    <3> QED
      BY <1>1, <3>1, Firsts
  <2>2. x = y <=> \A i \in 1..n : x[i] = y[i]
    <3> HIDE DEF x, y, n
    <3>1. (\A i \in 1..n : x[i] = y[i]) => x = y
      BY <2>1, SameSequence
    <3> QED
      BY <3>1
  <2> HIDE DEF x, y, n
  <2>3. x = y <=> \A i \in 1..n : a[i] = b[i]
    BY <2>1, <2>2
  <2> QED
    BY <2>3 DEF x, y
<1>4. ASSUME n <= m
      PROVE  (\A i \in 1..n : a[i] = b[i]) <=> \A i \in 1..n : s[i] = t[i + (m - n)]
  <2> HIDE DEF n, m
  <2>1. ASSUME \A i \in 1..n : a[i] = b[i], NEW i \in 1..n PROVE s[i] = t[i + (m - n)]
    <3> DEFINE j == (n - i) + 1
    <3>1. j \in 1..n /\ j \in 1..m /\ (n - j) + 1 = i /\ (m - j) + 1 = i + (m - n)
      BY <1>1, <1>4
    <3> HIDE DEF j
    <3>2. a[j] = s[(n - j) + 1] /\ b[j] = t[(m - j) + 1]
      BY <1>1, <3>1
    <3> QED
      BY <2>1, <3>1, <3>2
  <2>2. ASSUME \A i \in 1..n : s[i] = t[i + (m - n)], NEW i \in 1..n PROVE a[i] = b[i]
    <3> DEFINE j == (n - i) + 1
    <3>1. j \in 1..n /\ i \in 1..m /\ j + (m - n) = (m - i) + 1
      BY <1>1, <1>4
    <3>2. a[i] = s[j] /\ b[i] = t[(m - i) + 1]
      BY <1>1, <3>1
    <3> HIDE DEF j
    <3> QED
      BY <2>2, <3>1, <3>2
  <2> QED
    BY <2>1, <2>2
<1>5. IsSuffix(s, t) <=> n <= m /\ \A i \in 1..n : s[i] = t[i + (m - n)]
  <2> HIDE DEF n, m
  <2> QED
    BY <1>1, <1>2, <1>3, <1>4
<1> QED
  BY <1>5 DEF Ends

\* Of two suffixes of a host the shorter is one of the longer.
LEMMA EndsChain ==
    ASSUME NEW S, NEW r \in Seq(S), NEW s \in Seq(S), NEW t \in Seq(S),
           Ends(r, t), Ends(s, t), Len(r) <= Len(s)
    PROVE  Ends(r, s)
<1>1. Len(r) \in Nat /\ Len(s) \in Nat /\ Len(t) \in Nat
  OBVIOUS
<1>2. ASSUME NEW i \in 1..Len(r) PROVE r[i] = s[i + (Len(s) - Len(r))]
  <2> DEFINE j == i + (Len(s) - Len(r))
  <2>1. j \in 1..Len(s) /\ j + (Len(t) - Len(s)) = i + (Len(t) - Len(r))
    BY <1>1
  <2>2. r[i] = t[i + (Len(t) - Len(r))]
    BY DEF Ends
  <2>3. s[j] = t[j + (Len(t) - Len(s))]
    <3> HIDE DEF j
    <3> QED
      BY <2>1 DEF Ends
  <2> QED
    BY <2>1, <2>2, <2>3
<1> QED
  BY <1>2 DEF Ends

\* A suffix of a suffix is one.
LEMMA EndsTransitive ==
    ASSUME NEW S, NEW r \in Seq(S), NEW s \in Seq(S), NEW t \in Seq(S), Ends(r, s), Ends(s, t)
    PROVE  Ends(r, t)
<1>1. Len(r) \in Nat /\ Len(s) \in Nat /\ Len(t) \in Nat /\ Len(r) <= Len(s) /\ Len(s) <= Len(t)
  BY DEF Ends
<1>2. ASSUME NEW i \in 1..Len(r) PROVE r[i] = t[i + (Len(t) - Len(r))]
  <2> DEFINE j == i + (Len(s) - Len(r))
  <2>1. j \in 1..Len(s) /\ j + (Len(t) - Len(s)) = i + (Len(t) - Len(r))
    BY <1>1
  <2>2. r[i] = s[j]
    BY DEF Ends
  <2>3. s[j] = t[j + (Len(t) - Len(s))]
    <3> HIDE DEF j
    <3> QED
      BY <2>1 DEF Ends
  <2> QED
    BY <2>1, <2>2, <2>3
<1> QED
  BY <1>1, <1>2 DEF Ends

\* Suffixes of the same length are equal.
LEMMA EndsSame ==
    ASSUME NEW S, NEW r \in Seq(S), NEW s \in Seq(S), Ends(r, s), Len(r) = Len(s)
    PROVE  r = s
<1>1. Len(r) \in Nat
  OBVIOUS
<1>2. ASSUME NEW i \in 1..Len(r) PROVE r[i] = s[i]
  <2>1. r[i] = s[i + (Len(s) - Len(r))] /\ i + (Len(s) - Len(r)) = i
    BY <1>1 DEF Ends
  <2> QED
    BY <2>1
<1> QED
  BY <1>2, SameSequence

Hosts == Seq(STRING)

\* The listed suffixes of a host.
Listed(host) == {s \in PublicSuffixes : Ends(s, host)}

\* Suffix takes the longest listed one, else the last label.
LEMMA SuffixIs ==
    ASSUME NEW host \in Hosts
    PROVE  /\ Listed(host) = {} => Suffix(host) = <<Last(host)>>
           /\ Listed(host) # {} =>
                Suffix(host) \in Listed(host) /\ \A t \in Listed(host) : Len(t) <= Len(Suffix(host))
<1>1. Listed(host) = {s \in PublicSuffixes : IsSuffix(s, host)}
  <2>1. \A s \in PublicSuffixes : s \in Seq(STRING)
    BY MatchingAssumption
  <2> QED
    BY <2>1, SuffixEnds DEF Listed, Hosts
<1>2. ASSUME Listed(host) # {} PROVE \E s \in Listed(host) : \A t \in Listed(host) : Len(t) <= Len(s)
  <2> DEFINE T == {Len(s) : s \in Listed(host)}
             b == Len(host)
  <2>1. \A s \in Listed(host) : s \in Seq(STRING) /\ Len(s) <= Len(host)
    BY MatchingAssumption DEF Listed, Ends
  <2>2. \A s \in Seq(STRING) : Len(s) \in Nat
    OBVIOUS
  <2>3. T \in SUBSET Nat /\ T # {} /\ b \in Nat /\ \A y \in T : y <= b
    BY <1>2, <2>1, <2>2 DEF Hosts
  <2>4. \E x \in T : \A y \in T : y <= x
    <3> HIDE DEF T, b
    <3> QED
      BY <2>3, Greatest
  <2> QED
    BY <2>4
<1>3. Suffix(host) = IF Listed(host) = {} THEN <<Last(host)>>
                     ELSE CHOOSE s \in Listed(host) : \A t \in Listed(host) : Len(t) <= Len(s)
  BY <1>1 DEF Suffix
<1> QED
  BY <1>2, <1>3

\* The suffix of a host is one of its suffixes.
LEMMA SuffixType ==
    ASSUME NEW host \in Hosts, host # <<>>
    PROVE  Suffix(host) \in Hosts /\ Ends(Suffix(host), host) /\ Len(Suffix(host)) \in Nat
<1>1. CASE Listed(host) # {}
  <2>1. Suffix(host) \in Listed(host)
    BY <1>1, SuffixIs
  <2>2. Suffix(host) \in Hosts /\ Ends(Suffix(host), host)
    BY <2>1, MatchingAssumption DEF Listed, Hosts
  <2>3. \A s \in Hosts : Len(s) \in Nat
    BY DEF Hosts
  <2> QED
    BY <2>2, <2>3
<1>2. CASE Listed(host) = {}
  <2> DEFINE x == Last(host)
             n == Len(host)
  <2>1. Suffix(host) = <<x>>
    BY <1>2, SuffixIs
  <2>2. n \in Nat /\ 1 <= n /\ x = host[n] /\ x \in STRING
    BY DEF Hosts, Last
  <2> HIDE DEF x
  <2>3. <<x>> \in Hosts /\ Len(<<x>>) = 1 /\ <<x>>[1] = x
    BY <2>2 DEF Hosts
  <2>4. Ends(<<x>>, host)
    <3>1. 1 + (n - 1) = n /\ \A i \in 1..1 : i = 1
      BY <2>2
    <3> QED
      BY <2>2, <2>3, <3>1 DEF Ends
  <2> QED
    BY <2>1, <2>3, <2>4
<1> QED
  BY <1>1, <1>2

\* A host below an apex, where the apex is longer than the public suffix of the
\* host, has the same registrable domain as the apex.
LEMMA SameSuffix ==
    ASSUME NEW host \in Hosts, host # <<>>, NEW apex \in Hosts, Ends(apex, host),
           ~Ends(apex, Suffix(host))
    PROVE  Suffix(apex) = Suffix(host) /\ Len(Suffix(host)) < Len(apex)
<1> DEFINE s == Suffix(host)
<1>1. s \in Hosts /\ Ends(s, host) /\ Len(s) \in Nat
  BY SuffixType
<1>2. Len(apex) \in Nat
  BY DEF Hosts
<1>3. Len(s) < Len(apex)
  <2>1. Len(apex) <= Len(s) => Ends(apex, s)
    <3> HIDE DEF s
    <3> QED
      BY <1>1, EndsChain DEF Hosts
  <2> QED
    BY <1>1, <1>2, <2>1
<1>4. Ends(s, apex)
  <2> HIDE DEF s
  <2> QED
    BY <1>1, <1>2, <1>3, EndsChain DEF Hosts
<1>5. apex # <<>>
  BY <1>1, <1>2, <1>3
<1>6. \A t \in Listed(apex) : t \in Hosts /\ Ends(t, apex) /\ t \in Listed(host)
  <2> SUFFICES ASSUME NEW t \in Listed(apex)
               PROVE  t \in Hosts /\ Ends(t, apex) /\ t \in Listed(host)
    OBVIOUS
  <2>1. t \in PublicSuffixes /\ t \in Hosts /\ Ends(t, apex)
    BY MatchingAssumption DEF Listed, Hosts
  <2>2. Ends(t, host)
    BY <2>1, EndsTransitive DEF Hosts
  <2> QED
    BY <2>1, <2>2 DEF Listed
<1>7. CASE Listed(host) = {}
  <2>1. Listed(apex) = {}
    BY <1>6, <1>7
  <2>2. Suffix(apex) = <<Last(apex)>> /\ s = <<Last(host)>>
    BY <1>7, <2>1, SuffixIs
  <2>3. Last(apex) = Last(host)
    <3> DEFINE n == Len(apex)
    <3>1. n \in 1..Len(apex) /\ n + (Len(host) - Len(apex)) = Len(host)
      BY <1>1, <1>2, <1>3 DEF Hosts
    <3>2. apex[n] = host[n + (Len(host) - Len(apex))]
      <4> HIDE DEF n
      <4> QED
        BY <3>1 DEF Ends
    <3> QED
      BY <3>1, <3>2 DEF Last
  <2> QED
    BY <1>3, <2>2, <2>3
<1>8. CASE Listed(host) # {}
  <2>1. s \in Listed(host) /\ \A t \in Listed(host) : Len(t) <= Len(s)
    BY <1>8, SuffixIs
  <2>2. s \in Listed(apex)
    BY <1>4, <2>1 DEF Listed
  <2>3. Suffix(apex) \in Listed(apex) /\ \A t \in Listed(apex) : Len(t) <= Len(Suffix(apex))
    BY <2>2, SuffixIs
  <2> DEFINE r == Suffix(apex)
  <2>4. Len(r) <= Len(s) /\ Len(s) <= Len(r) /\ r \in Hosts /\ Ends(r, apex)
    BY <1>6, <2>1, <2>2, <2>3
  <2>5. Len(r) \in Nat
    BY <2>4 DEF Hosts
  <2> HIDE DEF r, s
  <2>6. Len(r) = Len(s)
    BY <1>1, <2>4, <2>5
  <2>7. Ends(r, s)
    BY <1>1, <1>4, <2>4, <2>6, EndsChain DEF Hosts
  <2>8. r = s
    BY <1>1, <2>4, <2>6, <2>7, EndsSame DEF Hosts
  <2> QED
    BY <1>3, <2>8 DEF r, s
<1> QED
  BY <1>7, <1>8

\* The last labels of a host.
LEMMA Lasts ==
    ASSUME NEW S, NEW t \in Seq(S), NEW k \in Nat, 1 <= k, k <= Len(t)
    PROVE  /\ SubSeq(t, Len(t) - k + 1, Len(t)) \in Seq(S)
           /\ Len(SubSeq(t, Len(t) - k + 1, Len(t))) = k
           /\ \A i \in 1..k : SubSeq(t, Len(t) - k + 1, Len(t))[i] = t[i + (Len(t) - k)]
<1>1. Len(t) \in Nat
  OBVIOUS
<1> DEFINE a == Len(t) - k + 1
           u == SubSeq(t, a, Len(t))
<1>2. a \in 1..Len(t) /\ Len(t) - a + 1 = k
  BY <1>1
<1>3. u \in Seq(S) /\ Len(u) = Len(t) - a + 1 /\ \A i \in 1..(Len(t) - a + 1) : u[i] = t[a + i - 1]
  <2> HIDE DEF a
  <2> QED
    BY <1>1, <1>2
<1>4. \A i \in 1..k : a + i - 1 = i + (Len(t) - k)
  BY <1>1
<1> HIDE DEF a, u
<1>5. u \in Seq(S) /\ Len(u) = k /\ \A i \in 1..k : u[i] = t[i + (Len(t) - k)]
  BY <1>2, <1>3, <1>4
<1> QED
  BY <1>5 DEF u, a

\* A page below the host of a URL that is longer than the page's public suffix has
\* the registrable domain of that URL.
LEMMA SameDomain ==
    ASSUME NEW page, NEW origin, page.host \in Hosts, page.host # <<>>, origin.host \in Hosts,
           Ends(origin.host, page.host), ~Ends(origin.host, Suffix(page.host))
    PROVE  RegistrableDomain(origin) = RegistrableDomain(page)
<1> DEFINE host == page.host
           apex == origin.host
           n == Len(Suffix(host)) + 1
           a == SubSeq(apex, Len(apex) - n + 1, Len(apex))
           b == SubSeq(host, Len(host) - n + 1, Len(host))
<1>1. Suffix(apex) = Suffix(host) /\ Len(Suffix(host)) < Len(apex)
  <2> HIDE DEF host, apex
  <2>1. host \in Hosts /\ host # <<>> /\ apex \in Hosts /\ Ends(apex, host) /\ ~Ends(apex, Suffix(host))
    BY DEF host, apex
  <2> QED
    BY <2>1, SameSuffix
<1>2. Len(Suffix(host)) \in Nat
  BY SuffixType
<1>3. Len(apex) \in Nat /\ Len(host) \in Nat /\ Len(apex) <= Len(host)
  BY DEF Hosts, Ends
<1>4. n \in Nat /\ 1 <= n /\ n <= Len(apex) /\ n <= Len(host)
  BY <1>1, <1>2, <1>3
<1>5. RegistrableDomain(origin) = a /\ RegistrableDomain(page) = b
  <2>1. /\ ~(Len(apex) < Len(Suffix(apex)) + 1) /\ Len(Suffix(apex)) + 1 = n
        /\ ~(Len(host) < Len(Suffix(host)) + 1)
    <3> HIDE DEF apex, host
    <3> QED
      BY <1>1, <1>3, <1>4
  <2> QED
    BY <2>1 DEF RegistrableDomain
<1>6. /\ a \in Seq(STRING) /\ Len(a) = n /\ \A i \in 1..n : a[i] = apex[i + (Len(apex) - n)]
      /\ b \in Seq(STRING) /\ Len(b) = n /\ \A i \in 1..n : b[i] = host[i + (Len(host) - n)]
  <2>1. apex \in Seq(STRING) /\ host \in Seq(STRING)
    BY DEF Hosts
  <2> HIDE DEF apex, host, n
  <2> QED
    BY <1>4, <2>1, Lasts
<1>7. ASSUME NEW i \in 1..n PROVE a[i] = b[i]
  <2> DEFINE j == i + (Len(apex) - n)
  <2> HIDE DEF apex, host, n, a, b
  <2>1. j \in 1..Len(apex) /\ j + (Len(host) - Len(apex)) = i + (Len(host) - n)
    BY <1>3, <1>4
  <2>2. apex[j] = host[j + (Len(host) - Len(apex))]
    <3>1. Ends(apex, host)
      BY DEF apex, host
    <3> HIDE DEF j
    <3> QED
      BY <2>1, <3>1 DEF Ends
  <2> QED
    BY <1>6, <2>1, <2>2
<1>8. a = b
  <2> HIDE DEF a, b, n
  <2> QED
    BY <1>6, <1>7, SameSequence
<1> QED
  BY <1>5, <1>8

-------------------------------------------------------------------------------
(* Matching.                                                               *)

\* A page whose URL is not refused has a host.
LEMMA PageType ==
    ASSUME NEW raw \in RawURLs, ParseOrigin(raw) # Invalid
    PROVE  ParseOrigin(raw).host \in Hosts /\ ParseOrigin(raw).host # <<>>
<1>1. ParseOrigin(raw).host = ToASCII[raw.host] /\ ToASCII[raw.host] # <<>>
  BY DEF ParseOrigin
<1> QED
  BY <1>1, OriginType DEF Hosts

\* A URL that matches a page has the registrable domain of the page, unless it opts
\* in to what is over its public suffix.
LEMMA MatchesUnder ==
    ASSUME NEW page, NEW u, page.host \in Hosts, page.host # <<>>, u.origin.host \in Hosts,
           Matches(u, page), ~OverSuffix(u, page)
    PROVE  RegistrableDomain(u.origin) = RegistrableDomain(page)
<1>1. CASE u.origin.host = page.host
  BY <1>1 DEF RegistrableDomain
<1>2. CASE u.origin.host # page.host
  <2>1. u.sub /\ isUnder(page.host, u.origin.host) /\ ~isUnder(Suffix(page.host), u.origin.host)
    BY <1>2 DEF Matches, OverSuffix
  <2>2. Suffix(page.host) \in Hosts
    BY SuffixType
  <2>3. Ends(u.origin.host, page.host) /\ ~Ends(u.origin.host, Suffix(page.host))
    BY <2>1, <2>2, SuffixEnds DEF isUnder, Hosts
  <2> QED
    BY <2>3, SameDomain
<1> QED
  BY <1>1, <1>2

\* Between requests the secondary maps are those of the entries.
LEMMA CurrentOK == ASSUME IndexInv PROVE IndexOK(Current)
  BY EmptyOK DEF IndexInv

\* A record with the page's registrable domain is under it.
LEMMA FoundByDomain ==
    ASSUME IndexInv, NEW page, NEW id \in DOMAIN entries, NEW i \in DOMAIN entries[id].urls,
           RegistrableDomain(entries[id].urls[i].origin) = RegistrableDomain(page),
           Matches(entries[id].urls[i], page)
    PROVE  id \in ByOrigin(page)
<1> DEFINE d == RegistrableDomain(page)
           s == Lookup(byHost, d)
           ks == Domains(entries[id])
<1>1. Current.entries = entries /\ Current.byHost = byHost
  BY DEF Current, Maps
<1>2. Buckets(byHost, RecordIDs) /\ Count(byHost, id, d) = DomainCount(entries, id, d) /\ IsEntry(entries[id])
  BY <1>1, CurrentOK DEF IndexOK
<1>3. PICK K : ks \in Seq(K)
  BY <1>2, DomainsType
<1>4. ks[i] = d /\ i \in DOMAIN ks
  BY DEF Domains
<1>5. d \in ToSet(ks)
  <2> HIDE DEF ks, d
  <2> QED
    BY <1>4 DEF ToSet
<1>6. Occurrences(ks, d) # 0
  <2> HIDE DEF ks, d
  <2> QED
    BY <1>3, <1>5, OccurrencesSome
<1>7. Occurrences(s, id) # 0
  BY <1>2, <1>6 DEF Count, DomainCount
<1>8. s \in Seq(RecordIDs)
  BY <1>2, LookupType
<1>9. id \in ToSet(s)
  <2> HIDE DEF s
  <2> QED
    BY <1>7, <1>8, OccurrencesSome
<1> QED
  BY <1>9 DEF ByOrigin, MatchesOrigin

\* A record of the project is under it.
LEMMA FoundByProject ==
    ASSUME IndexInv, NEW page, NEW p, NEW id \in DOMAIN entries,
           MatchesProjectID(entries[id], page, p)
    PROVE  id \in ByProject(page, p)
<1> DEFINE s == Lookup(byProject, p)
<1>1. Current.entries = entries /\ Current.byProject = byProject
  BY DEF Current, Maps
<1>2. Buckets(byProject, RecordIDs) /\ Count(byProject, id, p) = ProjectCount(entries, id, p)
  BY <1>1, CurrentOK DEF IndexOK
<1>3. p # NoProject /\ entries[id].project = p
  BY DEF MatchesProjectID, NoProject
<1>4. Occurrences(s, id) = 1
  BY <1>2, <1>3 DEF Count, ProjectCount
<1>5. s \in Seq(RecordIDs)
  BY <1>2, LookupType
<1>6. id \in ToSet(s)
  <2> HIDE DEF s
  <2> QED
    BY <1>4, <1>5, OccurrencesSome
<1> QED
  BY <1>6 DEF ByProject

\* What Match offers is what it finds in one way or the other.
LEMMA OfferedIs ==
    ASSUME NEW page, NEW p
    PROVE  {m.id : m \in Match(page, p)} = ByOrigin(page) \cup ByProject(page, p)
<1> DEFINE A == {[id |-> id, reason |-> "origin"] : id \in ByOrigin(page)}
           B == {[id |-> id, reason |-> "project"] : id \in ByProject(page, p) \ ByOrigin(page)}
<1>1. {m.id : m \in A} = ByOrigin(page)
  <2>1. \A m \in A : m.id \in ByOrigin(page)
    OBVIOUS
  <2>2. \A x \in ByOrigin(page) : \E m \in A : m.id = x
    <3> SUFFICES ASSUME NEW x \in ByOrigin(page) PROVE \E m \in A : m.id = x
      OBVIOUS
    <3> WITNESS [id |-> x, reason |-> "origin"] \in A
    <3> QED
      OBVIOUS
  <2> HIDE DEF A
  <2> QED
    BY <2>1, <2>2
<1>2. {m.id : m \in B} = ByProject(page, p) \ ByOrigin(page)
  <2>1. \A m \in B : m.id \in ByProject(page, p) \ ByOrigin(page)
    OBVIOUS
  <2>2. \A x \in ByProject(page, p) \ ByOrigin(page) : \E m \in B : m.id = x
    <3> SUFFICES ASSUME NEW x \in ByProject(page, p) \ ByOrigin(page) PROVE \E m \in B : m.id = x
      OBVIOUS
    <3> WITNESS [id |-> x, reason |-> "project"] \in B
    <3> QED
      OBVIOUS
  <2> HIDE DEF B
  <2> QED
    BY <2>1, <2>2
<1>3. Match(page, p) = A \cup B
  BY DEF Match
<1> HIDE DEF A, B
<1> QED
  BY <1>1, <1>2, <1>3

\* Match finds through the maps what a scan of all records would, and offers what
\* RevealForOrigin reveals, up to the opt-ins over a public suffix; for every suffix
\* list, every host mapping, and all records and pages.
THEOREM MatchComplete == Spec => []MatchIsComplete
<1>1. IndexInv => MatchIsComplete
  <2> SUFFICES ASSUME IndexInv PROVE MatchIsComplete
    OBVIOUS
  <2> SUFFICES ASSUME NEW raw \in Pages, NEW p \in Projects, ParseOrigin(raw) # Invalid
               PROVE  LET page == ParseOrigin(raw)
                          offered == {m.id : m \in Match(page, p)}
                          found == {id \in DOMAIN entries :
                             \/ MatchesProjectID(entries[id], page, p)
                             \/ \E i \in DOMAIN entries[id].urls :
                                   Matches(entries[id].urls[i], page)
                                     /\ ~OverSuffix(entries[id].urls[i], page)}
                      IN  /\ found \subseteq offered
                          /\ \A id \in offered :
                                \/ RevealForOrigin(id, page, p)
                                \/ ~IsSecure(page) /\ ~IsLoopback(page) /\ MatchesOrigin(entries[id], page)
                          /\ \A id \in DOMAIN entries \ offered : RevealForOrigin(id, page, p) =>
                                \E i \in DOMAIN entries[id].urls : OverSuffix(entries[id].urls[i], page)
    BY DEF MatchIsComplete
  <2> DEFINE page == ParseOrigin(raw)
             offered == {m.id : m \in Match(page, p)}
  <2>1. page.host \in Hosts /\ page.host # <<>>
    BY MatchingAssumption, PageType
  <2> HIDE DEF page
  <2>2. offered = ByOrigin(page) \cup ByProject(page, p)
    BY OfferedIs
  <2> HIDE DEF offered
  <2>3. ASSUME NEW id \in DOMAIN entries, MatchesProjectID(entries[id], page, p)
        PROVE  id \in offered
    BY <2>2, <2>3, FoundByProject
  <2>4. ASSUME NEW id \in DOMAIN entries, NEW i \in DOMAIN entries[id].urls,
               Matches(entries[id].urls[i], page), ~OverSuffix(entries[id].urls[i], page)
        PROVE  id \in offered
    <3> DEFINE u == entries[id].urls[i]
    <3>1. u.origin.host \in Hosts
      <4>1. Current.entries = entries
        BY DEF Current, Maps
      <4> QED
        BY <4>1, CurrentOK DEF IndexOK, IsEntry, Hosts
    <3>2. RegistrableDomain(u.origin) = RegistrableDomain(page)
      <4>1. Matches(u, page) /\ ~OverSuffix(u, page)
        BY <2>4
      <4> HIDE DEF u
      <4> QED
        BY <2>1, <3>1, <4>1, MatchesUnder
    <3> QED
      BY <2>2, <2>4, <3>2, FoundByDomain
  <2>5. ASSUME NEW id \in offered
        PROVE  \/ RevealForOrigin(id, page, p)
               \/ ~IsSecure(page) /\ ~IsLoopback(page) /\ MatchesOrigin(entries[id], page)
    <3>1. CASE id \in ByOrigin(page)
      BY <3>1 DEF ByOrigin, RevealForOrigin
    <3>2. CASE id \in ByProject(page, p)
      BY <3>2 DEF ByProject, RevealForOrigin, MatchesProjectID
    <3> QED
      BY <2>2, <3>1, <3>2
  <2>6. ASSUME NEW id \in DOMAIN entries \ offered, RevealForOrigin(id, page, p)
        PROVE  \E i \in DOMAIN entries[id].urls : OverSuffix(entries[id].urls[i], page)
    <3>1. ~MatchesProjectID(entries[id], page, p)
      BY <2>3
    <3>2. MatchesOrigin(entries[id], page)
      BY <2>6, <3>1 DEF RevealForOrigin
    <3>3. PICK i \in DOMAIN entries[id].urls : Matches(entries[id].urls[i], page)
      BY <3>2 DEF MatchesOrigin
    <3> QED
      BY <2>4, <3>3
  <2> QED
    BY <2>3, <2>4, <2>5, <2>6 DEF page, offered
<1> QED
  BY IndexInvariant, <1>1, PTL

-------------------------------------------------------------------------------
(* Edits.                                                                  *)

Values == Names \cup Nat
Rows == [revision : Nat \ {0}, fields : [Fields -> Values]]
Locals ==
    [pc : {"reveal", "open", "update"}, id : Records, field : Fields, value : Values,
     ref : Names, revision : Nat \ {0}, read : [Fields -> Values]]

\* The table, the clients' copies and the counter keep their types.
EditTypes ==
    /\ store \in [Records -> Rows \cup {NoRecord}]
    /\ cl \in [Clients -> Locals \cup {Idle}]
    /\ edits \in Nat

\* What a client holds is not newer than its record, and agrees with it while the
\* revision is the one it read; a reference that is still to be resolved again is
\* then still the record's name.
Agrees(l) ==
    /\ store[l.id] # NoRecord => l.revision <= store[l.id].revision
    /\ store[l.id].revision = l.revision =>
          /\ \A f \in Fields : l.read[f] = store[l.id].fields[f]
          /\ l.pc = "reveal" => l.ref = store[l.id].fields["name"]

\* The save bar changes the password.
SaveBar(c, l) == c \in Extensions => l.field = "password"

ClientsOK == \A c \in Clients : cl[c] # Idle => Agrees(cl[c]) /\ SaveBar(c, cl[c])

EditInv == EditTypes /\ ClientsOK

-------------------------------------------------------------------------------
(* Facts about the operators.                                              *)

\* A deleted record has no revision, an idle client no copy.
LEMMA Shapes ==
    /\ NoRecord.revision = 0 /\ NoRecord \notin Rows
    /\ Idle.pc = "idle" /\ Idle \notin Locals
    /\ "name" \in Fields /\ "password" \in Fields /\ Secrets \subseteq Fields
    /\ HostName \in Values /\ 0 \in Values /\ 1 \in Values
  <1>1. NoRecord.revision = 0 /\ \A r \in Rows : r.revision # 0
    BY DEF NoRecord, Rows
  <1>2. Idle.pc = "idle" /\ \A l \in Locals : l.pc # "idle"
    BY DEF Idle, Locals
  <1>3. "name" \in Fields /\ "password" \in Fields /\ Secrets \subseteq Fields
    BY DEF Fields, Metadata, Secrets
  <1>4. HostName \in Values /\ 0 \in Values /\ 1 \in Values
    BY RecordEditsAssumption DEF Values
  <1> QED
    BY <1>1, <1>2, <1>3, <1>4

\* A record that exists has a row, a client that is not idle a copy.
LEMMA Members ==
    ASSUME EditTypes
    PROVE  /\ \A id \in Records : Exists(id) => store[id] \in Rows
           /\ \A id \in Records : store[id].revision \in Nat
           /\ \A c \in Clients : cl[c] # Idle => cl[c] \in Locals
  <1>1. \A id \in Records : Exists(id) => store[id] \in Rows
    BY DEF EditTypes, Exists
  <1>2. \A id \in Records : store[id].revision \in Nat
    BY Shapes DEF EditTypes, Rows
  <1> QED
    BY <1>1, <1>2 DEF EditTypes

\* Resolve gives the one record with the name, and only if it is the only one.
LEMMA ResolvedIsUnique ==
    ASSUME NEW ref, NEW id \in Resolved(ref)
    PROVE  /\ id \in Records /\ Exists(id) /\ store[id].fields["name"] = ref
           /\ \A i \in Records : Exists(i) /\ store[i].fields["name"] = ref => i = id
  <1> DEFINE matches == {i \in Records : Exists(i) /\ store[i].fields["name"] = ref}
  <1>1. Resolved(ref) = IF Cardinality(matches) = 1 THEN matches ELSE {}
    BY DEF Resolved
  <1>2. id \in matches /\ Cardinality(matches) = 1
    BY <1>1
  <1>3. IsFiniteSet(matches)
    <2>1. matches \subseteq Records
      OBVIOUS
    <2> HIDE DEF matches
    <2> QED
      BY <2>1, RecordEditsAssumption, FS_Subset
  <1>4. ASSUME NEW i \in matches PROVE i = id
    <2> HIDE DEF matches
    <2>1. IsFiniteSet(matches \ {id}) /\ Cardinality(matches \ {id}) = Cardinality(matches) - 1
      BY <1>2, <1>3, FS_RemoveElement
    <2>2. Cardinality(matches \ {id}) = 0
      BY <1>2, <2>1
    <2>3. matches \ {id} = {}
      BY <2>1, <2>2, FS_EmptySet
    <2> QED
      BY <1>4, <2>3
  <1> QED
    BY <1>2, <1>4

\* What a client sends is a value for every field.
LEMMA PayloadType ==
    ASSUME EditInv, NEW c \in Clients, cl[c] # Idle
    PROVE  Payload(c) \in [Fields -> Values]
  <1> DEFINE l == cl[c]
             merged == [l.read EXCEPT ![l.field] = l.value]
  <1>1. /\ l.read \in [Fields -> Values] /\ l.value \in Values /\ l.field \in Fields
    BY Members DEF EditInv, Locals
  <1>2. merged \in [Fields -> Values]
    BY <1>1
  <1>3. CASE c \in CLIs
    <2>1. c \notin Desktops /\ c \notin Extensions
      BY <1>3, RecordEditsAssumption
    <2>2. Payload(c) = [merged EXCEPT !["project"] = 0, !["custom"] = 0]
      BY <1>3, <2>1 DEF Payload
    <2> HIDE DEF merged
    <2> QED
      BY <1>2, <2>2, Shapes
  <1>4. CASE c \in Desktops
    <2>1. c \notin CLIs /\ c \notin Extensions
      BY <1>4, RecordEditsAssumption
    <2>2. Payload(c) = merged
      BY <1>4, <2>1 DEF Payload
    <2> QED
      BY <1>2, <2>2
  <1>5. CASE c \in Extensions
    <2>1. c \notin CLIs /\ c \notin Desktops
      BY <1>5, RecordEditsAssumption
    <2>2. Payload(c) = [f \in Fields |->
                           CASE f \in {"password", "username", "urls"} -> l.value
                             [] f = "project" -> l.read[f]
                             [] f = "name" -> HostName
                             [] OTHER -> 0]
      BY <1>5, <2>1 DEF Payload
    <2> QED
      BY <1>1, <2>2, Shapes
  <1> QED
    BY <1>3, <1>4, <1>5 DEF Clients

-------------------------------------------------------------------------------
(* The invariant.                                                          *)

\* Every record starts with revision 1 and a name.
LEMMA EditInitially == EditInit => EditInv
  <1> SUFFICES ASSUME EditInit PROVE EditInv
    OBVIOUS
  <1>1. PICK names \in [Records -> Names] :
          store = [id \in Records |->
                      Record(1, [f \in Fields |-> IF f = "name" THEN names[id] ELSE 1])]
    BY DEF EditInit
  <1>2. ASSUME NEW id \in Records
        PROVE  Record(1, [f \in Fields |-> IF f = "name" THEN names[id] ELSE 1]) \in Rows
    BY DEF Record, Rows, Values
  <1>3. store \in [Records -> Rows \cup {NoRecord}]
    BY <1>1, <1>2
  <1> QED
    BY <1>3 DEF EditInit, EditInv, EditTypes, ClientsOK

\* A client that begins holds what its record holds now.
LEMMA BeginStep ==
    ASSUME EditInv, NEW c \in Clients, NEW id \in Records, Exists(id),
           NEW pc \in {"reveal", "open", "update"}, NEW f \in Fields, NEW v \in Values,
           NEW ref \in Names, Begin(c, Intent(pc, id, f, v, ref)),
           pc = "reveal" => store[id].fields["name"] = ref,
           c \in Extensions => f = "password"
    PROVE  EditInv'
  <1>0. EditTypes /\ ClientsOK /\ store[id] \in Rows
    BY Members DEF EditInv
  <1>1. PICK l : l = Intent(pc, id, f, v, ref)
    OBVIOUS
  <1>2. /\ l \in Locals /\ l.pc = pc /\ l.id = id /\ l.field = f /\ l.ref = ref
        /\ l.revision = store[id].revision /\ l.read = store[id].fields
    BY <1>0, <1>1 DEF Intent, Locals, Rows
  <1>3. store' = store /\ edits' = edits + 1 /\ cl' = [cl EXCEPT ![c] = l]
    BY <1>1 DEF Begin
  <1>4. EditTypes'
    BY <1>0, <1>2, <1>3 DEF EditTypes
  <1>5. ASSUME NEW d \in Clients, cl'[d] # Idle
        PROVE  Agrees(cl[d])' /\ SaveBar(d, cl[d])'
    <2>1. CASE d = c
      <3>1. cl'[d] = l /\ store[id].revision \in Nat
        BY <1>0, <1>3, <2>1 DEF EditTypes, Rows
      <3> QED
        BY <1>2, <1>3, <2>1, <3>1 DEF Agrees, SaveBar
    <2>2. CASE d # c
      <3>1. cl'[d] = cl[d] /\ Agrees(cl[d]) /\ SaveBar(d, cl[d])
        BY <1>0, <1>3, <1>5, <2>2 DEF EditTypes, ClientsOK
      <3> QED
        BY <1>3, <3>1 DEF Agrees, SaveBar
    <2> QED
      BY <2>1, <2>2
  <1> QED
    BY <1>4, <1>5 DEF EditInv, ClientsOK

\* The secrets of record id are read into c's copy; if the copy is current they are
\* the secrets of c's own record.
LEMMA RevealStep ==
    ASSUME EditInv, NEW c \in Clients, cl[c] # Idle, NEW id \in Records, Exists(id),
           store[cl[c].id].revision = cl[c].revision => id = cl[c].id,
           cl' = [cl EXCEPT ![c].pc = "update", ![c].read = WithSecrets(@, id)],
           UNCHANGED <<store, edits>>
    PROVE  EditInv'
  <1> DEFINE l == cl[c]
             m == [l EXCEPT !.pc = "update", !.read = WithSecrets(l.read, id)]
  <1>0. EditTypes /\ ClientsOK /\ l \in Locals /\ store[id] \in Rows /\ Agrees(l) /\ SaveBar(c, l)
    BY Members DEF EditInv, ClientsOK
  <1>1. /\ WithSecrets(l.read, id) \in [Fields -> Values]
        /\ \A f \in Fields : WithSecrets(l.read, id)[f] =
              IF f \in Secrets THEN store[id].fields[f] ELSE l.read[f]
    BY <1>0 DEF WithSecrets, Rows, Locals
  <1>2. /\ m \in Locals /\ m.pc = "update" /\ m.id = l.id /\ m.field = l.field
        /\ m.revision = l.revision /\ m.read = WithSecrets(l.read, id)
    BY <1>0, <1>1 DEF Locals
  <1>3. cl' = [cl EXCEPT ![c] = m] /\ store' = store /\ edits' = edits
    BY <1>0 DEF EditTypes
  <1> HIDE DEF m
  <1>4. EditTypes'
    BY <1>0, <1>2, <1>3 DEF EditTypes
  <1>5. ASSUME NEW d \in Clients, cl'[d] # Idle
        PROVE  Agrees(cl[d])' /\ SaveBar(d, cl[d])'
    <2>1. CASE d = c
      <3>1. cl'[d] = m
        BY <1>0, <1>3, <2>1 DEF EditTypes
      <3>2. store[m.id].revision = m.revision =>
               \A f \in Fields : m.read[f] = store[m.id].fields[f]
        BY <1>0, <1>1, <1>2 DEF Agrees
      <3> QED
        BY <1>0, <1>2, <1>3, <2>1, <3>1, <3>2 DEF Agrees, SaveBar
    <2>2. CASE d # c
      <3>1. cl'[d] = cl[d] /\ Agrees(cl[d]) /\ SaveBar(d, cl[d])
        BY <1>0, <1>3, <1>5, <2>2 DEF EditTypes, ClientsOK
      <3> QED
        BY <1>3, <3>1 DEF Agrees, SaveBar
    <2> QED
      BY <2>1, <2>2
  <1> QED
    BY <1>4, <1>5 DEF EditInv, ClientsOK

\* A client gives up or is done, and no record that has changed keeps its revision.
LEMMA EndStep ==
    ASSUME EditInv, EditTypes',
           \A c \in Clients : cl'[c] \in {cl[c], Idle},
           \A id \in Records : \/ store'[id] = store[id]
                               \/ store'[id] = NoRecord
                               \/ Exists(id) /\ store'[id].revision = store[id].revision + 1
    PROVE  EditInv'
  <1>1. ASSUME NEW c \in Clients, cl'[c] # Idle
        PROVE  Agrees(cl[c])' /\ SaveBar(c, cl[c])'
    <2>1. cl'[c] = cl[c] /\ Agrees(cl[c]) /\ SaveBar(c, cl[c]) /\ cl[c] \in Locals
      BY <1>1, Members DEF EditInv, ClientsOK
    <2>2. PICK id \in Records : id = cl[c].id
      BY <2>1 DEF Locals
    <2>3. cl[c].revision \in Nat \ {0} /\ store[id].revision \in Nat
      BY <2>1, Members DEF Locals, EditInv
    <2>4. CASE store'[id] = store[id]
      BY <2>1, <2>2, <2>4 DEF Agrees, SaveBar
    <2>5. CASE store'[id] = NoRecord
      BY <2>1, <2>2, <2>3, <2>5, Shapes DEF Agrees, SaveBar
    <2>6. CASE Exists(id) /\ store'[id].revision = store[id].revision + 1
      <3>1. cl[c].revision <= store[id].revision
        BY <2>1, <2>2, <2>6 DEF Agrees, Exists
      <3>2. cl[c].revision <= store'[id].revision /\ store'[id].revision # cl[c].revision
        BY <2>3, <2>6, <3>1
      <3> QED
        BY <2>1, <2>2, <3>2 DEF Agrees, SaveBar
    <2> QED
      BY <2>4, <2>5, <2>6
  <1> QED
    BY <1>1 DEF EditInv, ClientsOK

\* An update replaces a record only if it has the expected revision.
LEMMA SubmitEffect ==
    ASSUME EditInv, NEW c \in Clients, Submit(c)
    PROVE  /\ EditTypes' /\ cl[c] \in Locals
           /\ \A d \in Clients : cl'[d] = IF d = c THEN Idle ELSE cl[d]
           /\ \A i \in Records :
                 \/ store'[i] = store[i]
                 \/ /\ i = cl[c].id /\ Exists(i) /\ store[i].revision = cl[c].revision
                    /\ store'[i] = Record(store[i].revision + 1, Payload(c))
  <1>0. /\ EditTypes /\ cl[c] # Idle /\ cl[c] \in Locals
    BY Members DEF EditInv, Submit
  <1>1. Payload(c) \in [Fields -> Values]
    BY <1>0, PayloadType
  <1>2. /\ store' = Update(cl[c].id, cl[c].revision, Payload(c))
        /\ cl' = [cl EXCEPT ![c] = Idle] /\ edits' = edits
    BY DEF Submit
  <1>3. PICK row : row = Record(cl[c].revision + 1, Payload(c))
    OBVIOUS
  <1>4. row \in Rows
    BY <1>0, <1>1, <1>3 DEF Record, Rows, Locals
  <1>5. \/ store' = store
        \/ /\ Exists(cl[c].id) /\ store[cl[c].id].revision = cl[c].revision
           /\ store' = [store EXCEPT ![cl[c].id] = row]
    BY <1>2, <1>3 DEF Update
  <1>6. EditTypes'
    BY <1>0, <1>2, <1>4, <1>5 DEF EditTypes, Locals
  <1>7. ASSUME NEW i \in Records
        PROVE  \/ store'[i] = store[i]
               \/ /\ i = cl[c].id /\ Exists(i) /\ store[i].revision = cl[c].revision
                  /\ store'[i] = Record(store[i].revision + 1, Payload(c))
    BY <1>0, <1>3, <1>5 DEF EditTypes
  <1> QED
    BY <1>0, <1>2, <1>6, <1>7 DEF EditTypes

\* Every step of a client keeps the invariant.
LEMMA EditNextStep == ASSUME EditInv, EditNext PROVE EditInv'
  <1>0. EditTypes /\ ClientsOK /\ edits + 2 \in Values
    BY DEF EditInv, EditTypes, Values
  <1>v. \A f \in Fields : Change(f) \subseteq Values
    BY <1>0 DEF Change, Values
  <1>1. ASSUME NEW c \in CLIs, CLIShow(c) PROVE EditInv'
    <2>1. PICK ref \in Names, f \in Fields \ {"project", "custom"} :
             \E id \in Resolved(ref), v \in Change(f) :
                 Begin(c, Intent("reveal", id, f, v, ref))
      BY <1>1 DEF CLIShow
    <2>2. PICK id \in Resolved(ref), v \in Change(f) :
             Begin(c, Intent("reveal", id, f, v, ref))
      BY <2>1
    <2>3. id \in Records /\ Exists(id) /\ store[id].fields["name"] = ref
      BY ResolvedIsUnique
    <2>4. c \in Clients /\ c \notin Extensions /\ v \in Values
      BY <1>1, <1>v, RecordEditsAssumption DEF Clients
    <2> QED
      BY <2>2, <2>3, <2>4, BeginStep
  <1>2. ASSUME NEW c \in CLIs, CLIReveal(c) PROVE EditInv'
    <2>0. c \in Clients /\ cl[c] # Idle /\ cl[c].pc = "reveal" /\ cl[c] \in Locals
          /\ Agrees(cl[c]) /\ store' = store /\ edits' = edits
      BY <1>0, <1>2, Members DEF Clients, CLIReveal, ClientsOK
    <2>1. CASE Resolved(cl[c].ref) = {}
      <3>1. cl' = [cl EXCEPT ![c] = Idle]
        BY <1>2, <2>1 DEF CLIReveal
      <3>2. EditTypes' /\ \A d \in Clients : cl'[d] \in {cl[d], Idle}
        BY <1>0, <2>0, <3>1 DEF EditTypes
      <3> QED
        BY <2>0, <3>2, EndStep
    <2>2. CASE Resolved(cl[c].ref) # {}
      <3>1. PICK id \in Resolved(cl[c].ref) :
               cl' = [cl EXCEPT ![c].pc = "update", ![c].read = WithSecrets(@, id)]
        BY <1>2, <2>2 DEF CLIReveal
      <3>2. PICK ref : ref = cl[c].ref
        OBVIOUS
      <3>3. /\ id \in Records /\ Exists(id)
            /\ \A i \in Records : Exists(i) /\ store[i].fields["name"] = ref => i = id
        BY <3>2, ResolvedIsUnique
      <3>4. store[cl[c].id].revision = cl[c].revision => id = cl[c].id
        BY <2>0, <3>2, <3>3, Shapes DEF Agrees, Locals, Exists
      <3> QED
        BY <2>0, <3>1, <3>3, <3>4, RevealStep
    <2> QED
      BY <2>1, <2>2
  <1>3. ASSUME NEW c \in Desktops, DesktopList(c) PROVE EditInv'
    <2>1. PICK id \in {i \in Records : Exists(i)}, f \in Fields :
             \E v \in Change(f) : Begin(c, Intent("open", id, f, v, HostName))
      BY <1>3 DEF DesktopList
    <2>2. PICK v \in Change(f) : Begin(c, Intent("open", id, f, v, HostName))
      BY <2>1
    <2>3. c \in Clients /\ c \notin Extensions /\ v \in Values /\ HostName \in Names
      BY <1>3, <1>v, RecordEditsAssumption DEF Clients
    <2> QED
      BY <2>2, <2>3, BeginStep
  <1>4. ASSUME NEW c \in Desktops, DesktopReveal(c) PROVE EditInv'
    <2>0. c \in Clients /\ cl[c] # Idle /\ cl[c] \in Locals
          /\ store' = store /\ edits' = edits
      BY <1>0, <1>4, Members DEF Clients, DesktopReveal, ClientsOK
    <2>1. CASE ~Exists(cl[c].id)
      <3>1. cl' = [cl EXCEPT ![c] = Idle]
        BY <1>4, <2>1 DEF DesktopReveal
      <3>2. EditTypes' /\ \A d \in Clients : cl'[d] \in {cl[d], Idle}
        BY <1>0, <2>0, <3>1 DEF EditTypes
      <3> QED
        BY <2>0, <3>2, EndStep
    <2>2. CASE Exists(cl[c].id)
      <3>1. PICK id \in Records : id = cl[c].id
        BY <2>0 DEF Locals
      <3>2. Exists(id) /\ cl' = [cl EXCEPT ![c].pc = "update", ![c].read = WithSecrets(@, id)]
        BY <1>4, <2>2, <3>1 DEF DesktopReveal
      <3> QED
        BY <2>0, <3>1, <3>2, RevealStep
    <2> QED
      BY <2>1, <2>2
  <1>5. ASSUME NEW c \in Extensions, ExtensionMatch(c) PROVE EditInv'
    <2>1. PICK id \in {i \in Records : Exists(i)} :
             Begin(c, Intent("update", id, "password", edits + 2, HostName))
      BY <1>5 DEF ExtensionMatch
    <2>2. PICK v \in Values : v = edits + 2
      BY <1>0
    <2>3. c \in Clients /\ HostName \in Names /\ "password" \in Fields
      BY <1>5, RecordEditsAssumption, Shapes DEF Clients
    <2> QED
      BY <2>1, <2>2, <2>3, BeginStep
  <1>6. ASSUME NEW c \in Clients, Submit(c) PROVE EditInv'
    <2>1. /\ EditTypes'
          /\ \A d \in Clients : cl'[d] \in {cl[d], Idle}
          /\ \A i \in Records :
                \/ store'[i] = store[i]
                \/ Exists(i) /\ store'[i] = Record(store[i].revision + 1, Payload(c))
      BY <1>6, SubmitEffect
    <2>2. \A i \in Records :
             \/ store'[i] = store[i]
             \/ Exists(i) /\ store'[i].revision = store[i].revision + 1
      <3>1. \A r, p : Record(r, p).revision = r
        BY DEF Record
      <3> QED
        BY <2>1, <3>1
    <2> QED
      BY <2>1, <2>2, EndStep
  <1>7. ASSUME DeleteRecord PROVE EditInv'
    <2>1. PICK id \in Records : store' = [store EXCEPT ![id] = NoRecord]
      BY <1>7 DEF DeleteRecord
    <2>2. cl' = cl /\ edits' = edits + 1
      BY <1>7 DEF DeleteRecord
    <2>3. EditTypes'
      BY <1>0, <2>1, <2>2 DEF EditTypes
    <2>4. \A i \in Records : store'[i] = store[i] \/ store'[i] = NoRecord
      BY <1>0, <2>1 DEF EditTypes
    <2> QED
      BY <2>2, <2>3, <2>4, EndStep
  <1> QED
    BY <1>1, <1>2, <1>3, <1>4, <1>5, <1>6, <1>7 DEF EditNext

\* The invariant holds throughout.
LEMMA EditInvariance == EditSpec => []EditInv
  <1>1. EditInv /\ [EditNext]_editVars => EditInv'
    <2>1. ASSUME EditInv, UNCHANGED editVars PROVE EditInv'
      <3>1. store' = store /\ cl' = cl /\ edits' = edits
        BY <2>1 DEF editVars
      <3>2. EditTypes'
        BY <2>1, <3>1 DEF EditInv, EditTypes
      <3> QED
        BY <2>1, <3>1, <3>2, EndStep
    <2> QED
      BY <2>1, EditNextStep
  <1> QED
    BY EditInitially, <1>1, PTL DEF EditSpec

-------------------------------------------------------------------------------
(* The property.                                                           *)

\* What a client sends for a field it carries over: the edited value, or what it read.
LEMMA PayloadCarries ==
    ASSUME EditInv, NEW c \in Clients, cl[c] # Idle, NEW f \in Fields \ NotCarried(c)
    PROVE  Payload(c)[f] = IF f = cl[c].field THEN cl[c].value ELSE cl[c].read[f]
  <1> DEFINE l == cl[c]
             merged == [l.read EXCEPT ![l.field] = l.value]
  <1>1. /\ l.read \in [Fields -> Values] /\ l.value \in Values /\ l.field \in Fields
        /\ SaveBar(c, l)
    BY Members DEF EditInv, Locals, ClientsOK
  <1>2. merged \in [Fields -> Values] /\ merged[f] = IF f = l.field THEN l.value ELSE l.read[f]
    BY <1>1
  <1>3. CASE c \in CLIs
    <2>1. c \notin Desktops /\ c \notin Extensions
      BY <1>3, RecordEditsAssumption
    <2>2. /\ Payload(c) = [merged EXCEPT !["project"] = 0, !["custom"] = 0]
          /\ f \notin {"project", "custom"}
      BY <1>3, <2>1 DEF Payload, NotCarried
    <2> HIDE DEF merged
    <2> QED
      BY <1>2, <2>2
  <1>4. CASE c \in Desktops
    <2>1. c \notin CLIs /\ c \notin Extensions
      BY <1>4, RecordEditsAssumption
    <2>2. Payload(c) = merged
      BY <1>4, <2>1 DEF Payload
    <2> QED
      BY <1>2, <2>2
  <1>5. CASE c \in Extensions
    <2>1. c \notin CLIs /\ c \notin Desktops
      BY <1>5, RecordEditsAssumption
    <2>2. Payload(c) = [g \in Fields |->
                           CASE g \in {"password", "username", "urls"} -> l.value
                             [] g = "project" -> l.read[g]
                             [] g = "name" -> HostName
                             [] OTHER -> 0]
      BY <1>5, <2>1 DEF Payload
    <2>3. NotCarried(c) = {"name", "username", "urls", "tags", "notes", "custom"}
      BY <1>5, <2>1 DEF NotCarried
    <2>4. f \in {"password", "project"}
      BY <2>3 DEF Fields, Metadata, Secrets
    <2>5. l.field = "password"
      BY <1>1, <1>5 DEF SaveBar
    <2> QED
      BY <2>2, <2>4, <2>5
  <1> QED
    BY <1>3, <1>4, <1>5 DEF Clients

\* An accepted update changes the field its user meant to change and nothing else of
\* the record it replaces, whatever the other clients did between its reads.
THEOREM EditsMerge == EditSpec => EditsAreMerged
  <1> DEFINE Merged(id) ==
          store[id] # store'[id] /\ store'[id] # NoRecord =>
              \E c \in Clients :
                  /\ cl[c] # Idle /\ cl'[c] = Idle /\ cl[c].id = id
                  /\ store'[id].revision = store[id].revision + 1
                  /\ \A f \in Fields \ NotCarried(c) :
                        store'[id].fields[f] =
                            IF f = cl[c].field THEN cl[c].value ELSE store[id].fields[f]
  <1>1. ASSUME EditInv, EditNext, NEW id \in Records PROVE Merged(id)
    <2>1. ASSUME NEW c \in Clients, Submit(c) PROVE Merged(id)
      <3>1. /\ cl[c] # Idle /\ cl'[c] = Idle
            /\ \/ store'[id] = store[id]
               \/ /\ id = cl[c].id /\ Exists(id) /\ store[id].revision = cl[c].revision
                  /\ store'[id] = Record(store[id].revision + 1, Payload(c))
        BY <1>1, <2>1, SubmitEffect DEF Submit
      <3>2. ASSUME id = cl[c].id, store[id].revision = cl[c].revision,
                   store'[id] = Record(store[id].revision + 1, Payload(c))
            PROVE  Merged(id)
        <4>1. /\ store'[id].revision = store[id].revision + 1
              /\ store'[id].fields = Payload(c)
          BY <3>2 DEF Record
        <4>2. \A f \in Fields : cl[c].read[f] = store[id].fields[f]
          BY <1>1, <3>1, <3>2 DEF EditInv, ClientsOK, Agrees
        <4>3. \A f \in Fields \ NotCarried(c) :
                 store'[id].fields[f] =
                     IF f = cl[c].field THEN cl[c].value ELSE store[id].fields[f]
          BY <1>1, <3>1, <4>1, <4>2, PayloadCarries
        <4> QED
          BY <3>1, <3>2, <4>1, <4>3
      <3> QED
        BY <3>1, <3>2
    <2>2. ASSUME \/ \E c \in CLIs : CLIShow(c) \/ CLIReveal(c)
                 \/ \E c \in Desktops : DesktopList(c) \/ DesktopReveal(c)
                 \/ \E c \in Extensions : ExtensionMatch(c)
          PROVE  store' = store
      BY <2>2 DEF CLIShow, CLIReveal, DesktopList, DesktopReveal, ExtensionMatch, Begin
    <2>3. ASSUME DeleteRecord PROVE store'[id] \in {store[id], NoRecord}
      BY <1>1, <2>3 DEF DeleteRecord, EditInv, EditTypes
    <2> QED
      BY <1>1, <2>1, <2>2, <2>3 DEF EditNext
  <1>2. EditInv /\ [EditNext]_editVars => [\A id \in Records : Merged(id)]_editVars
    BY <1>1
  <1> HIDE DEF Merged
  <1>3. EditSpec => [][\A id \in Records : Merged(id)]_editVars
    BY <1>2, EditInvariance, PTL DEF EditSpec
  <1> QED
    BY <1>3 DEF EditsAreMerged, Merged
===============================================================================
