--------------------------- MODULE PathRulesProofs ---------------------------
(***************************************************************************)
(* The rules of PathRules for strings of any length and roots of any kind. *)
(* The runs type every short string; here a string is any sequence, and    *)
(* what is shown of it is shown of the string that is typed.               *)
(***************************************************************************)
EXTENDS PathRules, FiniteSetTheorems, SequenceTheorems, WellFoundedInduction, TLAPS

-----------------------------------------------------------------------------
(* Least and greatest members.                                             *)

LEMMA LeastMember ==
  ASSUME NEW S \in SUBSET Nat, S # {}
  PROVE  Min(S) \in S /\ \A x \in S : Min(S) <= x
<1>1. PICK m \in S : \A x \in S : ~(<<x, m>> \in OpToRel(<, Nat))
  BY NatLessThanWellFounded, WFMin
<1>2. ASSUME NEW x \in S PROVE m <= x
  <2>1. x \in Nat /\ m \in Nat
    OBVIOUS
  <2>2. ~(x < m)
    BY <1>1, <2>1 DEF OpToRel
  <2> QED
    BY <2>1, <2>2
<1> QED
  BY <1>2 DEF Min

LEMMA GreatestMember ==
  ASSUME NEW S \in SUBSET Nat, S # {}, NEW n \in Nat, \A x \in S : x <= n
  PROVE  Max(S) \in S /\ \A x \in S : x <= Max(S)
<1> DEFINE T == {n - x : x \in S}
<1>1. T \in SUBSET Nat /\ T # {}
  <2>1. ASSUME NEW x \in S PROVE n - x \in Nat
    <3>1. x \in Nat /\ x <= n
      OBVIOUS
    <3> QED
      BY <3>1
  <2>2. T \in SUBSET Nat
    BY <2>1
  <2>3. PICK x : x \in S
    OBVIOUS
  <2>4. n - x \in T
    BY <2>3
  <2> QED
    BY <2>2, <2>4
<1>2. Min(T) \in T /\ \A y \in T : Min(T) <= y
  BY <1>1, LeastMember
<1>3. PICK m \in S : Min(T) = n - m
  BY <1>2
<1>4. ASSUME NEW x \in S PROVE x <= m
  <2>1. x \in Nat /\ m \in Nat /\ n - x \in T
    OBVIOUS
  <2>2. n - m <= n - x
    BY <1>2, <1>3, <2>1
  <2> QED
    BY <2>1, <2>2
<1> QED
  BY <1>4 DEF Max

-----------------------------------------------------------------------------
(* A finite set of numbers in order.                                       *)

Ordered(q, n, S) ==
  /\ q \in [1 .. n -> S]
  /\ \A a, b \in 1 .. n : a < b => q[a] < q[b]
  /\ \A x \in S : \E k \in 1 .. n : q[k] = x

UpTo(S, i) == {x \in S : x <= i}

(* The first k members of a list are the members up to its kth.            *)
LEMMA OrderedCount ==
  ASSUME NEW S \in SUBSET Nat, NEW n \in Nat, NEW q, Ordered(q, n, S), NEW k \in 1 .. n
  PROVE  Cardinality(UpTo(S, q[k])) = k
<1> DEFINE f == [a \in 1 .. k |-> q[a]]
<1>0. /\ \A a \in 1 .. n : q[a] \in S /\ q[a] \in Nat
      /\ \A a, b \in 1 .. n : a < b => q[a] < q[b]
      /\ \A x \in S : \E a \in 1 .. n : q[a] = x
  BY DEF Ordered
<1>1. ASSUME NEW a \in 1 .. k PROVE a \in 1 .. n /\ f[a] = q[a] /\ q[a] \in UpTo(S, q[k])
  BY <1>0 DEF UpTo
<1>2. ASSUME NEW a \in 1 .. k, NEW b \in 1 .. k, q[a] = q[b] PROVE a = b
  BY <1>0, <1>1, <1>2
<1>3. ASSUME NEW x \in UpTo(S, q[k]) PROVE \E a \in 1 .. k : q[a] = x
  <2>1. PICK a \in 1 .. n : q[a] = x
    BY <1>0 DEF UpTo
  <2>2. ~(q[k] < q[a])
    BY <1>0, <2>1 DEF UpTo
  <2>3. a <= k
    BY <1>0, <2>2
  <2> QED
    BY <2>1, <2>3
<1>4. f \in [1 .. k -> UpTo(S, q[k])]
  BY <1>1
<1>5. f \in Injection(1 .. k, UpTo(S, q[k]))
  <2>1. \A a, b \in 1 .. k : f[a] = f[b] => a = b
    BY <1>1, <1>2
  <2> HIDE DEF f
  <2> QED
    BY <1>4, <2>1 DEF Injection, IsInjective
<1>6. f \in Surjection(1 .. k, UpTo(S, q[k]))
  <2>1. \A x \in UpTo(S, q[k]) : \E a \in 1 .. k : f[a] = x
    BY <1>1, <1>3
  <2> HIDE DEF f
  <2> QED
    BY <1>4, <2>1 DEF Surjection
<1> HIDE DEF f
<1> QED
  BY <1>5, <1>6, FS_CountingElements DEF ExistsBijection, Bijection

LEMMA OrderedSize ==
  ASSUME NEW S \in SUBSET Nat, NEW n \in Nat, NEW q, Ordered(q, n, S)
  PROVE  Cardinality(S) = n
<1>1. ASSUME NEW a \in 1 .. n, NEW b \in 1 .. n, q[a] = q[b] PROVE a = b
  <2>0. q[a] \in Nat /\ q[b] \in Nat
    BY DEF Ordered
  <2>1. ~(a < b) /\ ~(b < a)
    BY <1>1, <2>0 DEF Ordered
  <2> QED
    BY <2>1
<1>2. q \in Injection(1 .. n, S) /\ q \in Surjection(1 .. n, S)
  BY <1>1 DEF Ordered, Injection, IsInjective, Surjection
<1> QED
  BY <1>2, FS_CountingElements DEF ExistsBijection, Bijection

(* Every finite set has such a list: its kth is the one with k up to it.   *)
LEMMA OrderedExists ==
  ASSUME NEW b \in Nat, NEW S \in SUBSET (1 .. b)
  PROVE  \E n \in Nat : \E q : Ordered(q, n, S)
<1> DEFINE n == Cardinality(S)
<1>0. n \in Nat /\ IsFiniteSet(S)
  <2>1. IsFiniteSet(1 .. b)
    BY FS_Interval
  <2>2. IsFiniteSet(S)
    BY <2>1, FS_Subset
  <2> QED
    BY <2>2, FS_CardinalityType
<1>t. S \in SUBSET Nat /\ \A x \in S : x \in Nat /\ x <= b
  OBVIOUS
<1>1. \A i \in S : /\ IsFiniteSet(UpTo(S, i)) /\ Cardinality(UpTo(S, i)) \in 1 .. n
  <2> TAKE i \in S
  <2>1. UpTo(S, i) \in SUBSET S /\ i \in UpTo(S, i)
    BY DEF UpTo
  <2>2. IsFiniteSet(UpTo(S, i)) /\ Cardinality(UpTo(S, i)) <= n
    BY <1>0, <2>1, FS_Subset
  <2>3. Cardinality(UpTo(S, i)) \in Nat /\ Cardinality(UpTo(S, i)) # 0
    BY <2>1, <2>2, FS_CardinalityType, FS_EmptySet
  <2> QED
    BY <1>0, <2>2, <2>3
<1>2. \A i, j \in S : i < j => Cardinality(UpTo(S, i)) < Cardinality(UpTo(S, j))
  <2> SUFFICES ASSUME NEW i \in S, NEW j \in S, i < j
               PROVE  Cardinality(UpTo(S, i)) < Cardinality(UpTo(S, j))
    OBVIOUS
  <2>1. UpTo(S, i) \in SUBSET UpTo(S, j) /\ j \in UpTo(S, j) /\ j \notin UpTo(S, i)
    <3>1. i \in Nat /\ j \in Nat /\ \A x \in S : x <= i => x <= j
      BY <1>t
    <3>2. j <= j /\ ~(j <= i)
      BY <3>1
    <3> QED
      BY <3>1, <3>2, Zenon DEF UpTo
  <2>2. /\ Cardinality(UpTo(S, i)) <= Cardinality(UpTo(S, j))
        /\ Cardinality(UpTo(S, i)) # Cardinality(UpTo(S, j))
    BY <1>1, <2>1, FS_Subset
  <2> QED
    BY <1>1, <2>2
<1>3. ASSUME NEW k \in 1 .. n PROVE \E i \in S : Cardinality(UpTo(S, i)) = k
  <2> DEFINE T == {i \in S : Cardinality(UpTo(S, i)) >= k}
  <2>1. T # {}
    <3>1. S # {}
      BY <1>0, <1>3, FS_EmptySet
    <3>3. Max(S) \in S /\ \A x \in S : x <= Max(S)
      BY <1>t, <3>1, GreatestMember
    <3>4. UpTo(S, Max(S)) = S
      BY <3>3 DEF UpTo
    <3> QED
      BY <1>0, <1>3, <3>3, <3>4
  <2>2. PICK i \in T : \A x \in T : i <= x
    <3>1. T \in SUBSET Nat
      BY <1>t
    <3> HIDE DEF T
    <3> QED
      BY <2>1, <3>1, LeastMember
  <2> DEFINE below == UpTo(S, i) \ {i}
  <2>3. Cardinality(below) = Cardinality(UpTo(S, i)) - 1 /\ i \in UpTo(S, i)
    <3>1. i \in UpTo(S, i) /\ IsFiniteSet(UpTo(S, i))
      BY <1>1, <2>2 DEF UpTo
    <3> QED
      BY <3>1, FS_RemoveElement
  <2>4. ASSUME Cardinality(UpTo(S, i)) > k PROVE FALSE
    <3>1. below \in SUBSET Nat /\ (\A x \in below : x <= i) /\ i \in Nat
      BY <1>t, <2>2 DEF UpTo
    <3>2. below # {}
      BY <1>1, <1>3, <2>2, <2>3, <2>4, FS_EmptySet
    <3>3. Max(below) \in below /\ \A x \in below : x <= Max(below)
      BY <3>1, <3>2, GreatestMember
    <3> DEFINE m == Max(below)
    <3>4. m \in S /\ m \in Nat /\ m < i
      BY <1>t, <3>1, <3>3 DEF UpTo
    <3> HIDE DEF m
    <3>5. \A x \in S : x <= m <=> x \in below
      BY <1>t, <3>1, <3>3, <3>4 DEF UpTo, m
    <3>6. UpTo(S, m) = below
      BY <3>5 DEF UpTo
    <3>7. m \in T
      BY <1>1, <1>3, <2>2, <2>3, <2>4, <3>4, <3>6
    <3> QED
      BY <2>2, <3>1, <3>4, <3>7
  <2> QED
    BY <1>1, <1>3, <2>2, <2>4
<1> DEFINE q == [k \in 1 .. n |-> CHOOSE i \in S : Cardinality(UpTo(S, i)) = k]
<1>4. \A k \in 1 .. n : q[k] \in S /\ Cardinality(UpTo(S, q[k])) = k
  BY <1>3
<1>5. \A a, c \in 1 .. n : a < c => q[a] < q[c]
  <2> SUFFICES ASSUME NEW a \in 1 .. n, NEW c \in 1 .. n, a < c PROVE q[a] < q[c]
    OBVIOUS
  <2> HIDE DEF q
  <2>1. /\ Cardinality(UpTo(S, q[a])) = a /\ Cardinality(UpTo(S, q[c])) = c
        /\ q[a] \in S /\ q[c] \in S
    BY <1>4
  <2>2. ~(q[c] < q[a]) /\ q[a] # q[c]
    <3>1. ~(c < a) /\ a # c
      OBVIOUS
    <3> QED
      BY <1>2, <2>1, <3>1
  <2>3. q[a] \in Nat /\ q[c] \in Nat
    BY <1>t, <2>1
  <2> QED
    BY <2>2, <2>3
<1>6. \A x \in S : \E k \in 1 .. n : q[k] = x
  <2> TAKE x \in S
  <2> DEFINE k == Cardinality(UpTo(S, x))
  <2>1. k \in 1 .. n
    BY <1>1
  <2> HIDE DEF q
  <2>a. q[k] \in S /\ Cardinality(UpTo(S, q[k])) = k /\ k \in Nat
    BY <1>4, <2>1
  <2>2. ~(q[k] < x) /\ ~(x < q[k])
    <3>1. ~(k < k)
      BY <2>a
    <3> HIDE DEF k
    <3>2. Cardinality(UpTo(S, x)) = k
      BY DEF k
    <3> QED
      BY <1>2, <2>a, <3>1, <3>2
  <2>b. q[k] \in Nat /\ x \in Nat
    BY <1>t, <2>a
  <2>3. q[k] = x
    BY <2>2, <2>b
  <2> QED
    BY <2>1, <2>3
<1>7. q \in [1 .. n -> S]
  BY <1>4
<1> HIDE DEF q, n
<1> QED
  BY <1>0, <1>5, <1>6, <1>7 DEF Ordered

-----------------------------------------------------------------------------
(* The names in a string.                                                  *)

Strings == Seq(Letters)

LEMMA StringFacts ==
  ASSUME NEW v \in Strings
  PROVE  /\ Len(v) \in Nat /\ DOMAIN v = 1 .. Len(v)
         /\ \A i \in 1 .. Len(v) : v[i] \in Letters
BY LenProperties, ElementOfSeq DEF Strings

(* A name ends before a slash or where the string ends.                    *)
NameEnd(v, i, e) ==
  /\ e \in i .. Len(v)
  /\ \A k \in i .. e : v[k] # "/"
  /\ e < Len(v) => v[e + 1] = "/"

LEMMA NameIs ==
  ASSUME NEW v \in Strings, NEW i \in 1 .. Len(v), NEW e \in Nat, NameEnd(v, i, e)
  PROVE  NameAt(v, i) = SubSeq(v, i, e)
<1> DEFINE ends == {n \in i .. Len(v) : v[n] = "/"}
<1>0. Len(v) \in Nat
  BY StringFacts
<1>1. CASE e = Len(v)
  <2>1. ends = {}
    BY <1>0, <1>1 DEF NameEnd
  <2> QED
    BY <1>1, <2>1 DEF NameAt
<1>2. CASE e < Len(v)
  <2>1. e + 1 \in ends /\ ends \in SUBSET Nat
    BY <1>0, <1>2 DEF NameEnd
  <2>2. ASSUME NEW n \in ends PROVE n >= e + 1
    BY <1>0, <2>2 DEF NameEnd
  <2> HIDE DEF ends
  <2>3. Min(ends) \in ends /\ \A n \in ends : Min(ends) <= n
    BY <2>1, LeastMember
  <2>4. Min(ends) = e + 1
    <3>1. Min(ends) \in Nat /\ Min(ends) <= e + 1 /\ Min(ends) >= e + 1
      BY <2>1, <2>2, <2>3
    <3> QED
      BY <3>1
  <2>5. NameAt(v, i) = SubSeq(v, i, Min(ends) - 1)
    BY <2>1 DEF NameAt, ends
  <2> QED
    BY <2>4, <2>5
<1> QED
  BY <1>0, <1>1, <1>2 DEF NameEnd

LEMMA NameHasEnd ==
  ASSUME NEW v \in Strings, NEW i \in 1 .. Len(v), v[i] # "/"
  PROVE  \E e \in Nat : NameEnd(v, i, e)
<1> DEFINE ends == {n \in i .. Len(v) : v[n] = "/"}
<1>0. Len(v) \in Nat
  BY StringFacts
<1>1. CASE ends = {}
  BY <1>0, <1>1 DEF NameEnd
<1>2. CASE ends # {}
  <2>1. Min(ends) \in ends /\ \A n \in ends : Min(ends) <= n
    <3>1. ends \in SUBSET Nat
      BY <1>0
    <3> HIDE DEF ends
    <3> QED
      BY <1>2, <3>1, LeastMember
  <2>2. PICK m \in ends : \A n \in ends : m <= n
    BY <2>1
  <2>3. NameEnd(v, i, m - 1) /\ m - 1 \in Nat
    BY <1>0, <2>2 DEF NameEnd
  <2> QED
    BY <2>3
<1> QED
  BY <1>1, <1>2

(* Where the names begin that lead somewhere.                              *)
Proper(v) == {i \in Begins(v) : NameAt(v, i) # <<".">>}

LEMMA BeginFacts ==
  ASSUME NEW v \in Strings, NEW i
  PROVE  i \in Begins(v) <=> i \in 1 .. Len(v) /\ v[i] # "/" /\ (i = 1 \/ v[i - 1] = "/")
BY StringFacts DEF Begins

LEMMA ProperFacts ==
  ASSUME NEW v \in Strings
  PROVE  Len(v) \in Nat /\ Proper(v) \in SUBSET (1 .. Len(v)) /\ Proper(v) \in SUBSET Nat
BY StringFacts, BeginFacts DEF Proper

LEMMA NamesInOrder ==
  ASSUME NEW v \in Strings, NEW n \in Nat, NEW q, Ordered(q, n, Proper(v))
  PROVE  Names(v) = [k \in 1 .. n |-> NameAt(v, q[k])]
<1> DEFINE kth(k) == CHOOSE i \in Proper(v) : Cardinality(UpTo(Proper(v), i)) = k
<1>1. Cardinality(Proper(v)) = n
  BY ProperFacts, OrderedSize
<1>2. ASSUME NEW k \in 1 .. n PROVE kth(k) = q[k]
  <2>1. q[k] \in Proper(v) /\ Cardinality(UpTo(Proper(v), q[k])) = k
    BY ProperFacts, OrderedCount DEF Ordered
  <2>2. kth(k) \in Proper(v) /\ Cardinality(UpTo(Proper(v), kth(k))) = k
    BY <2>1
  <2> HIDE DEF kth
  <2>3. PICK a \in 1 .. n : q[a] = kth(k)
    BY <2>2 DEF Ordered
  <2>4. a = k
    <3>1. Cardinality(UpTo(Proper(v), q[a])) = a
      BY ProperFacts, OrderedCount
    <3> QED
      BY <2>2, <2>3, <3>1
  <2> QED
    BY <2>3, <2>4
<1>3. Names(v) = [k \in 1 .. Cardinality(Proper(v)) |-> NameAt(v, kth(k))]
  BY DEF Names, Proper, UpTo
<1> HIDE DEF kth
<1> QED
  BY <1>1, <1>2, <1>3

LEMMA NamesListed ==
  ASSUME NEW v \in Strings
  PROVE  \E n \in Nat : \E q : /\ Ordered(q, n, Proper(v))
                               /\ Names(v) = [k \in 1 .. n |-> NameAt(v, q[k])]
<1>n. PICK n \in Nat : \E q : Ordered(q, n, Proper(v))
  BY ProperFacts, OrderedExists
<1>1. PICK q : Ordered(q, n, Proper(v))
  BY <1>n
<1> QED
  BY <1>1, NamesInOrder

(* Strings whose names begin at the same places, and are the same there.   *)
LEMMA SameNames ==
  ASSUME NEW v \in Strings, NEW w \in Strings, Begins(v) = Begins(w),
         \A i \in Begins(v) : NameAt(v, i) = NameAt(w, i)
  PROVE  Names(v) = Names(w)
<1>1. Proper(v) = Proper(w)
  BY DEF Proper
<1>2. PICK n \in Nat : \E q : /\ Ordered(q, n, Proper(v))
                              /\ Names(v) = [k \in 1 .. n |-> NameAt(v, q[k])]
  BY NamesListed
<1>3. PICK q : /\ Ordered(q, n, Proper(v))
               /\ Names(v) = [k \in 1 .. n |-> NameAt(v, q[k])]
  BY <1>2
<1>4. Names(w) = [k \in 1 .. n |-> NameAt(w, q[k])]
  BY <1>1, <1>3, NamesInOrder
<1>5. \A k \in 1 .. n : NameAt(v, q[k]) = NameAt(w, q[k])
  BY <1>3 DEF Ordered, Proper
<1> QED
  BY <1>3, <1>4, <1>5

(* A string in which nothing is named.                                     *)
LEMMA NoNames ==
  ASSUME NEW v \in Strings, Proper(v) = {}
  PROVE  Names(v) = <<>>
<1>n. PICK n \in Nat :
             \E q : Ordered(q, n, Proper(v)) /\ Names(v) = [k \in 1 .. n |-> NameAt(v, q[k])]
  BY NamesListed
<1>1. PICK q : Ordered(q, n, Proper(v)) /\ Names(v) = [k \in 1 .. n |-> NameAt(v, q[k])]
  BY <1>n
<1>2. n = 0
  <2>1. Cardinality(Proper(v)) = n
    BY <1>1, ProperFacts, OrderedSize
  <2> QED
    BY <2>1, FS_EmptySet
<1> QED
  BY <1>1, <1>2

-----------------------------------------------------------------------------
(* Strings put together.                                                   *)

(* Where names begin and end in a string after which nothing is named on.  *)
Closed(v) == v = <<>> \/ v[Len(v)] = "/"

LEMMA ConcatFacts ==
  ASSUME NEW r \in Strings, NEW p \in Strings
  PROVE  /\ r \o p \in Strings /\ Len(r \o p) = Len(r) + Len(p)
         /\ Len(r) \in Nat /\ Len(p) \in Nat
         /\ \A i \in 1 .. Len(r) : (r \o p)[i] = r[i]
         /\ \A i \in 1 .. Len(p) : (r \o p)[Len(r) + i] = p[i]
<1>1. Len(r) \in Nat /\ Len(p) \in Nat
  BY StringFacts
<1>2. /\ r \o p \in Strings /\ Len(r \o p) = Len(r) + Len(p)
      /\ \A i \in 1 .. Len(r) + Len(p) :
           (r \o p)[i] = IF i <= Len(r) THEN r[i] ELSE p[i - Len(r)]
  BY ConcatProperties DEF Strings
<1>3. ASSUME NEW i \in 1 .. Len(p) PROVE (r \o p)[Len(r) + i] = p[i]
  <2>1. Len(r) + i \in 1 .. Len(r) + Len(p) /\ ~(Len(r) + i <= Len(r)) /\ Len(r) + i - Len(r) = i
    BY <1>1
  <2> QED
    BY <1>2, <2>1
<1> QED
  BY <1>1, <1>2, <1>3

LEMMA ConcatLeft ==
  ASSUME NEW r \in Strings, NEW p \in Strings, Closed(r), NEW i \in Begins(r)
  PROVE  i \in Begins(r \o p) /\ NameAt(r \o p, i) = NameAt(r, i)
<1> DEFINE v == r \o p
<1>f. /\ v \in Strings /\ Len(v) = Len(r) + Len(p) /\ Len(r) \in Nat /\ Len(p) \in Nat
      /\ \A k \in 1 .. Len(r) : v[k] = r[k]
  BY ConcatFacts
<1> HIDE DEF v
<1>1. i \in 1 .. Len(r) /\ r[i] # "/" /\ (i = 1 \/ r[i - 1] = "/")
  BY BeginFacts
<1>2. i \in Begins(v)
  <2>1. i \in 1 .. Len(v) /\ v[i] # "/"
    BY <1>1, <1>f
  <2>2. i # 1 => i - 1 \in 1 .. Len(r)
    BY <1>1, <1>f
  <2> QED
    BY <1>1, <1>f, <2>1, <2>2, BeginFacts
<1>3. PICK e \in Nat : NameEnd(r, i, e)
  BY <1>1, NameHasEnd
<1>4. e \in i .. Len(r) /\ e # Len(r)
  <2>1. e \in i .. Len(r) /\ r[e] # "/"
    BY <1>1, <1>3, <1>f DEF NameEnd
  <2>2. r # <<>>
    BY <1>1, <1>f
  <2> QED
    BY <2>1, <2>2 DEF Closed
<1>5. NameEnd(v, i, e)
  <2>1. e + 1 \in 1 .. Len(r) /\ e \in i .. Len(v)
    BY <1>1, <1>4, <1>f
  <2>2. \A k \in i .. e : k \in 1 .. Len(r)
    BY <1>1, <1>4, <1>f
  <2> QED
    BY <1>3, <1>4, <1>f, <2>1, <2>2 DEF NameEnd
<1>6. SubSeq(v, i, e) = SubSeq(r, i, e)
  <2>1. i \in 1 .. Len(r) /\ e \in 1 .. Len(r)
    BY <1>1, <1>4, <1>f
  <2> QED
    BY <2>1, SubSeqOfConcat1 DEF Strings, v
<1>7. i \in 1 .. Len(v)
  BY <1>1, <1>f
<1>8. NameAt(v, i) = NameAt(r, i)
  BY <1>1, <1>3, <1>5, <1>6, <1>7, <1>f, NameIs
<1> QED
  BY <1>2, <1>8 DEF v

LEMMA ConcatRight ==
  ASSUME NEW r \in Strings, NEW p \in Strings, Closed(r), NEW i \in Begins(p)
  PROVE  Len(r) + i \in Begins(r \o p) /\ NameAt(r \o p, Len(r) + i) = NameAt(p, i)
<1> DEFINE v == r \o p
           s == Len(r)
<1>f. /\ v \in Strings /\ Len(v) = s + Len(p) /\ s \in Nat /\ Len(p) \in Nat
      /\ \A k \in 1 .. s : v[k] = r[k]
      /\ \A k \in 1 .. Len(p) : v[s + k] = p[k]
  BY ConcatFacts
<1>1. i \in 1 .. Len(p) /\ p[i] # "/" /\ (i = 1 \/ p[i - 1] = "/")
  BY BeginFacts
<1>e. s = 0 \/ r[s] = "/"
  BY DEF Closed
<1> HIDE DEF v, s
<1>2. s + i \in 1 .. Len(v) /\ v[s + i] # "/"
  BY <1>1, <1>f
<1>3. s + i \in Begins(v)
  <2>1. CASE i = 1
    <3>1. s # 0 => s \in 1 .. s
      BY <1>f
    <3>2. s + i = 1 \/ (s + i - 1 = s /\ s # 0)
      BY <1>f, <2>1
    <3>3. s + i = 1 \/ v[s + i - 1] = "/"
      BY <1>e, <1>f, <3>1, <3>2
    <3> QED
      BY <1>2, <1>f, <3>3, BeginFacts
  <2>2. CASE i # 1
    <3>1. i - 1 \in 1 .. Len(p) /\ s + i - 1 = s + (i - 1)
      BY <1>1, <1>f, <2>2
    <3>2. v[s + i - 1] = "/"
      BY <1>1, <1>f, <2>2, <3>1
    <3> QED
      BY <1>2, <1>f, <3>2, BeginFacts
  <2> QED
    BY <2>1, <2>2
<1>4. PICK e \in Nat : NameEnd(p, i, e)
  BY <1>1, NameHasEnd
<1>5. NameEnd(v, s + i, s + e)
  <2>1. s + e \in s + i .. Len(v)
    BY <1>1, <1>4, <1>f DEF NameEnd
  <2>2. ASSUME NEW k \in s + i .. s + e PROVE v[k] # "/"
    <3>1. k - s \in i .. e /\ k - s \in 1 .. Len(p) /\ s + (k - s) = k
      BY <1>1, <1>4, <1>f, <2>2 DEF NameEnd
    <3> QED
      BY <1>4, <1>f, <3>1 DEF NameEnd
  <2>3. ASSUME s + e < Len(v) PROVE v[s + e + 1] = "/"
    <3>1. e < Len(p) /\ e + 1 \in 1 .. Len(p) /\ s + e + 1 = s + (e + 1)
      BY <1>1, <1>4, <1>f, <2>3 DEF NameEnd
    <3> QED
      BY <1>4, <1>f, <3>1 DEF NameEnd
  <2> QED
    BY <2>1, <2>2, <2>3 DEF NameEnd
<1>6. SubSeq(v, s + i, s + e) = SubSeq(p, i, e)
  <2>1. s + i \in s + 1 .. s + Len(p) /\ s + e \in s + 1 .. s + Len(p)
    BY <1>1, <1>4, <1>f DEF NameEnd
  <2> DEFINE a == s + i
             b == s + e
  <2>2. a - s = i /\ b - s = e
    BY <1>1, <1>f
  <2> HIDE DEF a, b
  <2>3. SubSeq(v, a, b) = SubSeq(p, a - s, b - s)
    BY <2>1, SubSeqOfConcat2 DEF Strings, v, s, a, b
  <2>4. SubSeq(v, a, b) = SubSeq(p, i, e)
    BY <2>2, <2>3
  <2> QED
    BY <2>4 DEF a, b
<1>7. NameAt(v, s + i) = SubSeq(v, s + i, s + e)
  <2>1. s + e \in Nat
    BY <1>f
  <2> QED
    BY <1>2, <1>5, <1>f, <2>1, NameIs
<1>8. NameAt(p, i) = SubSeq(p, i, e)
  BY <1>1, <1>4, NameIs
<1> QED
  BY <1>3, <1>6, <1>7, <1>8 DEF v, s

LEMMA ConcatBegins ==
  ASSUME NEW r \in Strings, NEW p \in Strings, NEW i \in Begins(r \o p)
  PROVE  i \in Begins(r) \/ (i - Len(r) \in Begins(p) /\ i - Len(r) \in 1 .. Len(p))
<1> DEFINE v == r \o p
           s == Len(r)
<1>f. /\ v \in Strings /\ Len(v) = s + Len(p) /\ s \in Nat /\ Len(p) \in Nat
      /\ \A k \in 1 .. s : v[k] = r[k]
      /\ \A k \in 1 .. Len(p) : v[s + k] = p[k]
  BY ConcatFacts
<1> HIDE DEF v
<1>1. i \in 1 .. Len(v) /\ v[i] # "/" /\ (i = 1 \/ v[i - 1] = "/")
  BY <1>f, BeginFacts DEF v
<1>2. CASE i <= s
  <2>1. i \in 1 .. s /\ (i # 1 => i - 1 \in 1 .. s)
    BY <1>1, <1>2, <1>f
  <2> QED
    BY <1>1, <1>f, <2>1, BeginFacts
<1>3. CASE i > s
  <2>1. i - s \in 1 .. Len(p) /\ s + (i - s) = i
    BY <1>1, <1>3, <1>f
  <2>2. i - s # 1 => i - s - 1 \in 1 .. Len(p) /\ s + (i - s - 1) = i - 1 /\ i # 1
    BY <1>1, <1>3, <1>f
  <2>3. p[i - s] # "/" /\ (i - s = 1 \/ p[i - s - 1] = "/")
    BY <1>1, <1>f, <2>1, <2>2
  <2> QED
    BY <2>1, <2>3, BeginFacts
<1> QED
  BY <1>1, <1>2, <1>3, <1>f

(* The names of the one and then those of the other.                       *)
LEMMA ConcatNames ==
  ASSUME NEW r \in Strings, NEW p \in Strings, Closed(r)
  PROVE  Names(r \o p) = Names(r) \o Names(p)
<1> DEFINE v == r \o p
           s == Len(r)
<1>f. v \in Strings /\ s \in Nat /\ Len(p) \in Nat
  BY ConcatFacts
<1>m. PICK m \in Nat :
             \E f : Ordered(f, m, Proper(r)) /\ Names(r) = [k \in 1 .. m |-> NameAt(r, f[k])]
  BY NamesListed
<1>1. PICK f : Ordered(f, m, Proper(r)) /\ Names(r) = [k \in 1 .. m |-> NameAt(r, f[k])]
  BY <1>m
<1>n. PICK n \in Nat :
             \E g : Ordered(g, n, Proper(p)) /\ Names(p) = [k \in 1 .. n |-> NameAt(p, g[k])]
  BY NamesListed
<1>2. PICK g : Ordered(g, n, Proper(p)) /\ Names(p) = [k \in 1 .. n |-> NameAt(p, g[k])]
  BY <1>n
<1>3. ASSUME NEW i \in Proper(r)
      PROVE  i \in Proper(v) /\ NameAt(v, i) = NameAt(r, i) /\ i \in 1 .. s
  BY ConcatLeft, BeginFacts DEF Proper
<1>4. ASSUME NEW i \in Proper(p)
      PROVE  s + i \in Proper(v) /\ NameAt(v, s + i) = NameAt(p, i) /\ i \in 1 .. Len(p)
  BY ConcatRight, BeginFacts DEF Proper
<1>5. ASSUME NEW i \in Proper(v)
      PROVE  i \in Proper(r) \/ \E k \in Proper(p) : i = s + k
  <2>1. i \in Begins(v) /\ NameAt(v, i) # <<".">>
    BY DEF Proper
  <2>2. CASE i \in Begins(r)
    BY <2>1, <2>2, ConcatLeft DEF Proper
  <2>3. CASE i - s \in Begins(p) /\ i - s \in 1 .. Len(p)
    <3>1. i \in 1 .. Len(v) /\ Len(v) \in Nat
      BY <1>f, ProperFacts
    <3>2. i = s + (i - s)
      BY <1>f, <3>1
    <3>3. NameAt(v, i) = NameAt(p, i - s)
      BY <2>3, <3>2, ConcatRight
    <3> QED
      BY <2>1, <2>3, <3>2, <3>3 DEF Proper
  <2> QED
    BY <2>1, <2>2, <2>3, ConcatBegins
<1> HIDE DEF v, s
<1> DEFINE q == [k \in 1 .. m + n |-> IF k <= m THEN f[k] ELSE s + g[k - m]]
<1>6. /\ \A k \in 1 .. m : f[k] \in Proper(r) /\ f[k] \in 1 .. s
      /\ \A k \in 1 .. n : g[k] \in Proper(p) /\ g[k] \in 1 .. Len(p)
  BY <1>1, <1>2, <1>3, <1>4 DEF Ordered
<1>7. /\ \A k \in 1 .. m : k \in 1 .. m + n /\ q[k] = f[k]
      /\ \A k \in 1 .. n : m + k \in 1 .. m + n /\ q[m + k] = s + g[k]
      /\ \A k \in 1 .. m + n : k \in 1 .. m \/ (k - m \in 1 .. n /\ k = m + (k - m))
  OBVIOUS
<1> HIDE DEF q
<1>8. Ordered(q, m + n, Proper(v))
  <2>1. q \in [1 .. m + n -> Proper(v)]
    <3>1. ASSUME NEW k \in 1 .. m + n PROVE q[k] \in Proper(v)
      <4>1. CASE k \in 1 .. m
        BY <1>3, <1>6, <1>7, <4>1
      <4>2. CASE k - m \in 1 .. n /\ k = m + (k - m)
        <5>1. q[k] = s + g[k - m] /\ g[k - m] \in Proper(p)
          BY <1>6, <1>7, <4>2
        <5> QED
          BY <1>4, <5>1
      <4> QED
        BY <1>7, <4>1, <4>2
    <3> QED
      BY <3>1 DEF q
  <2>2. ASSUME NEW a \in 1 .. m + n, NEW b \in 1 .. m + n, a < b PROVE q[a] < q[b]
    <3>1. CASE a \in 1 .. m /\ b \in 1 .. m
      BY <1>1, <1>7, <2>2, <3>1 DEF Ordered
    <3>2. CASE a \in 1 .. m /\ b - m \in 1 .. n /\ b = m + (b - m)
      <4>1. q[a] \in 1 .. s
        BY <1>6, <1>7, <3>2
      <4>2. q[b] = s + g[b - m] /\ g[b - m] \in 1 .. Len(p)
        BY <1>6, <1>7, <3>2
      <4> QED
        BY <1>f, <4>1, <4>2
    <3>3. CASE a - m \in 1 .. n /\ a = m + (a - m) /\ b - m \in 1 .. n /\ b = m + (b - m)
      <4>1. q[a] = s + g[a - m] /\ q[b] = s + g[b - m]
        BY <1>7, <3>3
      <4>2. a - m < b - m
        BY <2>2
      <4>3. g[a - m] < g[b - m] /\ g[a - m] \in 1 .. Len(p) /\ g[b - m] \in 1 .. Len(p)
        BY <1>2, <1>6, <3>3, <4>2 DEF Ordered
      <4> QED
        BY <1>f, <4>1, <4>3
    <3> QED
      BY <1>7, <2>2, <3>1, <3>2, <3>3
  <2>3. ASSUME NEW x \in Proper(v) PROVE \E k \in 1 .. m + n : q[k] = x
    <3>1. CASE x \in Proper(r)
      BY <1>1, <1>7, <3>1 DEF Ordered
    <3>2. CASE \E k \in Proper(p) : x = s + k
      BY <1>2, <1>7, <3>2 DEF Ordered
    <3> QED
      BY <1>5, <3>1, <3>2
  <2> QED
    BY <2>1, <2>2, <2>3 DEF Ordered
<1>9. Names(v) = [k \in 1 .. m + n |-> NameAt(v, q[k])]
  BY <1>8, <1>f, NamesInOrder
<1>10. /\ Names(r) \in Seq({NameAt(v, i) : i \in Proper(v)}) /\ Len(Names(r)) = m
       /\ Names(p) \in Seq({NameAt(v, i) : i \in Proper(v)}) /\ Len(Names(p)) = n
  BY <1>1, <1>2, <1>3, <1>4, <1>6, SeqDef
<1>11. \A k \in 1 .. m + n :
         (Names(r) \o Names(p))[k] = IF k <= m THEN Names(r)[k] ELSE Names(p)[k - m]
  BY <1>10, ConcatProperties
<1>12. Names(r) \o Names(p) \in [1 .. m + n -> {NameAt(v, i) : i \in Proper(v)}]
  <2> DEFINE T == {NameAt(v, i) : i \in Proper(v)}
             c == Names(r) \o Names(p)
  <2>1. c \in Seq(T) /\ Len(c) = m + n
    <3> HIDE DEF T
    <3> QED
      BY <1>10, ConcatProperties DEF T
  <2> HIDE DEF c, T
  <2>2. c \in [1 .. Len(c) -> T]
    BY <2>1, LenProperties
  <2> QED
    BY <2>1, <2>2 DEF c, T
<1>13. ASSUME NEW k \in 1 .. m + n PROVE (Names(r) \o Names(p))[k] = NameAt(v, q[k])
  <2>1. CASE k \in 1 .. m
    BY <1>1, <1>3, <1>6, <1>7, <1>11, <2>1
  <2>2. CASE k - m \in 1 .. n /\ k = m + (k - m)
    <3>1. Names(p)[k - m] = NameAt(p, g[k - m]) /\ g[k - m] \in Proper(p)
      BY <1>2, <1>6, <2>2
    <3>2. q[k] = s + g[k - m] /\ ~(k <= m)
      BY <1>7, <2>2
    <3> QED
      BY <1>4, <1>11, <3>1, <3>2
  <2> QED
    BY <1>7, <2>1, <2>2
<1>14. Names(r) \o Names(p) = Names(v)
  BY <1>9, <1>12, <1>13
<1> QED
  BY <1>14 DEF v

(* A slash at the end names nothing.                                       *)
LEMMA SlashNames ==
  ASSUME NEW r \in Strings
  PROVE  Names(r \o <<"/">>) = Names(r)
<1> DEFINE v == r \o <<"/">>
           s == Len(r)
<1>0. <<"/">> \in Strings /\ Len(<<"/">>) = 1 /\ <<"/">>[1] = "/"
  <2>1. "/" \in Letters
    BY DEF Letters, Chars
  <2>2. <<"/">> \in Seq(Letters)
    BY <2>1
  <2> QED
    BY <2>2 DEF Strings
<1>f. /\ v \in Strings /\ Len(v) = s + 1 /\ s \in Nat
      /\ \A k \in 1 .. s : v[k] = r[k]
      /\ v[s + 1] = "/"
  BY <1>0, ConcatFacts
<1>s. ASSUME NEW i \in 1 .. s, NEW e \in 1 .. s PROVE SubSeq(v, i, e) = SubSeq(r, i, e)
  BY <1>0, SubSeqOfConcat1 DEF Strings
<1> HIDE DEF v, s
<1>1. Begins(v) = Begins(r)
  <2>1. ASSUME NEW i, i \in 1 .. Len(v), v[i] # "/" PROVE i \in 1 .. s
    BY <1>f, <2>1
  <2>2. ASSUME NEW i \in 1 .. s PROVE i \in 1 .. Len(v) /\ (i # 1 => i - 1 \in 1 .. s)
    BY <1>f
  <2>3. \A i : i \in Begins(v) <=> i \in Begins(r)
    BY <1>f, <2>1, <2>2, BeginFacts DEF s
  <2> QED
    BY <2>3
<1>2. ASSUME NEW i \in Begins(r) PROVE NameAt(r, i) = NameAt(v, i)
  <2>1. i \in 1 .. s /\ r[i] # "/" /\ i \in 1 .. Len(v)
    BY <1>f, BeginFacts DEF s
  <2>2. PICK e \in Nat : NameEnd(r, i, e)
    BY <2>1, NameHasEnd DEF s
  <2>3. e \in i .. s /\ e \in 1 .. s /\ \A k \in i .. e : k \in 1 .. s
    BY <1>f, <2>1, <2>2 DEF NameEnd, s
  <2>4. NameEnd(v, i, e)
    <3>1. e \in i .. Len(v)
      BY <1>f, <2>3
    <3>2. \A k \in i .. e : v[k] # "/"
      BY <1>f, <2>2, <2>3 DEF NameEnd
    <3>3. CASE e = s
      BY <1>f, <3>1, <3>2, <3>3 DEF NameEnd
    <3>4. CASE e < s
      <4>1. e + 1 \in 1 .. s
        BY <1>f, <2>3, <3>4
      <4>2. v[e + 1] = "/"
        BY <1>f, <2>2, <3>4, <4>1 DEF NameEnd, s
      <4> QED
        BY <3>1, <3>2, <4>2 DEF NameEnd
    <3> QED
      BY <1>f, <2>3, <3>3, <3>4
  <2>5. NameAt(v, i) = SubSeq(v, i, e) /\ NameAt(r, i) = SubSeq(r, i, e)
    BY <1>f, <2>1, <2>2, <2>4, NameIs DEF s
  <2> QED
    BY <1>s, <2>1, <2>3, <2>5
<1>3. Names(v) = Names(r)
  BY <1>1, <1>2, <1>f, SameNames
<1> QED
  BY <1>3 DEF v

(* The parts of one, two and three letters that the rules look for.        *)
LEMMA PartFacts ==
  ASSUME NEW v \in Strings, NEW i \in 1 .. Len(v), NEW j \in i .. Len(v)
  PROVE  /\ SubSeq(v, i, j) \in Seq(Letters)
         /\ Len(SubSeq(v, i, j)) = j - i + 1
         /\ \A k \in 1 .. j - i + 1 : SubSeq(v, i, j)[k] = v[i + k - 1]
<1>1. Len(v) \in Nat /\ \A k \in 1 .. Len(v) : v[k] \in Letters
  BY StringFacts
<1>2. i \in Int /\ j \in Int /\ i <= j /\ \A k \in i .. j : v[k] \in Letters
  BY <1>1
<1> QED
  BY <1>2, SubSeqProperties

LEMMA OneLetter ==
  ASSUME NEW v \in Strings, NEW i \in 1 .. Len(v)
  PROVE  SubSeq(v, i, i) = <<v[i]>>
<1>1. Len(v) \in Nat /\ v[i] \in Letters /\ i \in i .. Len(v)
  BY StringFacts
<1>2. i - i + 1 = 1 /\ i + 1 - 1 = i
  BY <1>1
<1>3. /\ SubSeq(v, i, i) \in Seq(Letters)
      /\ Len(SubSeq(v, i, i)) = 1
      /\ SubSeq(v, i, i)[1] = v[i]
  BY <1>1, <1>2, PartFacts
<1> DEFINE t == <<v[i]>>
<1>4. t \in Seq(Letters) /\ Len(t) = 1 /\ t[1] = v[i]
  BY <1>1
<1> HIDE DEF t
<1>5. SubSeq(v, i, i) = t
  BY <1>3, <1>4, SeqEqual
<1> QED
  BY <1>5 DEF t

LEMMA TwoLetters ==
  ASSUME NEW v \in Strings, NEW i \in 1 .. Len(v), i + 1 <= Len(v)
  PROVE  SubSeq(v, i, i + 1) = <<v[i], v[i + 1]>>
<1>1. Len(v) \in Nat /\ v[i] \in Letters /\ v[i + 1] \in Letters /\ i + 1 \in i .. Len(v)
  BY StringFacts
<1>2. i + 1 - i + 1 = 2 /\ i + 1 - 1 = i /\ i + 2 - 1 = i + 1
  BY <1>1
<1>3. /\ SubSeq(v, i, i + 1) \in Seq(Letters)
      /\ Len(SubSeq(v, i, i + 1)) = 2
      /\ SubSeq(v, i, i + 1)[1] = v[i] /\ SubSeq(v, i, i + 1)[2] = v[i + 1]
  BY <1>1, <1>2, PartFacts
<1> DEFINE t == <<v[i], v[i + 1]>>
<1>4. t \in Seq(Letters) /\ Len(t) = 2 /\ t[1] = v[i] /\ t[2] = v[i + 1]
  BY <1>1
<1> HIDE DEF t
<1>5. \A k \in 1 .. 2 : k = 1 \/ k = 2
  OBVIOUS
<1>6. \A k \in 1 .. 2 : SubSeq(v, i, i + 1)[k] = t[k]
  BY <1>3, <1>4, <1>5
<1>7. SubSeq(v, i, i + 1) = t
  BY <1>3, <1>4, <1>6, SeqEqual
<1> QED
  BY <1>7 DEF t

LEMMA ThreeLetters ==
  ASSUME NEW v \in Strings, NEW i \in 1 .. Len(v), i + 2 <= Len(v)
  PROVE  /\ SubSeq(v, i, i + 2) = <<v[i], v[i + 1], v[i + 2]>>
         /\ SubSeq(v, i, i + 2) \in SubSeqs(v)
<1>1. /\ Len(v) \in Nat /\ v[i] \in Letters /\ v[i + 1] \in Letters /\ v[i + 2] \in Letters
      /\ i + 2 \in i .. Len(v)
  BY StringFacts
<1>2. /\ i + 2 - i + 1 = 3 /\ i + 1 - 1 = i /\ i + 2 - 1 = i + 1 /\ i + 3 - 1 = i + 2
      /\ i - 1 \in 0 .. Len(v) /\ i + 2 \in 0 .. Len(v) /\ i - 1 + 1 = i
  BY <1>1
<1>3. /\ SubSeq(v, i, i + 2) \in Seq(Letters)
      /\ Len(SubSeq(v, i, i + 2)) = 3
      /\ SubSeq(v, i, i + 2)[1] = v[i] /\ SubSeq(v, i, i + 2)[2] = v[i + 1]
      /\ SubSeq(v, i, i + 2)[3] = v[i + 2]
  BY <1>1, <1>2, PartFacts
<1>4. SubSeq(v, i, i + 2) \in SubSeqs(v)
  BY <1>2 DEF SubSeqs
<1> DEFINE t == <<v[i], v[i + 1], v[i + 2]>>
<1>5. t \in Seq(Letters) /\ Len(t) = 3 /\ t[1] = v[i] /\ t[2] = v[i + 1] /\ t[3] = v[i + 2]
  BY <1>1
<1> HIDE DEF t
<1>6. \A k \in 1 .. 3 : k = 1 \/ k = 2 \/ k = 3
  OBVIOUS
<1>7. \A k \in 1 .. 3 : SubSeq(v, i, i + 2)[k] = t[k]
  BY <1>3, <1>5, <1>6
<1>8. SubSeq(v, i, i + 2) = t
  BY <1>3, <1>5, <1>7, SeqEqual
<1> QED
  BY <1>4, <1>8 DEF t

-----------------------------------------------------------------------------
(* What normalising does.                                                  *)

LEMMA SlashesFacts ==
  ASSUME NEW v \in Strings
  PROVE  /\ NormalizeSlashes(v) \in Strings /\ Len(NormalizeSlashes(v)) = Len(v)
         /\ \A i \in 1 .. Len(v) :
              /\ NormalizeSlashes(v)[i] = IF v[i] = "\\" THEN "/" ELSE v[i]
              /\ NormalizeSlashes(v)[i] # "\\"
<1>1. Len(v) \in Nat /\ \A i \in 1 .. Len(v) : v[i] \in Letters
  BY StringFacts
<1>2. "/" \in Letters
  BY DEF Letters, Chars
<1>3. NormalizeSlashes(v) = [i \in 1 .. Len(v) |-> IF v[i] = "\\" THEN "/" ELSE v[i]]
  BY DEF NormalizeSlashes, ReplaceAll
<1>4. NormalizeSlashes(v) \in [1 .. Len(v) -> Letters]
  BY <1>1, <1>2, <1>3
<1>5. NormalizeSlashes(v) \in Strings
  BY <1>1, <1>4, SeqDef DEF Strings
<1>6. DOMAIN NormalizeSlashes(v) = 1 .. Len(v) /\ DOMAIN NormalizeSlashes(v) = 1 .. Len(NormalizeSlashes(v))
  BY <1>3, <1>5, StringFacts
<1>7. Len(NormalizeSlashes(v)) = Len(v)
  BY <1>1, <1>5, <1>6, StringFacts
<1> QED
  BY <1>3, <1>5, <1>7

LEMMA SlashesStay ==
  ASSUME NEW v \in Strings, \A i \in 1 .. Len(v) : v[i] # "\\"
  PROVE  NormalizeSlashes(v) = v /\ ToNativePath(v) = v
<1>1. NormalizeSlashes(v) = v
  BY SlashesFacts, SeqEqual DEF Strings
<1> QED
  BY <1>1 DEF NormalizeSlashes, ToNativePath

(* w is what is left of u without its first s characters.                  *)
Suffix(w, u, s) ==
  /\ w \in Strings
  /\ s \in 0 .. Len(u)
  /\ Len(w) = Len(u) - s
  /\ \A i \in 1 .. Len(w) : w[i] = u[s + i]

LEMMA FromSuffix ==
  ASSUME NEW u \in Strings, NEW s \in 0 .. Len(u)
  PROVE  Suffix(From(u, s + 1), u, s)
<1>1. Len(u) \in Nat /\ \A i \in 1 .. Len(u) : u[i] \in Letters
  BY StringFacts
<1> DEFINE m == s + 1
<1>2. m \in Int /\ Len(u) \in Int /\ \A i \in m .. Len(u) : u[i] \in Letters
  BY <1>1
<1>3. /\ (m <= Len(u) \/ Len(u) - s = 0)
      /\ Len(u) - m + 1 = Len(u) - s
      /\ \A i \in Int : m + i - 1 = s + i
  BY <1>1
<1> HIDE DEF m
<1>4. /\ SubSeq(u, m, Len(u)) \in Seq(Letters)
      /\ Len(SubSeq(u, m, Len(u))) = IF m <= Len(u) THEN Len(u) - m + 1 ELSE 0
      /\ \A i \in 1 .. Len(u) - m + 1 : SubSeq(u, m, Len(u))[i] = u[m + i - 1]
  BY <1>2, SubSeqProperties
<1>5. Len(SubSeq(u, m, Len(u))) = Len(u) - s
  BY <1>1, <1>2, <1>3, <1>4
<1> DEFINE w == SubSeq(u, m, Len(u))
<1>6. ASSUME NEW i \in 1 .. Len(w) PROVE w[i] = u[s + i]
  <2>1. i \in 1 .. Len(u) - m + 1 /\ i \in Int
    BY <1>3, <1>5
  <2> QED
    BY <1>3, <1>4, <2>1
<1>7. Suffix(w, u, s)
  <2>1. w \in Strings /\ Len(w) = Len(u) - s
    BY <1>4, <1>5 DEF Strings
  <2> HIDE DEF w
  <2> QED
    BY <1>6, <2>1 DEF Suffix
<1> QED
  BY <1>7 DEF From, m

LEMMA SuffixOfSuffix ==
  ASSUME NEW u \in Strings, NEW w, NEW x, NEW s, NEW t, Suffix(w, u, s), Suffix(x, w, t)
  PROVE  Suffix(x, u, s + t)
<1>1. Len(u) \in Nat /\ Len(w) \in Nat /\ s \in 0 .. Len(u) /\ t \in 0 .. Len(w)
  BY StringFacts DEF Suffix
<1>2. s + t \in 0 .. Len(u) /\ Len(x) = Len(u) - (s + t)
  BY <1>1 DEF Suffix
<1>3. ASSUME NEW i \in 1 .. Len(x) PROVE x[i] = u[s + t + i]
  <2>1. t + i \in 1 .. Len(w) /\ s + (t + i) = s + t + i
    BY <1>1 DEF Suffix
  <2> QED
    BY <2>1 DEF Suffix
<1> QED
  BY <1>2, <1>3 DEF Suffix

(* A suffix, and only slashes and dots before slashes before it.           *)
Trimmed(w, u, s) ==
  /\ Suffix(w, u, s)
  /\ \A i \in 1 .. s : u[i] = "/" \/ (u[i] = "." /\ i < s /\ u[i + 1] = "/")

LEMMA DotsDropped ==
  ASSUME NEW u \in Strings
  PROVE  \E s \in Nat : Trimmed(DropDots(u), u, s)
<1> DEFINE pairs == {n \in 0 .. Len(u) \div 2 :
                       \A i \in 1 .. n : u[2 * i - 1] = "." /\ u[2 * i] = "/"}
<1>0. Len(u) \in Nat
  BY StringFacts
<1>1. Len(u) \div 2 \in Nat /\ 2 * (Len(u) \div 2) <= Len(u)
  BY <1>0
<1>2. pairs \in SUBSET Nat /\ 0 \in pairs /\ \A n \in pairs : n <= Len(u) \div 2
  BY <1>1
<1>3. Max(pairs) \in pairs
  <2> HIDE DEF pairs
  <2> QED
    BY <1>1, <1>2, GreatestMember
<1>4. PICK n \in pairs : n = Max(pairs)
  BY <1>3
<1>5. 2 * n \in 0 .. Len(u)
  BY <1>0, <1>1, <1>4
<1>6. DropDots(u) = From(u, 2 * n + 1)
  BY <1>4 DEF DropDots
<1>7. ASSUME NEW i \in 1 .. 2 * n
      PROVE  u[i] = "/" \/ (u[i] = "." /\ i < 2 * n /\ u[i + 1] = "/")
  <2>1. PICK k \in 1 .. n : i = 2 * k \/ i = 2 * k - 1
    <3>1. CASE i % 2 = 0
      <4>1. i \div 2 \in 1 .. n /\ i = 2 * (i \div 2)
        BY <1>2, <3>1
      <4> QED
        BY <4>1
    <3>2. CASE i % 2 = 1
      <4>1. (i + 1) \div 2 \in 1 .. n /\ i = 2 * ((i + 1) \div 2) - 1
        BY <1>2, <3>2
      <4> QED
        BY <4>1
    <3> QED
      BY <3>1, <3>2
  <2>2. u[2 * k - 1] = "." /\ u[2 * k] = "/"
    BY <1>4
  <2>3. CASE i = 2 * k
    BY <2>2, <2>3
  <2>4. CASE i = 2 * k - 1
    <3>1. i < 2 * n /\ i + 1 = 2 * k
      BY <1>2, <2>4
    <3> QED
      BY <2>2, <2>4, <3>1
  <2> QED
    BY <2>1, <2>3, <2>4
<1> DEFINE s == 2 * n
<1>8. s \in 0 .. Len(u) /\ s \in Nat /\ DropDots(u) = From(u, s + 1)
  BY <1>0, <1>5, <1>6
<1>9. \A i \in 1 .. s : u[i] = "/" \/ (u[i] = "." /\ i < s /\ u[i + 1] = "/")
  BY <1>7
<1> HIDE DEF s
<1> QED
  BY <1>8, <1>9, FromSuffix DEF Trimmed

LEMMA SlashesDropped ==
  ASSUME NEW w \in Strings
  PROVE  \E t \in Nat : Suffix(DropSlashes(w), w, t) /\ \A i \in 1 .. t : w[i] = "/"
<1> DEFINE I == {i \in 1 .. Len(w) : w[i] # "/"}
<1>0. Len(w) \in Nat /\ I \in SUBSET Nat
  BY StringFacts
<1>1. CASE I = {}
  <2>1. DropSlashes(w) = <<>>
    BY <1>1 DEF DropSlashes, SelectInSeq
  <2>2. \A i \in 1 .. Len(w) : w[i] = "/"
    BY <1>1
  <2>3. Suffix(<<>>, w, Len(w))
    <3>1. <<>> \in Strings /\ Len(<<>>) = 0
      BY EmptySeq DEF Strings
    <3> QED
      BY <1>0, <3>1 DEF Suffix
  <2> QED
    BY <1>0, <2>1, <2>2, <2>3
<1>2. CASE I # {}
  <2>1. Min(I) \in I /\ \A i \in I : Min(I) <= i
    <3> HIDE DEF I
    <3> QED
      BY <1>0, <1>2, LeastMember
  <2>2. DropSlashes(w) = From(w, Min(I))
    <3>1. SelectInSeq(w, LAMBDA c : c # "/") = Min(I)
      BY <1>2 DEF SelectInSeq
    <3>2. Min(I) # 0
      BY <2>1
    <3> QED
      BY <3>1, <3>2 DEF DropSlashes
  <2>3. PICK m \in I : m = Min(I)
    BY <2>1
  <2>4. \A i \in 1 .. m - 1 : w[i] = "/"
    BY <1>0, <2>1, <2>3
  <2>5. m - 1 \in 0 .. Len(w) /\ m - 1 \in Nat /\ m - 1 + 1 = m
    BY <1>0
  <2>6. Suffix(From(w, m), w, m - 1)
    BY <2>5, FromSuffix
  <2> QED
    BY <2>2, <2>3, <2>4, <2>5, <2>6
<1> QED
  BY <1>1, <1>2

(* An accepted path is a text without its first dots and slashes, and keeps*)
(* the rules for paths.                                                    *)
LEMMA Accepted ==
  ASSUME NEW v \in Strings, NormalizeRelativePath(v) # <<>>
  PROVE  /\ \E s \in Nat : Trimmed(NormalizeRelativePath(v), NormalizeSlashes(v), s)
         /\ NormalizeRelativePath(v) \in Strings
         /\ ~IsAbsolutePath(NormalizeRelativePath(v))
         /\ ~ContainsParentTraversal(NormalizeRelativePath(v))
         /\ \A i \in 1 .. Len(NormalizeRelativePath(v)) : NormalizeRelativePath(v)[i] # "\\"
         /\ NormalizeSlashes(NormalizeRelativePath(v)) = NormalizeRelativePath(v)
<1> DEFINE u == NormalizeSlashes(v)
           w == DropDots(u)
           p == DropSlashes(w)
<1>1. /\ NormalizeRelativePath(v) = p
      /\ ~IsAbsolutePath(p) /\ ~ContainsParentTraversal(p)
  BY DEF NormalizeRelativePath
<1>2. /\ u \in Strings /\ Len(u) = Len(v) /\ Len(u) \in Nat
      /\ \A i \in 1 .. Len(u) : u[i] # "\\"
  BY SlashesFacts, StringFacts
<1> HIDE DEF u
<1>3. PICK s \in Nat : Trimmed(w, u, s)
  BY <1>2, DotsDropped
<1> HIDE DEF w
<1>4. PICK t \in Nat : Suffix(p, w, t) /\ \A i \in 1 .. t : w[i] = "/"
  BY <1>3, SlashesDropped DEF Trimmed, Suffix
<1> HIDE DEF p
<1>5. Suffix(p, u, s + t)
  BY <1>2, <1>3, <1>4, SuffixOfSuffix DEF Trimmed
<1>6. ASSUME NEW i \in 1 .. s + t
      PROVE  u[i] = "/" \/ (u[i] = "." /\ i < s + t /\ u[i + 1] = "/")
  <2>1. CASE i \in 1 .. s
    BY <1>3, <2>1 DEF Trimmed
  <2>2. CASE i - s \in 1 .. t /\ i = s + (i - s)
    <3>1. t \in 0 .. Len(w) /\ Len(w) \in Nat
      BY <1>3, <1>4, StringFacts DEF Suffix, Trimmed
    <3>2. i - s \in 1 .. Len(w)
      BY <2>2, <3>1
    <3>3. w[i - s] = u[i] /\ w[i - s] = "/"
      BY <1>3, <1>4, <2>2, <3>2 DEF Trimmed, Suffix
    <3> QED
      BY <3>3
  <2> QED
    BY <2>1, <2>2
<1>7. ASSUME NEW i \in 1 .. Len(p) PROVE p[i] # "\\"
  <2>1. Len(p) \in Nat /\ s + t + i \in 1 .. Len(u)
    BY <1>2, <1>5, StringFacts DEF Suffix
  <2> QED
    BY <1>2, <1>5, <2>1 DEF Suffix
<1>8. NormalizeSlashes(p) = p
  BY <1>5, <1>7, SlashesStay DEF Suffix
<1>9. s + t \in Nat /\ Trimmed(p, u, s + t) /\ p \in Strings
  BY <1>5, <1>6 DEF Trimmed, Suffix
<1>10. \E n \in Nat : Trimmed(p, u, n)
  BY <1>9
<1> QED
  BY <1>1, <1>7, <1>8, <1>9, <1>10 DEF u

(* No name is lost with what is dropped.                                   *)
LEMMA TrimmedNames ==
  ASSUME NEW u \in Strings, NEW w, NEW s, Trimmed(w, u, s)
  PROVE  Names(w) = Names(u)
<1>t. Len(u) \in Nat /\ s \in 0 .. Len(u) /\ w \in Strings /\ Len(w) = Len(u) - s
      /\ \A i \in 1 .. Len(u) : u[i] \in Letters
  BY StringFacts DEF Trimmed, Suffix
<1> DEFINE h == SubSeq(u, 1, s)
<1>1. /\ h \in Strings /\ Len(h) = s
      /\ \A i \in 1 .. s : h[i] = u[i]
  <2>1. 1 \in Int /\ s \in Int /\ \A i \in 1 .. s : u[i] \in Letters
    BY <1>t
  <2>2. /\ SubSeq(u, 1, s) \in Seq(Letters)
        /\ Len(SubSeq(u, 1, s)) = IF 1 <= s THEN s - 1 + 1 ELSE 0
        /\ \A i \in 1 .. s - 1 + 1 : SubSeq(u, 1, s)[i] = u[1 + i - 1]
    BY <2>1, SubSeqProperties
  <2>3. s - 1 + 1 = s /\ (1 <= s \/ s = 0) /\ \A i \in Int : 1 + i - 1 = i
    BY <1>t
  <2>4. Len(SubSeq(u, 1, s)) = s
    BY <2>2, <2>3
  <2> QED
    BY <2>2, <2>3, <2>4 DEF Strings
<1> HIDE DEF h
<1>2. u = h \o w
  <2>1. /\ h \o w \in Strings /\ Len(h \o w) = Len(u)
        /\ \A i \in 1 .. s : (h \o w)[i] = h[i]
        /\ \A i \in 1 .. Len(w) : (h \o w)[s + i] = w[i]
    <3>1. /\ h \o w \in Strings /\ Len(h \o w) = Len(h) + Len(w)
          /\ \A i \in 1 .. Len(h) : (h \o w)[i] = h[i]
          /\ \A i \in 1 .. Len(w) : (h \o w)[Len(h) + i] = w[i]
      BY <1>1, <1>t, ConcatFacts
    <3>2. s + Len(w) = Len(u)
      BY <1>t
    <3> QED
      BY <1>1, <3>1, <3>2
  <2>2. ASSUME NEW i \in 1 .. Len(u) PROVE u[i] = (h \o w)[i]
    <3>1. CASE i \in 1 .. s
      BY <1>1, <2>1, <3>1
    <3>2. CASE i - s \in 1 .. Len(w) /\ i = s + (i - s)
      <4>1. w[i - s] = u[s + (i - s)]
        BY <3>2 DEF Trimmed, Suffix
      <4>2. (h \o w)[s + (i - s)] = w[i - s]
        BY <2>1, <3>2
      <4> QED
        BY <3>2, <4>1, <4>2
    <3>3. i \in 1 .. s \/ (i - s \in 1 .. Len(w) /\ i = s + (i - s))
      BY <1>t
    <3> QED
      BY <3>1, <3>2, <3>3
  <2> QED
    BY <2>1, <2>2, SeqEqual DEF Strings
<1>3. \A i \in 1 .. s : h[i] = "/" \/ (h[i] = "." /\ i < s /\ h[i + 1] = "/")
  <2>1. ASSUME NEW i \in 1 .. s, i < s PROVE i + 1 \in 1 .. s
    BY <1>t, <2>1
  <2> QED
    BY <1>1, <2>1 DEF Trimmed
<1>4. Closed(h)
  <2>1. CASE s = 0
    BY <1>1, <2>1, EmptySeq DEF Strings, Closed
  <2>2. CASE s # 0
    <3>1. s \in 1 .. s /\ ~(s < s)
      BY <1>t, <2>2
    <3> QED
      BY <1>1, <1>3, <3>1 DEF Closed
  <2> QED
    BY <2>1, <2>2
<1>5. Proper(h) = {}
  <2>1. ASSUME NEW i \in Begins(h) PROVE NameAt(h, i) = <<".">>
    <3>1. i \in 1 .. s /\ h[i] # "/" /\ i \in Nat
      BY <1>1, <1>t, BeginFacts
    <3>2. h[i] = "." /\ i < s /\ h[i + 1] = "/"
      BY <1>3, <3>1
    <3>3. NameEnd(h, i, i)
      BY <1>1, <1>t, <3>1, <3>2 DEF NameEnd
    <3>4. NameAt(h, i) = SubSeq(h, i, i)
      BY <1>1, <3>1, <3>3, NameIs
    <3>5. SubSeq(h, i, i) = <<h[i]>>
      BY <1>1, <3>1, OneLetter
    <3> QED
      BY <3>2, <3>4, <3>5
  <2> QED
    BY <2>1 DEF Proper
<1>6. Names(u) = Names(h) \o Names(w)
  BY <1>1, <1>2, <1>4, <1>t, ConcatNames
<1>7. Names(h) = <<>>
  BY <1>1, <1>5, NoNames
<1>8. <<>> \o Names(w) = Names(w)
  <2>n. PICK n \in Nat :
               \E q : Names(w) = [k \in 1 .. n |-> NameAt(w, q[k])]
    BY <1>t, NamesListed
  <2>1. PICK q : Names(w) = [k \in 1 .. n |-> NameAt(w, q[k])]
    BY <2>n
  <2>2. Names(w) \in Seq({NameAt(w, q[k]) : k \in 1 .. n})
    BY <2>1, SeqDef
  <2> QED
    BY <2>2, ConcatEmptySeq
<1> QED
  BY <1>6, <1>7, <1>8

LEMMA AcceptedNames ==
  ASSUME NEW v \in Strings, NormalizeRelativePath(v) # <<>>
  PROVE  Names(NormalizeRelativePath(v)) = Names(NormalizeSlashes(v))
BY Accepted, SlashesFacts, TrimmedNames

-----------------------------------------------------------------------------
(* What joining does.                                                      *)

LEMMA JoinFacts ==
  ASSUME NEW r \in Strings, \A i \in DOMAIN r : r[i] # "\\",
         NEW p \in Strings, p # <<>>, \A i \in 1 .. Len(p) : p[i] # "\\"
  PROVE  /\ JoinPath(r, p) \in Strings
         /\ \A i \in 1 .. Len(JoinPath(r, p)) : JoinPath(r, p)[i] # "\\"
         /\ Names(JoinPath(r, p)) = Names(r) \o Names(p)
<1>0. <<"/">> \in Strings /\ Len(<<"/">>) = 1 /\ <<"/">>[1] = "/"
  <2>1. "/" \in Letters
    BY DEF Letters, Chars
  <2>2. <<"/">> \in Seq(Letters)
    BY <2>1
  <2> QED
    BY <2>2 DEF Strings
<1>1. ASSUME NEW x \in Strings, NEW y \in Strings,
             \A i \in 1 .. Len(x) : x[i] # "\\", \A i \in 1 .. Len(y) : y[i] # "\\"
      PROVE  x \o y \in Strings /\ \A i \in 1 .. Len(x \o y) : (x \o y)[i] # "\\"
  <2> DEFINE z == x \o y
  <2>1. /\ z \in Strings /\ Len(z) = Len(x) + Len(y) /\ Len(x) \in Nat /\ Len(y) \in Nat
        /\ \A i \in 1 .. Len(x) : z[i] = x[i]
        /\ \A i \in 1 .. Len(y) : z[Len(x) + i] = y[i]
    BY ConcatFacts
  <2> HIDE DEF z
  <2>2. ASSUME NEW i \in 1 .. Len(z) PROVE z[i] # "\\"
    <3>1. i \in 1 .. Len(x) \/ (i - Len(x) \in 1 .. Len(y) /\ i = Len(x) + (i - Len(x)))
      BY <2>1
    <3>2. CASE i \in 1 .. Len(x)
      BY <1>1, <2>1, <3>2
    <3>3. CASE i - Len(x) \in 1 .. Len(y) /\ i = Len(x) + (i - Len(x))
      BY <1>1, <2>1, <3>3
    <3> QED
      BY <3>1, <3>2, <3>3
  <2> QED
    BY <2>1, <2>2 DEF z
<1>2. \A i \in 1 .. Len(r) : r[i] # "\\"
  BY StringFacts
<1>3. CASE r = <<>>
  <2>1. JoinPath(r, p) = p
    BY <1>3 DEF JoinPath
  <2>2. r \o p = p
    BY <1>3, ConcatEmptySeq DEF Strings
  <2>3. Names(r \o p) = Names(r) \o Names(p)
    BY <1>3, ConcatNames DEF Closed
  <2> QED
    BY <2>1, <2>2, <2>3
<1>4. CASE r # <<>> /\ Separator(Last(r))
  <2>1. JoinPath(r, p) = r \o p
    BY <1>4 DEF JoinPath
  <2>2. Len(r) \in 1 .. Len(r)
    BY <1>4, EmptySeq DEF Strings
  <2>3. Closed(r)
    BY <1>2, <1>4, <2>2 DEF Separator, Last, Closed
  <2> QED
    BY <1>1, <1>2, <2>1, <2>3, ConcatNames
<1>5. CASE r # <<>> /\ ~Separator(Last(r))
  <2> DEFINE x == r \o <<"/">>
  <2>1. JoinPath(r, p) = x \o p
    BY <1>5 DEF JoinPath
  <2>2. x \in Strings /\ \A i \in 1 .. Len(x) : x[i] # "\\"
    BY <1>0, <1>1, <1>2
  <2>3. Len(x) = Len(r) + 1 /\ x[Len(r) + 1] = "/"
    BY <1>0, ConcatFacts
  <2>4. Closed(x)
    BY <2>3 DEF Closed
  <2>5. Names(x) = Names(r)
    BY SlashNames
  <2> HIDE DEF x
  <2>6. Names(x \o p) = Names(x) \o Names(p)
    BY <2>2, <2>4, ConcatNames
  <2> QED
    BY <1>1, <2>1, <2>2, <2>5, <2>6
<1> QED
  BY <1>3, <1>4, <1>5

LEMMA RootFacts ==
  ASSUME NEW r \in Roots
  PROVE  r \in Strings /\ \A i \in DOMAIN r : r[i] # "\\"
BY RootAssumption DEF Strings

-----------------------------------------------------------------------------
(* The string that is typed.                                               *)

LEMMA TypedString == Spec => [](typed \in Strings)
<1>1. Init => typed \in Strings
  BY EmptySeq DEF Init, Strings
<1>2. typed \in Strings /\ [Next]_typed => (typed \in Strings)'
  <2> SUFFICES ASSUME typed \in Strings, NEW c \in Chars, Type(c) PROVE (typed \in Strings)'
    BY DEF Next, Strings
  <2>1. c \in Letters
    BY DEF Letters
  <2> QED
    BY <2>1, AppendProperties DEF Type, Strings
<1> QED
  BY <1>1, <1>2, PTL DEF Spec

-----------------------------------------------------------------------------
(* FileKept.  Of a path that is accepted every name is kept, and in order: *)
(* the dots and slashes NormalizeRelativePath takes away name nothing.     *)
THEOREM NamesAreKept == Spec => []FileKept
<1>1. typed \in Strings => FileKept
  BY AcceptedNames DEF FileKept
<1> QED
  BY <1>1, TypedString, PTL

(* ResolvedBelowRoot.  Whatever the root, ResolveSharedPath goes to the    *)
(* root and from there the way of the path.                                *)
THEOREM ResolvedUnderRoot == Spec => []ResolvedBelowRoot
<1>1. ASSUME typed \in Strings PROVE ResolvedBelowRoot
  <2> SUFFICES ASSUME NormalizeRelativePath(typed) # <<>>, NEW r \in Roots
               PROVE  Names(ResolveSharedPath(r, NormalizeRelativePath(typed)))
                        = Names(r) \o Names(NormalizeRelativePath(typed))
    BY DEF ResolvedBelowRoot
  <2> QED
    BY <1>1, Accepted, RootFacts, JoinFacts DEF ResolveSharedPath
<1> QED
  BY <1>1, TypedString, PTL

(* SidesMeet.  A path the client has normalised, and the service once more,*)
(* is the same file to both, below any root that is mounted by both.       *)
THEOREM SidesAgree == Spec => []SidesMeet
<1>1. ASSUME typed \in Strings PROVE SidesMeet
  <2> DEFINE p == NormalizeRelativePath(typed)
             q == NormalizeRelativePath(p)
  <2> SUFFICES ASSUME q # <<>>, NEW r \in Roots
               PROVE  Names(ClientSharedPath(r, p)) = Names(ResolveSharedPath(r, q))
    BY DEF SidesMeet
  <2>1. p # <<>>
    <3> SUFFICES ASSUME p = <<>> PROVE FALSE
      OBVIOUS
    <3>1. <<>> \in Strings
      BY EmptySeq DEF Strings
    <3>2. \E s \in Nat : Trimmed(q, NormalizeSlashes(<<>>), s)
      BY <3>1, Accepted
    <3>3. Len(q) = 0 /\ q \in Strings
      <4>1. Len(NormalizeSlashes(<<>>)) = 0
        BY <3>1, SlashesFacts, EmptySeq
      <4>2. q \in Strings /\ Len(q) \in Nat
        BY <3>1, Accepted, StringFacts
      <4> HIDE DEF q
      <4> QED
        BY <3>2, <4>1, <4>2 DEF Trimmed, Suffix
    <3> HIDE DEF q
    <3> QED
      BY <3>3, EmptySeq DEF Strings
  <2>2. /\ p \in Strings /\ (\A i \in 1 .. Len(p) : p[i] # "\\") /\ NormalizeSlashes(p) = p
    BY <1>1, <2>1, Accepted
  <2>3. /\ q \in Strings /\ (\A i \in 1 .. Len(q) : q[i] # "\\") /\ NormalizeSlashes(q) = q
        /\ Names(q) = Names(NormalizeSlashes(p))
    BY <2>2, Accepted, AcceptedNames
  <2> HIDE DEF p, q
  <2>4. /\ JoinPath(r, p) \in Strings
        /\ \A i \in 1 .. Len(JoinPath(r, p)) : JoinPath(r, p)[i] # "\\"
        /\ Names(JoinPath(r, p)) = Names(r) \o Names(p)
    BY <2>1, <2>2, RootFacts, JoinFacts
  <2>5. Names(JoinPath(r, q)) = Names(r) \o Names(q)
    BY <2>3, RootFacts, JoinFacts
  <2>6. ToNativePath(JoinPath(r, p)) = JoinPath(r, p)
    BY <2>4, SlashesStay
  <2> QED
    BY <2>2, <2>3, <2>4, <2>5, <2>6 DEF ClientSharedPath, ResolveSharedPath
<1> QED
  BY <1>1, TypedString, PTL

(* ParentsExist.  EnsureParentDirectory leaves out no directory on the way *)
(* to a file: each is the part before a slash, and those are the ones made.*)
THEOREM ParentsAreMade == Spec => []ParentsExist
<1>1. ASSUME typed \in Strings PROVE ParentsExist
  <2> DEFINE p == NormalizeRelativePath(typed)
  <2> SUFFICES ASSUME p # <<>>, NEW r \in Roots,
                      NEW i \in DOMAIN ResolveSharedPath(r, p),
                      i > 1, ResolveSharedPath(r, p)[i] = "/"
               PROVE  \E d \in DirectoriesMade(ResolveSharedPath(r, p)) :
                        Names(d) = Names(SubSeq(ResolveSharedPath(r, p), 1, i - 1))
    BY DEF ParentsExist
  <2> DEFINE file == ResolveSharedPath(r, p)
  <2>1. file \in Strings
    BY <1>1, Accepted, RootFacts, JoinFacts DEF ResolveSharedPath
  <2> HIDE DEF p
  <2>2. i \in DOMAIN file /\ file[i] = "/"
    OBVIOUS
  <2> SUFFICES \E d \in DirectoriesMade(file) : Names(d) = Names(SubSeq(file, 1, i - 1))
    OBVIOUS
  <2> HIDE DEF file
  <2> DEFINE I == {k \in 1 .. Len(file) : Separator(file[k])}
             L == Max(I)
             dir == SubSeq(file, 1, L - 1)
  <2>3. Len(file) \in Nat /\ i \in 2 .. Len(file) /\ i \in I
    <3>1. Len(file) \in Nat /\ i \in 1 .. Len(file)
      BY <2>1, <2>2, StringFacts
    <3> QED
      BY <2>2, <3>1 DEF Separator
  <2>4. L \in I /\ i <= L
    <3>1. I \in SUBSET Nat /\ I # {} /\ \A k \in I : k <= Len(file)
      BY <2>3
    <3> HIDE DEF I
    <3> QED
      BY <2>3, <3>1, GreatestMember
  <2>5. ParentPath(file) = dir
    <3>1. SelectLastInSeq(file, Separator) = L
      BY <2>3 DEF SelectLastInSeq
    <3>2. L # 0
      BY <2>4
    <3> QED
      BY <3>1, <3>2 DEF ParentPath
  <2>6. L \in 2 .. Len(file)
    BY <2>3, <2>4
  <2> HIDE DEF L
  <2>7. /\ dir \in Strings /\ Len(dir) = L - 1
        /\ \A k \in 1 .. L - 1 : dir[k] = file[k]
    <3>1. L - 1 \in 1 .. Len(file) /\ 1 \in 1 .. Len(file) /\ L - 1 - 1 + 1 = L - 1
      BY <2>3, <2>6
    <3>2. /\ dir \in Seq(Letters) /\ Len(dir) = L - 1 - 1 + 1
          /\ \A k \in 1 .. L - 1 - 1 + 1 : dir[k] = file[1 + k - 1]
      BY <2>1, <3>1, PartFacts
    <3> QED
      BY <3>1, <3>2 DEF Strings
  <2>8. dir # <<>>
    BY <2>6, <2>7
  <2> HIDE DEF dir
  <2>9. DirectoriesMade(file)
          = {SubSeq(dir, 1, n) : n \in {n \in 2 .. Len(dir) : Separator(dir[n])}} \cup {dir}
    BY <2>5, <2>8 DEF DirectoriesMade
  <2>10. CASE i = L
    BY <2>9, <2>10 DEF dir
  <2>11. CASE i < L
    <3>1. i \in 2 .. Len(dir) /\ Separator(dir[i])
      BY <2>2, <2>3, <2>6, <2>7, <2>11 DEF Separator
    <3>2. SubSeq(dir, 1, i) \in DirectoriesMade(file)
      BY <2>9, <3>1
    <3>3. SubSeq(dir, 1, i) = SubSeq(dir, 1, i - 1) \o <<"/">>
      <4>1. i \in 1 .. Len(dir) /\ 1 \in 1 .. Len(dir) /\ dir[i] = "/"
        BY <2>2, <2>3, <2>7, <3>1
      <4> QED
        BY <2>7, <4>1, SubSeqRecursiveSecond DEF Strings
    <3>4. SubSeq(dir, 1, i - 1) = SubSeq(file, 1, i - 1) /\ SubSeq(file, 1, i - 1) \in Strings
      <4>1. /\ i - 1 \in 1 .. Len(dir) /\ i - 1 \in 1 .. Len(file)
            /\ 1 \in 1 .. Len(dir) /\ 1 \in 1 .. Len(file) /\ i - 1 - 1 + 1 = i - 1
            /\ \A k \in 1 .. i - 1 : 1 + k - 1 = k /\ k \in 1 .. L - 1
        BY <2>3, <2>6, <2>7, <3>1
      <4>2. /\ SubSeq(dir, 1, i - 1) \in Seq(Letters) /\ Len(SubSeq(dir, 1, i - 1)) = i - 1
            /\ \A k \in 1 .. i - 1 : SubSeq(dir, 1, i - 1)[k] = dir[k]
        BY <2>7, <4>1, PartFacts
      <4>3. /\ SubSeq(file, 1, i - 1) \in Seq(Letters) /\ Len(SubSeq(file, 1, i - 1)) = i - 1
            /\ \A k \in 1 .. i - 1 : SubSeq(file, 1, i - 1)[k] = file[k]
        BY <2>1, <4>1, PartFacts
      <4>4. \A k \in 1 .. i - 1 : SubSeq(dir, 1, i - 1)[k] = SubSeq(file, 1, i - 1)[k]
        BY <2>7, <4>1, <4>2, <4>3
      <4> QED
        BY <4>2, <4>3, <4>4, SeqEqual DEF Strings
    <3>5. Names(SubSeq(dir, 1, i)) = Names(SubSeq(file, 1, i - 1))
      BY <3>3, <3>4, SlashNames
    <3> QED
      BY <3>2, <3>5
  <2> QED
    BY <2>3, <2>4, <2>6, <2>10, <2>11
<1> QED
  BY <1>1, TypedString, PTL

(* Nothing is dropped of a text that begins with another letter.           *)
LEMMA WholeKept ==
  ASSUME NEW u \in Strings, Len(u) >= 1, u[1] # ".", u[1] # "/"
  PROVE  DropSlashes(DropDots(u)) = u
<1>0. Len(u) \in Nat /\ 1 \in 1 .. Len(u)
  BY StringFacts
<1>1. ASSUME NEW w, Suffix(w, u, 0) PROVE w = u
  <2>1. w \in Strings /\ Len(w) = Len(u) /\ \A i \in 1 .. Len(u) : w[i] = u[i]
    BY <1>0, <1>1 DEF Suffix
  <2> QED
    BY <2>1, SeqEqual DEF Strings
<1>2. ASSUME NEW s \in Nat, s # 0 PROVE 1 \in 1 .. s
  BY <1>2
<1>3. DropDots(u) = u
  <2>1. PICK s \in Nat : Trimmed(DropDots(u), u, s)
    BY DotsDropped
  <2>2. s = 0
    BY <1>2, <2>1 DEF Trimmed
  <2> QED
    BY <1>1, <2>1, <2>2 DEF Trimmed
<1>4. DropSlashes(u) = u
  <2>1. PICK t \in Nat : Suffix(DropSlashes(u), u, t) /\ \A i \in 1 .. t : u[i] = "/"
    BY SlashesDropped
  <2>2. t = 0
    BY <1>2, <2>1
  <2> QED
    BY <1>1, <2>1, <2>2
<1> QED
  BY <1>3, <1>4

(* A part of three letters is at some place.                               *)
LEMMA ThreeInside ==
  ASSUME NEW v \in Strings, NEW a, NEW b, NEW c, <<a, b, c>> \in SubSeqs(v)
  PROVE  \E i \in 1 .. Len(v) : i + 2 <= Len(v) /\ v[i] = a /\ v[i + 1] = b /\ v[i + 2] = c
<1>0. Len(v) \in Nat /\ \A i \in 1 .. Len(v) : v[i] \in Letters
  BY StringFacts
<1>1. PICK k \in 0 .. Len(v), j \in 0 .. Len(v) : <<a, b, c>> = SubSeq(v, k + 1, j)
  BY DEF SubSeqs
<1> DEFINE i == k + 1
           x == SubSeq(v, i, j)
<1>2. x = <<a, b, c>>
  BY <1>1
<1>i. i \in 1 .. Len(v) + 1 /\ i \in Int
  BY <1>0
<1> HIDE DEF i, x
<1>3. Len(x) = 3 /\ x[1] = a /\ x[2] = b /\ x[3] = c
  BY <1>2
<1>4. j \in Int /\ \A n \in i .. j : v[n] \in Letters
  BY <1>0, <1>i
<1>5. /\ Len(x) = IF i <= j THEN j - i + 1 ELSE 0
      /\ \A n \in 1 .. j - i + 1 : x[n] = v[i + n - 1]
  BY <1>i, <1>4, SubSeqProperties DEF x
<1>6. i <= j /\ j = i + 2
  <2>1. i <= j
    <3>1. ~(i <= j) => Len(x) = 0
      BY <1>5
    <3>2. Len(x) # 0
      BY <1>3
    <3> QED
      BY <3>1, <3>2
  <2>2. j - i + 1 = 3
    BY <1>3, <1>5, <2>1
  <2> QED
    BY <1>i, <1>4, <2>1, <2>2
<1>7. j - i + 1 = 3 /\ i + 1 - 1 = i /\ i + 2 - 1 = i + 1 /\ i + 3 - 1 = i + 2
  BY <1>i, <1>6
<1>8. x[1] = v[i] /\ x[2] = v[i + 1] /\ x[3] = v[i + 2]
  BY <1>5, <1>7
<1>9. i \in 1 .. Len(v) /\ i + 2 <= Len(v)
  BY <1>0, <1>i, <1>6
<1> QED
  BY <1>3, <1>8, <1>9

(* StaysBelow.  The substrings that ContainsParentTraversal looks for are  *)
(* all there is to look for: no name of an accepted path is "..", and it   *)
(* begins with neither a slash nor a drive.                                *)
THEOREM NeverAbove == Spec => []StaysBelow
<1>1. ASSUME typed \in Strings PROVE StaysBelow
  <2> DEFINE p == NormalizeRelativePath(typed)
  <2> SUFFICES ASSUME p # <<>>
               PROVE  /\ p[1] # "/" /\ (Len(p) > 1 => p[2] # ":")
                      /\ \A i \in Begins(p) : NameAt(p, i) # <<".", ".">>
    BY DEF StaysBelow
  <2>1. p \in Strings /\ ~IsAbsolutePath(p) /\ ~ContainsParentTraversal(p)
    BY <1>1, Accepted
  <2> HIDE DEF p
  <2>2. Len(p) \in Nat
    BY <2>1, StringFacts
  <2>3. p[1] # "/" /\ (Len(p) > 1 => p[2] # ":")
    BY <2>1 DEF IsAbsolutePath, Separator
  <2>4. ASSUME NEW i \in Begins(p), NameAt(p, i) = <<".", ".">> PROVE FALSE
    <3>1. i \in 1 .. Len(p) /\ p[i] # "/" /\ (i = 1 \/ p[i - 1] = "/")
      BY <2>1, BeginFacts
    <3>2. PICK e \in Nat : NameEnd(p, i, e)
      BY <2>1, <3>1, NameHasEnd
    <3>3. SubSeq(p, i, e) = <<".", ".">> /\ e \in i .. Len(p)
      BY <2>1, <2>4, <3>1, <3>2, NameIs DEF NameEnd
    <3>4. /\ Len(SubSeq(p, i, e)) = e - i + 1
          /\ \A k \in 1 .. e - i + 1 : SubSeq(p, i, e)[k] = p[i + k - 1]
      BY <2>1, <3>1, <3>3, PartFacts
    <3>5. e = i + 1
      <4>1. e - i + 1 = 2
        BY <3>3, <3>4
      <4> QED
        BY <2>2, <3>1, <4>1
    <3>6. p[i] = "." /\ p[i + 1] = "."
      <4>1. 1 \in 1 .. e - i + 1 /\ 2 \in 1 .. e - i + 1 /\ i + 1 - 1 = i /\ i + 2 - 1 = i + 1
        BY <2>2, <3>1, <3>5
      <4>2. p[i] = <<".", ".">>[1] /\ p[i + 1] = <<".", ".">>[2]
        BY <3>3, <3>4, <4>1
      <4> QED
        BY <4>2
    <3>7. CASE i # 1
      <4>1. i - 1 \in 1 .. Len(p) /\ i - 1 + 2 <= Len(p) /\ i - 1 + 1 = i /\ i - 1 + 2 = i + 1
        BY <2>2, <3>1, <3>3, <3>5, <3>7
      <4>2. <<p[i - 1], p[i], p[i + 1]>> \in SubSeqs(p)
        <5> DEFINE k == i - 1
        <5>1. k \in 1 .. Len(p) /\ k + 2 <= Len(p) /\ k + 1 = i /\ k + 2 = i + 1
          BY <4>1
        <5> HIDE DEF k
        <5>2. <<p[k], p[k + 1], p[k + 2]>> \in SubSeqs(p)
          BY <2>1, <5>1, ThreeLetters
        <5>3. <<p[k], p[i], p[i + 1]>> \in SubSeqs(p)
          BY <5>1, <5>2
        <5> QED
          BY <5>3 DEF k
      <4> QED
        BY <2>1, <3>1, <3>6, <3>7, <4>2 DEF ContainsParentTraversal
    <3>8. CASE i = 1 /\ e < Len(p)
      <4>1. i + 2 <= Len(p) /\ e + 1 = i + 2
        BY <2>2, <3>1, <3>5, <3>8
      <4>2. p[i + 2] = "/"
        BY <3>2, <3>8, <4>1 DEF NameEnd
      <4>3. <<p[i], p[i + 1], p[i + 2]>> \in SubSeqs(p)
        BY <2>1, <3>1, <4>1, ThreeLetters
      <4> QED
        BY <2>1, <3>6, <4>2, <4>3 DEF ContainsParentTraversal
    <3>9. CASE i = 1 /\ e = Len(p)
      <4>1. p = <<".", ".">>
        BY <2>1, <3>3, <3>9, SubSeqFull DEF Strings
      <4> QED
        BY <2>1, <4>1 DEF ContainsParentTraversal
    <3> QED
      BY <2>2, <3>1, <3>3, <3>7, <3>8, <3>9
  <2> QED
    BY <2>3, <2>4
<1> QED
  BY <1>1, TypedString, PTL

-----------------------------------------------------------------------------
(* File names made from task ids.                                          *)

LEMMA JsonFacts ==
  Json \in Strings /\ Len(Json) = 2 /\ Json[1] = "." /\ Json[2] = "j"
<1>1. "." \in Letters /\ "j" \in Letters
  BY DEF Letters, Chars
<1>2. <<".", "j">> \in Seq(Letters)
  BY <1>1
<1> QED
  BY <1>2 DEF Json, Strings

LEMMA SanitizedFacts ==
  ASSUME NEW v \in Strings
  PROVE  /\ SanitizeFileName(v) \in Strings
         /\ Len(SanitizeFileName(v)) = IF v = <<>> THEN 1 ELSE Len(v)
         /\ v = <<>> => SanitizeFileName(v)[1] = "t"
         /\ \A i \in 1 .. Len(v) : SanitizeFileName(v)[i] = "." <=> v[i] = "."
         /\ \A i \in 1 .. Len(SanitizeFileName(v)) :
              SanitizeFileName(v)[i] \notin {"/", "\\"}
<1>0. Len(v) \in Nat /\ DOMAIN v = 1 .. Len(v) /\ \A i \in 1 .. Len(v) : v[i] \in Letters
  BY StringFacts
<1>1. {"a", ".", "_", "t"} \subseteq Letters
  BY DEF Letters, Chars
<1>2. CASE v = <<>>
  <2>1. SanitizeFileName(v) = <<"t">>
    BY <1>2 DEF SanitizeFileName
  <2> DEFINE z == <<"t">>
  <2>2. "t" \in Letters
    BY <1>1
  <2>3. z \in Seq(Letters) /\ Len(z) = 1 /\ z[1] = "t"
    BY <2>2
  <2>4. z[1] \notin {"/", "\\"}
    BY <2>3
  <2> HIDE DEF z
  <2>5. Len(v) = 0
    BY <1>2
  <2>6. \A i \in 1 .. Len(z) : z[i] \notin {"/", "\\"}
    <3>1. \A i \in 1 .. 1 : i = 1
      OBVIOUS
    <3> QED
      BY <2>3, <2>4, <3>1
  <2>7. SanitizeFileName(v) = z
    BY <2>1 DEF z
  <2>8. z \in Strings
    BY <2>3 DEF Strings
  <2>9. \A i \in 1 .. Len(v) : z[i] = "." <=> v[i] = "."
    BY <2>5
  <2> QED
    BY <1>2, <2>3, <2>6, <2>7, <2>8, <2>9
<1>3. CASE v # <<>>
  <2> DEFINE z == SanitizeFileName(v)
  <2>1. z = [i \in 1 .. Len(v) |-> IF v[i] \in {"a", "."} THEN v[i] ELSE "_"]
    BY <1>0, <1>3 DEF SanitizeFileName
  <2> HIDE DEF z
  <2>2. z \in [1 .. Len(v) -> Letters]
    BY <1>0, <1>1, <2>1
  <2>3. z \in Strings /\ Len(z) = Len(v)
    <3>1. z \in Strings
      BY <1>0, <2>2, SeqDef DEF Strings
    <3>2. DOMAIN z = 1 .. Len(v) /\ DOMAIN z = 1 .. Len(z) /\ Len(z) \in Nat
      BY <2>1, <3>1, StringFacts
    <3> QED
      BY <1>0, <3>1, <3>2
  <2>4. \A i \in 1 .. Len(v) : (z[i] = "." <=> v[i] = ".") /\ z[i] \notin {"/", "\\"}
    BY <2>1
  <2> QED
    BY <1>3, <2>3, <2>4 DEF z
<1> QED
  BY <1>2, <1>3

LEMMA LengthCases ==
  ASSUME NEW v \in Strings
  PROVE  (v = <<>> \/ Len(v) = 1 \/ Len(v) >= 2) /\ (Len(v) >= 2 => Len(v) # 1)
<1>1. Len(v) \in Nat
  BY StringFacts
<1>2. v # <<>> => Len(v) # 0
  BY EmptySeq DEF Strings
<1>3. ASSUME NEW n \in Nat PROVE (n = 0 \/ n = 1 \/ n >= 2) /\ (n >= 2 => n # 1)
  OBVIOUS
<1> QED
  BY <1>1, <1>2, <1>3, Zenon

(* The name of a file: it has three letters or more, none of them a slash, *)
(* and begins with two dots if the id does or is one.                      *)
LEMMA FileNameFacts ==
  ASSUME NEW v \in Strings, NEW f, f = SanitizeFileName(v) \o Json
  PROVE  /\ f \in Strings /\ Len(f) \in Nat /\ Len(f) >= 3
         /\ \A i \in 1 .. Len(f) : f[i] \notin {"/", "\\"}
         /\ f[1] = "." /\ f[2] = "." <=> v = <<".">> \/ IsPrefix(<<".", ".">>, v)
<1> DEFINE z == SanitizeFileName(v)
<1>v. Len(v) \in Nat
  BY StringFacts
<1>z. /\ z \in Strings
      /\ Len(z) = IF v = <<>> THEN 1 ELSE Len(v)
      /\ v = <<>> => z[1] = "t"
      /\ \A i \in 1 .. Len(v) : z[i] = "." <=> v[i] = "."
      /\ \A i \in 1 .. Len(z) : z[i] \notin {"/", "\\"}
  BY SanitizedFacts
<1> HIDE DEF z
<1>l. Len(z) \in Nat /\ Len(z) >= 1 /\ (v = <<>> => Len(v) = 0) /\ (v # <<>> => Len(v) >= 1)
  <2>1. v = <<>> => Len(v) = 0
    OBVIOUS
  <2>2. v # <<>> => Len(v) \in Nat \ {0}
    BY EmptySeq DEF Strings
  <2> QED
    BY <1>z, <2>1, <2>2
<1>1. /\ f \in Strings /\ Len(f) = Len(z) + 2
      /\ \A i \in 1 .. Len(z) : f[i] = z[i]
      /\ \A i \in 1 .. 2 : f[Len(z) + i] = Json[i]
  <2>1. f = z \o Json
    BY DEF z
  <2>2. /\ z \o Json \in Strings /\ Len(z \o Json) = Len(z) + Len(Json)
        /\ \A i \in 1 .. Len(z) : (z \o Json)[i] = z[i]
        /\ \A i \in 1 .. Len(Json) : (z \o Json)[Len(z) + i] = Json[i]
    BY <1>z, JsonFacts, ConcatFacts
  <2>3. Len(Json) = 2
    BY JsonFacts
  <2> QED
    BY <2>1, <2>2, <2>3
<1>2. f[Len(z) + 1] = "." /\ f[Len(z) + 2] = "j"
  BY <1>1, JsonFacts
<1>3. \A i \in 1 .. Len(f) : f[i] \notin {"/", "\\"}
  <2>1. \A i \in 1 .. Len(f) : i \in 1 .. Len(z) \/ i = Len(z) + 1 \/ i = Len(z) + 2
    BY <1>l, <1>1
  <2> QED
    BY <1>z, <1>1, <1>2, <2>1
<1>4. CASE v = <<>>
  <2>1. f[1] = "t"
    BY <1>4, <1>l, <1>z, <1>1
  <2>2. v # <<".">> /\ ~IsPrefix(<<".", ".">>, v)
    BY <1>4, <1>l DEF IsPrefix
  <2> QED
    BY <1>l, <1>1, <1>3, <2>1, <2>2
<1>5. CASE Len(v) = 1
  <2>1. f[1] = "." <=> v[1] = "."
    BY <1>5, <1>l, <1>z, <1>1
  <2>2. f[2] = "."
    <3>1. Len(z) = 1
      BY <1>5, <1>l, <1>z
    <3>2. Len(z) + 1 = 2
      BY <3>1
    <3> QED
      BY <1>2, <3>2
  <2>3. v = <<".">> <=> v[1] = "."
    <3>1. v = <<v[1]>>
      <4>1. SubSeq(v, 1, 1) = <<v[1]>>
        BY <1>5, OneLetter
      <4>2. SubSeq(v, 1, 1) = v
        BY <1>5, SubSeqFull DEF Strings
      <4> QED
        BY <4>1, <4>2
    <3> QED
      BY <3>1
  <2>4. ~IsPrefix(<<".", ".">>, v)
    BY <1>5 DEF IsPrefix
  <2> QED
    BY <1>l, <1>1, <1>3, <2>1, <2>2, <2>3, <2>4
<1>6. CASE Len(v) >= 2
  <2>1. 1 \in 1 .. Len(v) /\ 2 \in 1 .. Len(v) /\ Len(z) = Len(v)
    BY <1>v, <1>l, <1>z, <1>6
  <2>2. (f[1] = "." <=> v[1] = ".") /\ (f[2] = "." <=> v[2] = ".")
    BY <1>z, <1>1, <2>1
  <2>3. v # <<".">>
    <3>1. Len(<<".">>) = 1
      OBVIOUS
    <3>2. Len(v) # 1
      BY <1>6, LengthCases
    <3> QED
      BY <3>1, <3>2
  <2> DEFINE t == <<".", ".">>
  <2>4. SubSeq(v, 1, 2) = <<v[1], v[2]>>
    <3>1. 1 + 1 <= Len(v) /\ 1 + 1 = 2
      BY <1>6
    <3> QED
      BY <2>1, <3>1, TwoLetters
  <2>5. t \in Strings /\ Len(t) = 2 /\ SubSeq(t, 1, 2) = t
    <3>1. "." \in Letters
      BY DEF Letters, Chars
    <3>2. t \in Strings /\ Len(t) = 2
      BY <3>1 DEF Strings
    <3> HIDE DEF t
    <3>3. SubSeq(t, 1, Len(t)) = t
      BY <3>2, SubSeqFull DEF Strings
    <3> QED
      BY <3>2, <3>3
  <2>6. IsPrefix(t, v) <=> t = SubSeq(v, 1, 2)
    <3> HIDE DEF t
    <3> QED
      BY <1>6, <2>5 DEF IsPrefix
  <2>7. IsPrefix(t, v) <=> v[1] = "." /\ v[2] = "."
    <3>1. t = <<v[1], v[2]>> <=> v[1] = "." /\ v[2] = "."
      OBVIOUS
    <3> QED
      BY <2>4, <2>6, <3>1
  <2> QED
    BY <1>l, <1>1, <1>3, <2>2, <2>3, <2>7
<1>7. v = <<>> \/ Len(v) = 1 \/ Len(v) >= 2
  BY LengthCases
<1> QED
  BY <1>4, <1>5, <1>6, <1>7

(* A string without a slash is one name, unless it is ".".                 *)
LEMMA SingleName ==
  ASSUME NEW v \in Strings, Len(v) >= 1, v # <<".">>, \A i \in 1 .. Len(v) : v[i] # "/"
  PROVE  Names(v) = <<v>>
<1>0. Len(v) \in Nat /\ 1 \in 1 .. Len(v)
  BY StringFacts
<1>1. Begins(v) = {1}
  <2>1. ASSUME NEW i \in Begins(v) PROVE i = 1
    <3>1. i \in 1 .. Len(v) /\ (i = 1 \/ v[i - 1] = "/")
      BY BeginFacts
    <3>2. i # 1 => i - 1 \in 1 .. Len(v)
      BY <1>0, <3>1
    <3> QED
      BY <3>1, <3>2
  <2>2. 1 \in Begins(v)
    BY <1>0, BeginFacts
  <2> QED
    BY <2>1, <2>2
<1>2. NameAt(v, 1) = v
  <2>1. NameEnd(v, 1, Len(v))
    BY <1>0 DEF NameEnd
  <2>2. NameAt(v, 1) = SubSeq(v, 1, Len(v))
    BY <1>0, <2>1, NameIs
  <2> QED
    BY <2>2, SubSeqFull DEF Strings
<1>3. Proper(v) = {1}
  BY <1>1, <1>2 DEF Proper
<1> DEFINE q == <<1>>
<1>4. q[1] = 1 /\ \A i \in 1 .. 1 : i = 1
  OBVIOUS
<1>5. Ordered(q, 1, Proper(v))
  <2> HIDE DEF q
  <2>1. /\ q \in [1 .. 1 -> {1}]
        /\ \A a, b \in 1 .. 1 : a < b => q[a] < q[b]
        /\ \A x \in {1} : \E a \in 1 .. 1 : q[a] = x
    <3>1. q = [a \in 1 .. 1 |-> 1]
      BY DEF q
    <3> QED
      BY <3>1
  <2> QED
    BY <1>3, <2>1 DEF Ordered
<1>6. Names(v) = [k \in 1 .. 1 |-> NameAt(v, q[k])]
  <2> HIDE DEF q
  <2> QED
    BY <1>5, NamesInOrder
<1>7. Names(v) = [k \in 1 .. 1 |-> v]
  BY <1>2, <1>4, <1>6
<1> QED
  BY <1>7

(* DefaultAccepted.  Two dots after the date's slash are all that is wrong *)
(* with a path that BuildRequestRelPath makes up.                          *)
THEOREM MadeUpAccepted == Spec => []DefaultAccepted
<1>1. ASSUME typed \in Strings PROVE DefaultAccepted
  <2> DEFINE f == SanitizeFileName(typed) \o Json
             h == <<"d", "/">>
             p == h \o f
             Dotted == typed = <<".">> \/ IsPrefix(<<".", ".">>, typed)
  <2>1. /\ f \in Strings /\ Len(f) \in Nat /\ Len(f) >= 3
        /\ \A i \in 1 .. Len(f) : f[i] # "/" /\ f[i] # "\\"
        /\ f[1] = "." /\ f[2] = "." <=> Dotted
    BY <1>1, FileNameFacts
  <2>2. h \in Strings /\ Len(h) = 2 /\ h[1] = "d" /\ h[2] = "/"
    <3>1. "d" \in Letters /\ "/" \in Letters
      BY DEF Letters, Chars
    <3>2. h \in Seq(Letters)
      BY <3>1
    <3> QED
      BY <3>2 DEF Strings
  <2>3. BuildRequestRelPath(typed) = p
    <3>1. h \o (SanitizeFileName(typed) \o Json) = (h \o SanitizeFileName(typed)) \o Json
      <4> DEFINE z == SanitizeFileName(typed)
      <4>1. h \in Seq(Letters) /\ z \in Seq(Letters) /\ Json \in Seq(Letters)
        BY <1>1, <2>2, SanitizedFacts, JsonFacts DEF Strings
      <4> HIDE DEF h, z
      <4>2. (h \o z) \o Json = h \o (z \o Json)
        BY <4>1, ConcatAssociative
      <4> QED
        BY <4>2 DEF z
    <3> QED
      BY <3>1 DEF BuildRequestRelPath
  <2>4. DefaultAccepted <=>
          IF Dotted THEN NormalizeRelativePath(p) = <<>> ELSE NormalizeRelativePath(p) = p
    BY <2>3 DEF DefaultAccepted
  <2> HIDE DEF f, h, Dotted
  <2>5. /\ p \in Strings /\ Len(p) = 2 + Len(f)
        /\ p[1] = "d" /\ p[2] = "/" /\ \A i \in 1 .. Len(f) : p[2 + i] = f[i]
    <3>1. /\ p \in Strings /\ Len(p) = Len(h) + Len(f)
          /\ \A i \in 1 .. Len(h) : p[i] = h[i]
          /\ \A i \in 1 .. Len(f) : p[Len(h) + i] = f[i]
      BY <2>1, <2>2, ConcatFacts
    <3>2. 1 \in 1 .. 2 /\ 2 \in 1 .. 2
      OBVIOUS
    <3> QED
      BY <2>2, <3>1, <3>2
  <2> HIDE DEF p
  <2>6. p[3] = f[1] /\ p[4] = f[2] /\ 5 <= Len(p) /\ Len(p) \in Nat
    <3>1. 1 \in 1 .. Len(f) /\ 2 \in 1 .. Len(f) /\ 2 + 1 = 3 /\ 2 + 2 = 4
      BY <2>1
    <3>2. 5 <= 2 + Len(f) /\ 2 + Len(f) \in Nat
      BY <2>1
    <3> QED
      BY <2>5, <3>1, <3>2
  <2>7. \A i \in 1 .. Len(p) : p[i] # "\\" /\ (p[i] = "/" => i = 2)
    <3> SUFFICES ASSUME NEW i \in 1 .. Len(p) PROVE p[i] # "\\" /\ (p[i] = "/" => i = 2)
      OBVIOUS
    <3>1. i = 1 \/ i = 2 \/ (i - 2 \in 1 .. Len(f) /\ 2 + (i - 2) = i)
      BY <2>1, <2>5
    <3>2. CASE i - 2 \in 1 .. Len(f) /\ 2 + (i - 2) = i
      <4>1. p[2 + (i - 2)] = f[i - 2]
        BY <2>5, <3>2
      <4> QED
        BY <2>1, <3>2, <4>1
    <3> QED
      BY <2>5, <3>1, <3>2
  <2>8. NormalizeSlashes(p) = p
    BY <2>5, <2>7, SlashesStay
  <2>9. DropSlashes(DropDots(p)) = p
    <3>1. Len(p) >= 1
      BY <2>6
    <3> QED
      BY <2>5, <3>1, WholeKept
  <2>10. ~IsAbsolutePath(p) /\ p # <<>>
    <3>1. p # <<>>
      <4>1. Len(<<>>) = 0
        OBVIOUS
      <4> QED
        BY <2>6, <4>1
    <3> QED
      BY <2>5, <3>1 DEF IsAbsolutePath, Separator
  <2>11. ContainsParentTraversal(p) <=> f[1] = "." /\ f[2] = "."
    <3>1. p # <<".", ".">>
      <4>1. <<".", ".">>[1] = "."
        OBVIOUS
      <4> QED
        BY <2>5, <4>1
    <3>2. <<".", ".", "/">> \notin SubSeqs(p)
      <4> SUFFICES ASSUME <<".", ".", "/">> \in SubSeqs(p) PROVE FALSE
        OBVIOUS
      <4>1. PICK i \in 1 .. Len(p) : i + 2 <= Len(p) /\ p[i] = "." /\ p[i + 2] = "/"
        BY <2>5, ThreeInside
      <4>2. i + 2 \in 1 .. Len(p)
        BY <2>6, <4>1
      <4>3. i + 2 = 2
        BY <2>7, <4>1, <4>2
      <4> QED
        BY <4>1, <4>3
    <3>3. ASSUME <<"/", ".", ".">> \in SubSeqs(p) PROVE f[1] = "." /\ f[2] = "."
      <4>1. PICK i \in 1 .. Len(p) : /\ i + 2 <= Len(p)
                                     /\ p[i] = "/" /\ p[i + 1] = "." /\ p[i + 2] = "."
        BY <2>5, <3>3, ThreeInside
      <4>2. i = 2
        BY <2>7, <4>1
      <4>3. i + 1 = 3 /\ i + 2 = 4
        BY <4>2
      <4> QED
        BY <2>6, <4>1, <4>3
    <3>4. ASSUME f[1] = ".", f[2] = "." PROVE <<"/", ".", ".">> \in SubSeqs(p)
      <4>1. 2 \in 1 .. Len(p) /\ 2 + 2 <= Len(p) /\ 2 + 1 = 3 /\ 2 + 2 = 4
        BY <2>6
      <4>2. SubSeq(p, 2, 2 + 2) = <<p[2], p[2 + 1], p[2 + 2]>> /\ SubSeq(p, 2, 2 + 2) \in SubSeqs(p)
        BY <2>5, <4>1, ThreeLetters
      <4>3. <<p[2], p[3], p[4]>> \in SubSeqs(p)
        BY <4>1, <4>2
      <4> QED
        BY <2>5, <2>6, <3>4, <4>3
    <3> QED
      BY <3>1, <3>2, <3>3, <3>4 DEF ContainsParentTraversal
  <2>12. NormalizeRelativePath(p) = IF Dotted THEN <<>> ELSE p
    BY <2>1, <2>8, <2>9, <2>10, <2>11 DEF NormalizeRelativePath
  <2> QED
    BY <2>4, <2>12
<1> QED
  BY <1>1, TypedString, PTL

LEMMA ListFacts ==
  ASSUME NEW x, NEW y, NEW z
  PROVE  /\ <<x>> \o <<y>> = <<x, y>>
         /\ <<x>> \o <<y, z>> = <<x, y, z>>
         /\ Len(<<x, y, z>>) = 3
         /\ SubSeq(<<x, y, z>>, 1, 2) = <<x, y>>
<1> DEFINE S == {x, y, z}
           a == <<x>>
           b == <<y>>
           c == <<x, y>>
           d == <<y, z>>
           e == <<x, y, z>>
<1>1. x \in S /\ y \in S /\ z \in S
  OBVIOUS
<1> HIDE DEF S
<1>2. /\ a \in Seq(S) /\ Len(a) = 1 /\ a[1] = x
      /\ b \in Seq(S) /\ Len(b) = 1 /\ b[1] = y
      /\ c \in Seq(S) /\ Len(c) = 2 /\ c[1] = x /\ c[2] = y
      /\ d \in Seq(S) /\ Len(d) = 2 /\ d[1] = y /\ d[2] = z
      /\ e \in Seq(S) /\ Len(e) = 3 /\ e[1] = x /\ e[2] = y /\ e[3] = z
  BY <1>1
<1> HIDE DEF a, b, c, d, e
<1>3. a \o b = c
  <2>1. /\ a \o b \in Seq(S) /\ Len(a \o b) = 2
        /\ \A i \in 1 .. 2 : (a \o b)[i] = IF i <= 1 THEN a[i] ELSE b[i - 1]
    BY <1>2, ConcatProperties
  <2>2. (a \o b)[1] = x /\ (a \o b)[2] = y
    BY <1>2, <2>1
  <2>3. \A i \in 1 .. 2 : (a \o b)[i] = c[i]
    <3>1. \A i \in 1 .. 2 : i = 1 \/ i = 2
      OBVIOUS
    <3> QED
      BY <1>2, <2>2, <3>1
  <2> QED
    BY <1>2, <2>1, <2>3, SeqEqual
<1>4. a \o d = e
  <2>1. /\ a \o d \in Seq(S) /\ Len(a \o d) = 3
        /\ \A i \in 1 .. 3 : (a \o d)[i] = IF i <= 1 THEN a[i] ELSE d[i - 1]
    <3>1. /\ a \o d \in Seq(S) /\ Len(a \o d) = Len(a) + Len(d)
          /\ \A i \in 1 .. Len(a) + Len(d) :
               (a \o d)[i] = IF i <= Len(a) THEN a[i] ELSE d[i - Len(a)]
      BY <1>2, ConcatProperties
    <3>2. Len(a) = 1 /\ Len(a) + Len(d) = 3
      BY <1>2
    <3> QED
      BY <3>1, <3>2
  <2>2. (a \o d)[1] = x /\ (a \o d)[2] = y /\ (a \o d)[3] = z
    BY <1>2, <2>1
  <2>3. \A i \in 1 .. 3 : (a \o d)[i] = e[i]
    <3>1. \A i \in 1 .. 3 : i = 1 \/ i = 2 \/ i = 3
      OBVIOUS
    <3> QED
      BY <1>2, <2>2, <3>1
  <2> QED
    BY <1>2, <2>1, <2>3, SeqEqual
<1>5. SubSeq(e, 1, 2) = c
  <2>1. \A i \in 1 .. 2 : e[i] = c[i] /\ e[i] \in S
    <3>1. \A i \in 1 .. 2 : i = 1 \/ i = 2
      OBVIOUS
    <3> QED
      BY <1>1, <1>2, <3>1
  <2>2. /\ SubSeq(e, 1, 2) \in Seq(S) /\ Len(SubSeq(e, 1, 2)) = 2
        /\ \A i \in 1 .. 2 : SubSeq(e, 1, 2)[i] = e[1 + i - 1]
    <3>1. 1 \in Int /\ 2 \in Int /\ 2 - 1 + 1 = 2 /\ 1 <= 2
      OBVIOUS
    <3> QED
      BY <2>1, <3>1, SubSeqProperties
  <2>3. \A i \in 1 .. 2 : SubSeq(e, 1, 2)[i] = c[i]
    <3>1. \A i \in 1 .. 2 : 1 + i - 1 = i
      OBVIOUS
    <3> QED
      BY <2>1, <2>2, <3>1
  <2> QED
    BY <1>2, <2>2, <2>3, SeqEqual
<1> QED
  BY <1>2, <1>3, <1>4, <1>5 DEF a, b, c, d, e

(* StateFileInPlace.  SanitizeFileName leaves no separator in an id and    *)
(* the extension keeps it from being a dot: the file is one name.          *)
THEOREM StateFileStays == Spec => []StateFileInPlace
<1>1. ASSUME typed \in Strings PROVE StateFileInPlace
  <2> DEFINE f == SanitizeFileName(typed) \o Json
             q == <<"q">>
             s == <<"s">>
             t == JoinPath(s, f)
  <2>1. /\ f \in Strings /\ Len(f) \in Nat /\ Len(f) >= 3
        /\ \A i \in 1 .. Len(f) : f[i] # "/" /\ f[i] # "\\"
    BY <1>1, FileNameFacts
  <2>2. StateFilePath(typed) = JoinPath(q, t)
    BY DEF StateFilePath
  <2>3. /\ q \in Strings /\ Len(q) >= 1 /\ q # <<".">>
        /\ \A i \in 1 .. Len(q) : q[i] # "/" /\ q[i] # "\\"
    <3>1. "q" \in Letters
      BY DEF Letters
    <3>2. q \in Seq(Letters) /\ Len(q) = 1 /\ q[1] = "q" /\ \A i \in 1 .. 1 : i = 1
      BY <3>1
    <3>3. <<".">>[1] = "."
      OBVIOUS
    <3> HIDE DEF q
    <3> QED
      BY <3>2, <3>3 DEF Strings
  <2>4. /\ s \in Strings /\ Len(s) >= 1 /\ s # <<".">>
        /\ \A i \in 1 .. Len(s) : s[i] # "/" /\ s[i] # "\\"
    <3>1. "s" \in Letters
      BY DEF Letters
    <3>2. s \in Seq(Letters) /\ Len(s) = 1 /\ s[1] = "s" /\ \A i \in 1 .. 1 : i = 1
      BY <3>1
    <3>3. <<".">>[1] = "."
      OBVIOUS
    <3> HIDE DEF s
    <3> QED
      BY <3>2, <3>3 DEF Strings
  <2>5. /\ Names(q) = <<q>> /\ DOMAIN q = 1 .. Len(q)
        /\ Names(s) = <<s>> /\ DOMAIN s = 1 .. Len(s)
    <3> HIDE DEF q, s
    <3> QED
      BY <2>3, <2>4, SingleName, StringFacts
  <2>6. Names(f) = <<f>> /\ f # <<>>
    <3> HIDE DEF f
    <3>1. Len(<<".">>) = 1 /\ Len(<<>>) = 0
      OBVIOUS
    <3>2. f # <<".">> /\ f # <<>> /\ Len(f) >= 1
      BY <2>1, <3>1
    <3> QED
      BY <2>1, <3>2, SingleName
  <2>7. /\ t \in Strings /\ \A i \in 1 .. Len(t) : t[i] # "\\"
        /\ Names(t) = <<s>> \o <<f>>
    <3> HIDE DEF s, f
    <3> QED
      BY <2>1, <2>4, <2>5, <2>6, JoinFacts
  <2>8. Names(t) = <<s, f>>
    <3> HIDE DEF s, f, t
    <3>1. <<s>> \o <<f>> = <<s, f>>
      BY ListFacts
    <3> QED
      BY <2>7, <3>1
  <2>9. t # <<>>
    <3> SUFFICES ASSUME t = <<>> PROVE FALSE
      OBVIOUS
    <3>1. t # <<>>
      <4> HIDE DEF s, f
      <4>1. s # <<>>
        <5>1. Len(<<>>) = 0
          OBVIOUS
        <5> QED
          BY <2>4, <5>1
      <4>2. s \o f # <<>> /\ s \o <<"/">> \o f # <<>>
        BY <4>1, <2>1, <2>4, ConcatProperties, ConcatEmptySeq DEF Strings
      <4> QED
        BY <2>6, <4>1, <4>2 DEF JoinPath
    <3> QED
      BY <3>1
  <2>10. Names(JoinPath(q, t)) = <<q>> \o <<s, f>>
    <3> HIDE DEF q, s, f, t
    <3> QED
      BY <2>3, <2>5, <2>7, <2>8, <2>9, JoinFacts
  <2>11. Names(StateFilePath(typed)) = <<q, s, f>>
    <3> HIDE DEF q, s, f, t
    <3>1. <<q>> \o <<s, f>> = <<q, s, f>>
      BY ListFacts
    <3> QED
      BY <2>2, <2>10, <3>1
  <2>12. Len(<<q, s, f>>) = 3 /\ SubSeq(<<q, s, f>>, 1, 2) = <<q, s>>
    <3> HIDE DEF q, s, f, t
    <3> QED
      BY ListFacts
  <2> QED
    BY <2>11, <2>12 DEF StateFileInPlace
<1> QED
  BY <1>1, TypedString, PTL

=============================================================================
