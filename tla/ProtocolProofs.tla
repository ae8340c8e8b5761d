--------------------------- MODULE ProtocolProofs ---------------------------
(***************************************************************************)
(* src/service_protocol.cpp: the JSON of the messages, for values of every *)
(* length, and Base64.                                                     *)
(*                                                                         *)
(* A message is laid out (LaidOut): each field has its places in the text. *)
(* A key in quotes stands only at a field of that key or at the end of a   *)
(* value that names it (KeyStands), so that it is known which value is     *)
(* found (ValueStart), what is read there (ToldIsRead) and what is         *)
(* replaced (ValueReplaced).                                               *)
(*                                                                         *)
(* Base64Decode gives the bytes its text stands for, for every width of    *)
(* int that holds twelve bits: what the accumulator keeps of the last two  *)
(* digits is enough for the next byte.                                     *)
(***************************************************************************)
EXTENDS JsonFields, Base64, SequenceTheorems, WellFoundedInduction, TLAPS

-----------------------------------------------------------------------------
(* Texts that are put together.                                            *)

LEMMA LeastNumber ==
  ASSUME NEW T \in SUBSET Nat, T # {}
  PROVE  \E m \in T : \A x \in T : m <= x
<1>1. PICK m \in T : \A x \in T : ~(<<x, m>> \in OpToRel(<, Nat))
  BY NatLessThanWellFounded, WFMin
<1>2. ASSUME NEW x \in T PROVE m <= x
  <2>1. x \in Nat /\ m \in Nat
    OBVIOUS
  <2>2. ~(x < m)
    BY <1>1, <2>1 DEF OpToRel
  <2> QED
    BY <2>1, <2>2
<1> QED
  BY <1>2

(* What Joined has put together after each of the texts.                   *)
Sums(t) == CHOOSE u : u = [n \in 0 .. Len(t) |-> IF n = 0 THEN <<>> ELSE u[n - 1] \o t[n]]

LEMMA SumsExist ==
  ASSUME NEW t, NEW len \in Nat
  PROVE  \E u : u = [n \in 0 .. len |-> IF n = 0 THEN <<>> ELSE u[n - 1] \o t[n]]
<1> DEFINE Good(m) == \E u : u = [n \in 0 .. m |-> IF n = 0 THEN <<>> ELSE u[n - 1] \o t[n]]
           Bad == {m \in Nat : ~Good(m)}
<1>1. Good(0)
  <2> DEFINE u == [n \in 0 .. 0 |-> <<>>]
  <2>1. u = [n \in 0 .. 0 |-> IF n = 0 THEN <<>> ELSE u[n - 1] \o t[n]]
    OBVIOUS
  <2> QED
    BY <2>1
<1>2. ASSUME NEW m \in Nat, Good(m) PROVE Good(m + 1)
  <2>1. PICK u : u = [n \in 0 .. m |-> IF n = 0 THEN <<>> ELSE u[n - 1] \o t[n]]
    BY <1>2
  <2> DEFINE w == [n \in 0 .. m + 1 |-> IF n = m + 1 THEN u[m] \o t[m + 1] ELSE u[n]]
  <2>2. ASSUME NEW n \in 0 .. m + 1
        PROVE  w[n] = IF n = 0 THEN <<>> ELSE w[n - 1] \o t[n]
    <3>1. CASE n = m + 1
      <4>1. n # 0 /\ n - 1 = m /\ m \in 0 .. m + 1 /\ m # m + 1
        BY <3>1
      <4>2. w[m] = u[m]
        BY <4>1
      <4>3. w[n] = u[m] \o t[m + 1]
        BY <3>1
      <4> QED
        BY <3>1, <4>1, <4>2, <4>3
    <3>2. CASE n # m + 1
      <4>1. n \in 0 .. m /\ w[n] = u[n]
        BY <3>2
      <4>2. n # 0 => n - 1 \in 0 .. m + 1 /\ n - 1 # m + 1
        BY <4>1
      <4>3. n # 0 => w[n - 1] = u[n - 1]
        BY <4>2
      <4>4. u[n] = IF n = 0 THEN <<>> ELSE u[n - 1] \o t[n]
        BY <2>1, <4>1
      <4> QED
        BY <4>1, <4>3, <4>4
    <3> QED
      BY <3>1, <3>2
  <2>3. w = [n \in 0 .. m + 1 |-> w[n]]
    OBVIOUS
  <2> HIDE DEF w
  <2>4. w = [n \in 0 .. m + 1 |-> IF n = 0 THEN <<>> ELSE w[n - 1] \o t[n]]
    BY <2>2, <2>3
  <2> QED
    BY <2>4
<1> HIDE DEF Good
<1>3. Bad = {}
  <2> SUFFICES ASSUME Bad # {} PROVE FALSE
    OBVIOUS
  <2>1. PICK m \in Bad : \A x \in Bad : m <= x
    BY LeastNumber
  <2>2. m \in Nat /\ ~Good(m) /\ m # 0
    BY <1>1
  <2>3. m - 1 \in Nat /\ m - 1 + 1 = m /\ ~(m <= m - 1)
    BY <2>2
  <2>4. Good(m - 1)
    BY <2>1, <2>3
  <2> QED
    BY <1>2, <2>2, <2>3, <2>4
<1>4. Good(len)
  BY <1>3
<1> QED
  BY <1>4 DEF Good

LEMMA JoinedFacts ==
  ASSUME NEW S, NEW t \in Seq(Seq(S))
  PROVE  /\ Len(t) \in Nat
         /\ Sums(t)[0] = <<>>
         /\ \A i \in 1 .. Len(t) : Sums(t)[i] = Sums(t)[i - 1] \o t[i]
         /\ \A i \in 0 .. Len(t) : Sums(t)[i] \in Seq(S)
         /\ Joined(t) = Sums(t)[Len(t)]
<1> DEFINE u == Sums(t)
<1>0. Len(t) \in Nat /\ \A i \in 1 .. Len(t) : t[i] \in Seq(S)
  BY LenProperties, ElementOfSeq
<1>1. u = [n \in 0 .. Len(t) |-> IF n = 0 THEN <<>> ELSE u[n - 1] \o t[n]]
  BY <1>0, SumsExist DEF Sums
<1>2. Joined(t) = u[Len(t)]
  BY DEF Joined, Sums
<1> HIDE DEF u
<1>3. u[0] = <<>>
  BY <1>0, <1>1
<1>4. ASSUME NEW i \in 1 .. Len(t) PROVE u[i] = u[i - 1] \o t[i]
  <2>1. i \in 0 .. Len(t) /\ i # 0
    BY <1>0
  <2> QED
    BY <1>1, <2>1
<1> DEFINE Bad == {i \in 0 .. Len(t) : u[i] \notin Seq(S)}
<1>5. Bad = {}
  <2> SUFFICES ASSUME Bad # {} PROVE FALSE
    OBVIOUS
  <2>0. Bad \in SUBSET Nat
    BY <1>0
  <2>1. PICK m \in Bad : \A x \in Bad : m <= x
    BY <2>0, LeastNumber
  <2>2. m \in 0 .. Len(t) /\ u[m] \notin Seq(S)
    OBVIOUS
  <2>3. m # 0
    BY <1>3, <2>2, EmptySeq
  <2>4. m \in 1 .. Len(t) /\ m - 1 \in 0 .. Len(t) /\ ~(m <= m - 1)
    BY <1>0, <2>2, <2>3
  <2>5. u[m - 1] \in Seq(S)
    BY <2>1, <2>4
  <2>6. u[m - 1] \o t[m] \in Seq(S)
    BY <1>0, <2>4, <2>5, ConcatProperties
  <2> QED
    BY <1>4, <2>2, <2>4, <2>6
<1>6. \A i \in 0 .. Len(t) : u[i] \in Seq(S)
  BY <1>5
<1> QED
  BY <1>0, <1>2, <1>3, <1>4, <1>6 DEF u

(* Where the characters of each text are in the whole: the i-th ends at    *)
(* o[i].                                                                   *)
Places(S, t, o, w) ==
  /\ w \in Seq(S) /\ Len(w) = o[Len(t)] /\ o[0] = 0
  /\ \A i \in 0 .. Len(t) : o[i] \in Nat
  /\ \A i \in 1 .. Len(t) : Len(t[i]) \in Nat /\ o[i] = o[i - 1] + Len(t[i])
  /\ \A i \in 1 .. Len(t) : \A x \in 1 .. Len(t[i]) : w[o[i - 1] + x] = t[i][x]
  /\ \A x \in 1 .. Len(w) : \E i \in 1 .. Len(t) : o[i - 1] < x /\ x <= o[i]
  /\ \A i \in 0 .. Len(t) : \A j \in i .. Len(t) : o[i] <= o[j]

Ends(t) == [i \in 0 .. Len(t) |-> Len(Sums(t)[i])]

LEMMA JoinedPlaces ==
  ASSUME NEW S, NEW t \in Seq(Seq(S))
  PROVE  Places(S, t, Ends(t), Joined(t))
<1> DEFINE u == Sums(t)
           w == Joined(t)
           o == Ends(t)
<1> DEFINE n == Len(t)
<1>0. /\ n \in Nat /\ u[0] = <<>>
      /\ \A i \in 1 .. n : u[i] = u[i - 1] \o t[i]
      /\ \A i \in 0 .. n : u[i] \in Seq(S)
      /\ w = u[n]
  BY JoinedFacts
<1>t. \A i \in 1 .. n : t[i] \in Seq(S) /\ Len(t[i]) \in Nat
  BY ElementOfSeq, LenProperties
<1>l. \A i \in 0 .. n : Len(u[i]) \in Nat
  BY <1>0, LenProperties
<1>o. \A i \in 0 .. n : o[i] = Len(u[i])
  BY DEF Ends
<1> HIDE DEF n, u, w, o
<1>1. ASSUME NEW i \in 1 .. n
      PROVE  /\ i - 1 \in 0 .. n /\ i \in 0 .. n
             /\ Len(u[i]) = Len(u[i - 1]) + Len(t[i])
             /\ \A x \in 1 .. Len(u[i - 1]) : u[i][x] = u[i - 1][x]
             /\ \A x \in 1 .. Len(t[i]) : u[i][Len(u[i - 1]) + x] = t[i][x]
  <2>1. i - 1 \in 0 .. n /\ i \in 0 .. n
    BY <1>0
  <2> DEFINE a == u[i - 1]
             b == t[i]
  <2>2. a \in Seq(S) /\ b \in Seq(S) /\ u[i] = a \o b /\ Len(a) \in Nat /\ Len(b) \in Nat
    BY <1>0, <1>t, <1>l, <2>1
  <2> HIDE DEF a, b
  <2>3. /\ Len(a \o b) = Len(a) + Len(b)
        /\ \A x \in 1 .. Len(a) + Len(b) : (a \o b)[x] = IF x <= Len(a) THEN a[x] ELSE b[x - Len(a)]
    BY <2>2, ConcatProperties
  <2>4. \A x \in 1 .. Len(a) : x \in 1 .. Len(a) + Len(b) /\ x <= Len(a)
    BY <2>2
  <2>5. \A x \in 1 .. Len(b) : /\ Len(a) + x \in 1 .. Len(a) + Len(b) /\ ~(Len(a) + x <= Len(a))
                               /\ Len(a) + x - Len(a) = x
    BY <2>2
  <2>6. (\A x \in 1 .. Len(a) : (a \o b)[x] = a[x]) /\ \A x \in 1 .. Len(b) : (a \o b)[Len(a) + x] = b[x]
    BY <2>3, <2>4, <2>5
  <2> QED
    BY <2>1, <2>2, <2>3, <2>6 DEF a, b
(* What is there stays there.                                              *)
<1>2. ASSUME NEW i \in 0 .. n, NEW j \in i .. n
      PROVE  Len(u[i]) <= Len(u[j]) /\ \A x \in 1 .. Len(u[i]) : u[j][x] = u[i][x]
  <2> DEFINE Stays(k) == Len(u[i]) <= Len(u[k]) /\ \A x \in 1 .. Len(u[i]) : u[k][x] = u[i][x]
             Bad == {k \in i .. n : ~Stays(k)}
  <2>1. Stays(i)
    BY <1>l
  <2>2. ASSUME NEW k \in i .. n, k # i, Stays(k - 1) PROVE Stays(k)
    <3>1. k \in 1 .. n /\ k - 1 \in 0 .. n
      BY <1>0, <2>2
    <3>2. Len(u[k - 1]) <= Len(u[k]) /\ \A x \in 1 .. Len(u[k - 1]) : u[k][x] = u[k - 1][x]
      <4>1. Len(u[k]) = Len(u[k - 1]) + Len(t[k]) /\ Len(t[k]) \in Nat /\ Len(u[k - 1]) \in Nat
        BY <1>1, <1>t, <1>l, <3>1
      <4>2. Len(u[k - 1]) <= Len(u[k])
        <5>1. \A a, b \in Nat : a <= a + b
          OBVIOUS
        <5> QED
          BY <4>1, <5>1
      <4> QED
        BY <1>1, <3>1, <4>2
    <3>3. Len(u[i]) \in Nat /\ Len(u[k - 1]) \in Nat /\ Len(u[k]) \in Nat
      BY <1>1, <1>l, <3>1
    <3>4. Len(u[i]) <= Len(u[k]) /\ \A x \in 1 .. Len(u[i]) : x \in 1 .. Len(u[k - 1])
      BY <2>2, <3>2, <3>3
    <3> QED
      BY <2>2, <3>2, <3>4
  <2> HIDE DEF Stays
  <2>3. Bad = {}
    <3> SUFFICES ASSUME Bad # {} PROVE FALSE
      OBVIOUS
    <3>0. Bad \in SUBSET Nat
      BY <1>0
    <3>1. PICK m \in Bad : \A x \in Bad : m <= x
      BY <3>0, LeastNumber
    <3>2. m \in i .. n /\ ~Stays(m) /\ m # i
      BY <2>1
    <3>3. m - 1 \in i .. n /\ ~(m <= m - 1)
      BY <1>0, <3>2
    <3>4. Stays(m - 1)
      BY <3>1, <3>3
    <3> QED
      BY <2>2, <3>2, <3>4
  <2>4. Stays(j)
    BY <2>3
  <2> QED
    BY <2>4 DEF Stays
<1>3. ASSUME NEW i \in 1 .. n, NEW x \in 1 .. Len(t[i]) PROVE w[Len(u[i - 1]) + x] = t[i][x]
  <2>1. i \in 0 .. n /\ n \in i .. n
    BY <1>0
  <2>3. u[i][Len(u[i - 1]) + x] = t[i][x]
    BY <1>1
  <2>2. Len(u[i - 1]) + x \in 1 .. Len(u[i])
    <3> DEFINE a == Len(u[i - 1])
               b == Len(t[i])
    <3>1. Len(u[i]) = a + b /\ b \in Nat /\ a \in Nat /\ x \in 1 .. b
      BY <1>1, <1>t, <1>l
    <3> HIDE DEF a, b
    <3>2. a + x \in 1 .. a + b
      BY <3>1
    <3> QED
      BY <3>1, <3>2 DEF a
  <2> QED
    BY <1>0, <1>2, <2>1, <2>2, <2>3
<1>4. ASSUME NEW x \in 1 .. Len(w) PROVE \E i \in 1 .. n : Len(u[i - 1]) < x /\ x <= Len(u[i])
  <2> DEFINE Over == {i \in 0 .. n : x <= Len(u[i])}
  <2>0. x \in Nat /\ x >= 1 /\ x <= Len(u[n])
    BY <1>0, <1>l
  <2>1. Over \in SUBSET Nat /\ n \in Over
    BY <1>0, <2>0
  <2>2. PICK i \in Over : \A k \in Over : i <= k
    BY <2>1, LeastNumber
  <2>3. i \in 0 .. n /\ x <= Len(u[i])
    OBVIOUS
  <2>4. i # 0
    <3>1. Len(u[0]) = 0
      BY <1>0
    <3> QED
      BY <2>0, <2>3, <3>1
  <2>5. i \in 1 .. n /\ i - 1 \in 0 .. n /\ ~(i <= i - 1)
    BY <1>0, <2>3, <2>4
  <2>6. ~(x <= Len(u[i - 1])) /\ Len(u[i - 1]) \in Nat
    BY <1>l, <2>2, <2>5
  <2>7. Len(u[i - 1]) < x
    BY <2>0, <2>6
  <2> QED
    BY <2>3, <2>5, <2>7
<1>5. w \in Seq(S) /\ Len(w) = Len(u[n]) /\ Len(u[0]) = 0
  BY <1>0
<1>6. \A i \in 1 .. n : i \in 0 .. n /\ i - 1 \in 0 .. n
  BY <1>1
<1>7. 0 \in 0 .. n /\ n \in 0 .. n
  BY <1>0
<1>8. /\ w \in Seq(S) /\ Len(w) = o[n] /\ o[0] = 0
      /\ \A i \in 0 .. n : o[i] \in Nat
  BY <1>5, <1>7, <1>o, <1>l
<1>9. \A i \in 1 .. n : Len(t[i]) \in Nat /\ o[i] = o[i - 1] + Len(t[i])
  BY <1>1, <1>6, <1>o, <1>t
<1>10. \A i \in 1 .. n : \A x \in 1 .. Len(t[i]) : w[o[i - 1] + x] = t[i][x]
  BY <1>3, <1>6, <1>o
<1>11. \A x \in 1 .. Len(w) : \E i \in 1 .. n : o[i - 1] < x /\ x <= o[i]
  BY <1>4, <1>6, <1>o
<1>12. \A i \in 0 .. n : \A j \in i .. n : o[i] <= o[j]
  <2>1. ASSUME NEW i \in 0 .. n, NEW j \in i .. n PROVE o[i] <= o[j]
    <3>1. j \in 0 .. n
      BY <1>0
    <3> QED
      BY <1>2, <1>o, <3>1
  <2> QED
    BY <2>1
<1>13. Places(S, t, o, w)
  BY <1>8, <1>9, <1>10, <1>11, <1>12 DEF Places, n
<1> QED
  BY <1>13 DEF w, o

-----------------------------------------------------------------------------
(* What escaping makes of a text.                                          *)

(* The characters of messages.                                             *)
Comma == ","
Colon == ":"
Open  == "{"
Shut  == "}"

Symbols == TextChars \cup Texts \cup Numbers
             \cup {Quote, Back, Feed, Space, "n", Colon, Comma, Open, Shut, "U", "N", "0", "1", "2"}

Escaping(c) == c \in {Quote, Back, Feed}

Piece(c) == IF c \in {Quote, Back} THEN <<Back, c>> ELSE IF c = Feed THEN <<Back, "n">> ELSE <<c>>

(* E is v escaped, the i-th character of v at o[i], after a backslash if it*)
(* needs one.                                                              *)
Escaped(v, E, o) ==
  /\ E \in Seq(Symbols) /\ Len(E) = o[Len(v)] /\ o[0] = 0
  /\ \A i \in 0 .. Len(v) : o[i] \in Nat
  /\ \A i \in 1 .. Len(v) :
       /\ ~Escaping(v[i]) => o[i] = o[i - 1] + 1 /\ E[o[i - 1] + 1] = v[i]
       /\ Escaping(v[i]) => /\ o[i] = o[i - 1] + 2
                            /\ E[o[i - 1] + 1] = Back
                            /\ E[o[i - 1] + 2] = IF v[i] = Feed THEN "n" ELSE v[i]
  /\ \A x \in 1 .. Len(E) : \E i \in 1 .. Len(v) : o[i - 1] < x /\ x <= o[i]

LEMMA Signs ==
  /\ Quote # Back /\ Quote # Feed /\ Back # Feed /\ Quote # "n" /\ Back # "n"
  /\ Quote # Colon /\ Quote # Comma /\ Quote # Shut /\ Quote # Open /\ Quote # Space
  /\ Colon # Comma /\ Colon # Shut /\ Comma # Shut /\ Colon # Space /\ "2" # Space /\ "2" # Quote
  /\ {Quote, Back, Feed, Space, "n", Colon, Comma, Open, Shut, "2"} \subseteq Symbols
BY DEF Quote, Back, Feed, Space, Comma, Colon, Open, Shut, Symbols

LEMMA PieceFacts ==
  ASSUME NEW c \in Symbols
  PROVE  /\ Piece(c) \in Seq(Symbols)
         /\ ~Escaping(c) => Len(Piece(c)) = 1 /\ Piece(c)[1] = c
         /\ Escaping(c) => /\ Len(Piece(c)) = 2 /\ Piece(c)[1] = Back
                           /\ Piece(c)[2] = IF c = Feed THEN "n" ELSE c
<1>0. Back \in Symbols /\ "n" \in Symbols
  BY Signs
<1>1. CASE c \in {Quote, Back}
  <2>1. Piece(c) = <<Back, c>>
    BY <1>1 DEF Piece
  <2>2. <<Back, c>> \in Seq(Symbols) /\ Len(<<Back, c>>) = 2 /\ <<Back, c>>[1] = Back /\ <<Back, c>>[2] = c
    BY <1>0
  <2>3. Escaping(c) /\ c # Feed
    BY <1>1, Signs DEF Escaping
  <2> QED
    BY <2>1, <2>2, <2>3
<1>2. CASE c = Feed
  <2>1. Piece(c) = <<Back, "n">>
    BY <1>2, Signs DEF Piece
  <2>2. <<Back, "n">> \in Seq(Symbols) /\ Len(<<Back, "n">>) = 2 /\ <<Back, "n">>[1] = Back /\ <<Back, "n">>[2] = "n"
    BY <1>0
  <2>3. Escaping(c)
    BY <1>2 DEF Escaping
  <2> QED
    BY <1>2, <2>1, <2>2, <2>3
<1>3. CASE c \notin {Quote, Back, Feed}
  <2>1. Piece(c) = <<c>>
    BY <1>3 DEF Piece
  <2>2. <<c>> \in Seq(Symbols) /\ Len(<<c>>) = 1 /\ <<c>>[1] = c
    OBVIOUS
  <2>3. ~Escaping(c)
    BY <1>3 DEF Escaping
  <2> QED
    BY <2>1, <2>2, <2>3
<1> QED
  BY <1>1, <1>2, <1>3

LEMMA EscapedExists ==
  ASSUME NEW v \in Seq(Symbols)
  PROVE  \E o : Escaped(v, EscapeJsonString(v), o)
<1>0. Len(v) \in Nat /\ DOMAIN v = 1 .. Len(v) /\ \A i \in 1 .. Len(v) : v[i] \in Symbols
  BY LenProperties, ElementOfSeq
<1> DEFINE n == Len(v)
           t == [i \in 1 .. n |-> Piece(v[i])]
           E == Joined(t)
<1>1. EscapeJsonString(v) = E
  BY <1>0 DEF EscapeJsonString, Piece
<1>2. t \in Seq(Seq(Symbols)) /\ Len(t) = n /\ \A i \in 1 .. n : t[i] = Piece(v[i])
  <2>1. t \in [1 .. n -> Seq(Symbols)]
    BY <1>0, PieceFacts
  <2>2. \A i \in 1 .. n : t[i] = Piece(v[i])
    OBVIOUS
  <2> HIDE DEF t
  <2>3. t \in Seq(Seq(Symbols))
    BY <1>0, <2>1, SeqDef
  <2>4. DOMAIN t = 1 .. n /\ DOMAIN t = 1 .. Len(t) /\ Len(t) \in Nat
    BY <2>1, <2>3, LenProperties
  <2>5. Len(t) = n
    BY <1>0, <2>4
  <2> QED
    BY <2>2, <2>3, <2>5
<1> HIDE DEF t
<1> DEFINE o == Ends(t)
<1>4. Places(Symbols, t, o, E)
  BY <1>2, JoinedPlaces
<1> HIDE DEF n, E, o
<1>3. /\ E \in Seq(Symbols) /\ Len(E) = o[n] /\ o[0] = 0
      /\ \A i \in 0 .. n : o[i] \in Nat
      /\ \A i \in 1 .. n : o[i] = o[i - 1] + Len(t[i])
      /\ \A i \in 1 .. n : \A x \in 1 .. Len(t[i]) : E[o[i - 1] + x] = t[i][x]
      /\ \A x \in 1 .. Len(E) : \E i \in 1 .. n : o[i - 1] < x /\ x <= o[i]
  <2>1. Len(t) = n
    BY <1>2
  <2> QED
    BY <1>4, <2>1, Zenon DEF Places
<1>6. ASSUME NEW i \in 1 .. n
      PROVE  /\ ~Escaping(v[i]) => o[i] = o[i - 1] + 1 /\ E[o[i - 1] + 1] = v[i]
             /\ Escaping(v[i]) => /\ o[i] = o[i - 1] + 2
                                  /\ E[o[i - 1] + 1] = Back
                                  /\ E[o[i - 1] + 2] = IF v[i] = Feed THEN "n" ELSE v[i]
  <2>1. v[i] \in Symbols
    BY <1>0 DEF n
  <2>2. o[i] = o[i - 1] + Len(t[i]) /\ \A x \in 1 .. Len(t[i]) : E[o[i - 1] + x] = t[i][x]
    BY <1>3
  <2>3. t[i] = Piece(v[i])
    BY <1>2
  <2>4. CASE ~Escaping(v[i])
    <3>1. Len(t[i]) = 1 /\ t[i][1] = v[i] /\ 1 \in 1 .. 1
      BY <2>1, <2>3, <2>4, PieceFacts
    <3> QED
      BY <2>2, <2>4, <3>1
  <2>5. CASE Escaping(v[i])
    <3>1. /\ Len(t[i]) = 2 /\ t[i][1] = Back /\ t[i][2] = IF v[i] = Feed THEN "n" ELSE v[i]
          /\ 1 \in 1 .. 2 /\ 2 \in 1 .. 2
      BY <2>1, <2>3, <2>5, PieceFacts
    <3> QED
      BY <2>2, <2>5, <3>1
  <2> QED
    BY <2>4, <2>5
<1>10. Escaped(v, E, o)
  BY <1>3, <1>6 DEF Escaped, n
<1> QED
  BY <1>1, <1>10 DEF E

-----------------------------------------------------------------------------
(* What a string between quotes says.                                      *)

LEMMA CountingUp ==
  ASSUME NEW S \in SUBSET Nat, 0 \in S, \A m \in S : m + 1 \in S
  PROVE  \A m \in Nat : m \in S
<1> SUFFICES ASSUME NEW z \in Nat, z \notin S PROVE FALSE
  OBVIOUS
<1> DEFINE Bad == Nat \ S
<1>1. Bad \in SUBSET Nat /\ Bad # {}
  OBVIOUS
<1>2. PICK m \in Bad : \A x \in Bad : m <= x
  BY <1>1, LeastNumber
<1>3. m \in Nat /\ m \notin S /\ m # 0
  OBVIOUS
<1>4. m - 1 \in Nat /\ m - 1 + 1 = m /\ ~(m <= m - 1)
  BY <1>3
<1> QED
  BY <1>2, <1>3, <1>4

(* A function that is defined by what it is one and two places on.         *)
Ahead(C, d, hi, step, lo, h) ==
  /\ h \in [lo .. hi + 2 -> C] /\ h[hi + 1] = d /\ h[hi + 2] = d
  /\ \A i \in lo .. hi : h[i] = step[<<i, h[i + 1], h[i + 2]>>]

LEMMA LookAhead ==
  ASSUME NEW C, NEW d \in C, NEW hi \in Nat, NEW step \in [Int \X C \X C -> C],
         NEW lo \in 1 .. hi + 1
  PROVE  \E h : Ahead(C, d, hi, step, lo, h)
<1> DEFINE Good(m) == \E h \in [hi + 1 - m .. hi + 2 -> C] :
                        /\ h[hi + 1] = d /\ h[hi + 2] = d
                        /\ \A i \in hi + 1 - m .. hi : h[i] = step[<<i, h[i + 1], h[i + 2]>>]
           S == {m \in Nat : Good(m)}
<1>1. Good(0)
  <2> DEFINE h == [i \in hi + 1 - 0 .. hi + 2 |-> d]
  <2>1. h \in [hi + 1 - 0 .. hi + 2 -> C] /\ h[hi + 1] = d /\ h[hi + 2] = d
    OBVIOUS
  <2>2. hi + 1 - 0 .. hi = {}
    OBVIOUS
  <2> QED
    BY <2>1, <2>2
<1>2. ASSUME NEW m \in Nat, Good(m) PROVE Good(m + 1)
  <2>1. PICK h \in [hi + 1 - m .. hi + 2 -> C] :
          /\ h[hi + 1] = d /\ h[hi + 2] = d
          /\ \A i \in hi + 1 - m .. hi : h[i] = step[<<i, h[i + 1], h[i + 2]>>]
    BY <1>2
  <2> DEFINE j == hi - m
             c == step[<<j, h[j + 1], h[j + 2]>>]
             w == [i \in hi + 1 - (m + 1) .. hi + 2 |-> IF i = j THEN c ELSE h[i]]
  <2>2. /\ j \in Int /\ j + 1 \in hi + 1 - m .. hi + 2 /\ j + 2 \in hi + 1 - m .. hi + 2
        /\ j \in hi + 1 - (m + 1) .. hi + 2
    OBVIOUS
  <2>3. c \in C
    BY <2>2
  <2>4. \A i \in hi + 1 - (m + 1) .. hi + 2 : i # j => i \in hi + 1 - m .. hi + 2
    OBVIOUS
  <2>5. w \in [hi + 1 - (m + 1) .. hi + 2 -> C]
    BY <2>3, <2>4
  <2>6. ASSUME NEW i \in hi + 1 - m .. hi + 2 PROVE w[i] = h[i]
    <3>1. i \in hi + 1 - (m + 1) .. hi + 2 /\ i # j
      OBVIOUS
    <3> QED
      BY <3>1
  <2>7. w[j] = c
    BY <2>2
  <2> HIDE DEF w
  <2>8. ASSUME NEW i \in hi + 1 - (m + 1) .. hi PROVE w[i] = step[<<i, w[i + 1], w[i + 2]>>]
    <3>1. CASE i = j
      <4>1. w[i + 1] = h[j + 1] /\ w[i + 2] = h[j + 2]
        BY <2>2, <2>6, <3>1
      <4> QED
        BY <2>7, <3>1, <4>1
    <3>2. CASE i # j
      <4>1. i \in hi + 1 - m .. hi /\ i \in hi + 1 - m .. hi + 2
            /\ i + 1 \in hi + 1 - m .. hi + 2 /\ i + 2 \in hi + 1 - m .. hi + 2
        BY <3>2
      <4> QED
        BY <2>1, <2>6, <4>1
    <3> QED
      BY <3>1, <3>2
  <2>9. w[hi + 1] = d /\ w[hi + 2] = d
    <3>1. hi + 1 \in hi + 1 - m .. hi + 2 /\ hi + 2 \in hi + 1 - m .. hi + 2
      OBVIOUS
    <3> QED
      BY <2>1, <2>6, <3>1
  <2> QED
    BY <2>5, <2>8, <2>9
<1> HIDE DEF Good
<1>3. \A m \in Nat : m \in S
  <2>1. S \in SUBSET Nat /\ 0 \in S /\ \A m \in S : m + 1 \in S
    BY <1>1, <1>2
  <2> HIDE DEF S
  <2> QED
    BY <2>1, CountingUp
<1>4. hi + 1 - lo \in Nat /\ hi + 1 - (hi + 1 - lo) = lo
  OBVIOUS
<1>5. Good(hi + 1 - lo)
  BY <1>3, <1>4
<1> QED
  BY <1>4, <1>5 DEF Good, Ahead

RestOf(text, at) ==
  CHOOSE rest : rest =
    [i \in at + 1 .. Len(text) + 2 |->
       IF i > Len(text) \/ text[i] = Quote THEN <<>>
       ELSE IF text[i] # Back THEN <<text[i]>> \o rest[i + 1]
       ELSE IF i = Len(text) THEN <<>>
       ELSE <<IF text[i + 1] = "n" THEN Feed ELSE text[i + 1]>> \o rest[i + 2]]

EndOf(text, at) ==
  CHOOSE end : end =
    [i \in at + 1 .. Len(text) + 2 |->
       IF i > Len(text) THEN 0
       ELSE IF text[i] = Back THEN end[i + 2]
       ELSE IF text[i] = Quote THEN i ELSE end[i + 1]]

LEMMA RestFacts ==
  ASSUME NEW T \in Seq(Symbols), NEW at \in 1 .. Len(T), NEW r, r = RestOf(T, at)
  PROVE  \A i \in at + 1 .. Len(T) :
           r[i] = IF T[i] = Quote THEN <<>>
                  ELSE IF T[i] # Back THEN <<T[i]>> \o r[i + 1]
                  ELSE IF i = Len(T) THEN <<>>
                  ELSE <<IF T[i + 1] = "n" THEN Feed ELSE T[i + 1]>> \o r[i + 2]
<1>0. Len(T) \in Nat /\ \A i \in 1 .. Len(T) : T[i] \in Symbols
  BY LenProperties, ElementOfSeq
<1> DEFINE C == Seq(Symbols)
           Out(i, a, b) == IF i \notin 1 .. Len(T) \/ T[i] = Quote THEN <<>>
                           ELSE IF T[i] # Back THEN <<T[i]>> \o a
                           ELSE IF i = Len(T) THEN <<>>
                           ELSE <<IF T[i + 1] = "n" THEN Feed ELSE T[i + 1]>> \o b
           step == [q \in Int \X C \X C |-> Out(q[1], q[2], q[3])]
<1>1. ASSUME NEW i \in Int, NEW a \in C, NEW b \in C PROVE Out(i, a, b) \in C
  <2>1. <<>> \in C
    BY EmptySeq
  <2>2. \A c \in Symbols : <<c>> \in Seq(Symbols)
    OBVIOUS
  <2>3. \A c \in Symbols : <<c>> \o a \in C /\ <<c>> \o b \in C
    BY <2>2, ConcatProperties
  <2>4. Feed \in Symbols
    BY Signs
  <2>5. i \in 1 .. Len(T) /\ i # Len(T) => i + 1 \in 1 .. Len(T)
    BY <1>0
  <2>6. CASE i \notin 1 .. Len(T) \/ T[i] = Quote
    BY <2>1, <2>6
  <2>7. CASE i \in 1 .. Len(T) /\ T[i] # Quote /\ T[i] # Back
    BY <1>0, <2>3, <2>7
  <2>8. CASE i \in 1 .. Len(T) /\ T[i] = Back /\ i = Len(T)
    BY <2>1, <2>8, Signs
  <2>9. CASE i \in 1 .. Len(T) /\ T[i] = Back /\ i # Len(T)
    <3> DEFINE c == IF T[i + 1] = "n" THEN Feed ELSE T[i + 1]
    <3>1. c \in Symbols
      BY <1>0, <2>4, <2>5, <2>9
    <3>2. Out(i, a, b) = <<c>> \o b
      BY <2>9, Signs
    <3> QED
      BY <2>3, <3>1, <3>2
  <2> QED
    BY <2>6, <2>7, <2>8, <2>9
<1>2. step \in [Int \X C \X C -> C]
  BY <1>1
<1>3. \A i \in Int, a \in C, b \in C : step[<<i, a, b>>] = Out(i, a, b)
  OBVIOUS
<1>4. <<>> \in C /\ at + 1 \in 1 .. Len(T) + 1
  BY <1>0, EmptySeq
<1> HIDE DEF step, C, Out
<1>a. PICK h : Ahead(C, <<>>, Len(T), step, at + 1, h)
  BY <1>0, <1>2, <1>4, LookAhead
<1>5. /\ h \in [at + 1 .. Len(T) + 2 -> C]
      /\ h[Len(T) + 1] = <<>> /\ h[Len(T) + 2] = <<>>
      /\ \A i \in at + 1 .. Len(T) : h[i] = step[<<i, h[i + 1], h[i + 2]>>]
  BY <1>a DEF Ahead
<1> DEFINE Made(f) == f = [i \in at + 1 .. Len(T) + 2 |->
                             IF i > Len(T) \/ T[i] = Quote THEN <<>>
                             ELSE IF T[i] # Back THEN <<T[i]>> \o f[i + 1]
                             ELSE IF i = Len(T) THEN <<>>
                             ELSE <<IF T[i + 1] = "n" THEN Feed ELSE T[i + 1]>> \o f[i + 2]]
<1>6. \A i \in at + 1 .. Len(T) : h[i] = Out(i, h[i + 1], h[i + 2])
  <2>1. \A i \in at + 1 .. Len(T) : i \in Int /\ i + 1 \in at + 1 .. Len(T) + 2 /\ i + 2 \in at + 1 .. Len(T) + 2
    BY <1>0
  <2>2. \A i \in at + 1 .. Len(T) : h[i + 1] \in C /\ h[i + 2] \in C
    BY <1>5, <2>1
  <2> QED
    BY <1>3, <1>5, <2>1, <2>2
<1>7. ASSUME NEW i \in at + 1 .. Len(T) + 2
      PROVE  h[i] = IF i > Len(T) \/ T[i] = Quote THEN <<>>
                    ELSE IF T[i] # Back THEN <<T[i]>> \o h[i + 1]
                    ELSE IF i = Len(T) THEN <<>>
                    ELSE <<IF T[i + 1] = "n" THEN Feed ELSE T[i + 1]>> \o h[i + 2]
  <2>1. CASE i > Len(T)
    <3>1. i = Len(T) + 1 \/ i = Len(T) + 2
      BY <1>0, <2>1
    <3> QED
      BY <1>5, <2>1, <3>1
  <2>2. CASE ~(i > Len(T))
    <3>1. i \in at + 1 .. Len(T) /\ i \in 1 .. Len(T)
      BY <1>0, <2>2
    <3>2. h[i] = Out(i, h[i + 1], h[i + 2])
      BY <1>6, <3>1
    <3> QED
      BY <2>2, <3>1, <3>2 DEF Out
  <2> QED
    BY <2>1, <2>2
<1>8. Made(h)
  <2>1. h = [i \in at + 1 .. Len(T) + 2 |-> h[i]]
    BY <1>5
  <2> QED
    BY <1>7, <2>1
<1>9. Made(r)
  <2>1. r = CHOOSE f : Made(f)
    BY DEF RestOf
  <2> HIDE DEF Made
  <2> QED
    BY <1>8, <2>1
<1>10. ASSUME NEW i \in at + 1 .. Len(T)
       PROVE  r[i] = IF T[i] = Quote THEN <<>>
                     ELSE IF T[i] # Back THEN <<T[i]>> \o r[i + 1]
                     ELSE IF i = Len(T) THEN <<>>
                     ELSE <<IF T[i + 1] = "n" THEN Feed ELSE T[i + 1]>> \o r[i + 2]
  <2>1. i \in at + 1 .. Len(T) + 2 /\ ~(i > Len(T))
    BY <1>0
  <2> QED
    BY <1>9, <2>1
<1> QED
  BY <1>10

LEMMA EndFacts ==
  ASSUME NEW T \in Seq(Symbols), NEW at \in 1 .. Len(T), NEW r, r = EndOf(T, at)
  PROVE  \A i \in at + 1 .. Len(T) :
           r[i] = IF T[i] = Back THEN r[i + 2] ELSE IF T[i] = Quote THEN i ELSE r[i + 1]
<1>0. Len(T) \in Nat
  BY LenProperties
<1> DEFINE C == Nat
           Out(i, a, b) == IF i \notin 1 .. Len(T) THEN 0
                           ELSE IF T[i] = Back THEN b ELSE IF T[i] = Quote THEN i ELSE a
           step == [q \in Int \X C \X C |-> Out(q[1], q[2], q[3])]
<1>1. \A i \in Int, a \in C, b \in C : Out(i, a, b) \in C
  OBVIOUS
<1>2. step \in [Int \X C \X C -> C]
  BY <1>1
<1>3. \A i \in Int, a \in C, b \in C : step[<<i, a, b>>] = Out(i, a, b)
  OBVIOUS
<1>4. 0 \in C /\ at + 1 \in 1 .. Len(T) + 1
  BY <1>0
<1> HIDE DEF step, C, Out
<1>a. PICK h : Ahead(C, 0, Len(T), step, at + 1, h)
  BY <1>0, <1>2, <1>4, LookAhead
<1>5. /\ h \in [at + 1 .. Len(T) + 2 -> C]
      /\ h[Len(T) + 1] = 0 /\ h[Len(T) + 2] = 0
      /\ \A i \in at + 1 .. Len(T) : h[i] = step[<<i, h[i + 1], h[i + 2]>>]
  BY <1>a DEF Ahead
<1> DEFINE Made(f) == f = [i \in at + 1 .. Len(T) + 2 |->
                             IF i > Len(T) THEN 0
                             ELSE IF T[i] = Back THEN f[i + 2]
                             ELSE IF T[i] = Quote THEN i ELSE f[i + 1]]
<1>6. \A i \in at + 1 .. Len(T) : h[i] = Out(i, h[i + 1], h[i + 2])
  <2>1. \A i \in at + 1 .. Len(T) : i \in Int /\ i + 1 \in at + 1 .. Len(T) + 2 /\ i + 2 \in at + 1 .. Len(T) + 2
    BY <1>0
  <2>2. \A i \in at + 1 .. Len(T) : h[i + 1] \in C /\ h[i + 2] \in C
    BY <1>5, <2>1
  <2> QED
    BY <1>3, <1>5, <2>1, <2>2
<1>7. ASSUME NEW i \in at + 1 .. Len(T) + 2
      PROVE  h[i] = IF i > Len(T) THEN 0
                    ELSE IF T[i] = Back THEN h[i + 2]
                    ELSE IF T[i] = Quote THEN i ELSE h[i + 1]
  <2>1. CASE i > Len(T)
    <3>1. i = Len(T) + 1 \/ i = Len(T) + 2
      BY <1>0, <2>1
    <3> QED
      BY <1>5, <2>1, <3>1
  <2>2. CASE ~(i > Len(T))
    <3>1. i \in at + 1 .. Len(T) /\ i \in 1 .. Len(T)
      BY <1>0, <2>2
    <3>2. h[i] = Out(i, h[i + 1], h[i + 2])
      BY <1>6, <3>1
    <3> QED
      BY <2>2, <3>1, <3>2 DEF Out
  <2> QED
    BY <2>1, <2>2
<1>8. Made(h)
  <2>1. h = [i \in at + 1 .. Len(T) + 2 |-> h[i]]
    BY <1>5
  <2> QED
    BY <1>7, <2>1
<1>9. Made(r)
  <2>1. r = CHOOSE f : Made(f)
    BY DEF EndOf
  <2> HIDE DEF Made
  <2> QED
    BY <1>8, <2>1
<1>10. ASSUME NEW i \in at + 1 .. Len(T)
       PROVE  r[i] = IF T[i] = Back THEN r[i + 2] ELSE IF T[i] = Quote THEN i ELSE r[i + 1]
  <2>1. i \in at + 1 .. Len(T) + 2 /\ ~(i > Len(T))
    BY <1>0
  <2> QED
    BY <1>9, <2>1
<1> QED
  BY <1>10

LEMMA EscapedBounds ==
  ASSUME NEW v \in Seq(Symbols), NEW E, NEW o, Escaped(v, E, o)
  PROVE  /\ Len(E) \in Nat
         /\ \A i \in 0 .. Len(v) : o[i] \in 0 .. Len(E)
<1>0. /\ Len(v) \in Nat /\ Len(E) = o[Len(v)]
      /\ \A i \in 0 .. Len(v) : o[i] \in Nat
      /\ \A i \in 1 .. Len(v) : o[i] = o[i - 1] + 1 \/ o[i] = o[i - 1] + 2
  BY LenProperties DEF Escaped
<1> DEFINE n == Len(v)
           S == {m \in Nat : m <= n => o[n - m] <= o[n]}
<1>1. 0 \in S
  <2>1. o[n] \in Nat /\ n - 0 = n
    BY <1>0
  <2> QED
    BY <2>1
<1>2. ASSUME NEW m \in S PROVE m + 1 \in S
  <2>1. SUFFICES ASSUME m + 1 <= n PROVE o[n - (m + 1)] <= o[n]
    OBVIOUS
  <2>2. m <= n /\ n - m \in 1 .. n /\ n - m - 1 = n - (m + 1) /\ n - m \in 0 .. n /\ n - m - 1 \in 0 .. n
    BY <1>0, <2>1
  <2>3. o[n - m] \in Nat /\ o[n - m - 1] \in Nat /\ o[n - m] <= o[n] /\ o[n] \in Nat
    BY <1>0, <2>2
  <2>4. o[n - m] = o[n - m - 1] + 1 \/ o[n - m] = o[n - m - 1] + 2
    BY <1>0, <2>2
  <2>5. o[n - m - 1] <= o[n]
    BY <2>3, <2>4
  <2> QED
    BY <2>2, <2>5
<1>3. S \in SUBSET Nat
  OBVIOUS
<1> HIDE DEF S
<1>4. \A m \in Nat : m \in S
  BY <1>1, <1>2, <1>3, CountingUp
<1>5. ASSUME NEW i \in 0 .. n PROVE o[i] \in 0 .. o[n]
  <2>1. n - i \in Nat /\ n - i <= n /\ n - (n - i) = i
    BY <1>0
  <2>2. o[i] <= o[n]
    BY <1>4, <2>1 DEF S
  <2> QED
    BY <1>0, <2>2
<1>6. n \in 0 .. n
  BY <1>0
<1> QED
  BY <1>0, <1>5, <1>6

(* In T, a string that says v stands at `at`.                              *)
StandsAt(T, at, v) ==
  LET E == EscapeJsonString(v)
  IN  /\ at \in 1 .. Len(T) /\ at + Len(E) + 1 <= Len(T) /\ Len(E) \in Nat
      /\ T[at] = Quote /\ T[at + Len(E) + 1] = Quote
      /\ \A x \in 1 .. Len(E) : T[at + x] = E[x]

LEMMA RestOfTail ==
  ASSUME NEW v \in Seq(Symbols), NEW i \in 1 .. Len(v)
  PROVE  SubSeq(v, i, Len(v)) = <<v[i]>> \o SubSeq(v, i + 1, Len(v))
<1>0. Len(v) \in Nat /\ v[i] \in Symbols /\ \A x \in 1 .. Len(v) : v[x] \in Symbols
  BY LenProperties, ElementOfSeq
<1> DEFINE a == SubSeq(v, i, Len(v))
           b == <<v[i]>>
           c == SubSeq(v, i + 1, Len(v))
<1>1. a \in Seq(Symbols) /\ c \in Seq(Symbols) /\ b \in Seq(Symbols)
  <2>1. i \in Int /\ i + 1 \in Int /\ Len(v) \in Int
    BY <1>0
  <2> QED
    BY <1>0, <2>1
<1>2. Len(a) = Len(v) - i + 1 /\ Len(c) = Len(v) - i /\ Len(b) = 1 /\ b[1] = v[i]
  BY <1>0
<1>3. \A x \in 1 .. Len(v) - i + 1 : a[x] = v[i + x - 1]
  BY <1>0
<1>4. \A x \in 1 .. Len(v) - i : c[x] = v[i + x]
  BY <1>0
<1> HIDE DEF a, b, c
<1>5. b \o c \in Seq(Symbols) /\ Len(b \o c) = Len(v) - i + 1
  <2>1. b \o c \in Seq(Symbols) /\ Len(b \o c) = Len(b) + Len(c)
    BY <1>1, ConcatProperties
  <2>2. 1 + (Len(v) - i) = Len(v) - i + 1
    BY <1>0
  <2> QED
    BY <1>2, <2>1, <2>2
<1>6. ASSUME NEW x \in 1 .. Len(v) - i + 1 PROVE a[x] = (b \o c)[x]
  <2>1. x \in 1 .. Len(b) + Len(c)
    BY <1>0, <1>2
  <2>2. (b \o c)[x] = IF x <= Len(b) THEN b[x] ELSE c[x - Len(b)]
    BY <1>1, <2>1, ConcatProperties
  <2>3. CASE x = 1
    BY <1>0, <1>2, <1>3, <2>2, <2>3
  <2>4. CASE x # 1
    <3>1. x - 1 \in 1 .. Len(v) - i /\ i + (x - 1) = i + x - 1 /\ ~(x <= 1)
      BY <1>0, <2>4
    <3> QED
      BY <1>2, <1>3, <1>4, <2>2, <3>1
  <2> QED
    BY <2>3, <2>4
<1>7. a = b \o c
  BY <1>1, <1>2, <1>5, <1>6, SeqEqual
<1> QED
  BY <1>7 DEF a, b, c

(* Where EscapeJsonString has put any text between quotes,                 *)
(* ParseJsonStringValue takes that text from between them, and             *)
(* FindStringEnd finds the quote that closes it.                           *)
THEOREM StringReadBack ==
  ASSUME NEW T \in Seq(Symbols), NEW at, NEW v \in Seq(Symbols), StandsAt(T, at, v)
  PROVE  /\ ParseJsonStringValue(T, at) = v
         /\ FindStringEnd(T, at) = at + Len(EscapeJsonString(v)) + 1
<1> DEFINE E == EscapeJsonString(v)
           n == Len(v)
           r == RestOf(T, at)
           f == EndOf(T, at)
<1>1. /\ at \in 1 .. Len(T) /\ at + Len(E) + 1 <= Len(T) /\ Len(E) \in Nat
      /\ T[at] = Quote /\ T[at + Len(E) + 1] = Quote
      /\ \A x \in 1 .. Len(E) : T[at + x] = E[x]
  BY DEF StandsAt
<1>2. n \in Nat /\ Len(T) \in Nat /\ \A i \in 1 .. n : v[i] \in Symbols
  BY LenProperties, ElementOfSeq
<1>b. \A a \in 0 .. Len(E) : /\ at + 1 + a \in at + 1 .. Len(T) /\ at + (a + 1) = at + 1 + a
                            /\ at + (a + 2) = at + 1 + a + 1
  <2> DEFINE l == Len(E)
             m == Len(T)
  <2>1. at \in 1 .. m /\ at + l + 1 <= m /\ l \in Nat /\ m \in Nat
    BY <1>1, <1>2
  <2> HIDE DEF l, m
  <2>2. \A a \in 0 .. l : /\ at + 1 + a \in at + 1 .. m /\ at + (a + 1) = at + 1 + a
                          /\ at + (a + 2) = at + 1 + a + 1
    BY <2>1
  <2> QED
    BY <2>2 DEF l, m
<1>3. StringAt(T, at)
  <2>1. at # 0 /\ at <= Len(T)
    BY <1>1, <1>2
  <2> QED
    BY <1>1, <2>1 DEF StringAt
<1>4. ParseJsonStringValue(T, at) = r[at + 1]
  BY <1>3 DEF ParseJsonStringValue, RestOf
<1>5. FindStringEnd(T, at) = f[at + 1]
  BY <1>3 DEF FindStringEnd, EndOf
<1>6. \A i \in at + 1 .. Len(T) :
         r[i] = IF T[i] = Quote THEN <<>>
                ELSE IF T[i] # Back THEN <<T[i]>> \o r[i + 1]
                ELSE IF i = Len(T) THEN <<>>
                ELSE <<IF T[i + 1] = "n" THEN Feed ELSE T[i + 1]>> \o r[i + 2]
  BY <1>1, RestFacts
<1>7. \A i \in at + 1 .. Len(T) :
         f[i] = IF T[i] = Back THEN f[i + 2] ELSE IF T[i] = Quote THEN i ELSE f[i + 1]
  BY <1>1, EndFacts
<1>8. PICK o : Escaped(v, E, o)
  BY EscapedExists
<1> HIDE DEF E, n, r, f
<1>9. /\ Len(E) = o[n] /\ o[0] = 0 /\ \A i \in 0 .. n : o[i] \in 0 .. Len(E)
      /\ \A i \in 1 .. n :
           /\ ~Escaping(v[i]) => o[i] = o[i - 1] + 1 /\ E[o[i - 1] + 1] = v[i]
           /\ Escaping(v[i]) => /\ o[i] = o[i - 1] + 2
                                /\ E[o[i - 1] + 1] = Back
                                /\ E[o[i - 1] + 2] = IF v[i] = Feed THEN "n" ELSE v[i]
  BY <1>8, EscapedBounds DEF Escaped, n
<1> DEFINE close == at + Len(E) + 1
           Read(i) == r[at + 1 + o[i]] = SubSeq(v, i + 1, n) /\ f[at + 1 + o[i]] = close
           S == {m \in Nat : m <= n => Read(n - m)}
<1>10. 0 \in S
  <2>0. Len(E) \in 0 .. Len(E) /\ at + 1 + Len(E) = close
    BY <1>1
  <2>1. n - 0 = n /\ at + 1 + o[n] = close /\ close \in at + 1 .. Len(T)
    BY <1>2, <1>9, <1>b, <2>0
  <2>2. T[close] = Quote
    BY <1>1
  <2>3. r[close] = <<>> /\ f[close] = close
    BY <1>6, <1>7, <2>1, <2>2, Signs
  <2>4. SubSeq(v, n + 1, n) = <<>>
    BY <1>2
  <2> QED
    BY <2>1, <2>3, <2>4
<1>11. ASSUME NEW m \in S PROVE m + 1 \in S
  <2>1. SUFFICES ASSUME m + 1 <= n PROVE Read(n - (m + 1))
    OBVIOUS
  <2> DEFINE i == n - m
             p == at + 1 + o[i - 1]
  <2>2. m \in Nat /\ m <= n /\ i \in 1 .. n /\ i - 1 = n - (m + 1) /\ i \in 0 .. n /\ i - 1 \in 0 .. n /\ i - 1 + 1 = i
    BY <1>2, <2>1
  <2>3. Read(i)
    BY <2>2
  <2> HIDE DEF i
  <2>4. o[i] \in 0 .. Len(E) /\ o[i - 1] \in 0 .. Len(E) /\ o[i] \in Nat /\ o[i - 1] \in Nat
    BY <1>1, <1>9, <2>2
  <2>5. SubSeq(v, i, n) = <<v[i]>> \o SubSeq(v, i + 1, n)
    BY <2>2, RestOfTail DEF n
  <2>6. CASE ~Escaping(v[i])
    <3>1. o[i] = o[i - 1] + 1 /\ E[o[i - 1] + 1] = v[i]
      BY <1>9, <2>2, <2>6
    <3>2. /\ o[i - 1] + 1 \in 1 .. Len(E) /\ at + (o[i - 1] + 1) = p
          /\ p \in at + 1 .. Len(T) /\ p + 1 = at + 1 + o[i]
      <4>1. \A a, b \in 0 .. Len(E) : b = a + 1 => a + 1 \in 1 .. Len(E) /\ at + 1 + a + 1 = at + 1 + b
        BY <1>1
      <4> QED
        BY <1>b, <2>4, <3>1, <4>1
    <3>3. T[p] = v[i]
      BY <1>1, <3>1, <3>2
    <3>4. T[p] # Quote /\ T[p] # Back
      BY <2>6, <3>3 DEF Escaping
    <3> HIDE DEF p
    <3>5. r[p] = <<v[i]>> \o r[p + 1] /\ f[p] = f[p + 1]
      BY <1>6, <1>7, <3>2, <3>3, <3>4
    <3>6. r[p + 1] = SubSeq(v, i + 1, n) /\ f[p + 1] = close
      BY <2>3, <3>2
    <3>7. r[p] = SubSeq(v, i, n) /\ f[p] = close
      BY <2>5, <3>5, <3>6
    <3> QED
      BY <2>2, <3>7 DEF p
  <2>7. CASE Escaping(v[i])
    <3>1. /\ o[i] = o[i - 1] + 2 /\ E[o[i - 1] + 1] = Back
          /\ E[o[i - 1] + 2] = IF v[i] = Feed THEN "n" ELSE v[i]
      BY <1>9, <2>2, <2>7
    <3>2. /\ o[i - 1] + 1 \in 1 .. Len(E) /\ at + (o[i - 1] + 1) = p
          /\ o[i - 1] + 2 \in 1 .. Len(E) /\ at + (o[i - 1] + 2) = p + 1
          /\ p \in at + 1 .. Len(T) /\ p + 2 = at + 1 + o[i] /\ p # Len(T)
      <4>1. \A a, b \in 0 .. Len(E) : b = a + 2 =>
              /\ a + 1 \in 1 .. Len(E) /\ a + 2 \in 1 .. Len(E)
              /\ at + 1 + a + 2 = at + 1 + b /\ at + 1 + a # Len(T)
        <5>1. at \in Nat /\ Len(E) \in Nat /\ Len(T) \in Nat /\ at + Len(E) + 1 <= Len(T)
          BY <1>1, <1>2
        <5> QED
          BY <5>1
      <4> QED
        BY <1>b, <2>4, <3>1, <4>1
    <3>3. T[p] = Back /\ T[p + 1] = IF v[i] = Feed THEN "n" ELSE v[i]
      BY <1>1, <3>1, <3>2
    <3>4. v[i] = IF T[p + 1] = "n" THEN Feed ELSE T[p + 1]
      <4>1. v[i] = Feed \/ v[i] = Quote \/ v[i] = Back
        BY <2>7 DEF Escaping
      <4> QED
        BY <3>3, <4>1, Signs
    <3> HIDE DEF p
    <3>5. r[p] = <<v[i]>> \o r[p + 2] /\ f[p] = f[p + 2]
      BY <1>6, <1>7, <3>2, <3>3, <3>4, Signs
    <3>6. r[p + 2] = SubSeq(v, i + 1, n) /\ f[p + 2] = close
      BY <2>3, <3>2
    <3>7. r[p] = SubSeq(v, i, n) /\ f[p] = close
      BY <2>5, <3>5, <3>6
    <3> QED
      BY <2>2, <3>7 DEF p
  <2> QED
    BY <2>6, <2>7
<1>12. S \in SUBSET Nat
  OBVIOUS
<1> HIDE DEF S
<1>13. n \in S
  BY <1>2, <1>10, <1>11, <1>12, CountingUp
<1>14. Read(0)
  <2>1. n <= n /\ n - n = 0
    BY <1>2
  <2> QED
    BY <1>13, <2>1 DEF S
<1>15. at + 1 + o[0] = at + 1 /\ SubSeq(v, 0 + 1, n) = v
  <2>1. SubSeq(v, 1, n) = v
    BY <1>2 DEF n
  <2> QED
    BY <1>1, <1>9, <2>1
<1> QED
  BY <1>4, <1>5, <1>14, <1>15 DEF E

-----------------------------------------------------------------------------
(* Where things are in a message.                                          *)

Both(S, a, b, w) ==
  /\ w \in Seq(S) /\ Len(a) \in Nat /\ Len(b) \in Nat /\ Len(w) = Len(a) + Len(b)
  /\ \A x \in 1 .. Len(a) : w[x] = a[x]
  /\ \A x \in 1 .. Len(b) : w[Len(a) + x] = b[x]

LEMMA BothFacts ==
  ASSUME NEW S, NEW a \in Seq(S), NEW b \in Seq(S)
  PROVE  Both(S, a, b, a \o b)
<1>1. Len(a) \in Nat /\ Len(b) \in Nat
  BY LenProperties
<1>2. /\ a \o b \in Seq(S) /\ Len(a \o b) = Len(a) + Len(b)
      /\ \A x \in 1 .. Len(a) + Len(b) : (a \o b)[x] = IF x <= Len(a) THEN a[x] ELSE b[x - Len(a)]
  BY ConcatProperties
<1>3. \A x \in 1 .. Len(a) : x \in 1 .. Len(a) + Len(b) /\ x <= Len(a)
  BY <1>1
<1>4. \A x \in 1 .. Len(b) : /\ Len(a) + x \in 1 .. Len(a) + Len(b) /\ ~(Len(a) + x <= Len(a))
                             /\ Len(a) + x - Len(a) = x
  BY <1>1
<1> QED
  BY <1>1, <1>2, <1>3, <1>4 DEF Both

LEMMA OneFacts ==
  ASSUME NEW S, NEW c \in S
  PROVE  <<c>> \in Seq(S) /\ Len(<<c>>) = 1 /\ <<c>>[1] = c
OBVIOUS

Keys == Texts \cup Numbers

(* How the value of a field is written.                                    *)
Val(k, v) == IF k \in Numbers THEN v ELSE Quoted(EscapeJsonString(v))

LEMMA QuotedFacts ==
  ASSUME NEW E \in Seq(Symbols)
  PROVE  /\ Quoted(E) \in Seq(Symbols) /\ Len(E) \in Nat /\ Len(Quoted(E)) = Len(E) + 2
         /\ Quoted(E)[1] = Quote /\ Quoted(E)[Len(E) + 2] = Quote
         /\ \A x \in 1 .. Len(E) : Quoted(E)[1 + x] = E[x]
<1> DEFINE q == <<Quote>>
           a == q \o E
           w == a \o q
<1>1. q \in Seq(Symbols) /\ Len(q) = 1 /\ q[1] = Quote
  <2>1. Quote \in Symbols
    BY Signs
  <2> QED
    BY <2>1
<1>2. Quoted(E) = w
  BY DEF Quoted
<1> HIDE DEF q
<1>3. /\ a \in Seq(Symbols) /\ Len(E) \in Nat /\ Len(a) = 1 + Len(E)
      /\ a[1] = q[1] /\ \A x \in 1 .. Len(E) : a[1 + x] = E[x]
  <2>1. 1 \in 1 .. Len(q)
    BY <1>1
  <2> QED
    BY <1>1, <2>1, BothFacts DEF Both
<1> HIDE DEF a
<1>4. /\ w \in Seq(Symbols) /\ Len(w) = Len(a) + 1
      /\ \A x \in 1 .. Len(a) : w[x] = a[x]
      /\ w[Len(a) + 1] = q[1]
  <2>1. 1 \in 1 .. Len(q)
    BY <1>1
  <2>2. /\ w \in Seq(Symbols) /\ Len(w) = Len(a) + Len(q)
        /\ \A x \in 1 .. Len(a) : w[x] = a[x]
        /\ \A x \in 1 .. Len(q) : w[Len(a) + x] = q[x]
    <3>1. Both(Symbols, a, q, w)
      BY <1>1, <1>3, BothFacts
    <3> QED
      BY <3>1 DEF Both
  <2> QED
    BY <1>1, <2>1, <2>2
<1>5. 1 \in 1 .. Len(a) /\ (\A x \in 1 .. Len(E) : 1 + x \in 1 .. Len(a)) /\ Len(a) + 1 = Len(E) + 2
  BY <1>3
<1> HIDE DEF w
<1> QED
  BY <1>1, <1>2, <1>3, <1>4, <1>5

LEMMA ValFacts ==
  ASSUME NEW k \in Keys, NEW v \in Seq(Symbols)
  PROVE  /\ Val(k, v) \in Seq(Symbols) /\ Len(Val(k, v)) \in Nat
         /\ EscapeJsonString(v) \in Seq(Symbols)
<1>1. PICK o : Escaped(v, EscapeJsonString(v), o)
  BY EscapedExists
<1>2. EscapeJsonString(v) \in Seq(Symbols)
  BY <1>1 DEF Escaped
<1>3. Val(k, v) \in Seq(Symbols)
  BY <1>2, QuotedFacts DEF Val
<1> QED
  BY <1>2, <1>3, LenProperties

IsField(k, w, gap, X) ==
  /\ X \in Seq(Symbols) /\ Len(gap) \in Nat /\ Len(w) \in Nat
  /\ Len(X) = 4 + Len(gap) + Len(w)
  /\ X[1] = Quote /\ X[2] = k /\ X[3] = Quote /\ X[4] = Colon
  /\ \A x \in 1 .. Len(gap) : X[4 + x] = Space
  /\ \A x \in 1 .. Len(w) : X[4 + Len(gap) + x] = w[x]

LEMMA FieldFacts ==
  ASSUME NEW k \in Keys, NEW v \in Seq(Symbols), NEW gap \in Seq({Space})
  PROVE  IsField(k, Val(k, v), gap, FieldText(k, v, gap))
<1> DEFINE X == FieldText(k, v, gap)
<1> DEFINE w == Val(k, v)
           head == Quoted(<<k>>) \o <<Colon>>
           a == head \o gap
<1>0. k \in Symbols /\ Colon \in Symbols /\ Quote \in Symbols
  BY Signs DEF Keys, Symbols
<1>1. X = a \o w
  BY DEF FieldText, Val, Colon
<1>2. w \in Seq(Symbols) /\ Len(w) \in Nat
  BY ValFacts
<1>4. /\ head \in Seq(Symbols) /\ Len(head) = 4
      /\ head[1] = Quote /\ head[2] = k /\ head[3] = Quote /\ head[4] = Colon
  <2> DEFINE b == Quoted(<<k>>)
             c == <<Colon>>
  <2>1. <<k>> \in Seq(Symbols) /\ Len(<<k>>) = 1 /\ <<k>>[1] = k
    BY <1>0
  <2>2. /\ b \in Seq(Symbols) /\ Len(b) = Len(<<k>>) + 2
        /\ b[1] = Quote /\ b[Len(<<k>>) + 2] = Quote
        /\ \A x \in 1 .. Len(<<k>>) : b[1 + x] = <<k>>[x]
    BY <2>1, QuotedFacts
  <2>3. Len(b) = 3 /\ b[1] = Quote /\ b[2] = k /\ b[3] = Quote
    BY <2>1, <2>2
  <2>4. c \in Seq(Symbols) /\ Len(c) = 1 /\ c[1] = Colon
    BY <1>0
  <2>5. head = b \o c
    OBVIOUS
  <2> HIDE DEF b, c, head
  <2>6. /\ head \in Seq(Symbols) /\ Len(head) = Len(b) + Len(c)
        /\ \A x \in 1 .. Len(b) : head[x] = b[x]
        /\ \A x \in 1 .. Len(c) : head[Len(b) + x] = c[x]
    <3>1. Both(Symbols, b, c, head)
      BY <2>2, <2>4, <2>5, BothFacts
    <3> QED
      BY <3>1 DEF Both
  <2> QED
    BY <2>3, <2>4, <2>6
<1> HIDE DEF w, head, X
<1>5. /\ gap \in Seq(Symbols) /\ Len(gap) \in Nat /\ \A x \in 1 .. Len(gap) : gap[x] = Space
  <2>1. {Space} \subseteq Symbols
    BY Signs
  <2>2. gap \in Seq(Symbols)
    BY <2>1, SeqMonotonic
  <2> QED
    BY <2>2, LenProperties, ElementOfSeq
<1>6. /\ a \in Seq(Symbols) /\ Len(a) = 4 + Len(gap)
      /\ \A x \in 1 .. 4 : a[x] = head[x]
      /\ \A x \in 1 .. Len(gap) : a[4 + x] = gap[x]
  <2>1. a = head \o gap
    OBVIOUS
  <2> HIDE DEF a
  <2>2. /\ a \in Seq(Symbols) /\ Len(a) = Len(head) + Len(gap)
        /\ \A x \in 1 .. Len(head) : a[x] = head[x]
        /\ \A x \in 1 .. Len(gap) : a[Len(head) + x] = gap[x]
    <3>1. Both(Symbols, head, gap, a)
      BY <1>4, <1>5, <2>1, BothFacts
    <3> QED
      BY <3>1 DEF Both
  <2> QED
    BY <1>4, <2>2
<1> HIDE DEF a
<1>7. /\ X \in Seq(Symbols) /\ Len(X) = Len(a) + Len(w)
      /\ \A x \in 1 .. Len(a) : X[x] = a[x]
      /\ \A x \in 1 .. Len(w) : X[Len(a) + x] = w[x]
  <2>1. Both(Symbols, a, w, X)
    BY <1>1, <1>2, <1>6, BothFacts
  <2> QED
    BY <2>1 DEF Both
<1>8. (\A x \in 1 .. 4 : x \in 1 .. Len(a)) /\ (\A x \in 1 .. Len(gap) : 4 + x \in 1 .. Len(a))
  BY <1>5, <1>6
<1>9. \A x \in 1 .. 4 : X[x] = head[x]
  BY <1>6, <1>7, <1>8
<1>10. \A x \in 1 .. Len(gap) : X[4 + x] = Space
  BY <1>5, <1>6, <1>7, <1>8
<1>11. X[1] = Quote /\ X[2] = k /\ X[3] = Quote /\ X[4] = Colon
  BY <1>4, <1>9
<1> QED
  BY <1>2, <1>5, <1>6, <1>7, <1>10, <1>11 DEF w, X, IsField

Message(fields, values, gap) ==
  /\ fields \in Seq(Keys) /\ gap \in Seq({Space})
  /\ values \in [Keys -> Seq(Symbols)] /\ \A k \in Numbers : values[k] = <<"2">>

Parts(fields, values, gap) ==
  [i \in DOMAIN fields |-> (IF i = 1 THEN <<>> ELSE <<Comma>>)
                              \o FieldText(fields[i], values[fields[i]], gap)]

Sep(i) == IF i = 1 THEN 0 ELSE 1

(* The i-th field ends at e[i]; its key and its value begin here.          *)
KeyAt(e, i) == e[i - 1] + 1 + Sep(i)
ValueAt(e, gap, i) == KeyAt(e, i) + 4 + Len(gap)

Laid(T, fields, values, gap, e) ==
  /\ T \in Seq(Symbols) /\ Len(T) = e[Len(fields)] + 1 /\ e[0] = 1
  /\ T[1] = Open /\ T[Len(T)] = Shut
  /\ \A i \in 0 .. Len(fields) : e[i] \in Nat
  /\ \A i \in 0 .. Len(fields) : \A j \in i .. Len(fields) : e[i] <= e[j]
  /\ \A i \in 1 .. Len(fields) :
       LET k == KeyAt(e, i)
           a == ValueAt(e, gap, i)
           w == Val(fields[i], values[fields[i]])
       IN  /\ e[i] + 1 = a + Len(w)
           /\ T[k] = Quote /\ T[k + 1] = fields[i] /\ T[k + 2] = Quote /\ T[k + 3] = Colon
           /\ \A x \in 1 .. Len(gap) : T[k + 3 + x] = Space
           /\ \A x \in 1 .. Len(w) : T[a - 1 + x] = w[x]
           /\ i # 1 => T[e[i - 1] + 1] = Comma
  /\ \A p \in 2 .. e[Len(fields)] : \E i \in 1 .. Len(fields) : e[i - 1] < p /\ p <= e[i]

LEMMA PartFacts ==
  ASSUME NEW fields, NEW values, NEW gap, Message(fields, values, gap),
         NEW t, t = Parts(fields, values, gap)
  PROVE  /\ t \in Seq(Seq(Symbols)) /\ Len(t) = Len(fields) /\ Len(t) \in Nat
         /\ \A i \in 1 .. Len(fields) :
              LET X == FieldText(fields[i], values[fields[i]], gap)
              IN  /\ fields[i] \in Keys /\ values[fields[i]] \in Seq(Symbols)
                  /\ X \in Seq(Symbols) /\ Len(X) \in Nat
                  /\ Len(t[i]) = Sep(i) + Len(X)
                  /\ \A x \in 1 .. Len(X) : t[i][Sep(i) + x] = X[x]
                  /\ i # 1 => t[i][1] = Comma
<1>0. /\ Len(fields) \in Nat /\ DOMAIN fields = 1 .. Len(fields)
      /\ \A i \in 1 .. Len(fields) : fields[i] \in Keys
      /\ gap \in Seq({Space})
      /\ values \in [Keys -> Seq(Symbols)]
  BY LenProperties, ElementOfSeq DEF Message
<1> DEFINE F(i) == FieldText(fields[i], values[fields[i]], gap)
           s(i) == IF i = 1 THEN <<>> ELSE <<Comma>>
<1>1. ASSUME NEW i \in 1 .. Len(fields) PROVE F(i) \in Seq(Symbols)
  BY <1>0, FieldFacts DEF IsField
<1>2. ASSUME NEW i \in 1 .. Len(fields) PROVE s(i) \in Seq(Symbols) /\ Len(s(i)) = Sep(i)
  <2>1. <<>> \in Seq(Symbols) /\ Len(<<>>) = 0
    BY EmptySeq
  <2>2. <<Comma>> \in Seq(Symbols) /\ Len(<<Comma>>) = 1
    <3>1. Comma \in Symbols
      BY Signs
    <3> QED
      BY <3>1, OneFacts
  <2>3. CASE i = 1
    BY <2>1, <2>3 DEF Sep
  <2>4. CASE i # 1
    BY <2>2, <2>4 DEF Sep
  <2> QED
    BY <2>3, <2>4
<1>3. \A i \in 1 .. Len(fields) : t[i] = s(i) \o F(i)
  BY <1>0 DEF Parts, Comma
<1> HIDE DEF F
<1>4. ASSUME NEW i \in 1 .. Len(fields)
      PROVE  /\ t[i] \in Seq(Symbols) /\ Len(F(i)) \in Nat
             /\ Len(t[i]) = Sep(i) + Len(F(i))
             /\ \A x \in 1 .. Len(F(i)) : t[i][Sep(i) + x] = F(i)[x]
             /\ i # 1 => t[i][1] = Comma
  <2> DEFINE a == s(i)
             b == F(i)
             w == t[i]
  <2>1. a \in Seq(Symbols) /\ b \in Seq(Symbols) /\ w = a \o b
    BY <1>1, <1>2, <1>3
  <2>4. Len(a) = Sep(i) /\ (i # 1 => a = <<Comma>> /\ Len(a) = 1 /\ a[1] = Comma)
    BY <1>2
  <2> HIDE DEF a, b, w
  <2>2. Both(Symbols, a, b, w)
    BY <2>1, BothFacts
  <2>3. /\ w \in Seq(Symbols) /\ Len(a) \in Nat /\ Len(b) \in Nat /\ Len(w) = Len(a) + Len(b)
        /\ \A x \in 1 .. Len(a) : w[x] = a[x]
        /\ \A x \in 1 .. Len(b) : w[Len(a) + x] = b[x]
    BY <2>2 DEF Both
  <2>5. i # 1 => w[1] = Comma
    <3>1. Len(a) = 1 => 1 \in 1 .. Len(a)
      OBVIOUS
    <3> QED
      BY <2>3, <2>4, <3>1
  <2> QED
    BY <2>3, <2>4, <2>5 DEF w, b
<1>5. t \in Seq(Seq(Symbols)) /\ Len(t) = Len(fields)
  <2>1. DOMAIN t = 1 .. Len(fields) /\ t = [i \in 1 .. Len(fields) |-> t[i]]
    BY <1>0 DEF Parts, Comma
  <2>2. t \in [1 .. Len(fields) -> Seq(Symbols)]
    BY <1>4, <2>1
  <2>3. t \in Seq(Seq(Symbols))
    <3>1. Len(fields) \in Nat
      BY <1>0
    <3> QED
      BY <2>2, <3>1, SeqDef
  <2>4. DOMAIN t = 1 .. Len(t) /\ Len(t) \in Nat
    BY <2>3, LenProperties
  <2> QED
    BY <1>0, <2>1, <2>3, <2>4
<1>6. \A i \in 1 .. Len(fields) : values[fields[i]] \in Seq(Symbols)
  BY <1>0
<1> QED
  BY <1>0, <1>1, <1>4, <1>5, <1>6 DEF F

LEMMA LaidOut ==
  ASSUME NEW fields, NEW values, NEW gap, Message(fields, values, gap)
  PROVE  LET o == Ends(Parts(fields, values, gap))
             e == [i \in 0 .. Len(fields) |-> o[i] + 1]
         IN  Laid(Build(fields, values, gap), fields, values, gap, e)
<1> DEFINE t == Parts(fields, values, gap)
           o == Ends(t)
           n == Len(fields)
           e == [i \in 0 .. n |-> o[i] + 1]
           J == Joined(t)
           H == <<Open>> \o J
           T == H \o <<Shut>>
           F(i) == FieldText(fields[i], values[fields[i]], gap)
           W(i) == Val(fields[i], values[fields[i]])
<1>0. /\ t \in Seq(Seq(Symbols)) /\ Len(t) = n /\ n \in Nat
      /\ \A i \in 1 .. n :
           /\ fields[i] \in Keys /\ values[fields[i]] \in Seq(Symbols)
           /\ F(i) \in Seq(Symbols) /\ Len(F(i)) \in Nat
           /\ Len(t[i]) = Sep(i) + Len(F(i))
           /\ \A x \in 1 .. Len(F(i)) : t[i][Sep(i) + x] = F(i)[x]
           /\ i # 1 => t[i][1] = Comma
  <2>1. t = Parts(fields, values, gap)
    OBVIOUS
  <2> HIDE DEF t
  <2> QED
    BY <2>1, PartFacts
<1>n. n \in Nat
  BY <1>0
<1>1. gap \in Seq({Space}) /\ Len(gap) \in Nat
  BY LenProperties DEF Message
<1>2. \A i \in 1 .. n :
         /\ Len(W(i)) \in Nat
         /\ Len(F(i)) = 4 + Len(gap) + Len(W(i))
         /\ F(i)[1] = Quote /\ F(i)[2] = fields[i] /\ F(i)[3] = Quote /\ F(i)[4] = Colon
         /\ \A x \in 1 .. Len(gap) : F(i)[4 + x] = Space
         /\ \A x \in 1 .. Len(W(i)) : F(i)[4 + Len(gap) + x] = W(i)[x]
  <2>1. ASSUME NEW i \in 1 .. n
        PROVE  /\ Len(W(i)) \in Nat
               /\ Len(F(i)) = 4 + Len(gap) + Len(W(i))
               /\ F(i)[1] = Quote /\ F(i)[2] = fields[i] /\ F(i)[3] = Quote /\ F(i)[4] = Colon
               /\ \A x \in 1 .. Len(gap) : F(i)[4 + x] = Space
               /\ \A x \in 1 .. Len(W(i)) : F(i)[4 + Len(gap) + x] = W(i)[x]
    <3>1. fields[i] \in Keys /\ values[fields[i]] \in Seq(Symbols)
      BY <1>0
    <3>2. IsField(fields[i], W(i), gap, F(i))
      BY <1>1, <3>1, FieldFacts
    <3> HIDE DEF W, F
    <3> QED
      BY <3>2 DEF IsField
  <2> HIDE DEF n, F, W
  <2> QED
    BY <2>1
<1>3. Places(Symbols, t, o, J)
  BY <1>0, JoinedPlaces
<1>4. Build(fields, values, gap) = T
  BY DEF Build, Parts, Open, Shut, Comma
<1>5. \A i \in 0 .. n : e[i] = o[i] + 1
  OBVIOUS
<1> HIDE DEF t, o, n, e, J, F, W
<1>6. /\ J \in Seq(Symbols) /\ Len(J) = o[n] /\ o[0] = 0
      /\ \A i \in 0 .. n : o[i] \in Nat
      /\ \A i \in 1 .. n : Len(t[i]) \in Nat /\ o[i] = o[i - 1] + Len(t[i])
      /\ \A i \in 1 .. n : \A x \in 1 .. Len(t[i]) : J[o[i - 1] + x] = t[i][x]
      /\ \A x \in 1 .. Len(J) : \E i \in 1 .. n : o[i - 1] < x /\ x <= o[i]
      /\ \A i \in 0 .. n : \A j \in i .. n : o[i] <= o[j]
  BY <1>0, <1>3 DEF Places
<1>7. /\ T \in Seq(Symbols) /\ Len(J) \in Nat /\ Len(T) = Len(J) + 2 /\ T[1] = Open /\ T[Len(T)] = Shut
      /\ \A x \in 1 .. Len(J) : T[1 + x] = J[x]
  <2> DEFINE a == <<Open>>
             b == <<Shut>>
  <2>1. a \in Seq(Symbols) /\ Len(a) = 1 /\ a[1] = Open /\ b \in Seq(Symbols) /\ Len(b) = 1 /\ b[1] = Shut
    <3>1. Open \in Symbols /\ Shut \in Symbols
      BY Signs
    <3> QED
      BY <3>1, OneFacts
  <2>a. H = a \o J /\ T = H \o b
    OBVIOUS
  <2> HIDE DEF a, b, H, T
  <2>2. Both(Symbols, a, J, H)
    BY <1>6, <2>1, <2>a, BothFacts
  <2>3. /\ H \in Seq(Symbols) /\ Len(J) \in Nat /\ Len(H) = Len(a) + Len(J)
        /\ \A x \in 1 .. Len(a) : H[x] = a[x]
        /\ \A x \in 1 .. Len(J) : H[Len(a) + x] = J[x]
    BY <2>2 DEF Both
  <2>4. Both(Symbols, H, b, T)
    BY <2>1, <2>3, <2>a, BothFacts
  <2>5. /\ T \in Seq(Symbols) /\ Len(T) = Len(H) + Len(b)
        /\ \A x \in 1 .. Len(H) : T[x] = H[x]
        /\ \A x \in 1 .. Len(b) : T[Len(H) + x] = b[x]
    BY <2>4 DEF Both
  <2>6. Len(H) = 1 + Len(J) /\ Len(T) = Len(J) + 2 /\ 1 \in 1 .. Len(H) /\ 1 \in 1 .. 1
        /\ Len(H) + 1 = Len(T) /\ \A x \in 1 .. Len(J) : 1 + x \in 1 .. Len(H)
    <3>1. Len(H) = 1 + Len(J) /\ Len(T) = Len(H) + 1 /\ Len(J) \in Nat
      BY <2>1, <2>3, <2>5
    <3> QED
      BY <3>1
  <2>7. \A x \in 1 .. Len(J) : T[1 + x] = J[x]
    BY <2>1, <2>3, <2>5, <2>6
  <2> QED
    BY <2>1, <2>3, <2>5, <2>6, <2>7
<1> HIDE DEF H, T
<1>8. \A i \in 1 .. n : i \in 0 .. n /\ i - 1 \in 0 .. n
  BY <1>n
<1>9. 0 \in 0 .. n /\ n \in 0 .. n
  BY <1>n
<1>10. /\ Len(T) = e[n] + 1 /\ e[0] = 1 /\ Len(J) = e[n] - 1
       /\ \A i \in 0 .. n : e[i] \in Nat
  <2>1. /\ Len(J) = o[n] /\ o[0] = 0 /\ o[n] \in Nat /\ Len(T) = Len(J) + 2
        /\ e[n] = o[n] + 1 /\ e[0] = o[0] + 1
    BY <1>5, <1>6, <1>7, <1>9
  <2>2. \A i \in 0 .. n : o[i] \in Nat /\ e[i] = o[i] + 1
    BY <1>5, <1>6
  <2> QED
    BY <2>1, <2>2
<1>11. ASSUME NEW i \in 0 .. n, NEW j \in i .. n PROVE e[i] <= e[j]
  <2>1. j \in 0 .. n
    BY <1>n
  <2>2. o[i] <= o[j] /\ o[i] \in Nat /\ o[j] \in Nat
    BY <1>6, <2>1
  <2> QED
    BY <1>5, <2>1, <2>2
<1>12. ASSUME NEW p \in 2 .. e[n] PROVE \E i \in 1 .. n : e[i - 1] < p /\ p <= e[i]
  <2>1. p - 1 \in 1 .. Len(J)
    BY <1>9, <1>10
  <2>2. PICK i \in 1 .. n : o[i - 1] < p - 1 /\ p - 1 <= o[i]
    BY <1>6, <2>1
  <2>3. e[i] = o[i] + 1 /\ e[i - 1] = o[i - 1] + 1 /\ o[i] \in Nat /\ o[i - 1] \in Nat
    BY <1>5, <1>6, <1>8
  <2> QED
    BY <2>2, <2>3
<1>13. ASSUME NEW i \in 1 .. n
       PROVE  LET k == KeyAt(e, i)
                  a == ValueAt(e, gap, i)
                  w == W(i)
              IN  /\ e[i] + 1 = a + Len(w)
                  /\ T[k] = Quote /\ T[k + 1] = fields[i] /\ T[k + 2] = Quote /\ T[k + 3] = Colon
                  /\ \A x \in 1 .. Len(gap) : T[k + 3 + x] = Space
                  /\ \A x \in 1 .. Len(w) : T[a - 1 + x] = w[x]
                  /\ i # 1 => T[e[i - 1] + 1] = Comma
  <2> DEFINE c == e[i - 1]
             z == Sep(i)
             k == KeyAt(e, i)
             a == ValueAt(e, gap, i)
             w == W(i)
             g == Len(gap)
  <2>1. z \in Nat
    BY DEF Sep
  <2>2. /\ c \in Nat /\ c = o[i - 1] + 1 /\ e[i] = o[i] + 1 /\ o[i] = o[i - 1] + Len(t[i])
        /\ o[i] \in Nat /\ o[i - 1] \in Nat /\ o[i] <= Len(J) /\ Len(J) \in Nat
    <3>1. n \in i .. n
      BY <1>n
    <3>2. i \in 0 .. n /\ i - 1 \in 0 .. n
      BY <1>8
    <3>3. c = o[i - 1] + 1 /\ e[i] = o[i] + 1
      BY <1>5, <3>2
    <3>4. o[i - 1] \in Nat /\ o[i] \in Nat /\ o[i] = o[i - 1] + Len(t[i]) /\ o[i] <= Len(J) /\ Len(J) \in Nat
      BY <1>6, <1>7, <3>1, <3>2
    <3>5. c \in Nat
      BY <3>3, <3>4
    <3> HIDE DEF c
    <3> QED
      BY <3>3, <3>4, <3>5
  <2>3. k = c + 1 + z /\ a = k + 4 + g
    BY DEF KeyAt, ValueAt
  <2>4. Len(t[i]) = z + (4 + g + Len(w)) /\ Len(w) \in Nat /\ g \in Nat /\ Len(F(i)) = 4 + g + Len(w)
    BY <1>0, <1>1, <1>2
  <2> HIDE DEF c, z, k, a, g, w
  <2>5. ASSUME NEW x \in 1 .. Len(t[i]) PROVE T[c + x] = t[i][x]
    <3>1. o[i - 1] + x \in 1 .. Len(J) /\ 1 + (o[i - 1] + x) = c + x
      <4> DEFINE l == Len(t[i])
                 q == o[i - 1]
                 m == Len(J)
      <4>1. l \in Nat /\ q \in Nat /\ c = q + 1 /\ q + l <= m /\ m \in Nat /\ x \in 1 .. l
        BY <1>6, <2>2
      <4> HIDE DEF l, q, m
      <4>2. q + x \in 1 .. m /\ 1 + (q + x) = c + x
        BY <4>1
      <4> QED
        BY <4>2 DEF q, m
    <3> QED
      BY <1>6, <1>7, <3>1
  <2>6. ASSUME NEW x \in 1 .. Len(F(i)) PROVE T[k - 1 + x] = F(i)[x]
    <3>1. z + x \in 1 .. Len(t[i]) /\ c + (z + x) = k - 1 + x
      <4>1. Len(F(i)) \in Nat /\ Len(t[i]) = z + Len(F(i)) /\ c \in Nat
        BY <1>0, <2>2 DEF z
      <4> QED
        BY <2>1, <2>3, <4>1
    <3>2. t[i][z + x] = F(i)[x]
      BY <1>0 DEF z
    <3> QED
      BY <2>5, <3>1, <3>2
  <2>7. /\ 1 \in 1 .. Len(F(i)) /\ 2 \in 1 .. Len(F(i)) /\ 3 \in 1 .. Len(F(i)) /\ 4 \in 1 .. Len(F(i))
        /\ \A x \in 1 .. g : 4 + x \in 1 .. Len(F(i)) /\ k - 1 + (4 + x) = k + 3 + x
        /\ \A x \in 1 .. Len(w) : 4 + g + x \in 1 .. Len(F(i)) /\ k - 1 + (4 + g + x) = a - 1 + x
        /\ k - 1 + 1 = k /\ k - 1 + 2 = k + 1 /\ k - 1 + 3 = k + 2 /\ k - 1 + 4 = k + 3
    <3>1. c \in Nat
      BY <2>2
    <3> QED
      BY <2>1, <2>3, <2>4, <3>1
  <2>8. T[k] = Quote /\ T[k + 1] = fields[i] /\ T[k + 2] = Quote /\ T[k + 3] = Colon
    <3>1. F(i)[1] = Quote /\ F(i)[2] = fields[i] /\ F(i)[3] = Quote /\ F(i)[4] = Colon
      BY <1>2
    <3> QED
      BY <2>6, <2>7, <3>1
  <2>9. \A x \in 1 .. g : T[k + 3 + x] = Space
    <3>1. \A x \in 1 .. g : F(i)[4 + x] = Space
      BY <1>2 DEF g
    <3> QED
      BY <2>6, <2>7, <3>1
  <2>10. \A x \in 1 .. Len(w) : T[a - 1 + x] = w[x]
    <3>1. \A x \in 1 .. Len(w) : F(i)[4 + g + x] = w[x]
      BY <1>2 DEF w, g
    <3> QED
      BY <2>6, <2>7, <3>1
  <2>11. i # 1 => T[c + 1] = Comma
    <3>1. 1 \in 1 .. Len(t[i])
      BY <2>1, <2>4
    <3>2. i # 1 => t[i][1] = Comma
      BY <1>0
    <3> QED
      BY <2>5, <3>1, <3>2
  <2>12. e[i] + 1 = a + Len(w)
    <3> DEFINE l == Len(t[i])
               q == o[i - 1]
               m == Len(w)
    <3>1. /\ c = q + 1 /\ e[i] = o[i] + 1 /\ o[i] = q + l /\ l = z + (4 + g + m)
          /\ q \in Nat /\ m \in Nat /\ g \in Nat /\ z \in Nat /\ k = c + 1 + z /\ a = k + 4 + g
      BY <2>1, <2>2, <2>3, <2>4
    <3> HIDE DEF l, q, m
    <3>2. e[i] + 1 = a + m
      BY <3>1
    <3> QED
      BY <3>2 DEF m
  <2> QED
    BY <2>8, <2>9, <2>10, <2>11, <2>12 DEF c, k, a, g, w
<1>14. Laid(T, fields, values, gap, e)
  BY <1>7, <1>10, <1>11, <1>12, <1>13 DEF Laid, n, W
<1> QED
  BY <1>4, <1>14 DEF e, o, t, n

-----------------------------------------------------------------------------
(* Where a key stands in quotes.                                           *)

LEMMA KeySigns ==
  ASSUME NEW k \in Keys
  PROVE  /\ k # Quote /\ k # Back /\ k # Feed /\ k # Comma /\ k # Colon /\ k # Shut /\ k # Open
         /\ k \in Symbols /\ ~Escaping(k)
<1>1. k \in Symbols
  BY DEF Keys, Symbols
<1>2. CASE k \in Texts
  BY <1>1, <1>2 DEF Texts, Quote, Back, Feed, Comma, Colon, Shut, Open, Escaping
<1>3. CASE k \in Numbers
  BY <1>1, <1>3 DEF Numbers, Quote, Back, Feed, Comma, Colon, Shut, Open, Escaping
<1> QED
  BY <1>2, <1>3 DEF Keys

LEMMA NamesFacts ==
  ASSUME NEW v \in Seq(Symbols), NEW k \in Keys
  PROVE  Names1(v, k) <=> \/ Len(v) = 1 /\ v[1] = k
                          \/ Len(v) >= 2 /\ v[Len(v) - 1] = Quote /\ v[Len(v)] = k
<1>0. Len(v) \in Nat /\ k \in Symbols
  BY LenProperties, KeySigns
<1>1. v = <<k>> <=> Len(v) = 1 /\ v[1] = k
  <2>1. <<k>> \in Seq(Symbols) /\ Len(<<k>>) = 1 /\ <<k>>[1] = k
    BY <1>0, OneFacts
  <2>2. ASSUME Len(v) = 1, v[1] = k PROVE v = <<k>>
    <3>1. \A x \in 1 .. Len(v) : x = 1
      BY <2>2
    <3> QED
      BY <2>1, <2>2, <3>1, SeqEqual
  <2> QED
    BY <2>1, <2>2
<1>2. IsSuffix(<<Quote, k>>, v) <=> Len(v) >= 2 /\ v[Len(v) - 1] = Quote /\ v[Len(v)] = k
  <2> DEFINE s == <<Quote, k>>
             a == Reverse(s)
             b == Reverse(v)
             c == SubSeq(a, 1, Len(a))
             d == SubSeq(b, 1, Len(a))
  <2>1. Len(s) = 2 /\ s[1] = Quote /\ s[2] = k
    OBVIOUS
  <2> HIDE DEF s
  <2>2. a = [i \in 1 .. 2 |-> s[2 - i + 1]] /\ b = [i \in 1 .. Len(v) |-> v[Len(v) - i + 1]]
    BY <2>1 DEF Reverse
  <2>3. Len(a) = 2 /\ a[1] = k /\ a[2] = Quote
    BY <2>1, <2>2
  <2>4. Len(b) = Len(v) /\ \A i \in 1 .. Len(v) : b[i] = v[Len(v) - i + 1]
    BY <1>0, <2>2
  <2>5. IsSuffix(s, v) <=> Len(a) <= Len(b) /\ c = d
    BY DEF IsSuffix, IsPrefix
  <2>6. Len(v) >= 2 => /\ 1 \in 1 .. Len(v) /\ 2 \in 1 .. Len(v)
                       /\ Len(v) - 1 + 1 = Len(v) /\ Len(v) - 2 + 1 = Len(v) - 1
    BY <1>0
  <2>7. Len(v) >= 2 => b[1] = v[Len(v)] /\ b[2] = v[Len(v) - 1]
    BY <2>4, <2>6
  <2> HIDE DEF a, b
  <2>8. /\ c = [i \in 1 .. 2 |-> a[i]] /\ d = [i \in 1 .. 2 |-> b[i]]
    BY <2>3
  <2>9. c = d <=> a[1] = b[1] /\ a[2] = b[2]
    <3>1. c = d => c[1] = d[1] /\ c[2] = d[2]
      OBVIOUS
    <3>2. c[1] = a[1] /\ c[2] = a[2] /\ d[1] = b[1] /\ d[2] = b[2]
      BY <2>8
    <3>3. a[1] = b[1] /\ a[2] = b[2] => \A x \in 1 .. 2 : a[x] = b[x]
      OBVIOUS
    <3> HIDE DEF c, d
    <3>4. a[1] = b[1] /\ a[2] = b[2] => c = d
      BY <2>8, <3>3
    <3> QED
      BY <3>1, <3>2, <3>4
  <2>10. Len(a) <= Len(b) <=> Len(v) >= 2
    BY <1>0, <2>3, <2>4
  <2>11. IsSuffix(s, v) <=> Len(v) >= 2 /\ v[Len(v) - 1] = Quote /\ v[Len(v)] = k
    BY <2>3, <2>5, <2>7, <2>9, <2>10
  <2> QED
    BY <2>11 DEF s
<1> QED
  BY <1>1, <1>2 DEF Names1

(* In an escaped text a quote is after a backslash.                        *)
LEMMA QuoteEscaped ==
  ASSUME NEW v \in Seq(Symbols), NEW E, NEW o, Escaped(v, E, o), NEW x \in 1 .. Len(E), E[x] = Quote
  PROVE  x - 1 \in 1 .. Len(E) /\ E[x - 1] = Back
<1>0. Len(v) \in Nat /\ Len(E) \in Nat
  BY LenProperties, EscapedBounds
<1>1. PICK i \in 1 .. Len(v) : o[i - 1] < x /\ x <= o[i]
  BY DEF Escaped
<1>2. i \in 0 .. Len(v) /\ i - 1 \in 0 .. Len(v)
  BY <1>0
<1>3. o[i] \in 0 .. Len(E) /\ o[i - 1] \in 0 .. Len(E)
  BY <1>2, EscapedBounds
<1>4. /\ ~Escaping(v[i]) => o[i] = o[i - 1] + 1 /\ E[o[i - 1] + 1] = v[i]
      /\ Escaping(v[i]) => o[i] = o[i - 1] + 2 /\ E[o[i - 1] + 1] = Back
  BY DEF Escaped
<1>5. CASE ~Escaping(v[i])
  <2>1. x = o[i - 1] + 1
    BY <1>0, <1>1, <1>3, <1>4, <1>5
  <2>2. v[i] # Quote
    BY <1>5 DEF Escaping
  <2> QED
    BY <1>4, <1>5, <2>1, <2>2
<1>6. CASE Escaping(v[i])
  <2>1. x = o[i - 1] + 1 \/ x = o[i - 1] + 2
    BY <1>0, <1>1, <1>3, <1>4, <1>6
  <2>2. x # o[i - 1] + 1
    BY <1>4, <1>6, Signs
  <2>3. x - 1 = o[i - 1] + 1 /\ x - 1 \in 1 .. Len(E)
    BY <1>0, <1>3, <2>1, <2>2
  <2> QED
    BY <1>4, <1>6, <2>3
<1> QED
  BY <1>5, <1>6

LEMMA EscapedLengths ==
  ASSUME NEW v \in Seq(Symbols), NEW E, NEW o, Escaped(v, E, o), NEW n, n = Len(v)
  PROVE  /\ n \in Nat /\ Len(E) \in Nat /\ Len(E) = o[n] /\ n <= Len(E)
         /\ \A i \in 1 .. n : /\ i \in 0 .. n /\ i - 1 \in 0 .. n
                              /\ o[i - 1] \in Nat /\ o[i] \in Nat /\ o[i - 1] < o[i] /\ i <= o[i]
                              /\ i < n => o[i] < Len(E)
<1>0. n \in Nat /\ Len(E) \in Nat /\ Len(E) = o[n] /\ o[0] = 0
  BY LenProperties, EscapedBounds DEF Escaped
<1>1. ASSUME NEW i \in 1 .. n
      PROVE  /\ i \in 0 .. n /\ i - 1 \in 0 .. n
             /\ o[i - 1] \in 0 .. Len(E) /\ o[i] \in 0 .. Len(E) /\ o[i - 1] < o[i]
  <2>1. i \in 0 .. n /\ i - 1 \in 0 .. n
    BY <1>0
  <2>2. o[i - 1] \in 0 .. Len(E) /\ o[i] \in 0 .. Len(E)
    BY <2>1, EscapedBounds
  <2>3. o[i] = o[i - 1] + 1 \/ o[i] = o[i - 1] + 2
    BY DEF Escaped
  <2>4. o[i - 1] < o[i]
    BY <1>0, <2>2, <2>3
  <2> QED
    BY <2>1, <2>2, <2>4
<1>2. ASSUME NEW i \in 1 .. n, i < n PROVE o[i] < Len(E)
  <2>1. i + 1 \in 1 .. n /\ i + 1 - 1 = i
    BY <1>0, <1>2
  <2>2. o[i] < o[i + 1] /\ o[i + 1] \in 0 .. Len(E) /\ o[i] \in 0 .. Len(E)
    BY <1>1, <2>1
  <2> QED
    BY <1>0, <2>2
<1> DEFINE S == {m \in Nat : m <= n => m <= o[m]}
<1>3. \A m \in Nat : m \in S
  <2>1. 0 \in S
    BY <1>0
  <2>2. ASSUME NEW m \in S PROVE m + 1 \in S
    <3>1. SUFFICES ASSUME m + 1 <= n PROVE m + 1 <= o[m + 1]
      OBVIOUS
    <3>2. m + 1 \in 1 .. n /\ m + 1 - 1 = m /\ m <= n /\ m \in Nat
      BY <1>0, <3>1
    <3>3. o[m] \in 0 .. Len(E) /\ o[m + 1] \in 0 .. Len(E) /\ o[m] < o[m + 1] /\ m <= o[m]
      BY <1>1, <3>2
    <3> QED
      BY <1>0, <3>2, <3>3
  <2>3. S \in SUBSET Nat
    OBVIOUS
  <2> HIDE DEF S
  <2> QED
    BY <2>1, <2>2, <2>3, CountingUp
<1>4. \A m \in 0 .. n : m <= o[m]
  <2>1. \A m \in 0 .. n : m \in Nat /\ m <= n
    BY <1>0
  <2> QED
    BY <1>3, <2>1
<1>5. n \in 0 .. n
  BY <1>0
<1>6. n <= Len(E)
  BY <1>0, <1>4, <1>5
<1>7. \A i \in 1 .. n : o[i - 1] \in Nat /\ o[i] \in Nat /\ i <= o[i]
  BY <1>0, <1>1, <1>4
<1> QED
  BY <1>0, <1>1, <1>2, <1>6, <1>7

(* A string has the key in quotes at its end or nowhere.                   *)
LEMMA NamedAtEnd ==
  ASSUME NEW v \in Seq(Symbols), NEW k \in Keys,
         NEW E, E = EscapeJsonString(v), NEW w, w = Quoted(E)
  PROVE  /\ Len(E) \in Nat /\ Len(w) = Len(E) + 2
         /\ \A x \in 1 .. Len(E) :
              w[x] = Quote /\ w[x + 1] = k /\ w[x + 2] = Quote => x = Len(E) /\ Names1(v, k)
         /\ Names1(v, k) => Len(E) >= 1 /\ w[Len(E)] = Quote /\ w[Len(E) + 1] = k
<1> DEFINE L == Len(E)
           n == Len(v)
<1>0. PICK o : Escaped(v, E, o)
  BY EscapedExists
<1>1. /\ n \in Nat /\ L \in Nat /\ L = o[n] /\ n <= L /\ o[0] = 0
      /\ \A i \in 1 .. n : /\ i \in 0 .. n /\ i - 1 \in 0 .. n
                           /\ o[i - 1] \in Nat /\ o[i] \in Nat /\ o[i - 1] < o[i] /\ i <= o[i]
                           /\ i < n => o[i] < L
  <2>1. n = Len(v)
    OBVIOUS
  <2>2. o[0] = 0
    BY <1>0 DEF Escaped
  <2> HIDE DEF n
  <2>3. /\ n \in Nat /\ Len(E) \in Nat /\ Len(E) = o[n] /\ n <= Len(E)
        /\ \A i \in 1 .. n : /\ i \in 0 .. n /\ i - 1 \in 0 .. n
                             /\ o[i - 1] \in Nat /\ o[i] \in Nat /\ o[i - 1] < o[i] /\ i <= o[i]
                             /\ i < n => o[i] < Len(E)
    BY <1>0, <2>1, EscapedLengths
  <2> QED
    BY <2>2, <2>3
<1>2. /\ Len(w) = L + 2 /\ w[1] = Quote /\ w[L + 2] = Quote
      /\ \A x \in 1 .. L : w[1 + x] = E[x]
  <2>1. E \in Seq(Symbols)
    BY <1>0 DEF Escaped
  <2> QED
    BY <2>1, QuotedFacts
<1>3. \A i \in 1 .. n :
         /\ ~Escaping(v[i]) => o[i] = o[i - 1] + 1 /\ E[o[i - 1] + 1] = v[i]
         /\ Escaping(v[i]) => /\ o[i] = o[i - 1] + 2
                              /\ E[o[i - 1] + 1] = Back
                              /\ E[o[i - 1] + 2] = IF v[i] = Feed THEN "n" ELSE v[i]
  BY <1>0 DEF Escaped
<1>4. \A x \in 1 .. L : E[x] = Quote => x - 1 \in 1 .. L /\ E[x - 1] = Back
  BY <1>0, QuoteEscaped
<1>5. Names1(v, k) <=> \/ n = 1 /\ v[1] = k
                       \/ n >= 2 /\ v[n - 1] = Quote /\ v[n] = k
  BY NamesFacts
<1>k. k # Back /\ k # Quote /\ ~Escaping(k) /\ Quote # "n" /\ Escaping(Quote) /\ Quote # Feed
  BY KeySigns, Signs DEF Escaping
<1> HIDE DEF L, n
(* The last character of what is escaped, when it is the key.              *)
<1>6. ASSUME L >= 1, E[L] = k, L >= 2 => E[L - 1] = Quote \/ L = 1
      PROVE  n >= 1 /\ v[n] = k /\ o[n - 1] = L - 1
  <2>1. n \in 1 .. n
    <3>1. n # 0
      BY <1>1, <1>6
    <3> QED
      BY <1>1, <3>1
  <2>2. o[n - 1] \in Nat /\ o[n] = L
    BY <1>1, <2>1
  <2>3. ~Escaping(v[n])
    <3>1. SUFFICES ASSUME Escaping(v[n]) PROVE FALSE
      OBVIOUS
    <3>2. L = o[n - 1] + 2 /\ E[o[n - 1] + 1] = Back
      BY <1>3, <2>1, <2>2, <3>1
    <3>3. L >= 2 /\ L # 1 /\ o[n - 1] + 1 = L - 1
      BY <2>2, <3>2
    <3> QED
      BY <1>6, <3>2, <3>3, Signs
  <2>4. L = o[n - 1] + 1 /\ E[o[n - 1] + 1] = v[n]
    BY <1>3, <2>1, <2>2, <2>3
  <2>5. o[n - 1] = L - 1
    BY <2>2, <2>4
  <2> QED
    BY <1>1, <1>6, <2>1, <2>4, <2>5
<1>7. ASSUME NEW y \in 1 .. L, w[y] = Quote, w[y + 1] = k, w[y + 2] = Quote
      PROVE  y = L /\ Names1(v, k)
  <2>0. y \in Nat /\ 1 <= y /\ y <= L /\ E[y] = k
    <3>1. y \in Nat /\ 1 <= y /\ y <= L /\ y + 1 = 1 + y
      BY <1>1
    <3>2. w[1 + y] = E[y]
      BY <1>2
    <3> QED
      BY <1>7, <3>1, <3>2
  <2>1. y = L
    <3>1. SUFFICES ASSUME y # L PROVE FALSE
      OBVIOUS
    <3>2. y + 1 \in 1 .. L /\ 1 + (y + 1) = y + 2 /\ y + 1 - 1 = y
      BY <1>1, <2>0, <3>1
    <3>3. E[y + 1] = Quote
      BY <1>2, <1>7, <3>2
    <3> QED
      BY <1>4, <1>k, <2>0, <3>2, <3>3
  <2>2. L # 1 => L - 1 \in 1 .. L /\ 1 + (L - 1) = y
    BY <1>1, <2>0, <2>1
  <2>3. L # 1 => E[L - 1] = Quote
    BY <1>2, <1>7, <2>2
  <2>4. n >= 1 /\ v[n] = k /\ o[n - 1] = L - 1
    BY <1>6, <2>0, <2>1, <2>3
  <2>5. CASE n = 1
    BY <1>5, <2>1, <2>4, <2>5
  <2>6. CASE n # 1
    <3>1. n - 1 \in 1 .. n /\ n - 1 - 1 \in 0 .. n /\ n >= 2
      BY <1>1, <2>4, <2>6
    <3>2. L # 1
      BY <1>1, <3>1
    <3>3. o[n - 1 - 1] \in Nat /\ o[n - 1] = L - 1 /\ E[o[n - 1]] = Quote
      BY <1>1, <2>3, <2>4, <3>1, <3>2
    <3>4. Escaping(v[n - 1])
      <4>1. SUFFICES ASSUME ~Escaping(v[n - 1]) PROVE FALSE
        OBVIOUS
      <4>2. v[n - 1] = Quote
        BY <1>3, <3>1, <3>3, <4>1
      <4> QED
        BY <1>k, <4>1, <4>2
    <3>5. v[n - 1] = Quote
      <4>1. E[o[n - 1 - 1] + 2] = (IF v[n - 1] = Feed THEN "n" ELSE v[n - 1]) /\ o[n - 1] = o[n - 1 - 1] + 2
        BY <1>3, <3>1, <3>4
      <4> QED
        BY <1>k, <3>3, <4>1
    <3> QED
      BY <1>5, <2>1, <2>4, <3>1, <3>5
  <2> QED
    BY <2>5, <2>6
<1>8. ASSUME Names1(v, k) PROVE L >= 1 /\ w[L] = Quote /\ w[L + 1] = k
  <2>1. n \in 1 .. n /\ v[n] = k /\ (n # 1 => n - 1 \in 1 .. n /\ v[n - 1] = Quote)
    BY <1>1, <1>5, <1>8
  <2>2. L >= 1 /\ L = o[n - 1] + 1 /\ E[L] = k /\ o[n - 1] \in Nat
    <3>1. o[n] = o[n - 1] + 1 /\ E[o[n - 1] + 1] = k /\ o[n - 1] \in Nat
      BY <1>1, <1>3, <1>k, <2>1
    <3> QED
      BY <1>1, <3>1
  <2>3. w[L + 1] = k
    <3>1. L \in 1 .. L /\ 1 + L = L + 1
      BY <1>1, <2>2
    <3> QED
      BY <1>2, <2>2, <3>1
  <2>4. w[L] = Quote
    <3>1. CASE n = 1
      <4>1. L = 1
        BY <1>1, <2>2, <3>1
      <4> QED
        BY <1>2, <4>1
    <3>2. CASE n # 1
      <4>1. o[n - 1] = o[n - 1 - 1] + 2 /\ E[o[n - 1 - 1] + 2] = Quote
        BY <1>3, <1>k, <2>1, <3>2
      <4>2. E[o[n - 1]] = Quote
        BY <4>1
      <4>3. o[n - 1] \in 1 .. L /\ 1 + o[n - 1] = L
        <5>1. 1 <= o[n - 1]
          <6>1. n - 1 <= o[n - 1] /\ 1 <= n - 1
            BY <1>1, <2>1, <3>2
          <6> QED
            BY <1>1, <2>2, <6>1
        <5> QED
          BY <1>1, <2>2, <5>1
      <4> QED
        BY <1>2, <4>2, <4>3
    <3> QED
      BY <3>1, <3>2
  <2> QED
    BY <2>2, <2>3, <2>4
<1> QED
  BY <1>1, <1>2, <1>7, <1>8 DEF L

(* The i-th field of a message, from its key to where its value ends.      *)
Placed(T, fields, values, gap, e, i) ==
  LET k == KeyAt(e, i)
      a == ValueAt(e, gap, i)
      v == values[fields[i]]
      w == Quoted(EscapeJsonString(v))
  IN  /\ k \in Nat /\ k >= 2 /\ Len(gap) \in Nat /\ a = k + 4 + Len(gap)
      /\ e[i] \in Nat /\ a <= e[i] /\ e[i] < Len(T) /\ Len(T) \in Nat
      /\ e[i - 1] \in Nat /\ e[i - 1] < k
      /\ i = 1 => k = e[i - 1] + 1
      /\ i # 1 => k = e[i - 1] + 2 /\ T[e[i - 1] + 1] = Comma
      /\ fields[i] \in Keys /\ v \in Seq(Symbols)
      /\ T[k] = Quote /\ T[k + 1] = fields[i] /\ T[k + 2] = Quote /\ T[k + 3] = Colon
      /\ \A x \in 1 .. Len(gap) : T[k + 3 + x] = Space
      /\ fields[i] \in Numbers => e[i] = a /\ T[a] = "2" /\ v = <<"2">>
      /\ fields[i] \notin Numbers =>
           /\ StandsAt(T, a, v) /\ Len(w) \in Nat /\ Len(w) = Len(EscapeJsonString(v)) + 2
           /\ e[i] + 1 = a + Len(w)
           /\ \A x \in 1 .. Len(w) : T[a - 1 + x] = w[x]

LEMMA PlacedFacts ==
  ASSUME NEW fields, NEW values, NEW gap, Message(fields, values, gap),
         NEW T, NEW e, Laid(T, fields, values, gap, e), NEW i \in 1 .. Len(fields)
  PROVE  Placed(T, fields, values, gap, e, i)
<1> DEFINE n == Len(fields)
           k == KeyAt(e, i)
           a == ValueAt(e, gap, i)
           v == values[fields[i]]
           W == Val(fields[i], v)
           g == Len(gap)
           z == Sep(i)
           c == e[i - 1]
<1>1. n \in Nat /\ fields[i] \in Keys /\ v \in Seq(Symbols) /\ g \in Nat
  BY LenProperties, ElementOfSeq DEF Message
<1>2. i \in 0 .. n /\ i - 1 \in 0 .. n /\ n \in i .. n /\ n \in 0 .. n /\ 0 \in 0 .. n
  BY <1>1
<1>3. /\ e[i] + 1 = a + Len(W)
      /\ T[k] = Quote /\ T[k + 1] = fields[i] /\ T[k + 2] = Quote /\ T[k + 3] = Colon
      /\ \A x \in 1 .. g : T[k + 3 + x] = Space
      /\ \A x \in 1 .. Len(W) : T[a - 1 + x] = W[x]
      /\ i # 1 => T[c + 1] = Comma
  BY DEF Laid
<1>4. e[i] \in Nat /\ c \in Nat /\ e[i] <= e[n] /\ e[n] \in Nat /\ Len(T) = e[n] + 1 /\ e[0] = 1
  BY <1>2 DEF Laid
<1>5. 1 <= c
  <2>1. i - 1 \in 0 .. n /\ 0 \in 0 .. n
    BY <1>2
  <2>2. e[0] <= e[i - 1]
    BY <2>1 DEF Laid
  <2> QED
    BY <1>4, <2>2
<1>6. z \in Nat /\ k = c + 1 + z /\ a = k + 4 + g /\ (i = 1 => z = 0) /\ (i # 1 => z = 1)
  BY DEF KeyAt, ValueAt, Sep
<1>7. Len(W) \in Nat
  BY <1>1, ValFacts
<1> HIDE DEF n, k, a, v, W, g, z, c
<1>8. /\ k \in Nat /\ k >= 2 /\ c < k /\ a \in Nat /\ e[i] < Len(T) /\ Len(T) \in Nat
      /\ (i = 1 => k = c + 1) /\ (i # 1 => k = c + 2)
  BY <1>1, <1>4, <1>5, <1>6
<1>9. ASSUME fields[i] \in Numbers PROVE e[i] = a /\ T[a] = "2" /\ v = <<"2">>
  <2>1. v = <<"2">> /\ W = v
    BY <1>9 DEF Message, Val, v, W
  <2>2. Len(W) = 1 /\ W[1] = "2" /\ 1 \in 1 .. Len(W)
    BY <2>1
  <2>3. T[a - 1 + 1] = "2"
    BY <1>3, <2>2
  <2>4. a - 1 + 1 = a /\ e[i] = a
    BY <1>3, <1>4, <1>8, <2>2
  <2> QED
    BY <2>1, <2>3, <2>4
<1> DEFINE E == EscapeJsonString(v)
<1>10. ASSUME fields[i] \notin Numbers
       PROVE  /\ StandsAt(T, a, v) /\ W = Quoted(E) /\ Len(W) = Len(E) + 2
  <2>1. E \in Seq(Symbols)
    BY <1>1, ValFacts
  <2>2. W = Quoted(E)
    BY <1>10 DEF Val, W
  <2> HIDE DEF E
  <2>3. /\ Len(E) \in Nat /\ Len(W) = Len(E) + 2 /\ W[1] = Quote /\ W[Len(E) + 2] = Quote
        /\ \A x \in 1 .. Len(E) : W[1 + x] = E[x]
    BY <2>1, <2>2, QuotedFacts
  <2>4. /\ 1 \in 1 .. Len(W) /\ a - 1 + 1 = a
        /\ Len(E) + 2 \in 1 .. Len(W) /\ a - 1 + (Len(E) + 2) = a + Len(E) + 1
        /\ \A x \in 1 .. Len(E) : 1 + x \in 1 .. Len(W) /\ a - 1 + (1 + x) = a + x
    BY <1>8, <2>3
  <2>5. T[a] = Quote /\ T[a + Len(E) + 1] = Quote /\ \A x \in 1 .. Len(E) : T[a + x] = E[x]
    BY <1>3, <2>3, <2>4
  <2>6. a \in 1 .. Len(T) /\ a + Len(E) + 1 <= Len(T)
    <3>1. e[i] + 1 = a + Len(W)
      BY <1>3
    <3>2. a >= 1 /\ a \in Nat
      BY <1>1, <1>6, <1>8
    <3>3. Len(E) \in Nat /\ Len(W) = Len(E) + 2 /\ e[i] \in Nat /\ e[i] < Len(T) /\ Len(T) \in Nat
      BY <1>4, <1>8, <2>3
    <3> HIDE DEF E
    <3> QED
      BY <3>1, <3>2, <3>3
  <2>7. StandsAt(T, a, v)
    BY <2>3, <2>5, <2>6 DEF StandsAt, E
  <2> QED
    BY <2>2, <2>3, <2>7
<1>11. a <= e[i]
  <2>1. Len(W) >= 1
    <3>1. CASE fields[i] \in Numbers
      BY <1>3, <1>4, <1>7, <1>8, <1>9, <3>1
    <3>2. CASE fields[i] \notin Numbers
      <4>1. Len(E) \in Nat
        BY <1>10, <3>2 DEF StandsAt
      <4> QED
        BY <1>10, <3>2, <4>1
    <3> QED
      BY <3>1, <3>2
  <2> QED
    BY <1>3, <1>4, <1>7, <1>8, <2>1
<1>12. ASSUME fields[i] \notin Numbers
       PROVE  LET w == Quoted(E)
              IN  /\ StandsAt(T, a, v) /\ Len(w) \in Nat /\ Len(w) = Len(E) + 2
                  /\ e[i] + 1 = a + Len(w)
                  /\ \A x \in 1 .. Len(w) : T[a - 1 + x] = w[x]
  <2> HIDE DEF E
  <2> QED
    BY <1>3, <1>7, <1>10, <1>12
<1> QED
  BY <1>1, <1>3, <1>4, <1>6, <1>8, <1>9, <1>11, <1>12 DEF Placed, k, a, v, g, c

(* A value ends before a comma or before the end.                          *)
LEMMA AfterValue ==
  ASSUME NEW fields, NEW values, NEW gap, Message(fields, values, gap),
         NEW T, NEW e, Laid(T, fields, values, gap, e), NEW i \in 1 .. Len(fields)
  PROVE  /\ i = Len(fields) => Len(T) = e[i] + 1 /\ T[e[i] + 1] = Shut
         /\ i # Len(fields) => /\ i + 1 \in 1 .. Len(fields) /\ KeyAt(e, i + 1) = e[i] + 2
                               /\ T[e[i] + 1] = Comma
<1>1. Len(fields) \in Nat
  BY LenProperties DEF Message
<1>2. ASSUME i = Len(fields) PROVE Len(T) = e[i] + 1 /\ T[e[i] + 1] = Shut
  BY <1>2 DEF Laid
<1>3. ASSUME i # Len(fields)
      PROVE  /\ i + 1 \in 1 .. Len(fields) /\ KeyAt(e, i + 1) = e[i] + 2 /\ T[e[i] + 1] = Comma
  <2>1. i + 1 \in 1 .. Len(fields) /\ i + 1 # 1 /\ i + 1 - 1 = i
    BY <1>1, <1>3
  <2>2. Placed(T, fields, values, gap, e, i + 1)
    BY <2>1, PlacedFacts
  <2>3. KeyAt(e, i + 1) = e[i + 1 - 1] + 2 /\ T[e[i + 1 - 1] + 1] = Comma
    BY <2>1, <2>2 DEF Placed
  <2> QED
    BY <2>1, <2>3
<1> QED
  BY <1>2, <1>3

(* Where the key k can be found: at a field with that key, or at the end of*)
(* a value that names it.                                                  *)
Hit(fields, values, e, k, i, p) ==
  \/ fields[i] = k /\ p = KeyAt(e, i)
  \/ fields[i] \notin Numbers /\ Names1(values[fields[i]], k) /\ p = e[i] - 2

LEMMA KeyStands ==
  ASSUME NEW fields, NEW values, NEW gap, Message(fields, values, gap),
         NEW T, NEW e, Laid(T, fields, values, gap, e), NEW k \in Keys,
         NEW p \in 1 .. Len(T) - 2, T[p] = Quote, T[p + 1] = k, T[p + 2] = Quote
  PROVE  \E i \in 1 .. Len(fields) : Hit(fields, values, e, k, i, p)
<1> DEFINE n == Len(fields)
<1>1. n \in Nat /\ n \in 0 .. n /\ e[n] \in Nat /\ Len(T) = e[n] + 1 /\ T[1] = Open
  <2>1. n \in Nat
    BY LenProperties DEF Message
  <2>2. n \in 0 .. n
    BY <2>1
  <2> QED
    BY <2>1, <2>2 DEF Laid
<1>2. p \in 2 .. e[n]
  <2>1. p # 1
    BY <1>1, Signs
  <2>2. p \in Nat /\ 1 <= p /\ p <= Len(T) - 2
    BY <1>1
  <2> QED
    BY <1>1, <2>1, <2>2
<1>3. PICK i \in 1 .. n : e[i - 1] < p /\ p <= e[i]
  BY <1>2 DEF Laid
<1> DEFINE K == KeyAt(e, i)
           a == ValueAt(e, gap, i)
           v == values[fields[i]]
           g == Len(gap)
           c == e[i - 1]
           E == EscapeJsonString(v)
           w == Quoted(E)
<1>4. Placed(T, fields, values, gap, e, i)
  BY <1>3, PlacedFacts
<1>5. /\ K \in Nat /\ g \in Nat /\ a = K + 4 + g
      /\ e[i] \in Nat /\ a <= e[i] /\ c \in Nat /\ c < K
      /\ i = 1 => K = c + 1
      /\ i # 1 => K = c + 2 /\ T[c + 1] = Comma
      /\ fields[i] \in Keys /\ v \in Seq(Symbols)
      /\ T[K] = Quote /\ T[K + 1] = fields[i] /\ T[K + 2] = Quote /\ T[K + 3] = Colon
      /\ \A x \in 1 .. g : T[K + 3 + x] = Space
      /\ fields[i] \in Numbers => e[i] = a /\ T[a] = "2"
      /\ fields[i] \notin Numbers =>
           /\ Len(w) = Len(E) + 2 /\ e[i] + 1 = a + Len(w)
           /\ \A x \in 1 .. Len(w) : T[a - 1 + x] = w[x]
  BY <1>4 DEF Placed
<1>6. T[e[i] + 1] = Shut \/ T[e[i] + 1] = Comma
  BY AfterValue
<1>s. /\ Quote # Comma /\ Quote # Colon /\ Quote # Space /\ "2" # Quote
      /\ k # Colon /\ k # Comma /\ k # Shut /\ k # Quote /\ fields[i] # Quote
  BY <1>5, KeySigns, Signs
<1> HIDE DEF n, K, a, v, g, c
<1>7. p \in Nat /\ c < p /\ p <= e[i]
  BY <1>3, <1>1 DEF c
<1>8. CASE p < K
  <2>1. i # 1 /\ p = c + 1
    BY <1>5, <1>7, <1>8
  <2> QED
    BY <1>5, <1>s, <2>1
<1>9. CASE p = K
  <2>1. fields[i] = k
    BY <1>5, <1>9
  <2> QED
    BY <1>9, <2>1 DEF Hit, K, n
<1>10. CASE K < p /\ p < a
  <2>1. p = K + 1 \/ p = K + 2 \/ p = K + 3 \/ (p - (K + 3) \in 1 .. g /\ K + 3 + (p - (K + 3)) = p)
    BY <1>5, <1>7, <1>10
  <2>2. p # K + 1 /\ p # K + 3
    BY <1>5, <1>s
  <2>3. p # K + 2
    <3>1. p = K + 2 => p + 1 = K + 3
      BY <1>5
    <3> QED
      BY <1>5, <1>s, <3>1
  <2>4. ~(p - (K + 3) \in 1 .. g /\ K + 3 + (p - (K + 3)) = p)
    BY <1>5, <1>s
  <2> QED
    BY <2>1, <2>2, <2>3, <2>4
<1>11. CASE a <= p /\ fields[i] \in Numbers
  <2>1. p = a
    BY <1>5, <1>7, <1>11
  <2> QED
    BY <1>5, <1>11, <1>s, <2>1
<1>12. CASE a <= p /\ fields[i] \notin Numbers
  <2> DEFINE y == p - a + 1
             L == Len(E)
  <2>1. /\ L \in Nat /\ Len(w) = L + 2
        /\ \A x \in 1 .. L : w[x] = Quote /\ w[x + 1] = k /\ w[x + 2] = Quote => x = L /\ Names1(v, k)
        /\ w[L + 2] = Quote
    <3>0. EscapeJsonString(v) \in Seq(Symbols)
      BY <1>5, ValFacts
    <3>1. w[L + 2] = Quote /\ L \in Nat
      BY <3>0, QuotedFacts
    <3>2. E = EscapeJsonString(v) /\ w = Quoted(E)
      OBVIOUS
    <3> HIDE DEF E, w
    <3>3. \A x \in 1 .. Len(E) : w[x] = Quote /\ w[x + 1] = k /\ w[x + 2] = Quote => x = Len(E) /\ Names1(v, k)
      <4>1. v \in Seq(Symbols)
        BY <1>5
      <4> QED
        BY <3>2, <4>1, NamedAtEnd
    <3> QED
      BY <1>5, <1>12, <3>1, <3>3
  <2>2. e[i] + 1 = a + (L + 2) /\ \A x \in 1 .. L + 2 : T[a - 1 + x] = w[x]
    BY <1>5, <1>12, <2>1
  <2> HIDE DEF L, w
  <2>3. y \in 1 .. L + 2 /\ a - 1 + y = p /\ a - 1 + (y + 1) = p + 1 /\ a - 1 + (y + 2) = p + 2
    <3>1. a \in Nat /\ e[i] + 1 = a + (L + 2) /\ L \in Nat /\ e[i] \in Nat
      BY <1>5, <2>1, <2>2
    <3> QED
      BY <1>7, <1>12, <3>1
  <2> HIDE DEF y
  <2>4. CASE y = L + 2
    <3>1. p = e[i]
      BY <1>5, <1>7, <2>1, <2>2, <2>3, <2>4
    <3> QED
      BY <1>6, <1>s, <3>1
  <2>5. CASE y = L + 1
    <3>1. y + 1 \in 1 .. L + 2 /\ y + 1 = L + 2
      BY <2>1, <2>5
    <3>2. T[p + 1] = Quote
      BY <2>1, <2>2, <2>3, <3>1
    <3> QED
      BY <1>s, <3>2
  <2>6. CASE y \in 1 .. L
    <3>1. y + 1 \in 1 .. L + 2 /\ y + 2 \in 1 .. L + 2
      BY <2>1, <2>6
    <3>2. w[y] = Quote /\ w[y + 1] = k /\ w[y + 2] = Quote
      BY <2>2, <2>3, <3>1
    <3>3. y = L /\ Names1(v, k)
      BY <2>1, <2>6, <3>2
    <3>4. p = e[i] - 2
      <4>1. a \in Nat /\ e[i] \in Nat /\ L \in Nat /\ e[i] + 1 = a + (L + 2) /\ a - 1 + y = p /\ y = L
        BY <1>5, <2>1, <2>2, <2>3, <3>3
      <4> QED
        BY <4>1
    <3> QED
      BY <1>12, <3>3, <3>4 DEF Hit, v, n
  <2> QED
    BY <2>1, <2>3, <2>4, <2>5, <2>6
<1>13. p < K \/ p = K \/ (K < p /\ p < a) \/ a <= p
  BY <1>5, <1>7
<1> QED
  BY <1>8, <1>9, <1>10, <1>11, <1>12, <1>13

LEMMA HitStands ==
  ASSUME NEW fields, NEW values, NEW gap, Message(fields, values, gap),
         NEW T, NEW e, Laid(T, fields, values, gap, e), NEW k \in Keys,
         NEW i \in 1 .. Len(fields), NEW p, Hit(fields, values, e, k, i, p)
  PROVE  /\ p \in 1 .. Len(T) - 2 /\ T[p] = Quote /\ T[p + 1] = k /\ T[p + 2] = Quote
         /\ KeyAt(e, i) <= p /\ p <= e[i]
<1> DEFINE K == KeyAt(e, i)
           a == ValueAt(e, gap, i)
           v == values[fields[i]]
           E == EscapeJsonString(v)
           w == Quoted(E)
           L == Len(E)
<1>1. Placed(T, fields, values, gap, e, i)
  BY PlacedFacts
<1>2. /\ K \in Nat /\ K >= 2 /\ Len(gap) \in Nat /\ a = K + 4 + Len(gap)
      /\ e[i] \in Nat /\ a <= e[i] /\ e[i] < Len(T) /\ Len(T) \in Nat
      /\ T[K] = Quote /\ T[K + 1] = fields[i] /\ T[K + 2] = Quote /\ v \in Seq(Symbols)
      /\ fields[i] \notin Numbers =>
           /\ Len(w) = L + 2 /\ e[i] + 1 = a + Len(w)
           /\ \A x \in 1 .. Len(w) : T[a - 1 + x] = w[x]
  BY <1>1 DEF Placed
<1>3. CASE fields[i] = k /\ p = K
  <2>1. p \in 1 .. Len(T) - 2 /\ p <= e[i]
    <3> HIDE DEF K, a
    <3> QED
      BY <1>2, <1>3
  <2> QED
    BY <1>2, <1>3, <2>1
<1>4. CASE fields[i] \notin Numbers /\ Names1(v, k) /\ p = e[i] - 2
  <2>1. L \in Nat /\ L >= 1 /\ w[L] = Quote /\ w[L + 1] = k
    <3>1. E = EscapeJsonString(v) /\ w = Quoted(E)
      OBVIOUS
    <3>2. v \in Seq(Symbols) /\ Names1(v, k)
      BY <1>2, <1>4
    <3> HIDE DEF E, w, v
    <3>3. Len(E) \in Nat /\ (Names1(v, k) => Len(E) >= 1 /\ w[Len(E)] = Quote /\ w[Len(E) + 1] = k)
      BY <3>1, <3>2, NamedAtEnd
    <3> QED
      BY <3>2, <3>3
  <2>2. w[L + 2] = Quote
    <3>1. E \in Seq(Symbols)
      BY <1>2, <1>4, EscapedExists DEF Escaped
    <3> HIDE DEF E
    <3> QED
      BY <3>1, QuotedFacts
  <2>3. e[i] + 1 = a + (L + 2) /\ \A x \in 1 .. L + 2 : T[a - 1 + x] = w[x]
    BY <1>2, <1>4
  <2> HIDE DEF K, a, w, L
  <2>4. a - 1 + L = p /\ a - 1 + (L + 1) = p + 1 /\ a - 1 + (L + 2) = p + 2
        /\ L \in 1 .. L + 2 /\ L + 1 \in 1 .. L + 2 /\ L + 2 \in 1 .. L + 2
        /\ p \in 1 .. Len(T) - 2 /\ K <= p /\ p <= e[i]
    <3>1. a \in Nat /\ e[i] \in Nat /\ e[i] + 1 = a + (L + 2) /\ p = e[i] - 2 /\ L >= 1 /\ L \in Nat
          /\ K <= a /\ K \in Nat /\ K >= 1 /\ e[i] < Len(T) /\ Len(T) \in Nat
      <4>1. K \in Nat /\ K >= 2 /\ Len(gap) \in Nat /\ a = K + 4 + Len(gap)
        BY <1>2
      <4>2. a \in Nat /\ K <= a /\ K >= 1
        BY <4>1
      <4> QED
        BY <1>2, <1>4, <2>1, <2>3, <4>1, <4>2
    <3> QED
      BY <3>1
  <2>5. T[p] = Quote /\ T[p + 1] = k /\ T[p + 2] = Quote
    BY <2>1, <2>2, <2>3, <2>4
  <2> QED
    BY <2>4, <2>5 DEF K
<1> QED
  BY <1>3, <1>4 DEF Hit

LEMMA MinFacts ==
  ASSUME NEW S \in SUBSET Nat, S # {}
  PROVE  Min(S) \in S /\ \A x \in S : Min(S) <= x
<1>1. \E m \in S : \A x \in S : m <= x
  BY LeastNumber
<1> QED
  BY <1>1 DEF Min

LEMMA MinIs ==
  ASSUME NEW S \in SUBSET Nat, NEW m \in S, \A x \in S : m <= x
  PROVE  Min(S) = m
<1>1. Min(S) \in S /\ Min(S) <= m /\ m <= Min(S)
  BY MinFacts
<1>2. Min(S) \in Nat /\ m \in Nat
  BY <1>1
<1> QED
  BY <1>1, <1>2

(* The fields with which the key k is found, by their place.               *)
Hits(fields, values, k) ==
  {i \in DOMAIN fields :
     fields[i] = k \/ (fields[i] \notin Numbers /\ Names1(values[fields[i]], k))}

LEMMA FieldOrder ==
  ASSUME NEW fields, NEW values, NEW gap, Message(fields, values, gap),
         NEW T, NEW e, Laid(T, fields, values, gap, e),
         NEW i \in 1 .. Len(fields), NEW j \in 1 .. Len(fields), i < j
  PROVE  e[i] < KeyAt(e, j)
<1>1. Len(fields) \in Nat
  BY LenProperties DEF Message
<1>2. i \in 0 .. Len(fields) /\ j - 1 \in i .. Len(fields)
  BY <1>1
<1>3. e[i] <= e[j - 1]
  BY <1>2 DEF Laid
<1>4. e[j - 1] < KeyAt(e, j) /\ e[j - 1] \in Nat /\ KeyAt(e, j) \in Nat
  BY PlacedFacts DEF Placed
<1>5. e[i] \in Nat
  BY <1>2 DEF Laid
<1> QED
  BY <1>3, <1>4, <1>5

LEMMA QuotedAt ==
  ASSUME NEW T \in Seq(Symbols), NEW k \in Keys, NEW p \in 1 .. Len(T) - 2
  PROVE  SubSeq(T, p, p + 2) = Quoted(<<k>>) <=> T[p] = Quote /\ T[p + 1] = k /\ T[p + 2] = Quote
<1>1. Len(T) \in Nat /\ k \in Symbols
  BY LenProperties, KeySigns
<1>2. <<k>> \in Seq(Symbols) /\ Len(<<k>>) = 1 /\ <<k>>[1] = k
  BY <1>1, OneFacts
<1> DEFINE q == Quoted(<<k>>)
           a == SubSeq(T, p, p + 2)
<1>3. q \in Seq(Symbols) /\ Len(q) = 3 /\ q[1] = Quote /\ q[2] = k /\ q[3] = Quote
  <2> DEFINE b == <<k>>
  <2>1. b \in Seq(Symbols) /\ Len(b) = 1 /\ b[1] = k
    BY <1>2
  <2> HIDE DEF b
  <2>2. /\ Quoted(b) \in Seq(Symbols) /\ Len(Quoted(b)) = Len(b) + 2
        /\ Quoted(b)[1] = Quote /\ Quoted(b)[Len(b) + 2] = Quote
        /\ \A x \in 1 .. Len(b) : Quoted(b)[1 + x] = b[x]
    BY <2>1, QuotedFacts
  <2>3. Quoted(b)[2] = k /\ Quoted(b)[3] = Quote /\ Len(Quoted(b)) = 3
    BY <2>1, <2>2
  <2> QED
    BY <2>2, <2>3 DEF b
<1>4. a \in Seq(Symbols) /\ Len(a) = 3 /\ a[1] = T[p] /\ a[2] = T[p + 1] /\ a[3] = T[p + 2]
  <2>1. p \in 1 .. Len(T) /\ p + 2 \in 1 .. Len(T) /\ p + 2 - p + 1 = 3
        /\ p + 1 - 1 = p /\ p + 2 - 1 = p + 1 /\ p + 3 - 1 = p + 2
    BY <1>1
  <2> DEFINE r == p + 2
  <2>2. r \in 1 .. Len(T) /\ r \in 0 .. Len(T) /\ r - p + 1 = 3 /\ p \in 1 .. Len(T) + 1
    BY <1>1, <2>1
  <2> HIDE DEF r
  <2>3. SubSeq(T, p, r) \in Seq(Symbols) /\ Len(SubSeq(T, p, r)) = 3
        /\ \A x \in 1 .. 3 : SubSeq(T, p, r)[x] = T[p + x - 1]
    <3>1. \A x \in p .. r : T[x] \in Symbols
      <4>1. \A x \in p .. r : x \in 1 .. Len(T)
        BY <1>1, <2>1, <2>2
      <4> QED
        BY <4>1, ElementOfSeq
    <3> QED
      BY <1>1, <2>1, <2>2, <3>1, SubSeqProperties
  <2> QED
    BY <2>1, <2>3 DEF r
<1> HIDE DEF q, a
<1>5. ASSUME a[1] = q[1], a[2] = q[2], a[3] = q[3] PROVE a = q
  <2>1. \A x \in 1 .. 3 : x = 1 \/ x = 2 \/ x = 3
    OBVIOUS
  <2>2. \A x \in 1 .. Len(a) : a[x] = q[x]
    BY <1>4, <1>5, <2>1
  <2> QED
    BY <1>3, <1>4, <2>2, SeqEqual
<1>6. a = q <=> T[p] = Quote /\ T[p + 1] = k /\ T[p + 2] = Quote
  BY <1>3, <1>4, <1>5
<1> QED
  BY <1>6 DEF a, q

LEMMA KeyFound ==
  ASSUME NEW fields, NEW values, NEW gap, Message(fields, values, gap),
         NEW T, NEW e, Laid(T, fields, values, gap, e), NEW k \in Keys
  PROVE  LET hits == Hits(fields, values, k)
             i == Min(hits)
         IN  /\ hits = {} => FindKey(T, k) = 0
             /\ hits # {} => /\ i \in hits /\ i \in 1 .. Len(fields)
                             /\ FindKey(T, k) = IF fields[i] = k THEN KeyAt(e, i) ELSE e[i] - 2
                             /\ Hit(fields, values, e, k, i, FindKey(T, k))
<1> DEFINE hits == Hits(fields, values, k)
           i == Min(hits)
           P == {p \in 1 .. Len(T) - 2 : SubSeq(T, p, p + 2) = Quoted(<<k>>)}
           q == IF fields[i] = k THEN KeyAt(e, i) ELSE e[i] - 2
<1>1. FindKey(T, k) = First1(P)
  BY DEF FindKey
<1>2. Len(fields) \in Nat /\ DOMAIN fields = 1 .. Len(fields) /\ T \in Seq(Symbols) /\ Len(T) \in Nat
  <2>1. T \in Seq(Symbols)
    BY DEF Laid
  <2> QED
    BY <2>1, LenProperties DEF Message
<1>3. ASSUME NEW p \in P PROVE \E j \in 1 .. Len(fields) : Hit(fields, values, e, k, j, p)
  <2>1. p \in 1 .. Len(T) - 2 /\ T[p] = Quote /\ T[p + 1] = k /\ T[p + 2] = Quote
    BY <1>2, QuotedAt
  <2> QED
    BY <2>1, KeyStands
<1>4. ASSUME NEW j \in 1 .. Len(fields), NEW p, Hit(fields, values, e, k, j, p) PROVE p \in P
  <2>1. p \in 1 .. Len(T) - 2 /\ T[p] = Quote /\ T[p + 1] = k /\ T[p + 2] = Quote
    BY <1>4, HitStands
  <2>2. SubSeq(T, p, p + 2) = Quoted(<<k>>)
    BY <1>2, <2>1, QuotedAt
  <2> QED
    BY <2>1, <2>2
<1>5. ASSUME NEW j \in 1 .. Len(fields), NEW p, Hit(fields, values, e, k, j, p) PROVE j \in hits
  BY <1>2, <1>5 DEF Hit, Hits
<1>6. P \in SUBSET Nat /\ hits \in SUBSET Nat /\ hits \subseteq 1 .. Len(fields)
  <2>1. hits \subseteq 1 .. Len(fields)
    BY <1>2 DEF Hits
  <2> QED
    BY <1>2, <2>1
<1> HIDE DEF P
<1>7. ASSUME hits = {} PROVE FindKey(T, k) = 0
  <2>1. P = {}
    BY <1>3, <1>5, <1>7
  <2> QED
    BY <1>1, <2>1 DEF First1
<1>8. ASSUME hits # {}
      PROVE  i \in hits /\ i \in 1 .. Len(fields) /\ FindKey(T, k) = q /\ Hit(fields, values, e, k, i, q)
  <2>1. i \in hits /\ i \in 1 .. Len(fields) /\ \A j \in hits : i <= j
    <3> HIDE DEF hits
    <3> QED
      BY <1>6, <1>8, MinFacts
  <2>2. Hit(fields, values, e, k, i, q)
    <3>1. fields[i] = k \/ (fields[i] \notin Numbers /\ Names1(values[fields[i]], k))
      BY <2>1 DEF Hits
    <3> HIDE DEF i
    <3> QED
      BY <3>1 DEF Hit
  <2>3. q \in P
    BY <1>4, <2>1, <2>2
  <2> HIDE DEF i, hits
  <2>4. ASSUME NEW p \in P PROVE q <= p
    <3>1. PICK j \in 1 .. Len(fields) : Hit(fields, values, e, k, j, p)
      BY <1>3
    <3>2. i <= j /\ i \in Nat /\ j \in Nat
      BY <1>5, <1>6, <2>1, <3>1
    <3>3. /\ KeyAt(e, i) <= q /\ q <= e[i] /\ KeyAt(e, j) <= p
      BY <2>1, <2>2, <3>1, HitStands
    <3>4. /\ e[i] \in Nat /\ KeyAt(e, i) \in Nat /\ KeyAt(e, j) \in Nat
      BY <2>1, PlacedFacts DEF Placed
    <3>5. p \in Nat /\ q \in Nat
      BY <1>6, <2>3
    <3>6. CASE i = j
      <4>1. CASE fields[i] = k
        BY <3>3, <3>6, <4>1
      <4>2. CASE fields[i] # k
        <5>1. p = e[i] - 2
          BY <3>1, <3>6, <4>2 DEF Hit
        <5> QED
          BY <3>5, <4>2, <5>1
      <4> QED
        BY <4>1, <4>2
    <3>7. CASE i # j
      <4>1. i < j
        BY <3>2, <3>7
      <4>2. e[i] < KeyAt(e, j)
        BY <2>1, <4>1, FieldOrder
      <4> HIDE DEF q
      <4> QED
        BY <3>3, <3>4, <3>5, <4>2
    <3> QED
      BY <3>6, <3>7
  <2> HIDE DEF q
  <2>5. Min(P) = q /\ P # {}
    BY <1>6, <2>3, <2>4, MinIs
  <2>6. FindKey(T, k) = q
    BY <1>1, <2>5 DEF First1
  <2> QED
    BY <2>1, <2>2, <2>6
<1> QED
  BY <1>7, <1>8

-----------------------------------------------------------------------------
(* What is found under a key.                                              *)

LEMMA ColonFound ==
  ASSUME NEW T \in Seq(Symbols), NEW key \in Nat
  PROVE  LET colons == {x \in key .. Len(T) : T[x] = Colon}
             colon == Min(colons)
         IN  FindValueStart(T, key) =
               IF key = 0 \/ colons = {} THEN 0
               ELSE Min({x \in colon + 1 .. Len(T) + 1 : x > Len(T) \/ T[x] # Space})
<1> DEFINE colons == {x \in key .. Len(T) : T[x] = Colon}
           V(c) == {x \in c + 1 .. Len(T) + 1 : x > Len(T) \/ T[x] # Space}
<1>1. FindValueStart(T, key) = IF key = 0 \/ First1(colons) = 0 THEN 0 ELSE Min(V(First1(colons)))
  BY DEF FindValueStart, Colon
<1>2. CASE key = 0
  BY <1>1, <1>2
<1>3. CASE key # 0 /\ colons = {}
  <2>1. First1(colons) = 0
    BY <1>3 DEF First1
  <2> QED
    BY <1>1, <1>3, <2>1
<1>4. CASE key # 0 /\ colons # {}
  <2>1. colons \in SUBSET Nat /\ 0 \notin colons
    <3>1. Len(T) \in Nat
      BY LenProperties
    <3> QED
      BY <1>4, <3>1
  <2> HIDE DEF colons, V
  <2>2. First1(colons) = Min(colons)
    BY <1>4 DEF First1
  <2>3. Min(colons) # 0
    BY <1>4, <2>1, MinFacts
  <2>4. FindValueStart(T, key) = Min(V(Min(colons)))
    BY <1>1, <1>4, <2>2, <2>3
  <2> QED
    BY <1>4, <2>4 DEF colons, V
<1> QED
  BY <1>2, <1>3, <1>4

LEMMA NoValue ==
  ASSUME NEW T \in Seq(Symbols), NEW key \in Nat, \A x \in key .. Len(T) : T[x] # Colon
  PROVE  FindValueStart(T, key) = 0
BY ColonFound

LEMMA ValueFound ==
  ASSUME NEW fields, NEW values, NEW gap, Message(fields, values, gap),
         NEW T, NEW e, Laid(T, fields, values, gap, e), NEW i \in 1 .. Len(fields),
         NEW key \in 1 .. KeyAt(e, i) + 3, \A x \in key .. KeyAt(e, i) + 2 : T[x] # Colon
  PROVE  FindValueStart(T, key) = ValueAt(e, gap, i)
<1> DEFINE K == KeyAt(e, i)
           a == ValueAt(e, gap, i)
           g == Len(gap)
           n == Len(T)
           c == K + 3
           colons == {x \in key .. n : T[x] = Colon}
           V == {x \in c + 1 .. n + 1 : x > n \/ T[x] # Space}
<1>1. Placed(T, fields, values, gap, e, i) /\ T \in Seq(Symbols)
  BY PlacedFacts DEF Laid
<1>2. /\ K \in Nat /\ g \in Nat /\ a = K + 4 + g
      /\ e[i] \in Nat /\ a <= e[i] /\ e[i] < n /\ n \in Nat
      /\ T[K + 3] = Colon /\ \A x \in 1 .. g : T[K + 3 + x] = Space
      /\ T[a] = "2" \/ T[a] = Quote
  BY <1>1 DEF Placed, StandsAt
<1>3. key \in Nat /\ key # 0 /\ key <= K + 3
  BY <1>2
<1>4. FindValueStart(T, key) =
         IF key = 0 \/ colons = {} THEN 0
         ELSE Min({x \in Min(colons) + 1 .. n + 1 : x > n \/ T[x] # Space})
  BY <1>1, <1>3, ColonFound
<1>5. \A x \in key .. K + 2 : T[x] # Colon
  OBVIOUS
<1> HIDE DEF K, a, g, n
<1>6. colons # {} /\ Min(colons) = c
  <2>1. c \in colons
    BY <1>2, <1>3
  <2>2. colons \in SUBSET Nat
    BY <1>2, <1>3
  <2>3. ASSUME NEW x \in colons PROVE c <= x
    <3>1. x \in key .. n /\ x \notin key .. K + 2
      BY <1>5
    <3> QED
      BY <1>2, <1>3, <3>1
  <2> HIDE DEF colons
  <2> QED
    BY <2>1, <2>2, <2>3, MinIs
<1>7. Min(V) = a
  <2>1. a \in V
    <3>1. T[a] # Space
      BY <1>2, Signs
    <3> QED
      BY <1>2, <3>1
  <2>2. V \in SUBSET Nat
    BY <1>2
  <2>3. ASSUME NEW x \in V PROVE a <= x
    <3>1. SUFFICES ASSUME x < a PROVE FALSE
      BY <1>2, <2>2
    <3>2. x - (K + 3) \in 1 .. g /\ K + 3 + (x - (K + 3)) = x /\ ~(x > n)
      <4>1. x \in c + 1 .. n + 1
        OBVIOUS
      <4> QED
        BY <1>2, <3>1, <4>1
    <3>3. T[x] = Space
      BY <1>2, <3>2
    <3> QED
      BY <3>2, <3>3
  <2> HIDE DEF V
  <2> QED
    BY <2>1, <2>2, <2>3, MinIs
<1> QED
  BY <1>3, <1>4, <1>6, <1>7 DEF a, n

(* The value that is found under a key.                                    *)
LEMMA ValueStart ==
  ASSUME NEW fields, NEW values, NEW gap, Message(fields, values, gap),
         NEW T, NEW e, Laid(T, fields, values, gap, e), NEW k \in Keys
  PROVE  LET i == Field(fields, values, k)
             at == FindValueStart(T, FindKey(T, k))
         IN  /\ i = 0 => at = 0
             /\ i # 0 => i \in 1 .. Len(fields) /\ at = ValueAt(e, gap, i)
<1> DEFINE hits == Hits(fields, values, k)
           m == Min(hits)
           i == Field(fields, values, k)
           key == FindKey(T, k)
           n == Len(fields)
<1>1. i = IF hits = {} THEN 0
          ELSE IF fields[m] = k THEN m
          ELSE IF m < n THEN m + 1 ELSE 0
  BY DEF Field, Hits
<1>2. /\ hits = {} => key = 0
      /\ hits # {} => /\ m \in 1 .. n
                      /\ key = IF fields[m] = k THEN KeyAt(e, m) ELSE e[m] - 2
                      /\ Hit(fields, values, e, k, m, key)
  BY KeyFound
<1>3. n \in Nat /\ T \in Seq(Symbols) /\ Len(T) \in Nat
  <2>1. T \in Seq(Symbols)
    BY DEF Laid
  <2> QED
    BY <2>1, LenProperties DEF Message
<1>s. Quote # Colon /\ k # Colon /\ Comma # Colon /\ Shut # Colon /\ \A f \in Keys : f # Colon
  BY KeySigns, Signs
<1> HIDE DEF hits, m, i, key, n
<1>4. CASE hits = {}
  <2>1. FindValueStart(T, 0) = 0
    <3>1. 0 \in Nat
      OBVIOUS
    <3> QED
      BY <1>3, <3>1, ColonFound
  <2> QED
    BY <1>1, <1>2, <1>4, <2>1 DEF i, key
<1>5. ASSUME hits # {}
      PROVE  /\ m \in 1 .. n /\ m \in Nat
             /\ key \in 1 .. Len(T) - 2 /\ T[key] = Quote /\ T[key + 1] = k /\ T[key + 2] = Quote
  BY <1>2, <1>5, HitStands DEF n
<1>6. CASE hits # {} /\ fields[m] = k
  <2>1. KeyAt(e, m) \in Nat /\ key = KeyAt(e, m) /\ key >= 1 /\ key \in Nat
    <3>1. m \in 1 .. n /\ key = KeyAt(e, m)
      BY <1>2, <1>5, <1>6
    <3>2. Placed(T, fields, values, gap, e, m)
      BY <3>1, PlacedFacts DEF n
    <3>3. KeyAt(e, m) \in Nat /\ KeyAt(e, m) >= 2
      BY <3>2 DEF Placed
    <3> QED
      BY <3>1, <3>3
  <2>2. key \in 1 .. KeyAt(e, m) + 3 /\ \A x \in key .. KeyAt(e, m) + 2 : x = key \/ x = key + 1 \/ x = key + 2
    BY <2>1
  <2>3. FindValueStart(T, key) = ValueAt(e, gap, m)
    BY <1>5, <1>6, <1>s, <2>2, ValueFound DEF n
  <2>4. i = m /\ m # 0
    BY <1>1, <1>5, <1>6
  <2>5. i # 0 /\ i \in 1 .. n /\ FindValueStart(T, key) = ValueAt(e, gap, i)
    BY <1>5, <1>6, <2>3, <2>4
  <2> QED
    BY <2>5 DEF i, key, n
<1>7. CASE hits # {} /\ fields[m] # k
  <2>1. e[m] \in Nat /\ key = e[m] - 2 /\ key \in Nat /\ key >= 1
    <3>1. m \in 1 .. n /\ key = e[m] - 2 /\ key \in 1 .. Len(T) - 2
      BY <1>2, <1>5, <1>7
    <3>2. Placed(T, fields, values, gap, e, m)
      BY <3>1, PlacedFacts DEF n
    <3>3. e[m] \in Nat
      BY <3>2 DEF Placed
    <3> QED
      BY <1>3, <3>1, <3>3
  <2>2. T[e[m] - 2] = Quote /\ T[e[m] - 1] = k /\ T[e[m]] = Quote
    <3>1. key = e[m] - 2 /\ key + 1 = e[m] - 1 /\ key + 2 = e[m]
      BY <2>1
    <3> QED
      BY <1>5, <1>7, <3>1
  <2>3. CASE m = n
    <3>1. Len(T) = e[m] + 1 /\ T[e[m] + 1] = Shut
      BY <1>5, <1>7, <2>3, AfterValue DEF n
    <3>2. \A x \in key .. Len(T) : x = e[m] - 2 \/ x = e[m] - 1 \/ x = e[m] \/ x = e[m] + 1
      BY <2>1, <3>1
    <3>3. FindValueStart(T, key) = 0
      BY <1>3, <1>s, <2>1, <2>2, <3>1, <3>2, NoValue
    <3>4. i = 0
      BY <1>1, <1>3, <1>7, <2>3
    <3> QED
      BY <3>3, <3>4 DEF i, key
  <2>4. CASE m # n
    <3> DEFINE j == m + 1
               K == KeyAt(e, j)
    <3>1. j \in 1 .. n /\ K = e[m] + 2 /\ T[e[m] + 1] = Comma
      BY <1>5, <1>7, <2>4, AfterValue DEF n
    <3>2. T[K] = Quote /\ T[K + 1] = fields[j] /\ T[K + 2] = Quote /\ fields[j] \in Keys
      BY <3>1, PlacedFacts DEF Placed, n
    <3> HIDE DEF j, K
    <3>3. \A x \in key .. K + 2 : \/ x = e[m] - 2 \/ x = e[m] - 1 \/ x = e[m] \/ x = e[m] + 1
                                  \/ x = K \/ x = K + 1 \/ x = K + 2
      BY <2>1, <3>1
    <3>4. \A x \in key .. K + 2 : T[x] # Colon
      BY <1>s, <2>2, <3>1, <3>2, <3>3
    <3>5. key \in 1 .. K + 3
      BY <2>1, <3>1
    <3>6. FindValueStart(T, key) = ValueAt(e, gap, j)
      BY <3>1, <3>4, <3>5, ValueFound DEF K, n
    <3>7. i = j /\ j # 0
      <4>1. m < n /\ m + 1 # 0
        BY <1>3, <1>5, <1>7, <2>4
      <4> QED
        BY <1>1, <1>7, <4>1 DEF j
    <3> QED
      BY <3>1, <3>6, <3>7 DEF i, key, n
  <2> QED
    BY <2>3, <2>4
<1> QED
  BY <1>4, <1>6, <1>7

LEMMA NumberSigns ==
  /\ "2" \in NumberChars /\ Quote \notin NumberChars /\ Comma \notin NumberChars /\ Shut \notin NumberChars
BY DEF NumberChars, Quote, Comma, Shut

(* Under a key is read what the field says that is found there.            *)
LEMMA ToldIsRead ==
  ASSUME NEW fields, NEW values, NEW gap, Message(fields, values, gap),
         NEW T, NEW e, Laid(T, fields, values, gap, e), NEW k \in Keys
  PROVE  /\ k \notin Numbers => ExtractJsonString(T, k) = Told(fields, values, k)
         /\ k \in Numbers => ExtractJsonNumber(T, k) = Told(fields, values, k)
<1> DEFINE i == Field(fields, values, k)
           at == FindValueStart(T, FindKey(T, k))
           end(a) == Min({x \in a .. Len(T) + 1 : x > Len(T) \/ T[x] \notin NumberChars})
<1>1. /\ i = 0 => at = 0
      /\ i # 0 => i \in 1 .. Len(fields) /\ at = ValueAt(e, gap, i)
  BY ValueStart
<1>2. Told(fields, values, k) =
        IF i # 0 /\ (fields[i] \in Numbers <=> k \in Numbers) THEN values[fields[i]]
        ELSE IF k \in Numbers THEN Default[k] ELSE <<>>
  BY DEF Told
<1>3. ExtractJsonString(T, k) = ParseJsonStringValue(T, at)
  BY DEF ExtractJsonString
<1>4. ExtractJsonNumber(T, k) = IF at = 0 \/ end(at) = at THEN Default[k] ELSE SubSeq(T, at, end(at) - 1)
  BY DEF ExtractJsonNumber
<1>5. T \in Seq(Symbols) /\ Len(T) \in Nat
  <2>1. T \in Seq(Symbols)
    BY DEF Laid
  <2> QED
    BY <2>1, LenProperties
<1>6. ~StringAt(T, at) => ParseJsonStringValue(T, at) = <<>>
  BY DEF ParseJsonStringValue
<1>7. ASSUME i # 0
      PROVE  LET v == values[fields[i]]
             IN  /\ at \in Nat /\ at # 0 /\ at < Len(T) /\ v \in Seq(Symbols)
                 /\ fields[i] \in Numbers => e[i] = at /\ T[at] = "2" /\ v = <<"2">>
                 /\ fields[i] \notin Numbers => StandsAt(T, at, v) /\ T[at] = Quote
                 /\ T[e[i] + 1] = Comma \/ T[e[i] + 1] = Shut
  <2>1. i \in 1 .. Len(fields) /\ at = ValueAt(e, gap, i)
    BY <1>1, <1>7
  <2> HIDE DEF i, at
  <2>2. Placed(T, fields, values, gap, e, i)
    BY <2>1, PlacedFacts
  <2>3. T[e[i] + 1] = Comma \/ T[e[i] + 1] = Shut
    BY <2>1, AfterValue
  <2>4. /\ KeyAt(e, i) \in Nat /\ Len(gap) \in Nat /\ at = KeyAt(e, i) + 4 + Len(gap)
        /\ at <= e[i] /\ e[i] \in Nat /\ e[i] < Len(T)
        /\ values[fields[i]] \in Seq(Symbols)
    BY <2>1, <2>2 DEF Placed
  <2>5. at \in Nat /\ at # 0 /\ at < Len(T)
    BY <1>5, <2>4
  <2>6. fields[i] \in Numbers => e[i] = at /\ T[at] = "2" /\ values[fields[i]] = <<"2">>
    BY <2>1, <2>2 DEF Placed
  <2>7. fields[i] \notin Numbers => StandsAt(T, at, values[fields[i]]) /\ T[at] = Quote
    BY <2>1, <2>2 DEF Placed, StandsAt
  <2> QED
    BY <2>3, <2>4, <2>5, <2>6, <2>7
<1> HIDE DEF i, at, end
<1>8. ASSUME k \notin Numbers PROVE ExtractJsonString(T, k) = Told(fields, values, k)
  <2>1. CASE i = 0
    <3>1. ~StringAt(T, at)
      BY <1>1, <2>1 DEF StringAt
    <3> QED
      BY <1>2, <1>3, <1>6, <1>8, <2>1, <3>1
  <2>2. CASE i # 0 /\ fields[i] \in Numbers
    <3>1. ~StringAt(T, at)
      BY <1>7, <2>2, Signs DEF StringAt
    <3> QED
      BY <1>2, <1>3, <1>6, <1>8, <2>2, <3>1
  <2>3. CASE i # 0 /\ fields[i] \notin Numbers
    <3>1. StandsAt(T, at, values[fields[i]]) /\ values[fields[i]] \in Seq(Symbols)
      BY <1>7, <2>3
    <3>2. ParseJsonStringValue(T, at) = values[fields[i]]
      BY <1>5, <3>1, StringReadBack
    <3> QED
      BY <1>2, <1>3, <1>8, <2>3, <3>2
  <2> QED
    BY <2>1, <2>2, <2>3
<1>9. ASSUME k \in Numbers PROVE ExtractJsonNumber(T, k) = Told(fields, values, k)
  <2>1. CASE i = 0
    BY <1>1, <1>2, <1>4, <1>9, <2>1
  <2>2. CASE i # 0 /\ fields[i] \notin Numbers
    <3>1. end(at) = at
      <4> DEFINE S == {x \in at .. Len(T) + 1 : x > Len(T) \/ T[x] \notin NumberChars}
      <4>1. at \in S /\ S \in SUBSET Nat /\ \A x \in S : at <= x
        BY <1>5, <1>7, <2>2, NumberSigns
      <4> HIDE DEF S
      <4>2. Min(S) = at
        BY <4>1, MinIs
      <4> QED
        BY <4>2 DEF S, end
    <3> QED
      BY <1>2, <1>4, <1>9, <2>2, <3>1
  <2>3. CASE i # 0 /\ fields[i] \in Numbers
    <3>1. end(at) = at + 1
      <4> DEFINE S == {x \in at .. Len(T) + 1 : x > Len(T) \/ T[x] \notin NumberChars}
      <4>1. /\ at \in Nat /\ at < Len(T) /\ T[at] \in NumberChars
            /\ T[at + 1] \notin NumberChars
        BY <1>7, <2>3, NumberSigns
      <4>2. at + 1 \in S
        BY <1>5, <4>1
      <4>3. S \in SUBSET Nat
        BY <1>5, <4>1
      <4>4. ASSUME NEW x \in S PROVE at + 1 <= x
        <5>1. x # at
          BY <1>5, <4>1
        <5> QED
          BY <1>5, <4>1, <5>1
      <4> HIDE DEF S
      <4>5. Min(S) = at + 1
        BY <4>2, <4>3, <4>4, MinIs
      <4> QED
        BY <4>5 DEF S, end
    <3>2. at \in Nat /\ at # 0 /\ at + 1 # at /\ at + 1 - 1 = at /\ at \in 1 .. Len(T) /\ T[at] = "2"
      BY <1>5, <1>7, <2>3
    <3>3. SubSeq(T, at, at) = <<"2">>
      <4>1. \A x \in at .. at : T[x] \in {"2"}
        BY <3>2
      <4>2. SubSeq(T, at, at) \in Seq({"2"}) /\ Len(SubSeq(T, at, at)) = 1
        <5>1. at \in Int /\ at <= at /\ at - at + 1 = 1
          BY <3>2
        <5> QED
          BY <4>1, <5>1, SubSeqProperties
      <4> DEFINE r == SubSeq(T, at, at)
      <4>3. r[1] = "2"
        <5>1. 1 \in 1 .. Len(r)
          BY <4>2
        <5>2. r[1] \in {"2"}
          BY <4>2, <5>1, ElementOfSeq
        <5> QED
          BY <5>2
      <4> HIDE DEF r
      <4>4. <<"2">> \in Seq({"2"}) /\ Len(<<"2">>) = 1 /\ <<"2">>[1] = "2"
        BY OneFacts
      <4>5. r \in Seq({"2"}) /\ Len(r) = 1
        BY <4>2 DEF r
      <4>6. \A x \in 1 .. Len(r) : r[x] = <<"2">>[x]
        BY <4>3, <4>4, <4>5
      <4> QED
        BY <4>4, <4>5, <4>6, SeqEqual DEF r
    <3>4. ExtractJsonNumber(T, k) = <<"2">>
      BY <1>4, <3>1, <3>2, <3>3
    <3> QED
      BY <1>2, <1>7, <1>9, <2>3, <3>4
  <2> QED
    BY <2>1, <2>2, <2>3
<1> QED
  BY <1>8, <1>9

-----------------------------------------------------------------------------
(* The message at hand.                                                    *)

Typed ==
  /\ json = [form |-> json.form, field |-> json.field, text |-> json.text]
  /\ json.form \in Forms /\ json.field \in Keys \ Numbers /\ json.text \in Seq(TextChars)

LEMMA FormFacts ==
  ASSUME NEW form \in Forms
  PROVE  Fields[form] \in Seq(Keys)
<1>1. form \in {"submit", "oldSubmit", "state", "reply", "input", "bare"}
  BY DEF Forms, Fields
<1>2. /\ "c" \in Keys /\ "v" \in Keys /\ "t" \in Keys /\ "q" \in Keys /\ "r" \in Keys /\ "a" \in Keys
      /\ "p" \in Keys /\ "f" \in Keys /\ "g" \in Keys /\ "s" \in Keys /\ "x" \in Keys /\ "d" \in Keys
      /\ "m" \in Keys /\ "h" \in Keys /\ "b" \in Keys
  BY DEF Keys, Texts, Numbers
<1>3. CASE form = "submit"
  <2>1. Fields[form] = <<"c", "v", "t", "q", "r", "a", "p">>
    BY <1>3 DEF Fields
  <2> QED
    BY <1>2, <2>1
<1>4. CASE form = "oldSubmit"
  <2>1. Fields[form] = <<"c", "v", "t", "f", "g", "a", "p">>
    BY <1>4 DEF Fields
  <2> QED
    BY <1>2, <2>1
<1>5. CASE form = "state"
  <2>1. Fields[form] = <<"v", "t", "s", "q", "r", "a", "p", "x">>
    BY <1>5 DEF Fields
  <2> QED
    BY <1>2, <2>1
<1>6. CASE form = "reply"
  <2>1. Fields[form] = <<"c", "v", "t", "s", "r", "x">>
    BY <1>6 DEF Fields
  <2> QED
    BY <1>2, <2>1
<1>7. CASE form = "input"
  <2>1. Fields[form] = <<"d", "m", "t", "h", "b">>
    BY <1>7 DEF Fields
  <2> QED
    BY <1>2, <2>1
<1>8. CASE form = "bare"
  <2>1. Fields[form] = <<>>
    BY <1>8 DEF Fields
  <2> QED
    BY <2>1, EmptySeq
<1> QED
  BY <1>1, <1>3, <1>4, <1>5, <1>6, <1>7, <1>8

LEMMA TypedInit == JsonInit => Typed
<1> SUFFICES ASSUME JsonInit PROVE Typed
  OBVIOUS
<1>1. PICK form \in Forms : json \in [form : {form}, field : Strings(form), text : {<<>>}]
  BY DEF JsonInit
<1>2. /\ json.form = form /\ json.field \in Strings(form) /\ json.text = <<>>
      /\ json = [form |-> json.form, field |-> json.field, text |-> json.text]
  BY <1>1
<1>3. Strings(form) \subseteq Keys \ Numbers
  <2>1. Fields[form] \in Seq(Keys)
    BY FormFacts
  <2>2. ToSet(Fields[form]) \subseteq Keys
    BY <2>1, LenProperties, ElementOfSeq DEF ToSet
  <2>3. {"t"} \subseteq Keys \ Numbers
    BY DEF Keys, Texts, Numbers
  <2> QED
    BY <2>2, <2>3 DEF Strings
<1>4. <<>> \in Seq(TextChars)
  BY EmptySeq
<1> QED
  BY <1>2, <1>3, <1>4 DEF Typed

LEMMA TypedStep == Typed /\ [JsonNext]_json => Typed'
<1> SUFFICES ASSUME Typed, [JsonNext]_json PROVE Typed'
  OBVIOUS
<1>1. CASE UNCHANGED json
  BY <1>1 DEF Typed
<1>2. ASSUME NEW c \in TextChars, TypeText(c) PROVE Typed'
  <2>1. json' = [json EXCEPT !.text = Append(json.text, c)]
    BY <1>2 DEF TypeText
  <2>2. /\ json'.form = json.form /\ json'.field = json.field /\ json'.text = Append(json.text, c)
        /\ json' = [form |-> json'.form, field |-> json'.field, text |-> json'.text]
    BY <2>1 DEF Typed
  <2>3. Append(json.text, c) \in Seq(TextChars)
    BY AppendProperties DEF Typed
  <2> QED
    BY <2>2, <2>3 DEF Typed
<1> QED
  BY <1>1, <1>2 DEF JsonNext

LEMMA ValuesFacts ==
  ASSUME Typed
  PROVE  /\ Values \in [Keys -> Seq(Symbols)] /\ \A k \in Numbers : Values[k] = <<"2">>
         /\ DOMAIN Usual = Keys
<1>1. Usual \in [Keys -> Seq(Symbols)] /\ \A k \in Numbers : Usual[k] = <<"2">>
  <2>1. ASSUME NEW k \in Keys
        PROVE  (IF k \in Numbers THEN <<"2">> ELSE <<"U", k>>) \in Seq(Symbols)
    <3>1. "2" \in Symbols /\ "U" \in Symbols /\ k \in Symbols
      BY KeySigns DEF Symbols
    <3>2. <<"2">> \in Seq(Symbols) /\ <<"U", k>> \in Seq(Symbols)
      BY <3>1
    <3> QED
      BY <3>2
  <2> QED
    BY <2>1 DEF Usual, Keys
<1>2. json.text \in Seq(Symbols) /\ json.field \in Keys /\ json.field \notin Numbers
  <2>1. TextChars \subseteq Symbols
    BY DEF Symbols
  <2>2. json.text \in Seq(Symbols)
    BY <2>1, SeqMonotonic DEF Typed
  <2> QED
    BY <2>2 DEF Typed
<1>3. Numbers \subseteq Keys
  BY DEF Keys
<1> QED
  BY <1>1, <1>2, <1>3 DEF Values

WrittenTexts ==
  LET fields == Fields[json.form]
  IN  [i \in DOMAIN fields |->
         IF fields[i] \in Optional[json.form] /\ Values[fields[i]] = <<>> THEN <<>> ELSE <<fields[i]>>]

LEMMA WrittenFacts ==
  ASSUME Typed
  PROVE  /\ Written = Joined(WrittenTexts)
         /\ WrittenTexts \in Seq(Seq(Keys)) /\ Len(WrittenTexts) = Len(Fields[json.form])
         /\ \A i \in 1 .. Len(WrittenTexts) :
              \/ Len(WrittenTexts[i]) = 0
              \/ Len(WrittenTexts[i]) = 1 /\ WrittenTexts[i][1] = Fields[json.form][i]
         /\ Places(Keys, WrittenTexts, Ends(WrittenTexts), Written)
<1> DEFINE f == Fields[json.form]
           t == WrittenTexts
<1>1. /\ f \in Seq(Keys) /\ Len(f) \in Nat /\ DOMAIN f = 1 .. Len(f)
      /\ \A i \in 1 .. Len(f) : f[i] \in Keys
  <2>1. f \in Seq(Keys)
    BY FormFacts DEF Typed
  <2> HIDE DEF f
  <2> QED
    BY <2>1, LenProperties, ElementOfSeq
<1>2. Written = Joined(t)
  BY DEF Written, WrittenTexts
<1>3. t = [i \in 1 .. Len(f) |-> IF f[i] \in Optional[json.form] /\ Values[f[i]] = <<>>
                                 THEN <<>> ELSE <<f[i]>>]
  BY <1>1 DEF WrittenTexts
<1> HIDE DEF f, t
<1>4. ASSUME NEW i \in 1 .. Len(f)
      PROVE  /\ t[i] \in Seq(Keys)
             /\ Len(t[i]) = 0 \/ (Len(t[i]) = 1 /\ t[i][1] = f[i])
  <2>1. t[i] = <<>> \/ t[i] = <<f[i]>>
    BY <1>3
  <2>2. <<>> \in Seq(Keys) /\ Len(<<>>) = 0
    BY EmptySeq
  <2>3. <<f[i]>> \in Seq(Keys) /\ Len(<<f[i]>>) = 1 /\ <<f[i]>>[1] = f[i]
    BY <1>1, OneFacts
  <2>4. CASE t[i] = <<>>
    BY <2>2, <2>4
  <2>5. CASE t[i] = <<f[i]>>
    BY <2>3, <2>5
  <2> QED
    BY <2>1, <2>4, <2>5
<1>5. t \in Seq(Seq(Keys)) /\ Len(t) = Len(f)
  <2>1. DOMAIN t = 1 .. Len(f) /\ t = [i \in 1 .. Len(f) |-> t[i]]
    BY <1>3
  <2>2. t \in [1 .. Len(f) -> Seq(Keys)]
    BY <1>4, <2>1
  <2>3. t \in Seq(Seq(Keys))
    <3>1. Len(f) \in Nat
      BY <1>1
    <3> QED
      BY <2>2, <3>1, SeqDef
  <2>4. DOMAIN t = 1 .. Len(t) /\ Len(t) \in Nat
    BY <2>3, LenProperties
  <2> QED
    BY <1>1, <2>1, <2>3, <2>4
<1>6. Places(Keys, t, Ends(t), Written)
  BY <1>2, <1>5, JoinedPlaces
<1> QED
  BY <1>2, <1>4, <1>5, <1>6 DEF f, t

LEMMA MessageAtHand ==
  ASSUME Typed
  PROVE  Message(Written, Values, Gap)
<1>1. Written \in Seq(Keys)
  BY WrittenFacts DEF Places
<1>2. Gap \in Seq({Space})
  <2>1. <<>> \in Seq({Space}) /\ <<Space>> \in Seq({Space})
    BY EmptySeq, OneFacts
  <2> QED
    BY <2>1 DEF Gap
<1> QED
  BY <1>1, <1>2, ValuesFacts DEF Message

LEMMA TypedReadBack == Typed => FieldsReadBack
<1> SUFFICES ASSUME Typed, NEW k \in DOMAIN Usual
             PROVE  LET told == Told(Written, Values, k)
                    IN  Parse(json.form, Text, k) =
                          IF told = <<>> /\ json.form \in {"submit", "oldSubmit"} /\ k \in DOMAIN EarlierName
                          THEN Told(Written, Values, EarlierName[k]) ELSE told
  BY DEF FieldsReadBack
<1>1. k \in Keys
  BY ValuesFacts
<1>2. Message(Written, Values, Gap)
  BY MessageAtHand
<1>3. PICK e : Laid(Text, Written, Values, Gap, e)
  BY <1>2, LaidOut DEF Text
<1>4. \A f \in Keys :
         /\ f \notin Numbers => ExtractJsonString(Text, f) = Told(Written, Values, f)
         /\ f \in Numbers => ExtractJsonNumber(Text, f) = Told(Written, Values, f)
  BY <1>2, <1>3, ToldIsRead
<1>5. k \in DOMAIN EarlierName => EarlierName[k] \in Keys /\ EarlierName[k] \notin Numbers /\ k \notin Numbers
  BY DEF EarlierName, Keys, Texts, Numbers
<1>6. CASE k \in Numbers
  BY <1>1, <1>4, <1>5, <1>6 DEF Parse
<1>7. CASE k \notin Numbers
  BY <1>1, <1>4, <1>5, <1>7 DEF Parse
<1> QED
  BY <1>6, <1>7

(* Every field of a message is read back as it was written, whatever text  *)
(* is in it, unless a value before it ends in its name in quotes.          *)
THEOREM ReadBack == JsonSpec => []FieldsReadBack
<1>1. JsonSpec => []Typed
  BY TypedInit, TypedStep, PTL DEF JsonSpec
<1> QED
  BY <1>1, TypedReadBack, PTL

-----------------------------------------------------------------------------
(* One of the texts that are put together is another.                      *)

Regrouped(a, b, c) == (a \o b) \o c = a \o (b \o c)

LEMMA Regroup ==
  ASSUME NEW S, NEW a \in Seq(S), NEW b \in Seq(S), NEW c \in Seq(S)
  PROVE  Regrouped(a, b, c)
BY ConcatAssociative DEF Regrouped

Replaced(S, t, r, j, A, B) ==
  /\ A \in Seq(S) /\ B \in Seq(S) /\ Len(A) = Ends(t)[j - 1]
  /\ Joined(t) = (A \o t[j]) \o B
  /\ Joined(r) = (A \o r[j]) \o B

LEMMA ReplacedPart ==
  ASSUME NEW S, NEW t \in Seq(Seq(S)), NEW r \in Seq(Seq(S)), Len(r) = Len(t),
         NEW j \in 1 .. Len(t), \A i \in 1 .. Len(t) : i # j => r[i] = t[i]
  PROVE  \E A, B : Replaced(S, t, r, j, A, B)
<1> DEFINE n == Len(t)
           u == Sums(t)
           w == Sums(r)
           A == u[j - 1]
<1>1. /\ n \in Nat /\ u[0] = <<>> /\ \A i \in 1 .. n : u[i] = u[i - 1] \o t[i]
      /\ \A i \in 0 .. n : u[i] \in Seq(S)
      /\ Joined(t) = u[n]
  BY JoinedFacts
<1>2. /\ w[0] = <<>> /\ \A i \in 1 .. n : w[i] = w[i - 1] \o r[i]
      /\ \A i \in 0 .. n : w[i] \in Seq(S)
      /\ Joined(r) = w[n]
  BY JoinedFacts
<1>3. \A i \in 1 .. n : t[i] \in Seq(S) /\ r[i] \in Seq(S)
  BY ElementOfSeq
<1>4. j \in 1 .. n /\ j - 1 \in 0 .. n /\ j \in 0 .. n /\ \A i \in 1 .. n : i # j => r[i] = t[i]
  BY <1>1
<1>5. Ends(t)[j - 1] = Len(A)
  BY <1>4 DEF Ends
<1> HIDE DEF n, u, w
<1> DEFINE S1 == {m \in Nat : m < j => w[m] = u[m]}
<1>6. \A m \in Nat : m \in S1
  <2>1. 0 \in S1
    BY <1>1, <1>2
  <2>2. ASSUME NEW m \in S1 PROVE m + 1 \in S1
    <3>1. SUFFICES ASSUME m + 1 < j PROVE w[m + 1] = u[m + 1]
      OBVIOUS
    <3>2. m \in Nat /\ m < j /\ m + 1 \in 1 .. n /\ m + 1 - 1 = m /\ m + 1 # j
      BY <1>1, <1>4, <3>1
    <3>3. w[m] = u[m]
      BY <3>2
    <3> QED
      <4> DEFINE k == m + 1
      <4>1. k \in 1 .. n /\ k - 1 = m /\ k # j
        BY <3>2
      <4> HIDE DEF k
      <4>2. u[k] = u[k - 1] \o t[k] /\ w[k] = w[k - 1] \o r[k] /\ r[k] = t[k]
        BY <1>1, <1>2, <1>4, <4>1
      <4>3. w[k] = u[k]
        BY <3>3, <4>1, <4>2
      <4> QED
        BY <4>3 DEF k
  <2>3. S1 \in SUBSET Nat
    OBVIOUS
  <2> HIDE DEF S1
  <2> QED
    BY <2>1, <2>2, <2>3, CountingUp
<1>7. w[j - 1] = A
  <2>1. j - 1 \in Nat /\ j - 1 < j
    BY <1>1, <1>4
  <2> QED
    BY <1>6, <2>1
<1>8. A \in Seq(S) /\ u[j] = A \o t[j] /\ w[j] = A \o r[j] /\ u[j] \in Seq(S) /\ w[j] \in Seq(S)
  BY <1>1, <1>2, <1>4, <1>7
<1> DEFINE Good(m) == m >= j /\ m <= n => \E B \in Seq(S) : u[m] = u[j] \o B /\ w[m] = w[j] \o B
           S2 == {m \in Nat : Good(m)}
<1>9. ASSUME NEW m \in Nat, Good(m) PROVE Good(m + 1)
  <2>1. SUFFICES ASSUME m + 1 >= j, m + 1 <= n
                 PROVE  \E B \in Seq(S) : u[m + 1] = u[j] \o B /\ w[m + 1] = w[j] \o B
    OBVIOUS
  <2>2. CASE m + 1 = j
    <3>1. <<>> \in Seq(S) /\ u[j] \o <<>> = u[j] /\ w[j] \o <<>> = w[j]
      BY <1>8, EmptySeq, ConcatEmptySeq
    <3> QED
      BY <2>2, <3>1
  <2>3. CASE m + 1 # j
    <3>1. m >= j /\ m <= n /\ m + 1 \in 1 .. n /\ m + 1 - 1 = m
      BY <1>1, <1>4, <2>1, <2>3
    <3>2. PICK B \in Seq(S) : u[m] = u[j] \o B /\ w[m] = w[j] \o B
      BY <1>9, <3>1
    <3> DEFINE x == t[m + 1]
    <3>3. x \in Seq(S) /\ r[m + 1] = x
      BY <1>3, <1>4, <2>3, <3>1
    <3>4. u[m + 1] = u[m] \o x /\ w[m + 1] = w[m] \o x
      <4> DEFINE k == m + 1
      <4>1. k \in 1 .. n /\ k - 1 = m /\ x = t[k] /\ r[k] = x
        BY <3>1, <3>3
      <4> HIDE DEF k, x
      <4>2. u[k] = u[k - 1] \o t[k] /\ w[k] = w[k - 1] \o r[k]
        BY <1>1, <1>2, <4>1
      <4>3. u[k] = u[m] \o x /\ w[k] = w[m] \o x
        BY <4>1, <4>2
      <4> QED
        BY <4>3 DEF k
    <3> HIDE DEF x
    <3>5. (u[j] \o B) \o x = u[j] \o (B \o x) /\ (w[j] \o B) \o x = w[j] \o (B \o x)
      <4>1. Regrouped(u[j], B, x) /\ Regrouped(w[j], B, x)
        BY <1>8, <3>3, Regroup
      <4> QED
        BY <4>1 DEF Regrouped
    <3>6. B \o x \in Seq(S)
      BY <3>3, ConcatProperties
    <3> QED
      BY <3>2, <3>4, <3>5, <3>6
  <2> QED
    BY <2>2, <2>3
<1>10. Good(0)
  BY <1>1, <1>4
<1> HIDE DEF Good
<1>11. \A m \in Nat : m \in S2
  <2>1. S2 \in SUBSET Nat /\ 0 \in S2 /\ \A m \in S2 : m + 1 \in S2
    BY <1>9, <1>10
  <2> HIDE DEF S2
  <2> QED
    BY <2>1, CountingUp
<1>12. PICK B \in Seq(S) : u[n] = u[j] \o B /\ w[n] = w[j] \o B
  <2>1. n >= j /\ n <= n
    BY <1>1, <1>4
  <2>2. Good(n)
    BY <1>1, <1>11
  <2> QED
    BY <2>1, <2>2 DEF Good
<1> HIDE DEF A
<1> QED
  BY <1>1, <1>2, <1>5, <1>8, <1>12 DEF Replaced

LEMMA SubSeqFacts ==
  ASSUME NEW S, NEW T \in Seq(S), NEW p \in 1 .. Len(T) + 1, NEW q \in 0 .. Len(T)
  PROVE  /\ SubSeq(T, p, q) \in Seq(S) /\ Len(SubSeq(T, p, q)) = IF p <= q THEN q - p + 1 ELSE 0
         /\ \A x \in 1 .. q - p + 1 : SubSeq(T, p, q)[x] = T[p + x - 1]
<1>1. Len(T) \in Nat
  BY LenProperties
<1>2. \A x \in p .. q : x \in 1 .. Len(T)
  BY <1>1
<1>3. \A x \in p .. q : T[x] \in S
  BY <1>2, ElementOfSeq
<1>4. p \in Int /\ q \in Int
  BY <1>1
<1> QED
  BY <1>3, <1>4, SubSeqProperties

(* The first and the last of three texts.                                  *)
Cut(X, Q, Y, T) ==
  SubSeq(T, 1, Len(X)) = X /\ SubSeq(T, Len(X) + Len(Q) + 1, Len(T)) = Y

LEMMA CutInThree ==
  ASSUME NEW S, NEW X \in Seq(S), NEW Q \in Seq(S), NEW Y \in Seq(S), NEW T, T = (X \o Q) \o Y
  PROVE  Cut(X, Q, Y, T)
<1> DEFINE H == X \o Q
           x == Len(X)
           h == Len(X) + Len(Q)
           y == Len(Y)
<1>1. /\ H \in Seq(S) /\ x \in Nat /\ Len(Q) \in Nat /\ Len(H) = h
      /\ \A i \in 1 .. x : H[i] = X[i]
  <2>1. Both(S, X, Q, H)
    BY BothFacts
  <2> HIDE DEF H
  <2> QED
    BY <2>1 DEF Both
<1>2. T = H \o Y
  OBVIOUS
<1> HIDE DEF H
<1>3. /\ T \in Seq(S) /\ y \in Nat /\ Len(T) = Len(H) + y
      /\ \A i \in 1 .. Len(H) : T[i] = H[i]
      /\ \A i \in 1 .. y : T[Len(H) + i] = Y[i]
  <2>1. Both(S, H, Y, T)
    BY <1>1, <1>2, BothFacts
  <2> QED
    BY <2>1 DEF Both
<1>4. /\ h \in Nat /\ x <= h /\ Len(T) = h + y
  BY <1>1, <1>3
<1>5. SubSeq(T, 1, x) = X
  <2> DEFINE a == SubSeq(T, 1, x)
  <2>1. 1 \in 1 .. Len(T) + 1 /\ x \in 0 .. Len(T)
    BY <1>1, <1>3, <1>4
  <2>2. /\ a \in Seq(S) /\ Len(a) = IF 1 <= x THEN x - 1 + 1 ELSE 0
        /\ \A i \in 1 .. x - 1 + 1 : a[i] = T[1 + i - 1]
    BY <1>3, <2>1, SubSeqFacts
  <2> HIDE DEF a
  <2>3. Len(a) = x
    BY <1>1, <2>2
  <2>4. ASSUME NEW i \in 1 .. x PROVE a[i] = X[i]
    <3>1. i \in 1 .. x - 1 + 1 /\ 1 + i - 1 = i /\ i \in 1 .. Len(H)
      BY <1>1, <1>4
    <3> QED
      BY <1>1, <1>3, <2>2, <3>1
  <2>5. a = X
    BY <2>2, <2>3, <2>4, SeqEqual
  <2> QED
    BY <2>5 DEF a
<1>6. SubSeq(T, h + 1, Len(T)) = Y
  <2> DEFINE a == SubSeq(T, h + 1, Len(T))
  <2>1. h + 1 \in 1 .. Len(T) + 1 /\ Len(T) \in 0 .. Len(T)
    BY <1>3, <1>4
  <2>2. /\ a \in Seq(S) /\ Len(a) = IF h + 1 <= Len(T) THEN Len(T) - (h + 1) + 1 ELSE 0
        /\ \A i \in 1 .. Len(T) - (h + 1) + 1 : a[i] = T[h + 1 + i - 1]
    BY <1>3, <2>1, SubSeqFacts
  <2> HIDE DEF a
  <2>3. Len(a) = y
    BY <1>3, <1>4, <2>2
  <2>4. ASSUME NEW i \in 1 .. y PROVE a[i] = Y[i]
    <3>1. i \in 1 .. Len(T) - (h + 1) + 1 /\ h + 1 + i - 1 = Len(H) + i
      BY <1>1, <1>3, <1>4
    <3> QED
      BY <1>3, <2>2, <3>1
  <2>5. a = Y
    BY <2>2, <2>3, <2>4, SeqEqual
  <2> QED
    BY <2>5 DEF a
<1> QED
  BY <1>5, <1>6 DEF Cut

-----------------------------------------------------------------------------
(* Setting a field.                                                        *)

(* A part of a message, split before its value.                            *)
Before(fields, gap, i) ==
  (IF i = 1 THEN <<>> ELSE <<Comma>>) \o ((Quoted(<<fields[i]>>) \o <<Colon>>) \o gap)

IsSplit(fields, values, gap, i, pre, q) ==
  /\ pre \in Seq(Symbols) /\ q \in Seq(Symbols)
  /\ Len(pre) = Sep(i) + 4 + Len(gap) /\ Len(gap) \in Nat
  /\ Parts(fields, values, gap)[i] = pre \o q

LEMMA PartSplit ==
  ASSUME NEW fields, NEW values, NEW gap, Message(fields, values, gap),
         NEW i \in 1 .. Len(fields), fields[i] \notin Numbers
  PROVE  IsSplit(fields, values, gap, i, Before(fields, gap, i), Quoted(EscapeJsonString(values[fields[i]])))
<1> DEFINE k == fields[i]
           s == IF i = 1 THEN <<>> ELSE <<Comma>>
           b == Quoted(<<k>>)
           c == <<Colon>>
           bc == b \o c
           m == bc \o gap
           pre == s \o m
           q == Quoted(EscapeJsonString(values[k]))
<1>1. /\ k \in Keys /\ values[k] \in Seq(Symbols) /\ DOMAIN fields = 1 .. Len(fields)
  <2>1. fields \in Seq(Keys) /\ values \in [Keys -> Seq(Symbols)]
    BY DEF Message
  <2> QED
    BY <2>1, LenProperties, ElementOfSeq
<1>2. Parts(fields, values, gap)[i] = s \o (m \o q)
  BY <1>1 DEF Parts, FieldText, Comma, Colon
<1>3. s \in Seq(Symbols) /\ Len(s) = Sep(i)
  <2>1. <<>> \in Seq(Symbols) /\ Len(<<>>) = 0
    BY EmptySeq
  <2>2. <<Comma>> \in Seq(Symbols) /\ Len(<<Comma>>) = 1
    BY Signs, OneFacts
  <2> QED
    BY <2>1, <2>2 DEF Sep
<1>4. b \in Seq(Symbols) /\ Len(b) = 3
  <2> DEFINE r == <<k>>
  <2>1. r \in Seq(Symbols) /\ Len(r) = 1
    BY <1>1, KeySigns, OneFacts
  <2> HIDE DEF r
  <2>2. Quoted(r) \in Seq(Symbols) /\ Len(Quoted(r)) = Len(r) + 2
    BY <2>1, QuotedFacts
  <2>3. Len(Quoted(r)) = 3
    BY <2>1, <2>2
  <2> QED
    BY <2>2, <2>3 DEF r
<1>5. c \in Seq(Symbols) /\ Len(c) = 1
  BY Signs, OneFacts
<1>6. gap \in Seq(Symbols) /\ Len(gap) \in Nat
  <2>1. gap \in Seq({Space}) /\ {Space} \subseteq Symbols
    BY Signs DEF Message
  <2>2. gap \in Seq(Symbols)
    BY <2>1, SeqMonotonic
  <2> QED
    BY <2>2, LenProperties
<1>7. q \in Seq(Symbols)
  <2>1. EscapeJsonString(values[k]) \in Seq(Symbols)
    BY <1>1, ValFacts
  <2> QED
    BY <2>1, QuotedFacts
<1> HIDE DEF k, s, b, c, q
<1>8. bc \in Seq(Symbols) /\ Len(bc) = 4
  <2>1. bc \in Seq(Symbols) /\ Len(bc) = Len(b) + Len(c)
    BY <1>4, <1>5, ConcatProperties
  <2> QED
    BY <1>4, <1>5, <2>1
<1> HIDE DEF bc
<1>9. m \in Seq(Symbols) /\ Len(m) = 4 + Len(gap)
  <2>1. m \in Seq(Symbols) /\ Len(m) = Len(bc) + Len(gap)
    BY <1>6, <1>8, ConcatProperties
  <2> QED
    BY <1>8, <2>1
<1> HIDE DEF m
<1>10. pre \in Seq(Symbols) /\ Len(pre) = Sep(i) + 4 + Len(gap)
  <2>1. pre \in Seq(Symbols) /\ Len(pre) = Len(s) + Len(m)
    BY <1>3, <1>9, ConcatProperties
  <2>2. Sep(i) + (4 + Len(gap)) = Sep(i) + 4 + Len(gap)
    BY <1>6 DEF Sep
  <2> QED
    BY <1>3, <1>9, <2>1, <2>2
<1>11. s \o (m \o q) = pre \o q
  <2>1. Regrouped(s, m, q)
    BY <1>3, <1>7, <1>9, Regroup
  <2> QED
    BY <2>1 DEF Regrouped
<1> QED
  <2>1. IsSplit(fields, values, gap, i, pre, q)
    BY <1>2, <1>6, <1>7, <1>10, <1>11 DEF IsSplit
  <2> QED
    BY <2>1 DEF pre, m, bc, k, s, b, c, q, Before

Pieces(S, h, A, p, q, B, z) ==
  LET X == h \o (A \o p)
      Y == B \o z
  IN  /\ X \in Seq(S) /\ Y \in Seq(S) /\ Len(X) = Len(h) + Len(A) + Len(p)
      /\ (h \o ((A \o (p \o q)) \o B)) \o z = (X \o q) \o Y

LEMMA FivePieces ==
  ASSUME NEW S, NEW h \in Seq(S), NEW A \in Seq(S), NEW p \in Seq(S), NEW q \in Seq(S),
         NEW B \in Seq(S), NEW z \in Seq(S)
  PROVE  Pieces(S, h, A, p, q, B, z)
<1> DEFINE a == A \o p
           X == h \o a
           Y == B \o z
<1>1. /\ a \in Seq(S) /\ X \in Seq(S) /\ Y \in Seq(S) /\ p \o q \in Seq(S) /\ a \o q \in Seq(S)
      /\ (a \o q) \o B \in Seq(S) /\ X \o q \in Seq(S)
      /\ Len(h) \in Nat /\ Len(A) \in Nat /\ Len(p) \in Nat
      /\ Len(a) = Len(A) + Len(p) /\ Len(X) = Len(h) + Len(a)
  <2>1. a \in Seq(S) /\ Len(a) = Len(A) + Len(p)
    BY ConcatProperties
  <2> HIDE DEF a
  <2>2. X \in Seq(S) /\ Y \in Seq(S) /\ p \o q \in Seq(S) /\ a \o q \in Seq(S) /\ Len(X) = Len(h) + Len(a)
    BY <2>1, ConcatProperties
  <2>3. (a \o q) \o B \in Seq(S) /\ X \o q \in Seq(S)
    <3> DEFINE aq == a \o q
    <3>1. aq \in Seq(S)
      BY <2>2
    <3> HIDE DEF aq, X
    <3>2. aq \o B \in Seq(S) /\ X \o q \in Seq(S)
      BY <2>2, <3>1, ConcatProperties
    <3> QED
      BY <3>2 DEF aq, X
  <2> QED
    BY <2>1, <2>2, <2>3, LenProperties
<1>2. A \o (p \o q) = a \o q
  <2>1. Regrouped(A, p, q)
    BY Regroup
  <2> QED
    BY <2>1 DEF Regrouped
<1> HIDE DEF a
<1>3. h \o ((a \o q) \o B) = (X \o q) \o B
  <2>1. (a \o q) \o B = a \o (q \o B)
    <3>1. Regrouped(a, q, B)
      BY <1>1, Regroup
    <3> QED
      BY <3>1 DEF Regrouped
  <2>2. q \o B \in Seq(S)
    BY ConcatProperties
  <2>3. h \o (a \o (q \o B)) = X \o (q \o B)
    <3> DEFINE c == q \o B
    <3>1. c \in Seq(S)
      BY <2>2
    <3> HIDE DEF c
    <3>2. Regrouped(h, a, c)
      BY <1>1, <3>1, Regroup
    <3> QED
      BY <3>2 DEF Regrouped, c
  <2> HIDE DEF X
  <2>4. X \o (q \o B) = (X \o q) \o B
    <3>1. Regrouped(X, q, B)
      BY <1>1, Regroup
    <3> QED
      BY <3>1 DEF Regrouped
  <2> QED
    BY <2>1, <2>3, <2>4
<1> HIDE DEF X
<1>4. ((X \o q) \o B) \o z = (X \o q) \o Y
  <2> DEFINE Xq == X \o q
  <2>1. Xq \in Seq(S)
    BY <1>1
  <2> HIDE DEF Xq
  <2>2. (Xq \o B) \o z = Xq \o Y
    <3>1. Regrouped(Xq, B, z)
      BY <2>1, Regroup
    <3> QED
      BY <3>1 DEF Regrouped
  <2> QED
    BY <2>2 DEF Xq
<1>5. Len(X) = Len(h) + Len(A) + Len(p)
  BY <1>1
<1> QED
  BY <1>1, <1>2, <1>3, <1>4, <1>5 DEF X, a, Pieces

(* Another value in its place is the message with that value.              *)
IsReplaced(fields, values, gap, i, v) ==
  LET T   == Build(fields, values, gap)
      e   == [j \in 0 .. Len(fields) |-> Ends(Parts(fields, values, gap))[j] + 1]
      at  == ValueAt(e, gap, i)
      end == FindStringEnd(T, at)
  IN  /\ end # 0
      /\ (SubSeq(T, 1, at - 1) \o Quoted(EscapeJsonString(v))) \o SubSeq(T, end + 1, Len(T))
           = Build(fields, [values EXCEPT ![fields[i]] = v], gap)

LEMMA ValueReplaced ==
  ASSUME NEW fields, NEW values, NEW gap, Message(fields, values, gap),
         NEW i \in 1 .. Len(fields), fields[i] \notin Numbers,
         \A j \in 1 .. Len(fields) : j # i => fields[j] # fields[i],
         NEW v \in Seq(Symbols)
  PROVE  IsReplaced(fields, values, gap, i, v)
<1> SUFFICES ASSUME NEW T, T = Build(fields, values, gap),
                    NEW e, e = [j \in 0 .. Len(fields) |-> Ends(Parts(fields, values, gap))[j] + 1],
                    NEW at, at = ValueAt(e, gap, i), NEW end, end = FindStringEnd(T, at)
             PROVE  /\ end # 0
                    /\ (SubSeq(T, 1, at - 1) \o Quoted(EscapeJsonString(v))) \o SubSeq(T, end + 1, Len(T))
                         = Build(fields, [values EXCEPT ![fields[i]] = v], gap)
  BY Zenon DEF IsReplaced
<1> DEFINE n == Len(fields)
           k == fields[i]
           new == [values EXCEPT ![k] = v]
           t == Parts(fields, values, gap)
           r == Parts(fields, new, gap)
           q == Quoted(EscapeJsonString(values[k]))
           q2 == Quoted(EscapeJsonString(v))
           pre == Before(fields, gap, i)
           h == <<Open>>
           z == <<Shut>>
<1>1. /\ fields \in Seq(Keys) /\ values \in [Keys -> Seq(Symbols)] /\ n \in Nat
      /\ DOMAIN fields = 1 .. n /\ \A j \in 1 .. n : fields[j] \in Keys
  BY LenProperties, ElementOfSeq DEF Message
<1>2. Message(fields, new, gap) /\ new[k] = v /\ \A j \in 1 .. n : j # i => new[fields[j]] = values[fields[j]]
  <2>1. new \in [Keys -> Seq(Symbols)] /\ new[k] = v /\ \A f \in Keys : f # k => new[f] = values[f]
    BY <1>1
  <2>2. \A f \in Numbers : f # k /\ f \in Keys
    BY DEF Keys
  <2>3. \A f \in Numbers : new[f] = <<"2">>
    BY <2>1, <2>2 DEF Message
  <2> HIDE DEF new
  <2>4. Message(fields, new, gap)
    BY <2>1, <2>3 DEF Message
  <2> QED
    BY <1>1, <2>1, <2>4
<1> HIDE DEF new
<1>3. /\ t \in Seq(Seq(Symbols)) /\ Len(t) = n /\ r \in Seq(Seq(Symbols)) /\ Len(r) = n
  BY <1>2, PartFacts
<1>4. \A j \in 1 .. n : j # i => r[j] = t[j]
  BY <1>1, <1>2 DEF Parts
<1>5. /\ pre \in Seq(Symbols) /\ q \in Seq(Symbols)
      /\ Len(pre) = Sep(i) + 4 + Len(gap) /\ Len(gap) \in Nat
      /\ t[i] = pre \o q
  BY PartSplit DEF IsSplit
<1>6. q2 \in Seq(Symbols) /\ r[i] = pre \o q2
  <2>1. IsSplit(fields, new, gap, i, Before(fields, gap, i), Quoted(EscapeJsonString(new[fields[i]])))
    BY <1>2, PartSplit
  <2> QED
    BY <1>2, <2>1 DEF IsSplit
<1>7. /\ Build(fields, values, gap) = (h \o Joined(t)) \o z
      /\ Build(fields, new, gap) = (h \o Joined(r)) \o z
  BY DEF Build, Parts, Open, Shut, Comma
<1>8. h \in Seq(Symbols) /\ Len(h) = 1 /\ z \in Seq(Symbols)
  BY Signs, OneFacts
<1>9. e[i - 1] = Ends(t)[i - 1] + 1
  <2>1. i - 1 \in 0 .. n
    BY <1>1
  <2> QED
    BY <2>1
<1>10. Laid(T, fields, values, gap, e)
  BY LaidOut
<1> HIDE DEF t, r, q, q2, pre, h, z, k, n
<1>r. PICK A, B : Replaced(Symbols, t, r, i, A, B)
  <2>1. i \in 1 .. Len(t) /\ Len(r) = Len(t)
    BY <1>3 DEF n
  <2> QED
    BY <1>3, <1>4, <2>1, ReplacedPart DEF n
<1>11. /\ A \in Seq(Symbols) /\ B \in Seq(Symbols)
       /\ Len(A) = Ends(t)[i - 1]
       /\ Joined(t) = (A \o t[i]) \o B
       /\ Joined(r) = (A \o r[i]) \o B
  BY <1>r DEF Replaced
<1> DEFINE X == h \o (A \o pre)
           Y == B \o z
<1>12. /\ X \in Seq(Symbols) /\ Y \in Seq(Symbols) /\ Len(X) = Len(h) + Len(A) + Len(pre)
       /\ (h \o ((A \o (pre \o q)) \o B)) \o z = (X \o q) \o Y
       /\ (h \o ((A \o (pre \o q2)) \o B)) \o z = (X \o q2) \o Y
  <2>1. Pieces(Symbols, h, A, pre, q, B, z) /\ Pieces(Symbols, h, A, pre, q2, B, z)
    BY <1>5, <1>6, <1>8, <1>11, FivePieces
  <2> QED
    BY <2>1 DEF Pieces
<1> HIDE DEF X, Y
<1>13. T = (X \o q) \o Y /\ Build(fields, new, gap) = (X \o q2) \o Y
  BY <1>5, <1>6, <1>7, <1>11, <1>12
<1>14. /\ at \in Nat /\ at - 1 = Len(X)
       /\ end # 0 /\ end + 1 = Len(X) + Len(q) + 1
  <2>1. Placed(T, fields, values, gap, e, i)
    BY <1>10, PlacedFacts
  <2>2. /\ StandsAt(T, at, values[fields[i]]) /\ values[fields[i]] \in Seq(Symbols)
        /\ Len(q) = Len(EscapeJsonString(values[fields[i]])) + 2
    BY <2>1 DEF Placed, q, k
  <2>3. end = at + Len(EscapeJsonString(values[fields[i]])) + 1
    BY <1>10, <2>2, StringReadBack DEF Laid
  <2>4. at \in Nat /\ Len(EscapeJsonString(values[fields[i]])) \in Nat
    <3>1. at \in 1 .. Len(T) /\ T \in Seq(Symbols)
      BY <1>10, <2>2 DEF Laid, StandsAt
    <3> QED
      BY <2>2, <3>1, LenProperties DEF StandsAt
  <2>5. at = (Ends(t)[i - 1] + 1 + 1 + Sep(i)) + 4 + Len(gap)
    BY <1>9 DEF ValueAt, KeyAt
  <2>6. Len(A) \in Nat /\ Sep(i) \in Nat
    BY LenProperties DEF Sep
  <2>7. at - 1 = Len(X)
    <3> DEFINE x == Len(X)
               y == Len(A)
               g == Len(gap)
               w == Sep(i)
    <3>1. at = (Len(A) + 1 + 1 + Sep(i)) + 4 + Len(gap) /\ Len(X) = 1 + Len(A) + (Sep(i) + 4 + Len(gap))
      BY <1>5, <1>8, <1>11, <1>12, <2>5
    <3>2. at = (y + 1 + 1 + w) + 4 + g /\ x = 1 + y + (w + 4 + g) /\ y \in Nat /\ w \in Nat /\ g \in Nat
      BY <1>5, <2>6, <3>1
    <3> HIDE DEF x, y, w, g
    <3>3. at - 1 = x
      BY <3>2
    <3> QED
      BY <3>3 DEF x
  <2>8. end # 0 /\ end + 1 = Len(X) + Len(q) + 1
    <3> DEFINE l == Len(EscapeJsonString(values[fields[i]]))
    <3>1. end = at + l + 1 /\ Len(q) = l + 2 /\ l \in Nat /\ at \in Nat /\ Len(X) = at - 1
      BY <2>2, <2>3, <2>4, <2>7
    <3> DEFINE x == Len(X)
               y == Len(q)
    <3>2. end = at + l + 1 /\ y = l + 2 /\ l \in Nat /\ at \in Nat /\ x = at - 1
      BY <3>1
    <3> HIDE DEF l, x, y
    <3>3. end # 0 /\ end + 1 = x + y + 1
      BY <3>2
    <3> QED
      BY <3>3 DEF x, y
  <2> QED
    BY <2>4, <2>7, <2>8
<1>15. SubSeq(T, 1, Len(X)) = X /\ SubSeq(T, Len(X) + Len(q) + 1, Len(T)) = Y
  <2>1. Cut(X, q, Y, T)
    BY <1>5, <1>12, <1>13, CutInThree
  <2> QED
    BY <2>1 DEF Cut
<1>16. (SubSeq(T, 1, at - 1) \o q2) \o SubSeq(T, end + 1, Len(T)) = Build(fields, new, gap)
  BY <1>13, <1>14, <1>15
<1> QED
  BY <1>14, <1>16 DEF q2, new, k

(* What setting a field does, by what is found.                            *)
LEMMA UpsertCases ==
  ASSUME NEW T, NEW k, NEW v
  PROVE  LET key   == FindKey(T, k)
             at    == FindValueStart(T, key)
             end   == FindStringEnd(T, at)
             open  == First1({i \in DOMAIN T : T[i] = Open})
             last  == {i \in 1 .. Len(T) : T[i] = Shut}
             close == IF last # {} THEN Max(last) ELSE 0
             comma == IF \E i \in open + 1 .. close - 1 : T[i] # Space THEN <<Comma>> ELSE <<>>
         IN  /\ key # 0 /\ (at = 0 \/ end = 0) => UpsertJsonString(T, k, v) = T
             /\ key # 0 /\ at # 0 /\ end # 0 =>
                  UpsertJsonString(T, k, v) =
                    (SubSeq(T, 1, at - 1) \o Quoted(EscapeJsonString(v))) \o SubSeq(T, end + 1, Len(T))
             /\ key = 0 /\ ~(close = 0 \/ open = 0 \/ open > close) =>
                  UpsertJsonString(T, k, v) =
                    SubSeq(T, 1, close - 1) \o comma \o Quoted(<<k>>) \o <<Colon>>
                      \o Quoted(EscapeJsonString(v)) \o SubSeq(T, close, Len(T))
BY Zenon DEF UpsertJsonString, SelectLastInSeq, Open, Shut, Comma, Colon

LEMMA MaxIs ==
  ASSUME NEW S \in SUBSET Nat, NEW m \in S, \A x \in S : x <= m
  PROVE  Max(S) = m
<1>1. \E y \in S : \A x \in S : y >= x
  BY SMT
<1>2. Max(S) \in S /\ \A x \in S : Max(S) >= x
  BY <1>1 DEF Max
<1>3. Max(S) \in Nat /\ m \in Nat /\ Max(S) >= m /\ Max(S) <= m
  BY <1>2
<1> QED
  BY <1>3

(* There is a string for the key, or a number, or a value that names it.   *)
LEMMA UpsertKnown ==
  ASSUME NEW fields, NEW values, NEW gap, Message(fields, values, gap),
         \A i \in 1 .. Len(fields) : \A j \in 1 .. Len(fields) : j # i => fields[j] # fields[i],
         NEW k \in Keys, NEW v \in Seq(Symbols), Hits(fields, values, k) # {},
         NEW T, T = Build(fields, values, gap),
         NEW i, i = Field(fields, values, k),
         NEW set, set = IF i = 0 \/ fields[i] \in Numbers THEN values
                        ELSE [values EXCEPT ![fields[i]] = v]
  PROVE  UpsertJsonString(T, k, v) = Build(fields, set, gap)
<1> DEFINE e == [j \in 0 .. Len(fields) |-> Ends(Parts(fields, values, gap))[j] + 1]
           key == FindKey(T, k)
           at == FindValueStart(T, key)
           end == FindStringEnd(T, at)
<1>1. Laid(T, fields, values, gap, e)
  BY LaidOut
<1> DEFINE E == e
<1>2. E = [j \in 0 .. Len(fields) |-> Ends(Parts(fields, values, gap))[j] + 1]
  OBVIOUS
<1>3. Laid(T, fields, values, gap, E)
  BY <1>1
<1> HIDE DEF E
<1>4. key # 0
  <2>1. LET h == Hits(fields, values, k)
            m == Min(h)
        IN  h # {} => /\ m \in 1 .. Len(fields)
                      /\ Hit(fields, values, E, k, m, FindKey(T, k))
    BY <1>3, KeyFound
  <2> DEFINE m == Min(Hits(fields, values, k))
  <2>2. m \in 1 .. Len(fields) /\ Hit(fields, values, E, k, m, key)
    BY <2>1
  <2> HIDE DEF m, key
  <2>3. key \in 1 .. Len(T) - 2
    BY <1>3, <2>2, HitStands
  <2> QED
    BY <2>3
<1>5. /\ i = 0 => at = 0
      /\ i # 0 => i \in 1 .. Len(fields) /\ at = ValueAt(E, gap, i)
  BY <1>3, ValueStart
<1>6. /\ (at = 0 \/ end = 0) => UpsertJsonString(T, k, v) = T
      /\ at # 0 /\ end # 0 =>
           UpsertJsonString(T, k, v) =
             (SubSeq(T, 1, at - 1) \o Quoted(EscapeJsonString(v))) \o SubSeq(T, end + 1, Len(T))
  <2>1. /\ key # 0 /\ (at = 0 \/ end = 0) => UpsertJsonString(T, k, v) = T
        /\ key # 0 /\ at # 0 /\ end # 0 =>
             UpsertJsonString(T, k, v) =
               (SubSeq(T, 1, at - 1) \o Quoted(EscapeJsonString(v))) \o SubSeq(T, end + 1, Len(T))
    BY UpsertCases
  <2> QED
    BY <1>4, <2>1
<1> DEFINE St == end
<1> HIDE DEF key
<1>7. CASE i = 0
  BY <1>5, <1>6, <1>7
<1>8. CASE i # 0 /\ fields[i] \in Numbers
  <2>1. Placed(T, fields, values, gap, E, i) /\ at = ValueAt(E, gap, i)
    BY <1>3, <1>5, <1>8, PlacedFacts
  <2>2. T[at] = "2"
    BY <1>8, <2>1 DEF Placed
  <2>3. ~StringAt(T, at)
    BY <2>2, Signs DEF StringAt
  <2>4. end = 0
    BY <2>3 DEF FindStringEnd
  <2> QED
    BY <1>6, <1>8, <2>4
<1>9. CASE i # 0 /\ fields[i] \notin Numbers
  <2>1. i \in 1 .. Len(fields) /\ at = ValueAt(E, gap, i)
    BY <1>5, <1>9
  <2>2. at # 0
    <3>1. Placed(T, fields, values, gap, E, i)
      BY <1>3, <2>1, PlacedFacts
    <3>2. KeyAt(E, i) \in Nat /\ Len(gap) \in Nat /\ at = KeyAt(E, i) + 4 + Len(gap)
      BY <2>1, <3>1 DEF Placed
    <3> QED
      BY <3>2
  <2>d. \A j \in 1 .. Len(fields) : j # i => fields[j] # fields[i]
    BY <2>1
  <2> HIDE DEF at
  <2>3. /\ FindStringEnd(T, at) # 0
        /\ (SubSeq(T, 1, at - 1) \o Quoted(EscapeJsonString(v))) \o SubSeq(T, FindStringEnd(T, at) + 1, Len(T))
             = Build(fields, [values EXCEPT ![fields[i]] = v], gap)
    <3>1. IsReplaced(fields, values, gap, i, v)
      BY <1>9, <2>1, <2>d, ValueReplaced
    <3> QED
      BY <1>2, <2>1, <3>1, Zenon DEF IsReplaced
  <2> QED
    BY <1>6, <1>9, <2>2, <2>3
<1> QED
  BY <1>7, <1>8, <1>9

LEMMA SubSeqOne ==
  ASSUME NEW T \in Seq(Symbols), NEW p \in 1 .. Len(T)
  PROVE  SubSeq(T, p, p) = <<T[p]>>
<1> DEFINE a == SubSeq(T, p, p)
           c == T[p]
           b == <<c>>
<1>1. Len(T) \in Nat /\ c \in Symbols
  BY LenProperties, ElementOfSeq
<1>2. a \in Seq(Symbols) /\ Len(a) = 1 /\ a[1] = c
  <2>1. p \in Int /\ p <= p /\ p - p + 1 = 1 /\ p + 1 - 1 = p /\ \A x \in p .. p : T[x] \in Symbols
    BY <1>1
  <2> QED
    BY <2>1, SubSeqProperties
<1>3. b \in Seq(Symbols) /\ Len(b) = 1 /\ b[1] = c
  BY <1>1, OneFacts
<1> HIDE DEF a, b
<1>4. \A x \in 1 .. Len(a) : a[x] = b[x]
  BY <1>2, <1>3
<1> QED
  BY <1>2, <1>3, <1>4, SeqEqual DEF a, b

(* There is no key: the field is put before the last brace.                *)
Added(fields, T, k, v) ==
  SubSeq(T, 1, Len(T) - 1) \o (IF fields = <<>> THEN <<>> ELSE <<Comma>>)
    \o Quoted(<<k>>) \o <<Colon>> \o Quoted(EscapeJsonString(v)) \o <<Shut>>

LEMMA UpsertUnknown ==
  ASSUME NEW fields, NEW values, NEW gap, Message(fields, values, gap),
         NEW k \in Keys, NEW v \in Seq(Symbols), Hits(fields, values, k) = {},
         NEW T, NEW e, Laid(T, fields, values, gap, e)
  PROVE  UpsertJsonString(T, k, v) = Added(fields, T, k, v)
<1> DEFINE n == Len(fields)
           L == Len(T)
           open == First1({i \in DOMAIN T : T[i] = Open})
           last == {i \in 1 .. Len(T) : T[i] = Shut}
           close == IF last # {} THEN Max(last) ELSE 0
           comma == IF \E i \in open + 1 .. close - 1 : T[i] # Space THEN <<Comma>> ELSE <<>>
<1>1. FindKey(T, k) = 0
  BY KeyFound
<1>2. /\ T \in Seq(Symbols) /\ n \in Nat /\ L \in Nat /\ L = e[n] + 1 /\ e[0] = 1
      /\ T[1] = Open /\ T[L] = Shut /\ DOMAIN T = 1 .. L /\ e[n] \in Nat /\ 1 <= e[n]
      /\ n # 0 => T[2] = Quote /\ 4 <= L
  <2>1. n \in Nat /\ T \in Seq(Symbols)
    BY LenProperties DEF Laid, Message
  <2>2. n \in 0 .. n /\ 0 \in 0 .. n /\ n \in 0 .. n
    BY <2>1
  <2>3. L = e[n] + 1 /\ e[0] = 1 /\ T[1] = Open /\ T[L] = Shut /\ e[n] \in Nat /\ e[0] <= e[n]
    BY <2>2 DEF Laid
  <2>4. ASSUME n # 0 PROVE T[2] = Quote /\ 4 <= L
    <3>1. 1 \in 1 .. n
      BY <2>1, <2>4
    <3>2. Placed(T, fields, values, gap, e, 1)
      BY <3>1, PlacedFacts
    <3>3. KeyAt(e, 1) = e[0] + 1 /\ T[KeyAt(e, 1)] = Quote
      BY <3>2 DEF Placed
    <3>4. /\ KeyAt(e, 1) \in Nat /\ Len(gap) \in Nat /\ ValueAt(e, gap, 1) = KeyAt(e, 1) + 4 + Len(gap)
          /\ ValueAt(e, gap, 1) <= e[1] /\ e[1] \in Nat /\ e[1] < L
      BY <3>2 DEF Placed
    <3>5. KeyAt(e, 1) = 2
      BY <2>3, <3>3
    <3> QED
      BY <2>3, <3>3, <3>4, <3>5
  <2> QED
    BY <2>1, <2>3, <2>4, LenProperties
<1>3. open = 1
  <2> DEFINE S == {i \in DOMAIN T : T[i] = Open}
  <2>1. 1 \in S /\ S \in SUBSET Nat /\ \A x \in S : 1 <= x
    BY <1>2
  <2> HIDE DEF S
  <2>2. Min(S) = 1 /\ S # {}
    BY <2>1, MinIs
  <2> QED
    BY <2>2 DEF S, First1
<1>4. close = L
  <2>1. L \in last /\ last \in SUBSET Nat /\ \A x \in last : x <= L
    BY <1>2
  <2> HIDE DEF last
  <2>2. Max(last) = L
    BY <2>1, MaxIs
  <2> QED
    BY <2>1, <2>2
<1>5. comma = IF fields = <<>> THEN <<>> ELSE <<Comma>>
  <2>1. fields = <<>> <=> n = 0
    BY EmptySeq, LenProperties DEF Message
  <2> HIDE DEF open, close
  <2>2. CASE n = 0
    <3>1. L = 2
      BY <1>2, <2>2
    <3>2. \A i \in open + 1 .. close - 1 : FALSE
      BY <1>3, <1>4, <3>1
    <3> QED
      BY <2>1, <2>2, <3>2
  <2>3. CASE n # 0
    <3>1. 2 \in open + 1 .. close - 1 /\ T[2] # Space
      BY <1>2, <1>3, <1>4, <2>3, Signs
    <3> QED
      BY <2>1, <2>3, <3>1
  <2> QED
    BY <2>2, <2>3
<1>6. SubSeq(T, L, L) = <<Shut>>
  <2>1. L \in 1 .. Len(T)
    BY <1>2
  <2> QED
    BY <1>2, <2>1, SubSeqOne
<1>7. ~(close = 0 \/ open = 0 \/ open > close)
  <2> HIDE DEF open, close
  <2> QED
    BY <1>2, <1>3, <1>4
<1>8. UpsertJsonString(T, k, v) =
        SubSeq(T, 1, close - 1) \o comma \o Quoted(<<k>>) \o <<Colon>>
          \o Quoted(EscapeJsonString(v)) \o SubSeq(T, close, Len(T))
  <2>1. FindKey(T, k) = 0 /\ ~(close = 0 \/ open = 0 \/ open > close) =>
          UpsertJsonString(T, k, v) =
            SubSeq(T, 1, close - 1) \o comma \o Quoted(<<k>>) \o <<Colon>>
              \o Quoted(EscapeJsonString(v)) \o SubSeq(T, close, Len(T))
    BY UpsertCases
  <2> QED
    BY <1>1, <1>7, <2>1
<1> HIDE DEF open, last, close, comma
<1> QED
  BY <1>4, <1>5, <1>6, <1>8 DEF Added

(* No field is written twice.                                              *)
Apart(s) == \A i \in 1 .. Len(s) : \A j \in 1 .. Len(s) : j # i => s[j] # s[i]

LEMMA FormApart ==
  ASSUME NEW form \in Forms
  PROVE  Apart(Fields[form])
<1>1. form \in {"submit", "oldSubmit", "state", "reply", "input", "bare"}
  BY DEF Forms, Fields
<1>2. CASE form = "submit"
  <2> DEFINE s == Fields[form]
  <2>1. s = <<"c", "v", "t", "q", "r", "a", "p">>
    BY <1>2 DEF Fields
  <2>2. /\ Len(s) = 7
        /\ s[1] = "c" /\ s[2] = "v" /\ s[3] = "t" /\ s[4] = "q" /\ s[5] = "r" /\ s[6] = "a" /\ s[7] = "p"
    BY <2>1
  <2> HIDE DEF s
  <2> SUFFICES ASSUME NEW i \in 1 .. 7, NEW j \in 1 .. 7, j # i, s[j] = s[i] PROVE FALSE
    BY <2>2 DEF Apart, s
  <2>3. j = 1 \/ j = 2 \/ j = 3 \/ j = 4 \/ j = 5 \/ j = 6 \/ j = 7
    OBVIOUS
  <2>4. CASE i = 1
    BY <2>2, <2>3, <2>4
  <2>5. CASE i = 2
    BY <2>2, <2>3, <2>5
  <2>6. CASE i = 3
    BY <2>2, <2>3, <2>6
  <2>7. CASE i = 4
    BY <2>2, <2>3, <2>7
  <2>8. CASE i = 5
    BY <2>2, <2>3, <2>8
  <2>9. CASE i = 6
    BY <2>2, <2>3, <2>9
  <2>10. CASE i = 7
    BY <2>2, <2>3, <2>10
  <2> QED
    BY <2>4, <2>5, <2>6, <2>7, <2>8, <2>9, <2>10
<1>3. CASE form = "oldSubmit"
  <2> DEFINE s == Fields[form]
  <2>1. s = <<"c", "v", "t", "f", "g", "a", "p">>
    BY <1>3 DEF Fields
  <2>2. /\ Len(s) = 7
        /\ s[1] = "c" /\ s[2] = "v" /\ s[3] = "t" /\ s[4] = "f" /\ s[5] = "g" /\ s[6] = "a" /\ s[7] = "p"
    BY <2>1
  <2> HIDE DEF s
  <2> SUFFICES ASSUME NEW i \in 1 .. 7, NEW j \in 1 .. 7, j # i, s[j] = s[i] PROVE FALSE
    BY <2>2 DEF Apart, s
  <2>3. j = 1 \/ j = 2 \/ j = 3 \/ j = 4 \/ j = 5 \/ j = 6 \/ j = 7
    OBVIOUS
  <2>4. CASE i = 1
    BY <2>2, <2>3, <2>4
  <2>5. CASE i = 2
    BY <2>2, <2>3, <2>5
  <2>6. CASE i = 3
    BY <2>2, <2>3, <2>6
  <2>7. CASE i = 4
    BY <2>2, <2>3, <2>7
  <2>8. CASE i = 5
    BY <2>2, <2>3, <2>8
  <2>9. CASE i = 6
    BY <2>2, <2>3, <2>9
  <2>10. CASE i = 7
    BY <2>2, <2>3, <2>10
  <2> QED
    BY <2>4, <2>5, <2>6, <2>7, <2>8, <2>9, <2>10
<1>4. CASE form = "state"
  <2> DEFINE s == Fields[form]
  <2>1. s = <<"v", "t", "s", "q", "r", "a", "p", "x">>
    BY <1>4 DEF Fields
  <2>2. /\ Len(s) = 8
        /\ s[1] = "v" /\ s[2] = "t" /\ s[3] = "s" /\ s[4] = "q" /\ s[5] = "r" /\ s[6] = "a" /\ s[7] = "p" /\ s[8] = "x"
    BY <2>1
  <2> HIDE DEF s
  <2> SUFFICES ASSUME NEW i \in 1 .. 8, NEW j \in 1 .. 8, j # i, s[j] = s[i] PROVE FALSE
    BY <2>2 DEF Apart, s
  <2>3. j = 1 \/ j = 2 \/ j = 3 \/ j = 4 \/ j = 5 \/ j = 6 \/ j = 7 \/ j = 8
    OBVIOUS
  <2>4. CASE i = 1
    BY <2>2, <2>3, <2>4
  <2>5. CASE i = 2
    BY <2>2, <2>3, <2>5
  <2>6. CASE i = 3
    BY <2>2, <2>3, <2>6
  <2>7. CASE i = 4
    BY <2>2, <2>3, <2>7
  <2>8. CASE i = 5
    BY <2>2, <2>3, <2>8
  <2>9. CASE i = 6
    BY <2>2, <2>3, <2>9
  <2>10. CASE i = 7
    BY <2>2, <2>3, <2>10
  <2>11. CASE i = 8
    BY <2>2, <2>3, <2>11
  <2> QED
    BY <2>4, <2>5, <2>6, <2>7, <2>8, <2>9, <2>10, <2>11
<1>5. CASE form = "reply"
  <2> DEFINE s == Fields[form]
  <2>1. s = <<"c", "v", "t", "s", "r", "x">>
    BY <1>5 DEF Fields
  <2>2. /\ Len(s) = 6
        /\ s[1] = "c" /\ s[2] = "v" /\ s[3] = "t" /\ s[4] = "s" /\ s[5] = "r" /\ s[6] = "x"
    BY <2>1
  <2> HIDE DEF s
  <2> SUFFICES ASSUME NEW i \in 1 .. 6, NEW j \in 1 .. 6, j # i, s[j] = s[i] PROVE FALSE
    BY <2>2 DEF Apart, s
  <2>3. j = 1 \/ j = 2 \/ j = 3 \/ j = 4 \/ j = 5 \/ j = 6
    OBVIOUS
  <2>4. CASE i = 1
    BY <2>2, <2>3, <2>4
  <2>5. CASE i = 2
    BY <2>2, <2>3, <2>5
  <2>6. CASE i = 3
    BY <2>2, <2>3, <2>6
  <2>7. CASE i = 4
    BY <2>2, <2>3, <2>7
  <2>8. CASE i = 5
    BY <2>2, <2>3, <2>8
  <2>9. CASE i = 6
    BY <2>2, <2>3, <2>9
  <2> QED
    BY <2>4, <2>5, <2>6, <2>7, <2>8, <2>9
<1>6. CASE form = "input"
  <2> DEFINE s == Fields[form]
  <2>1. s = <<"d", "m", "t", "h", "b">>
    BY <1>6 DEF Fields
  <2>2. /\ Len(s) = 5
        /\ s[1] = "d" /\ s[2] = "m" /\ s[3] = "t" /\ s[4] = "h" /\ s[5] = "b"
    BY <2>1
  <2> HIDE DEF s
  <2> SUFFICES ASSUME NEW i \in 1 .. 5, NEW j \in 1 .. 5, j # i, s[j] = s[i] PROVE FALSE
    BY <2>2 DEF Apart, s
  <2>3. j = 1 \/ j = 2 \/ j = 3 \/ j = 4 \/ j = 5
    OBVIOUS
  <2>4. CASE i = 1
    BY <2>2, <2>3, <2>4
  <2>5. CASE i = 2
    BY <2>2, <2>3, <2>5
  <2>6. CASE i = 3
    BY <2>2, <2>3, <2>6
  <2>7. CASE i = 4
    BY <2>2, <2>3, <2>7
  <2>8. CASE i = 5
    BY <2>2, <2>3, <2>8
  <2> QED
    BY <2>4, <2>5, <2>6, <2>7, <2>8
<1>7. CASE form = "bare"
  <2>1. Fields[form] = <<>> /\ Len(<<>>) = 0
    BY <1>7 DEF Fields
  <2> QED
    BY <2>1 DEF Apart
<1> QED
  BY <1>1, <1>2, <1>3, <1>4, <1>5, <1>6, <1>7

LEMMA WrittenApart ==
  ASSUME Typed
  PROVE  Apart(Written)
<1> DEFINE f == Fields[json.form]
           t == WrittenTexts
           o == Ends(t)
           w == Written
<1>1. Apart(f)
  BY FormApart DEF Typed
<1>2. /\ Len(t) = Len(f) /\ Len(f) \in Nat /\ Len(w) \in Nat
      /\ \A i \in 1 .. Len(t) : Len(t[i]) = 0 \/ (Len(t[i]) = 1 /\ t[i][1] = f[i])
      /\ Places(Keys, t, o, w)
  <2>1. /\ Len(t) = Len(f) /\ t \in Seq(Seq(Keys))
        /\ \A i \in 1 .. Len(t) : Len(t[i]) = 0 \/ (Len(t[i]) = 1 /\ t[i][1] = f[i])
        /\ Places(Keys, t, o, w)
    BY WrittenFacts
  <2> HIDE DEF t, w, f
  <2>2. w \in Seq(Keys)
    BY <2>1 DEF Places
  <2> QED
    BY <2>1, <2>2, LenProperties
<1> HIDE DEF f, t, o, w
<1>3. ASSUME NEW x \in 1 .. Len(w)
      PROVE  \E i \in 1 .. Len(f) : o[i - 1] \in Nat /\ x = o[i - 1] + 1 /\ w[x] = f[i]
  <2>1. PICK i \in 1 .. Len(t) : o[i - 1] < x /\ x <= o[i]
    BY <1>2 DEF Places
  <2>2. i - 1 \in 0 .. Len(t) /\ i \in 1 .. Len(f) /\ x \in Nat
    BY <1>2
  <2>3. /\ o[i - 1] \in Nat /\ o[i] = o[i - 1] + Len(t[i])
        /\ \A y \in 1 .. Len(t[i]) : w[o[i - 1] + y] = t[i][y]
    BY <1>2, <2>2 DEF Places
  <2>4. Len(t[i]) = 1 /\ t[i][1] = f[i]
    BY <1>2, <2>1, <2>2, <2>3
  <2>5. x = o[i - 1] + 1 /\ w[o[i - 1] + 1] = t[i][1]
    BY <2>1, <2>2, <2>3, <2>4
  <2> QED
    BY <2>2, <2>3, <2>4, <2>5
<1>4. ASSUME NEW x \in 1 .. Len(w), NEW y \in 1 .. Len(w), y # x PROVE w[y] # w[x]
  <2>1. PICK i \in 1 .. Len(f) : o[i - 1] \in Nat /\ x = o[i - 1] + 1 /\ w[x] = f[i]
    BY <1>3
  <2>2. PICK j \in 1 .. Len(f) : o[j - 1] \in Nat /\ y = o[j - 1] + 1 /\ w[y] = f[j]
    BY <1>3
  <2>3. j # i
    BY <1>4, <2>1, <2>2
  <2>4. f[j] # f[i]
    BY <1>1, <2>3 DEF Apart
  <2> QED
    BY <2>1, <2>2, <2>4
<1> QED
  BY <1>4 DEF Apart, w

LEMMA TypedUpsert == Typed => UpsertIsSet
<1> SUFFICES ASSUME Typed, NEW k \in {"t", "m", "r"}, NEW v \in {json.text, <<"N">>}, ~Misled(k)
             PROVE  UpsertJsonString(Text, k, v) =
                      IF \E n \in DOMAIN Written : Written[n] = k
                      THEN Build(Written, [Values EXCEPT ![k] = v], Gap)
                      ELSE Added(Written, Text, k, v)
  BY Zenon DEF UpsertIsSet, Added, Comma, Colon, Shut
<1>1. k \in Keys /\ k \notin Numbers
  BY DEF Keys, Texts, Numbers
<1>2. v \in Seq(Symbols)
  <2>1. "N" \in Symbols
    BY DEF Symbols
  <2>2. <<"N">> \in Seq(Symbols)
    BY <2>1, OneFacts
  <2>3. TextChars \subseteq Symbols
    BY DEF Symbols
  <2>4. json.text \in Seq(Symbols)
    BY <2>3, SeqMonotonic DEF Typed
  <2> QED
    BY <2>2, <2>4
<1>3. Message(Written, Values, Gap) /\ DOMAIN Written = 1 .. Len(Written) /\ Len(Written) \in Nat
  <2>1. Message(Written, Values, Gap)
    BY MessageAtHand
  <2>2. Written \in Seq(Keys)
    BY <2>1 DEF Message
  <2> QED
    BY <2>1, <2>2, LenProperties
<1>4. PICK e : Laid(Text, Written, Values, Gap, e)
  BY <1>3, LaidOut DEF Text
<1>5. ASSUME NEW n \in Hits(Written, Values, k)
      PROVE  \E m \in 1 .. n : Written[m] = k
  <2>1. n \in 1 .. Len(Written) /\ (Written[n] = k \/ Names1(Values[Written[n]], k))
    BY <1>3, <1>5 DEF Hits
  <2>2. n \in 1 .. n
    BY <1>3, <2>1
  <2> QED
    BY <1>3, <2>1, <2>2 DEF Misled
<1>6. CASE \E n \in DOMAIN Written : Written[n] = k
  <2>1. PICK i \in 1 .. Len(Written) : Written[i] = k
    BY <1>3, <1>6
  <2>2. \A x \in 1 .. Len(Written) : \A y \in 1 .. Len(Written) : y # x => Written[y] # Written[x]
    BY WrittenApart DEF Apart
  <2>3. i \in Hits(Written, Values, k) /\ Hits(Written, Values, k) \in SUBSET Nat
    BY <1>3, <2>1 DEF Hits
  <2>4. ASSUME NEW n \in Hits(Written, Values, k) PROVE i <= n
    <3>1. n \in 1 .. Len(Written)
      BY <1>3, <2>4 DEF Hits
    <3>2. PICK m \in 1 .. n : Written[m] = k
      BY <1>5, <2>4
    <3>3. m \in 1 .. Len(Written)
      BY <1>3, <3>1
    <3>4. m = i
      BY <2>1, <2>2, <3>2, <3>3
    <3> QED
      BY <3>1, <3>2, <3>4
  <2>5. Min(Hits(Written, Values, k)) = i
    BY <2>3, <2>4, MinIs
  <2>6. Field(Written, Values, k) = i
    <3> DEFINE H == Hits(Written, Values, k)
    <3>1. Field(Written, Values, k) =
            IF H = {} THEN 0
            ELSE IF Written[Min(H)] = k THEN Min(H)
            ELSE IF Min(H) < Len(Written) THEN Min(H) + 1 ELSE 0
      BY DEF Field, Hits
    <3> HIDE DEF H
    <3>2. i \in H /\ Min(H) = i
      BY <2>3, <2>5 DEF H
    <3> QED
      BY <2>1, <3>1, <3>2
  <2>7. i # 0
    BY <2>1
  <2> DEFINE set == [Values EXCEPT ![Written[i]] = v]
  <2>8. set = IF i = 0 \/ Written[i] \in Numbers THEN Values ELSE [Values EXCEPT ![Written[i]] = v]
    BY <1>1, <2>1, <2>7
  <2>9. Text = Build(Written, Values, Gap) /\ Hits(Written, Values, k) # {}
    BY <2>3 DEF Text
  <2> HIDE DEF set
  <2>10. UpsertJsonString(Text, k, v) = Build(Written, set, Gap)
    BY <1>1, <1>2, <1>3, <2>2, <2>6, <2>8, <2>9, UpsertKnown
  <2> QED
    BY <1>6, <2>1, <2>10 DEF set
<1>7. CASE ~\E n \in DOMAIN Written : Written[n] = k
  <2>1. Hits(Written, Values, k) = {}
    <3> SUFFICES ASSUME NEW n \in Hits(Written, Values, k) PROVE FALSE
      OBVIOUS
    <3>1. n \in 1 .. Len(Written)
      BY <1>3 DEF Hits
    <3>2. PICK m \in 1 .. n : Written[m] = k
      BY <1>5
    <3>3. m \in DOMAIN Written
      BY <1>3, <3>1
    <3> QED
      BY <1>7, <3>2, <3>3
  <2>2. UpsertJsonString(Text, k, v) = Added(Written, Text, k, v)
    BY <1>1, <1>2, <1>3, <1>4, <2>1, UpsertUnknown
  <2> QED
    BY <1>7, <2>2
<1> QED
  BY <1>6, <1>7

(* Unless a value before it ends in its name in quotes, setting a string in*)
(* a message gives the message with that field set and nothing else        *)
(* changed, or with it added at the end, whatever was there, whatever is   *)
(* put there and whatever the other fields hold (UpsertJsonString).        *)
THEOREM UpsertSets == JsonSpec => []UpsertIsSet
<1>1. JsonSpec => []Typed
  BY TypedInit, TypedStep, PTL DEF JsonSpec
<1> QED
  BY <1>1, TypedUpsert, PTL

-----------------------------------------------------------------------------
(* The arithmetic of the accumulator.                                      *)

LEMMA Division ==
  ASSUME NEW n \in Int, NEW m \in Nat \ {0}
  PROVE  /\ n \div m \in Int /\ n % m \in 0 .. m - 1
         /\ n = (m * (n \div m)) + (n % m)
OBVIOUS

LEMMA LowOfDifference ==
  ASSUME NEW n \in Int, NEW p \in Int
  PROVE  (n - (4096 * p)) % 4096 = n % 4096
OBVIOUS

(* An int that wraps keeps its lowest twelve bits and its range.           *)
LEMMA WrapKeepsLow ==
  ASSUME NEW n \in Int
  PROVE  Wrap(n) \in Ints /\ Wrap(n) % Low = n % Low
<1>1. PICK m \in Nat \ {0} : m = 2 * Half
  BY Base64Assumption
<1>2. PICK k \in Int : m = 4096 * k
  BY <1>1, Base64Assumption DEF Low
<1>3. PICK q \in Int, r \in 0 .. m - 1 : n + Half = (m * q) + r /\ r = (n + Half) % m
  <2>1. n + Half \in Int
    BY Base64Assumption
  <2> QED
    BY <2>1, Division
<1>4. PICK p \in Int : p = k * q /\ m * q = 4096 * p
  BY <1>2
<1>5. Wrap(n) = r - Half
  BY <1>1, <1>3 DEF Wrap
<1>6. n + Half = (4096 * p) + r
  BY <1>3, <1>4
<1>7. Wrap(n) = n - (4096 * p)
  <2>1. r \in Int /\ Half \in Int /\ 4096 * p \in Int
    BY <1>1, Base64Assumption
  <2> QED
    BY <1>5, <1>6, <2>1
<1> QED
  BY <1>1, <1>5, <1>7, LowOfDifference, Base64Assumption DEF Low, Ints

(* A byte that is taken above at most four bits lies in the lowest twelve. *)
LEMMA ByteFromLow ==
  ASSUME NEW n \in Int, NEW bits \in {0, 2, 4}
  PROVE  ByteOf(n, bits) = ((n % Low) \div (2 ^ bits)) % 256 /\ ByteOf(n, bits) \in Bytes
<1>1. CASE bits = 0
  BY <1>1 DEF ByteOf, Low, Bytes
<1>2. CASE bits = 2
  BY <1>2 DEF ByteOf, Low, Bytes
<1>3. CASE bits = 4
  BY <1>3 DEF ByteOf, Low, Bytes
<1> QED
  BY <1>1, <1>2, <1>3

(* What a digit more makes of a text.                                      *)
LEMMA Appended ==
  ASSUME NEW S, NEW s \in Seq(S), NEW e \in S
  PROVE  /\ Append(s, e) \in Seq(S) /\ Len(s) \in Nat
         /\ Len(Append(s, e)) = Len(s) + 1 /\ Append(s, e)[Len(s) + 1] = e
         /\ \A i \in 1 .. Len(s) : s[i] \in S /\ Append(s, e)[i] = s[i]
<1>1. \A i \in 1 .. Len(s) : s[i] \in S
  BY ElementOfSeq
<1>2. \A i \in 1 .. Len(s) : Append(s, e)[i] = s[i]
  OBVIOUS
<1>3. /\ Append(s, e) \in Seq(S) /\ Len(s) \in Nat
      /\ Len(Append(s, e)) = Len(s) + 1 /\ Append(s, e)[Len(s) + 1] = e
  OBVIOUS
<1> QED
  BY <1>1, <1>2, <1>3

(* The lowest twelve bits are the last two digits, after each digit.       *)
LEMMA LowIsLastTwo ==
  ASSUME NEW s \in Seq(Sextets), NEW n \in Int, n % Low = LastTwo(s), NEW d \in Sextets
  PROVE  ((n * 64) + d) % Low = LastTwo(Append(s, d))
<1> DEFINE l == Len(s)
           t == Append(s, d)
           a == IF l > 1 THEN s[l - 1] ELSE 0
           b == IF l > 0 THEN s[l] ELSE 0
<1>1. /\ l \in Nat /\ Len(t) = l + 1 /\ t[l + 1] = d
      /\ \A i \in 1 .. l : s[i] \in Sextets /\ t[i] = s[i]
  BY Appended
<1>2. a \in 0 .. 63 /\ b \in 0 .. 63 /\ d \in 0 .. 63
  BY <1>1 DEF Sextets
<1>3. LastTwo(s) = (a * 64) + b
  BY <1>1 DEF LastTwo
<1>4. LastTwo(t) = (b * 64) + d
  <2> HIDE DEF t
  <2> QED
    BY <1>1 DEF LastTwo
<1> HIDE DEF a, b
<1>5. n % 4096 = (a * 64) + b
  BY <1>3 DEF Low
<1>6. ((n * 64) + d) % 4096 = (b * 64) + d
  BY <1>2, <1>5
<1> QED
  BY <1>4, <1>6 DEF Low

-----------------------------------------------------------------------------
(* The digits and the bytes.  n digits make m bytes and leave r bits.      *)

(* The byte that one more digit completes is made of the last two digits.  *)
LEMMA NewByte ==
  ASSUME NEW s \in Seq(Sextets), NEW d \in Sextets, NEW k \in Nat \ {0},
         NEW r \in Nat, r \in {2, 4, 6}, 6 * Len(s) = (8 * (k - 1)) + r
  PROVE  TrueByte(Append(s, d), k) = (LastTwo(Append(s, d)) \div (2 ^ (r - 2))) % 256
<1> DEFINE t == Append(s, d)
           n == Len(s)
<1>1. n \in Nat /\ n > 0 /\ Len(t) = n + 1
  OBVIOUS
<1> HIDE DEF t
<1>2. LastTwo(t) = (t[n] * 64) + t[n + 1]
  BY <1>1 DEF LastTwo
<1>3. /\ ((8 * (k - 1)) \div 6) + 1 = n
      /\ ((8 * (k - 1)) \div 6) + 2 = n + 1
      /\ 4 - ((8 * (k - 1)) % 6) = r - 2
  <2>1. 6 * n = (8 * (k - 1)) + r
    OBVIOUS
  <2> HIDE DEF n
  <2>2. CASE r = 2
    BY <1>1, <2>1, <2>2
  <2>3. CASE r = 4
    BY <1>1, <2>1, <2>3
  <2>4. CASE r = 6
    BY <1>1, <2>1, <2>4
  <2> QED
    BY <2>2, <2>3, <2>4
<1> HIDE DEF n
<1> QED
  BY <1>2, <1>3 DEF TrueByte, t

(* The bytes there are already do not see it.                              *)
LEMMA OldByte ==
  ASSUME NEW s \in Seq(Sextets), NEW d \in Sextets, NEW m \in Nat, NEW r \in 0 .. 6,
         6 * Len(s) = (8 * m) + r, NEW k \in 1 .. m
  PROVE  TrueByte(Append(s, d), k) = TrueByte(s, k)
<1> DEFINE n == Len(s)
           i == ((8 * (k - 1)) \div 6)
<1>1. n \in Nat /\ \A x \in 1 .. n : Append(s, d)[x] = s[x]
  OBVIOUS
<1>2. i + 1 \in 1 .. n /\ i + 2 \in 1 .. n
  <2>1. 6 * n = (8 * m) + r
    OBVIOUS
  <2> HIDE DEF n
  <2> QED
    BY <1>1, <2>1
<1> HIDE DEF n
<1>3. Append(s, d)[i + 1] = s[i + 1] /\ Append(s, d)[i + 2] = s[i + 2]
  BY <1>1, <1>2
<1> QED
  BY <1>3 DEF TrueByte

-----------------------------------------------------------------------------
(* Before the first character nothing has been decoded.                    *)
LEMMA B64InitInv == B64Init => B64Inv
BY Base64Assumption DEF B64Init, B64Inv, B64TypeOK, LowBitsExact, DecodedExactly, LastTwo, Low, Ints

(* A digit gives a byte when with it eight bits are there.                 *)
LEMMA TakeDigitInv ==
  ASSUME B64Inv, NEW d \in Digits, TakeDigit(d)
  PROVE  B64Inv'
<1>1. d \in Sextets /\ MaxChars \in Nat
  BY Base64Assumption
<1>2. /\ b64.read \in 0 .. MaxChars /\ b64.read < MaxChars
      /\ b64.digits \in Seq(Sextets)
      /\ b64.buffer \in Ints /\ b64.out \in Seq(Bytes) /\ b64.bits \in {0, 2, 4, 6}
  BY <1>1 DEF B64Inv, B64TypeOK, TakeDigit, ReadMore
<1>3. PICK s \in Seq(Sextets) : s = b64.digits
  BY <1>2
<1>4. PICK next \in Int : next = (b64.buffer * 64) + d
  BY <1>1, <1>2, Base64Assumption DEF Ints, Sextets
<1>5. PICK buffer \in Ints :
        buffer = Wrap(next) /\ buffer % Low = LastTwo(Append(s, d))
  <2>1. b64.buffer % Low = LastTwo(s)
    BY <1>3 DEF B64Inv, LowBitsExact
  <2>2. b64.buffer \in Int
    BY <1>2, Base64Assumption DEF Ints
  <2>3. next % Low = LastTwo(Append(s, d))
    BY <1>1, <1>4, <2>1, <2>2, LowIsLastTwo
  <2> QED
    BY <1>4, <2>3, WrapKeepsLow
<1>6. PICK n \in Nat, m \in Nat :
        /\ n = Len(s) /\ m = Len(b64.out) /\ 6 * n = (8 * m) + b64.bits
        /\ \A k \in 1 .. m : b64.out[k] = TrueByte(s, k)
  <2>1. /\ Len(s) \in Nat /\ Len(b64.out) \in Nat
        /\ DOMAIN b64.out = 1 .. Len(b64.out)
    BY <1>2, LenProperties
  <2>2. /\ 6 * Len(s) = (8 * Len(b64.out)) + b64.bits
        /\ \A k \in 1 .. Len(b64.out) : b64.out[k] = TrueByte(s, k)
    BY <1>3, <2>1 DEF B64Inv, LowBitsExact, DecodedExactly
  <2> QED
    BY <2>1, <2>2
<1>7. \A k \in 1 .. m : b64.out[k] = TrueByte(Append(s, d), k)
  <2>1. b64.bits \in 0 .. 6 /\ 6 * Len(s) = (8 * m) + b64.bits
    BY <1>2, <1>6
  <2> QED
    BY <1>1, <1>6, <2>1, OldByte
<1>8. Append(s, d) \in Seq(Sextets) /\ Len(Append(s, d)) = n + 1
  BY <1>1, <1>6, Appended
<1>9. CASE b64.bits = 0
  <2>1. b64' = [read |-> b64.read + 1, digits |-> Append(s, d), buffer |-> buffer,
                bits |-> 6, out |-> b64.out, open |-> TRUE]
    BY <1>3, <1>4, <1>5, <1>9 DEF TakeDigit
  <2>2. B64TypeOK'
    BY <1>1, <1>2, <1>5, <1>8, <2>1 DEF B64TypeOK
  <2>3. 6 * (n + 1) = (8 * m) + 6
    BY <1>6, <1>9
  <2>4. LowBitsExact'
    BY <1>5, <1>6, <1>8, <2>1, <2>3 DEF LowBitsExact
  <2>5. m = (6 * (n + 1)) \div 8
    BY <2>3
  <2>6. DecodedExactly'
    BY <1>2, <1>6, <1>7, <1>8, <2>1, <2>5, LenProperties DEF DecodedExactly
  <2> QED
    BY <2>2, <2>4, <2>6 DEF B64Inv
<1>10. CASE b64.bits # 0
  <2>1. PICK r \in {2, 4, 6} : r = b64.bits /\ 6 * n = (8 * m) + r
    BY <1>2, <1>6, <1>10
  <2>2. r - 2 \in {0, 2, 4} /\ r \in Nat
    BY <2>1
  <2>3. PICK byte \in Bytes :
          byte = ByteOf(buffer, r - 2) /\ byte = TrueByte(Append(s, d), m + 1)
    <3>1. PICK shift \in {0, 2, 4} : shift = r - 2
      BY <2>2
    <3>2. buffer \in Int
      BY Base64Assumption DEF Ints
    <3>3. /\ ByteOf(buffer, shift) = ((buffer % Low) \div (2 ^ shift)) % 256
          /\ ByteOf(buffer, shift) \in Bytes
      BY <3>2, ByteFromLow
    <3>4. PICK k \in Nat \ {0} : k = m + 1 /\ 6 * Len(s) = (8 * (k - 1)) + r
      BY <1>6, <2>1
    <3>5. TrueByte(Append(s, d), k) = (LastTwo(Append(s, d)) \div (2 ^ (r - 2))) % 256
      <4>1. r \in Nat /\ r \in {2, 4, 6}
        BY <2>2
      <4> QED
        BY <1>1, <3>4, <4>1, NewByte
    <3> QED
      BY <1>5, <3>1, <3>3, <3>4, <3>5
  <2>4. (b64.bits + 6) - 8 = r - 2 /\ b64.bits + 6 >= 8
    BY <2>1
  <2>5. b64' = [read |-> b64.read + 1, digits |-> Append(s, d), buffer |-> buffer,
                bits |-> r - 2, out |-> Append(b64.out, byte), open |-> TRUE]
    BY <1>3, <1>4, <1>5, <2>3, <2>4 DEF TakeDigit
  <2>6. PICK out \in Seq(Bytes) :
          /\ out = Append(b64.out, byte) /\ Len(out) = m + 1 /\ out[m + 1] = byte
          /\ \A k \in 1 .. m : out[k] = b64.out[k]
    <3>1. /\ Append(b64.out, byte) \in Seq(Bytes) /\ Len(Append(b64.out, byte)) = m + 1
          /\ Append(b64.out, byte)[m + 1] = byte
          /\ \A k \in 1 .. m : Append(b64.out, byte)[k] = b64.out[k]
      BY <1>2, <1>6, Appended
    <3> QED
      BY <3>1
  <2>7. B64TypeOK'
    BY <1>1, <1>2, <1>5, <1>8, <2>2, <2>5, <2>6 DEF B64TypeOK
  <2>8. 6 * (n + 1) = (8 * (m + 1)) + (r - 2)
    <3>1. CASE r = 2
      BY <2>1, <3>1
    <3>2. CASE r = 4
      BY <2>1, <3>2
    <3>3. CASE r = 6
      BY <2>1, <3>3
    <3> QED
      BY <3>1, <3>2, <3>3
  <2>9. LowBitsExact'
    BY <1>5, <1>8, <2>5, <2>6, <2>8 DEF LowBitsExact
  <2>10. m + 1 = (6 * (n + 1)) \div 8
    BY <2>2, <2>8
  <2>11. \A k \in 1 .. m + 1 : out[k] = TrueByte(Append(s, d), k)
    BY <1>7, <2>3, <2>6
  <2>12. DOMAIN out = 1 .. m + 1
    BY <2>6, LenProperties
  <2>13. DecodedExactly'
    BY <1>8, <2>5, <2>6, <2>10, <2>11, <2>12 DEF DecodedExactly
  <2> QED
    BY <2>7, <2>9, <2>13 DEF B64Inv
<1> QED
  BY <1>9, <1>10

(* What is no digit changes nothing that was decoded.                      *)
LEMMA OtherCharInv ==
  ASSUME B64Inv, SkipChar \/ StopAtPad \/ UNCHANGED b64
  PROVE  B64Inv'
<1>1. /\ b64'.digits = b64.digits /\ b64'.out = b64.out
      /\ b64'.buffer = b64.buffer /\ b64'.bits = b64.bits
  BY DEF SkipChar, StopAtPad, B64Inv, B64TypeOK
<1>2. B64TypeOK'
  <2>1. B64TypeOK /\ MaxChars \in Nat
    BY Base64Assumption DEF B64Inv
  <2>2. ReadMore => b64.read + 1 \in 0 .. MaxChars
    BY <2>1 DEF B64TypeOK, ReadMore
  <2>3. CASE SkipChar
    BY <2>1, <2>2, <2>3 DEF SkipChar, B64TypeOK
  <2>4. CASE StopAtPad
    BY <2>1, <2>2, <2>4 DEF StopAtPad, B64TypeOK
  <2> QED
    BY <2>1, <2>3, <2>4 DEF B64TypeOK
<1> QED
  BY <1>1, <1>2 DEF B64Inv, LowBitsExact, DecodedExactly

(* The bytes of Base64Decode are those of its text, though the accumulator *)
(* overflows: DecodedExactly is true of every state.                       *)
THEOREM Base64Exact == B64Spec => []DecodedExactly
<1>1. B64Inv /\ [B64Next]_b64 => B64Inv'
  BY TakeDigitInv, OtherCharInv DEF B64Next
<1>2. B64Inv => DecodedExactly
  BY DEF B64Inv
<1> QED
  BY B64InitInv, <1>1, <1>2, PTL DEF B64Spec

=============================================================================
