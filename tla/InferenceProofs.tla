-------------------------- MODULE InferenceProofs ---------------------------
(***************************************************************************)
(* The geometry of the detector for canvases and pictures of every size:   *)
(* the tensor is filled, which pictures are served, and that a defect is   *)
(* reported within a pixel of the canvas of where it is.                   *)
(***************************************************************************)
EXTENDS Inference, TLAPS

-----------------------------------------------------------------------------
(* Arithmetic.                                                             *)

LEMMA Division ==
  ASSUME NEW n \in Int, NEW m \in Nat \ {0}
  PROVE  /\ n \div m \in Int
         /\ m * (n \div m) <= n /\ n < (m * (n \div m)) + m
OBVIOUS

(* A product of a number above zero orders as its other factor does.       *)
LEMMA ProductOrder ==
  ASSUME NEW m \in Nat \ {0}, NEW a \in Int, NEW b \in Int
  PROVE  (a <= b <=> m * a <= m * b) /\ (a < b <=> m * a < m * b)
OBVIOUS

(* Rounding to the nearest: within half a denominator.                     *)
LEMMA Rounding ==
  ASSUME NEW n \in Int, NEW d \in Nat \ {0}
  PROVE  LET q == (2 * n + d) \div (2 * d)
         IN  /\ q \in Int
             /\ 2 * (d * q) <= (2 * n) + d /\ (2 * n) - d < 2 * (d * q)
<1> DEFINE m == 2 * d
           x == (2 * n) + d
           q == x \div m
<1>1. m \in Nat \ {0} /\ x \in Int
  OBVIOUS
<1>2. q \in Int /\ m * q <= x /\ x < (m * q) + m
  <2> HIDE DEF m, x
  <2> QED
    BY <1>1, Division
<1> HIDE DEF q
<1>3. m * q = 2 * (d * q) /\ d * q \in Int
  BY <1>2
<1>4. 2 * (d * q) <= (2 * n) + d /\ (2 * n) - d < 2 * (d * q)
  BY <1>2, <1>3
<1> QED
  BY <1>2, <1>4 DEF q, x, m

(* Rounding keeps the order.                                               *)
LEMMA RoundingOrder ==
  ASSUME NEW n \in Int, NEW k \in Int, NEW d \in Nat \ {0}, n <= k
  PROVE  (2 * n + d) \div (2 * d) <= (2 * k + d) \div (2 * d)
<1> DEFINE q == (2 * n + d) \div (2 * d)
           p == (2 * k + d) \div (2 * d)
<1>1. /\ q \in Int /\ 2 * (d * q) <= (2 * n) + d
      /\ p \in Int /\ (2 * k) - d < 2 * (d * p)
  BY Rounding
<1> HIDE DEF q, p
<1>2. d * q \in Int /\ d * p \in Int /\ d * (p + 1) = (d * p) + d
  BY <1>1
<1>3. d * q < d * (p + 1)
  BY <1>1, <1>2
<1>4. q < p + 1
  BY <1>1, <1>3, ProductOrder
<1> QED
  BY <1>1, <1>4 DEF q, p

(* A clamped and rounded number is in the range it is clamped to.          *)
LEMMA RoundedInRange ==
  ASSUME NEW n \in Int, NEW d \in Nat \ {0}, NEW length \in Nat
  PROVE  RoundedIn(n, d, length) \in 0 .. length
<1> DEFINE q == (2 * n + d) \div (2 * d)
<1>1. length * d \in Nat /\ d * length = length * d
  OBVIOUS
<1>2. CASE n <= 0 \/ n >= length * d
  BY <1>1, <1>2 DEF RoundedIn
<1>3. CASE 0 < n /\ n < length * d
  <2>1. q \in Int /\ 2 * (d * q) <= (2 * n) + d /\ (2 * n) - d < 2 * (d * q)
    BY Rounding
  <2>2. RoundedIn(n, d, length) = q
    BY <1>1, <1>3 DEF RoundedIn
  <2> HIDE DEF q
  <2>3. d * q \in Int /\ d * (length + 1) = (d * length) + d /\ d * (-1) = -d
    BY <2>1
  <2>4. d * q < d * (length + 1) /\ d * (-1) < d * q
    BY <1>1, <1>3, <2>1, <2>3
  <2>5. q < length + 1 /\ -1 < q
    BY <2>1, <2>4, ProductOrder
  <2> QED
    BY <2>1, <2>2, <2>5
<1> QED
  BY <1>1, <1>2, <1>3

(* Clamping and rounding keep the order.                                   *)
LEMMA RoundedInOrder ==
  ASSUME NEW n \in Int, NEW k \in Int, n <= k, NEW d \in Nat \ {0}, NEW length \in Nat
  PROVE  RoundedIn(n, d, length) <= RoundedIn(k, d, length)
<1>1. length * d \in Nat
  OBVIOUS
<1>2. RoundedIn(n, d, length) \in 0 .. length /\ RoundedIn(k, d, length) \in 0 .. length
  BY RoundedInRange
<1>3. CASE n <= 0
  BY <1>1, <1>2, <1>3 DEF RoundedIn
<1>4. CASE 0 < n /\ k >= length * d
  <2>1. RoundedIn(k, d, length) = length
    BY <1>1, <1>4 DEF RoundedIn
  <2> QED
    BY <1>2, <2>1
<1>5. CASE 0 < n /\ k < length * d
  <2>1. /\ RoundedIn(n, d, length) = (2 * n + d) \div (2 * d)
        /\ RoundedIn(k, d, length) = (2 * k + d) \div (2 * d)
    BY <1>1, <1>5 DEF RoundedIn
  <2> QED
    BY <2>1, RoundingOrder
<1> QED
  BY <1>1, <1>3, <1>4, <1>5

(* One that is off by less than e is off by less than that and a half.     *)
LEMMA RoundedInClose ==
  ASSUME NEW n \in Int, NEW d \in Nat \ {0}, NEW length \in Nat, NEW p \in 0 .. length,
         NEW e \in Nat, (p * d) - e <= n, n <= (p * d) + e
  PROVE  LET f == RoundedIn(n, d, length)
         IN  2 * (d * (f - p)) <= (2 * e) + d /\ 2 * (d * (p - f)) <= (2 * e) + d
<1> DEFINE f == RoundedIn(n, d, length)
<1>1. length * d \in Nat /\ p * d \in Nat /\ f \in 0 .. length
  BY RoundedInRange
<1> HIDE DEF f
<1>2. d * (f - p) = (f * d) - (p * d) /\ d * (p - f) = (p * d) - (f * d) /\ f * d \in Nat
      /\ d * f = f * d
  BY <1>1
<1>3. CASE n <= 0
  <2>1. f = 0 /\ f * d = 0
    BY <1>3 DEF f, RoundedIn
  <2> QED
    BY <1>1, <1>2, <1>3, <2>1 DEF f
<1>4. CASE n > 0 /\ n >= length * d
  <2>1. f = length
    BY <1>1, <1>4 DEF f, RoundedIn
  <2>2. f * d >= p * d
    BY <1>1, <2>1
  <2> QED
    BY <1>1, <1>2, <1>4, <2>1, <2>2 DEF f
<1>5. CASE n > 0 /\ n < length * d
  <2>1. f = (2 * n + d) \div (2 * d)
    BY <1>1, <1>5 DEF f, RoundedIn
  <2>2. 2 * (d * f) <= (2 * n) + d /\ (2 * n) - d < 2 * (d * f)
    BY <2>1, Rounding
  <2> QED
    BY <1>1, <1>2, <2>2 DEF f
<1> QED
  BY <1>1, <1>3, <1>4, <1>5

-----------------------------------------------------------------------------
(* The canvas.                                                             *)

(* The borders take what the picture leaves; the first may be half a pixel *)
(* short of half of that.                                                  *)
LEMMA Borders ==
  ASSUME NEW s \in 0 .. Side
  PROVE  /\ Before(s) \in Nat /\ After(s) \in Nat /\ Slack(s) \in Nat
         /\ Before(s) + s + After(s) = Side
         /\ 2 * Before(s) - Slack(s) \in {-1, 0}
<1>1. PICK x \in Nat : x = Slack(s) /\ x = Side - s
  BY InferenceAssumption DEF Slack
<1>2. /\ (5 * x - 1 + 5) \div 10 \in Nat /\ (5 * x + 1 + 5) \div 10 \in Nat
      /\ ((5 * x - 1 + 5) \div 10) + ((5 * x + 1 + 5) \div 10) = x
      /\ 2 * ((5 * x - 1 + 5) \div 10) - x \in {-1, 0}
  OBVIOUS
<1> QED
  BY <1>1, <1>2, InferenceAssumption DEF Before, After

Edges(size) == size \in [Axes -> Nat \ {0}]

LEMMA LongestShortest ==
  ASSUME NEW size, Edges(size)
  PROVE  /\ Longest(size) \in Nat \ {0} /\ Shortest(size) \in Nat \ {0}
         /\ \A a \in Axes : /\ size[a] \in Nat \ {0}
                            /\ Shortest(size) <= size[a] /\ size[a] <= Longest(size)
         /\ \E a \in Axes : size[a] = Shortest(size)
BY DEF Edges, Longest, Shortest, Axes

(* What a rounded side says of the shape of the picture.                   *)
LEMMA ScaledShape ==
  ASSUME NEW size, Edges(size), NEW s \in ScaledSizes(size)
  PROVE  /\ s \in [Axes -> 0 .. Side]
         /\ (\E a \in Axes : s[a] = 0) => Longest(size) >= 2 * Side * Shortest(size)
         /\ (\A a \in Axes : s[a] # 0) => Longest(size) <= 2 * Side * Shortest(size)
<1> DEFINE l == Longest(size)
<1>1. /\ l \in Nat \ {0} /\ Shortest(size) \in Nat \ {0} /\ Side \in Nat \ {0}
      /\ \A a \in Axes : size[a] \in Nat \ {0} /\ Shortest(size) <= size[a]
  BY LongestShortest, InferenceAssumption
<1>2. /\ s \in [Axes -> 0 .. Side]
      /\ \A a \in Axes : /\ s[a] \in 0 .. Side
                         /\ 2 * (size[a] * Side) - l <= 2 * (s[a] * l)
                         /\ 2 * (s[a] * l) <= 2 * (size[a] * Side) + l
  BY DEF ScaledSizes, Nearest
<1> HIDE DEF l
<1>3. ASSUME NEW a \in Axes, s[a] = 0
      PROVE  l >= 2 * Side * Shortest(size)
  <2>1. 2 * (size[a] * Side) <= l
    <3>1. s[a] * l = 0 /\ size[a] * Side \in Nat
      BY <1>1, <1>3
    <3> QED
      BY <1>1, <1>2, <3>1
  <2>2. Side * Shortest(size) <= Side * size[a]
    BY <1>1, ProductOrder
  <2>3. 2 * Side * Shortest(size) = 2 * (Side * Shortest(size)) /\ Side * size[a] = size[a] * Side
        /\ Side * Shortest(size) \in Nat
    BY <1>1
  <2> QED
    BY <1>1, <2>1, <2>2, <2>3
<1>4. ASSUME \A a \in Axes : s[a] # 0
      PROVE  l <= 2 * Side * Shortest(size)
  <2>1. PICK a \in Axes : size[a] = Shortest(size)
    BY LongestShortest
  <2>2. PICK k \in Nat : k = s[a] /\ 1 <= k
    BY <1>2, <1>4, InferenceAssumption
  <2>3. l * 1 <= l * k
    BY <1>1, <2>2, ProductOrder
  <2>4. l * 1 = l /\ l * k = k * l /\ k * l \in Nat /\ size[a] * Side \in Nat
        /\ 2 * Side * Shortest(size) = 2 * (size[a] * Side)
    BY <1>1, <2>1, <2>2
  <2>5. 2 * (k * l) <= 2 * (size[a] * Side) + l
    BY <1>2, <2>2
  <2> QED
    BY <1>1, <2>3, <2>4, <2>5
<1> QED
  BY <1>2, <1>3, <1>4 DEF l

-----------------------------------------------------------------------------
(* The way back.                                                           *)

(* Whatever box the engine leaves, its defect is in the picture.           *)
LEMMA DefectInside ==
  ASSUME NEW size \in [Axes -> Nat], NEW s \in [Axes -> 0 .. Side],
         NEW box \in [Axes -> Spans], \A a \in Axes : box[a].lo <= box[a].hi
  PROVE  \A a \in Axes :
           LET d == Defect(box, size, s)[a]
           IN  /\ d.min \in Int /\ d.max \in Int
               /\ 0 <= d.min /\ d.min <= d.max /\ d.max <= size[a]
<1> SUFFICES ASSUME NEW a \in Axes
             PROVE  LET d == Defect(box, size, s)[a]
                    IN  /\ d.min \in Int /\ d.max \in Int
                        /\ 0 <= d.min /\ d.min <= d.max /\ d.max <= size[a]
  OBVIOUS
<1>1. PICK lo \in Int, hi \in Int, den \in Nat \ {0} :
        lo = box[a].lo /\ hi = box[a].hi /\ den = box[a].den /\ lo <= hi
  BY DEF Spans
<1>2. PICK m \in Nat : m = Longest(size)
  BY DEF Longest, Axes
<1>3. PICK x \in Nat : x = Slack(s[a])
  BY Borders
<1> DEFINE n == (2 * lo - x * den) * m
           k == (2 * hi - x * den) * m
           d == 2 * (den * Side)
<1>4. d \in Nat \ {0} /\ n \in Int /\ k \in Int /\ size[a] \in Nat
  BY InferenceAssumption
<1>5. n <= k
  <2> DEFINE u == 2 * lo - x * den
             v == 2 * hi - x * den
  <2>1. u \in Int /\ v \in Int /\ u <= v
    BY <1>1
  <2>2. n = u * m /\ k = v * m
    OBVIOUS
  <2> HIDE DEF n, k, u, v
  <2> QED
    BY <2>1, <2>2
<1>6. Defect(box, size, s)[a] = [min |-> RoundedIn(n, d, size[a]), max |-> RoundedIn(k, d, size[a])]
  BY <1>1, <1>2, <1>3 DEF Defect, EdgeBack
<1> HIDE DEF n, k, d
<1>7. RoundedIn(n, d, size[a]) \in 0 .. size[a] /\ RoundedIn(k, d, size[a]) \in 0 .. size[a]
  BY <1>4, RoundedInRange
<1>8. RoundedIn(n, d, size[a]) <= RoundedIn(k, d, size[a])
  BY <1>4, <1>5, RoundedInOrder
<1> QED
  BY <1>6, <1>7, <1>8, <1>4

(* An edge that the engine finds where it is on the canvas comes back to   *)
(* within a pixel of the canvas, rounded.                                  *)
LEMMA EdgeClose ==
  ASSUME NEW size, Edges(size), NEW s \in ScaledSizes(size), NEW a \in Axes,
         NEW p \in 0 .. size[a]
  PROVE  Close(EdgeBack(Before(s[a]) * size[a] + p * s[a], size[a], size, s, a), p, size)
<1>1. PICK l \in Nat \ {0} : l = size[a]
  BY LongestShortest
<1>2. PICK m \in Nat \ {0} : m = Longest(size)
  BY LongestShortest
<1>3. PICK t \in 0 .. Side : /\ t = s[a]
                             /\ 2 * (l * Side) - m <= 2 * (t * m)
                             /\ 2 * (t * m) <= 2 * (l * Side) + m
  BY <1>1, <1>2 DEF ScaledSizes, Nearest
<1>4. PICK b \in Nat, x \in Nat : b = Before(t) /\ x = Slack(t) /\ 2 * b - x \in {-1, 0}
  BY Borders
<1>5. PICK c \in {-1, 0} : c = 2 * b - x
  BY <1>4
<1> DEFINE n == (2 * (b * l + p * t) - x * l) * m
           d == 2 * (l * Side)
           e == 2 * (l * m)
           f == RoundedIn(n, d, l)
<1>6. d \in Nat \ {0} /\ e \in Nat /\ n \in Int /\ p \in Nat /\ p <= l
  BY <1>1, InferenceAssumption
(* How far the fraction is off: half a pixel for the border, half for the  *)
(* scaled side.                                                            *)
<1>7. (p * d) - e <= n /\ n <= (p * d) + e
  <2>1. PICK w \in Int : w = 2 * (t * m) - 2 * (l * Side) /\ -m <= w /\ w <= m
    BY <1>3, InferenceAssumption
  <2>2. n - (p * d) = (c * (l * m)) + (p * w)
    <3>1. 2 * (b * l + p * t) - x * l = (c * l) + 2 * (p * t)
      <4>1. c * l = 2 * (b * l) - x * l
        BY <1>5
      <4> QED
        BY <4>1, <1>3
    <3>2. n = (c * (l * m)) + 2 * (p * (t * m))
      <4>1. n = ((c * l) + 2 * (p * t)) * m
        BY <3>1
      <4>2. ((c * l) + 2 * (p * t)) * m = (c * l) * m + (2 * (p * t)) * m
        BY <1>3
      <4>3. (c * l) * m = c * (l * m) /\ (2 * (p * t)) * m = 2 * (p * (t * m))
        BY <1>3
      <4> QED
        BY <4>1, <4>2, <4>3
    <3>3. p * w = 2 * (p * (t * m)) - p * d
      BY <2>1, <1>3, InferenceAssumption
    <3> QED
      BY <3>2, <3>3, <1>3, InferenceAssumption
  <2>3. -(p * m) <= p * w /\ p * w <= p * m
    BY <2>1, <1>6
  <2>4. p * m <= l * m
    BY <1>6
  <2>5. -(l * m) <= c * (l * m) /\ c * (l * m) <= 0
    BY <1>5
  <2>6. /\ n \in Int /\ p * d \in Int /\ l * m \in Nat /\ p * m \in Nat /\ p * w \in Int
        /\ c * (l * m) \in Int
    BY <1>6, <2>1
  <2> HIDE DEF n, d
  <2> QED
    BY <2>2, <2>3, <2>4, <2>5, <2>6
<1>8. EdgeBack(Before(s[a]) * size[a] + p * s[a], size[a], size, s, a) = f
  BY <1>1, <1>2, <1>3, <1>4 DEF EdgeBack
<1>9. f \in 0 .. l
  BY <1>6, RoundedInRange
<1>10. 2 * (d * (f - p)) <= (2 * e) + d /\ 2 * (d * (p - f)) <= (2 * e) + d
  <2>1. l \in Nat /\ p \in 0 .. l
    BY <1>6
  <2> HIDE DEF n, d, e
  <2> QED
    BY <1>6, <1>7, <2>1, RoundedInClose DEF f
<1> HIDE DEF f
(* Twice the length of the picture is a factor of both sides.              *)
<1>11. ASSUME NEW o \in Int, 2 * (d * o) <= (2 * e) + d
       PROVE  2 * Side * o <= 2 * m + Side
  <2>1. 2 * (d * o) = (2 * l) * (2 * Side * o)
    BY InferenceAssumption
  <2>2. (2 * e) + d = (2 * l) * (2 * m + Side)
    BY InferenceAssumption
  <2>3. 2 * l \in Nat \ {0} /\ 2 * Side * o \in Int /\ 2 * m + Side \in Int
    BY InferenceAssumption
  <2> QED
    BY <1>11, <2>1, <2>2, <2>3, ProductOrder
<1>12. f - p \in Int /\ p - f \in Int
  BY <1>9
<1>13. 2 * Side * (f - p) <= 2 * m + Side /\ 2 * Side * (p - f) <= 2 * m + Side
  BY <1>10, <1>11, <1>12
<1> QED
  BY <1>2, <1>8, <1>13 DEF Close

(* Physical coordinates keep the order of the pixels.                      *)
LEMMA PhysicalOrder ==
  ASSUME NEW i \in Nat, NEW k \in Nat, i <= k, NEW scale \in Scales,
         Lround(k * scale[1], scale[2]) < HalfInt
  PROVE  ComputePhysicalCoordinate(i, scale) <= ComputePhysicalCoordinate(k, scale)
<1>1. PICK n \in Int, d \in Nat \ {0} : n = scale[1] /\ d = scale[2]
  BY InferenceAssumption
<1>2. CASE n <= 0
  BY <1>1, <1>2 DEF ComputePhysicalCoordinate
<1>3. CASE n > 0
  <2>1. i * n \in Nat /\ k * n \in Nat /\ i * n <= k * n
    BY <1>3
  <2> DEFINE p == (2 * (i * n) + d) \div (2 * d)
             q == (2 * (k * n) + d) \div (2 * d)
  <2>2. Lround(i * n, d) = p /\ Lround(k * n, d) = q
    BY <2>1 DEF Lround
  <2>3. p <= q
    BY <2>1, RoundingOrder
  <2>4. /\ p \in Int /\ q \in Int
        /\ (2 * (i * n)) - d < 2 * (d * p)
    BY <2>1, Rounding
  <2> HIDE DEF p, q
  <2>5. 0 <= p
    <3>1. d * p \in Int /\ d * (-1) = -d /\ d * (-1) < d * p
      BY <2>1, <2>4
    <3> QED
      BY <2>4, <3>1, ProductOrder
  <2>6. q < HalfInt
    BY <1>1, <2>2
  <2>7. ASSUME NEW m \in Int, 0 <= m, m < HalfInt
        PROVE  ToInt(m) = m
    BY <2>7, InferenceAssumption DEF ToInt
  <2>8. ToInt(p) = p /\ ToInt(q) = q
    BY <2>3, <2>4, <2>5, <2>6, <2>7, InferenceAssumption
  <2> QED
    BY <1>1, <1>3, <2>2, <2>3, <2>8 DEF ComputePhysicalCoordinate
<1> QED
  BY <1>1, <1>2, <1>3

-----------------------------------------------------------------------------
(* What every state of the detector keeps.                                 *)

Programs == {"worker", "batch"}

Places == {"wait", "decoded", "loaded", "ran", "thrown", "exited"}

InfTypeOK ==
  net \in [mode : Programs, at : Places, size : Sizes \cup {Blank},
           sight : SUBSET [Axes -> [lo : Marks, hi : Marks]], scaled : [Axes -> 0 .. Side],
           outputs : SUBSET [Axes -> Spans], own : BOOLEAN, doomed : BOOLEAN,
           said : {"nothing", "error", "defects"}, defects : SUBSET [Axes -> [min : Int, max : Int]]]

(* What is in a picture is in it; boxes have their edges in order.         *)
BoxesOrdered ==
  /\ net.sight = {} \/ (net.size # Blank /\ net.sight \in Sights(net.size))
  /\ \A box \in net.outputs, a \in Axes : box[a].lo <= box[a].hi

(* The size on the canvas is that of the picture at hand.                  *)
CanvasOfPicture ==
  /\ net.at \in {"loaded", "ran"} =>
       IF net.size = Blank THEN net.scaled = Blank
       ELSE net.scaled \in ScaledSizes(net.size) /\ \A a \in Axes : net.scaled[a] # 0
  /\ net.at = "thrown" /\ net.size # Blank =>
       net.scaled \in ScaledSizes(net.size) /\ \E a \in Axes : net.scaled[a] = 0

(* What the outputs hold before they are taken back.                       *)
OutputsOwn ==
  net.at = "ran" /\ net.own => net.outputs = OnCanvas(net.sight, net.size, net.scaled)

InfInv ==
  /\ InfTypeOK /\ BoxesOrdered /\ CanvasOfPicture /\ OutputsOwn
  /\ OwnDefects /\ InsidePicture

LEMMA SizesHaveEdges ==
  /\ \A size \in Sizes : Edges(size) /\ size # Blank
  /\ \A size \in Sizes \cup {Blank} : size \in [Axes -> Nat]
<1>1. \A size \in Sizes : size \in [Axes -> Nat \ {0}]
  BY InferenceAssumption DEF Sizes
<1>2. \A size \in Sizes : size["x"] # 0 /\ Blank["x"] = 0
  BY <1>1 DEF Axes, Blank
<1>3. Blank \in [Axes -> Nat]
  BY DEF Blank
<1> QED
  BY <1>1, <1>2, <1>3 DEF Edges

LEMMA SightTypes ==
  ASSUME NEW size, NEW sight \in Sights(size)
  PROVE  /\ sight \in SUBSET [Axes -> [lo : Marks, hi : Marks]]
         /\ \A box \in sight, a \in Axes :
              /\ box[a].lo \in Nat /\ box[a].hi \in Nat
              /\ box[a].lo <= box[a].hi /\ box[a].hi <= size[a]
BY InferenceAssumption DEF Sights, Boxes

(* The objects of a picture are boxes on the canvas, in order.             *)
LEMMA OnCanvasBoxes ==
  ASSUME NEW size \in Sizes, NEW sight \in Sights(size), NEW scaled \in [Axes -> 0 .. Side]
  PROVE  /\ OnCanvas(sight, size, scaled) \in SUBSET [Axes -> Spans]
         /\ \A box \in OnCanvas(sight, size, scaled), a \in Axes : box[a].lo <= box[a].hi
<1> SUFFICES ASSUME NEW box \in sight
             PROVE  LET c == [a \in Axes |->
                                [lo  |-> Before(scaled[a]) * size[a] + box[a].lo * scaled[a],
                                 hi  |-> Before(scaled[a]) * size[a] + box[a].hi * scaled[a],
                                 den |-> size[a]]]
                    IN  c \in [Axes -> Spans] /\ \A a \in Axes : c[a].lo <= c[a].hi
  BY DEF OnCanvas
<1>1. ASSUME NEW a \in Axes
      PROVE  /\ Before(scaled[a]) * size[a] + box[a].lo * scaled[a] \in Int
             /\ Before(scaled[a]) * size[a] + box[a].hi * scaled[a] \in Int
             /\ size[a] \in Nat \ {0}
             /\ Before(scaled[a]) * size[a] + box[a].lo * scaled[a]
                  <= Before(scaled[a]) * size[a] + box[a].hi * scaled[a]
  <2>1. PICK lo \in Nat, hi \in Nat : lo = box[a].lo /\ hi = box[a].hi /\ lo <= hi
    BY SightTypes
  <2>2. PICK s \in Nat, b \in Nat, l \in Nat \ {0} :
          s = scaled[a] /\ b = Before(scaled[a]) /\ l = size[a]
    BY Borders, SizesHaveEdges, InferenceAssumption DEF Edges
  <2>3. lo * s <= hi * s /\ lo * s \in Nat /\ hi * s \in Nat /\ b * l \in Nat
    BY <2>1, <2>2
  <2> QED
    BY <2>1, <2>2, <2>3
<1> QED
  BY <1>1 DEF Spans

(* What is reported of a picture the engine has worked on.                 *)
LEMMA DefectsClose ==
  ASSUME NEW size \in Sizes, NEW sight \in Sights(size), NEW scaled \in ScaledSizes(size),
         NEW box \in sight
  PROVE  \E c \in OnCanvas(sight, size, scaled) :
           \A a \in Axes : /\ Close(Defect(c, size, scaled)[a].min, box[a].lo, size)
                           /\ Close(Defect(c, size, scaled)[a].max, box[a].hi, size)
<1> DEFINE c == [a \in Axes |-> [lo  |-> Before(scaled[a]) * size[a] + box[a].lo * scaled[a],
                                 hi  |-> Before(scaled[a]) * size[a] + box[a].hi * scaled[a],
                                 den |-> size[a]]]
<1>1. c \in OnCanvas(sight, size, scaled)
  BY DEF OnCanvas
<1>2. ASSUME NEW a \in Axes
      PROVE  /\ Close(Defect(c, size, scaled)[a].min, box[a].lo, size)
             /\ Close(Defect(c, size, scaled)[a].max, box[a].hi, size)
  <2>1. Edges(size)
    BY SizesHaveEdges
  <2>2. size[a] \in Nat
    BY SizesHaveEdges
  <2>3. box[a].lo \in 0 .. size[a] /\ box[a].hi \in 0 .. size[a]
    BY <2>2, SightTypes
  <2>4. Defect(c, size, scaled)[a] =
          [min |-> EdgeBack(Before(scaled[a]) * size[a] + box[a].lo * scaled[a], size[a], size, scaled, a),
           max |-> EdgeBack(Before(scaled[a]) * size[a] + box[a].hi * scaled[a], size[a], size, scaled, a)]
    BY DEF Defect
  <2> QED
    BY <2>1, <2>3, <2>4, EdgeClose
<1> QED
  BY <1>1, <1>2

-----------------------------------------------------------------------------
LEMMA GuessesAreBoxes ==
  /\ Guesses \subseteq SUBSET [Axes -> Spans]
  /\ \A found \in Guesses : \A box \in found, a \in Axes : box[a].lo <= box[a].hi
BY InferenceAssumption DEF Guesses

LEMMA InfStart == InfInit => InfInv
<1> SUFFICES ASSUME InfInit
             PROVE  InfInv
  OBVIOUS
<1>1. InfTypeOK
  <2>1. Blank \in [Axes -> 0 .. Side]
    BY InferenceAssumption DEF Blank
  <2>2. Guesses \subseteq SUBSET [Axes -> Spans]
    BY GuessesAreBoxes
  <2>3. {"wait"} \subseteq Places /\ {Blank} \subseteq Sizes \cup {Blank}
    BY DEF Places
  <2> QED
    BY <2>1, <2>2, <2>3 DEF InfInit, InfTypeOK, Programs
<1>2. BoxesOrdered
  BY GuessesAreBoxes DEF InfInit, BoxesOrdered
<1>3. CanvasOfPicture /\ OutputsOwn /\ OwnDefects /\ InsidePicture
  BY DEF InfInit, CanvasOfPicture, OutputsOwn, OwnDefects, InsidePicture
<1> QED
  BY <1>1, <1>2, <1>3 DEF InfInv

LEMMA InfStep == InfInv /\ [InfNext]_net => InfInv'
<1> SUFFICES ASSUME InfInv, [InfNext]_net
             PROVE  InfInv'
  OBVIOUS
<1> USE DEF InfInv
<1>1. ASSUME NEW size \in Sizes, NEW sight \in Sights(size), Decode(size, sight)
      PROVE  InfInv'
  <2>1. size # Blank /\ sight \in SUBSET [Axes -> [lo : Marks, hi : Marks]]
    BY SizesHaveEdges, SightTypes
  <2>2. InfTypeOK'
    BY <1>1, <2>1 DEF Decode, InfTypeOK, Places
  <2>3. BoxesOrdered'
    BY <1>1, <2>1 DEF Decode, InfTypeOK, BoxesOrdered
  <2>4. CanvasOfPicture' /\ OutputsOwn' /\ OwnDefects' /\ InsidePicture'
    BY <1>1 DEF Decode, InfTypeOK, CanvasOfPicture, OutputsOwn, OwnDefects, InsidePicture
  <2> QED
    BY <2>2, <2>3, <2>4
<1>2. CASE RefusePicture
  <2>1. InfTypeOK' /\ BoxesOrdered'
    BY <1>2 DEF RefusePicture, InfTypeOK, BoxesOrdered
  <2>2. CanvasOfPicture' /\ OutputsOwn' /\ OwnDefects' /\ InsidePicture'
    BY <1>2 DEF RefusePicture, InfTypeOK, CanvasOfPicture, OutputsOwn, OwnDefects, InsidePicture
  <2> QED
    BY <2>1, <2>2
<1>3. CASE DecodeNothing
  <2>1. InfTypeOK' /\ BoxesOrdered'
    BY <1>3 DEF DecodeNothing, Decode, InfTypeOK, BoxesOrdered, Places
  <2>2. CanvasOfPicture' /\ OutputsOwn' /\ OwnDefects' /\ InsidePicture'
    BY <1>3 DEF DecodeNothing, Decode, InfTypeOK, CanvasOfPicture, OutputsOwn, OwnDefects,
                InsidePicture
  <2> QED
    BY <2>1, <2>2
<1>4. CASE CopyFromMat
  <2>1. PICK scaled \in ScaledSizes(net.size) :
          IF \E a \in Axes : scaled[a] = 0
          THEN net' = [net EXCEPT !.at = "thrown", !.scaled = scaled]
          ELSE Load(scaled)
    BY <1>4 DEF CopyFromMat
  <2>2. scaled \in [Axes -> 0 .. Side] /\ net.size # Blank
    BY <1>4 DEF ScaledSizes, CopyFromMat
  <2>3. InfTypeOK' /\ BoxesOrdered'
    <3>1. "thrown" \in Places /\ "loaded" \in Places
      BY DEF Places
    <3>2. CASE net' = [net EXCEPT !.at = "thrown", !.scaled = scaled]
      BY <2>2, <3>1, <3>2 DEF InfTypeOK, BoxesOrdered
    <3>3. CASE Load(scaled)
      BY <2>2, <3>1, <3>3 DEF Load, InfTypeOK, BoxesOrdered
    <3> QED
      BY <2>1, <3>2, <3>3
  <2>4. CanvasOfPicture'
    BY <2>1, <2>2 DEF Load, InfTypeOK, CanvasOfPicture
  <2>5. OutputsOwn' /\ OwnDefects' /\ InsidePicture'
    BY <2>1 DEF Load, InfTypeOK, OutputsOwn, OwnDefects, InsidePicture
  <2> QED
    BY <2>3, <2>4, <2>5
<1>5. CASE CopyNothing
  <2>1. Blank \in [Axes -> 0 .. Side]
    BY InferenceAssumption DEF Blank
  <2>2. InfTypeOK' /\ BoxesOrdered'
    <3>0. PICK at \in Places : net' = [net EXCEPT !.at = at, !.scaled = Blank]
      BY <1>5 DEF CopyNothing, Places
    <3>1. UNCHANGED <<net.sight, net.size, net.outputs>>
      BY <3>0 DEF InfTypeOK
    <3>2. InfTypeOK'
      BY <3>0, <2>1 DEF InfTypeOK
    <3> QED
      BY <3>1, <3>2 DEF BoxesOrdered
  <2>3. CanvasOfPicture' /\ OutputsOwn' /\ OwnDefects' /\ InsidePicture'
    BY <1>5 DEF CopyNothing, InfTypeOK, CanvasOfPicture, OutputsOwn, OwnDefects, InsidePicture
  <2> QED
    BY <2>2, <2>3
<1>6. CASE Infer
  <2> DEFINE found == OnCanvas(net.sight, net.size, net.scaled)
  <2>1. found \in SUBSET [Axes -> Spans] /\ \A box \in found, a \in Axes : box[a].lo <= box[a].hi
    <3>1. CASE net.sight = {}
      BY <3>1 DEF OnCanvas
    <3>2. CASE net.sight # {}
      BY <3>2, OnCanvasBoxes DEF BoxesOrdered, InfTypeOK
    <3> QED
      BY <3>1, <3>2
  <2>2. InfTypeOK' /\ BoxesOrdered'
    <3> HIDE DEF found
    <3>1. net' = [net EXCEPT !.at = "ran", !.outputs = found, !.own = TRUE]
      BY <1>6 DEF Infer, found
    <3>2. UNCHANGED <<net.sight, net.size>> /\ net'.outputs = found
      BY <3>1 DEF InfTypeOK
    <3>3. InfTypeOK'
      BY <2>1, <3>1 DEF InfTypeOK, Places
    <3> QED
      BY <2>1, <3>2, <3>3 DEF BoxesOrdered
  <2>3. CanvasOfPicture' /\ OutputsOwn' /\ OwnDefects' /\ InsidePicture'
    BY <1>6 DEF Infer, InfTypeOK, CanvasOfPicture, OutputsOwn, OwnDefects, InsidePicture
  <2> QED
    BY <2>2, <2>3
<1>7. CASE InferInVain
  <2>0. UNCHANGED <<net.sight, net.size, net.outputs>>
    BY <1>7 DEF InferInVain, InfTypeOK
  <2>a. InfTypeOK'
    <3>1. PICK error \in BOOLEAN : net' = [net EXCEPT !.at = "ran", !.own = FALSE, !.doomed = error]
      BY <1>7 DEF InferInVain
    <3> QED
      BY <3>1 DEF InfTypeOK, Places
  <2>1. InfTypeOK' /\ BoxesOrdered'
    BY <2>0, <2>a DEF BoxesOrdered
  <2>2. CanvasOfPicture' /\ OutputsOwn' /\ OwnDefects' /\ InsidePicture'
    BY <1>7 DEF InferInVain, InfTypeOK, CanvasOfPicture, OutputsOwn, OwnDefects, InsidePicture
  <2> QED
    BY <2>1, <2>2
<1>8. CASE CheckFails \/ EndBatch
  <2>0. UNCHANGED <<net.sight, net.size, net.outputs>>
    BY <1>8 DEF CheckFails, EndBatch, InfTypeOK
  <2>a. InfTypeOK'
    <3>1. net' = [net EXCEPT !.at = "exited"]
      BY <1>8 DEF CheckFails, EndBatch
    <3> QED
      BY <3>1 DEF InfTypeOK, Places
  <2>1. InfTypeOK' /\ BoxesOrdered'
    BY <2>0, <2>a DEF BoxesOrdered
  <2>2. CanvasOfPicture' /\ OutputsOwn' /\ OwnDefects' /\ InsidePicture'
    BY <1>8 DEF CheckFails, EndBatch, InfTypeOK, CanvasOfPicture, OutputsOwn, OwnDefects, InsidePicture
  <2> QED
    BY <2>1, <2>2
<1>9. CASE Postprocess
  <2> DEFINE defects == {Defect(box, net.size, net.scaled) : box \in net.outputs}
  <2>1. net.size \in [Axes -> Nat] /\ net.scaled \in [Axes -> 0 .. Side]
    BY SizesHaveEdges DEF InfTypeOK
  <2>2. ASSUME NEW box \in net.outputs
        PROVE  /\ Defect(box, net.size, net.scaled) \in [Axes -> [min : Int, max : Int]]
               /\ \A a \in Axes :
                    LET d == Defect(box, net.size, net.scaled)[a]
                    IN  0 <= d.min /\ d.min <= d.max /\ d.max <= net.size[a]
    <3>1. box \in [Axes -> Spans] /\ \A a \in Axes : box[a].lo <= box[a].hi
      BY DEF InfTypeOK, BoxesOrdered
    <3>2. \A a \in Axes :
            LET d == Defect(box, net.size, net.scaled)[a]
            IN  /\ d.min \in Int /\ d.max \in Int
                /\ 0 <= d.min /\ d.min <= d.max /\ d.max <= net.size[a]
      BY <2>1, <3>1, DefectInside
    <3> QED
      BY <3>2 DEF Defect
  <2>3. net' = [net EXCEPT !.at = "wait", !.said = "defects", !.defects = defects]
    BY <1>9 DEF Postprocess
  <2>4. InfTypeOK' /\ BoxesOrdered' /\ CanvasOfPicture' /\ OutputsOwn'
    <3>1. defects \in SUBSET [Axes -> [min : Int, max : Int]]
      BY <2>2
    <3> HIDE DEF defects
    <3>2. "wait" \in Places
      BY DEF Places
    <3>3. InfTypeOK'
      BY <2>3, <3>1, <3>2 DEF InfTypeOK
    <3>4. BoxesOrdered' /\ CanvasOfPicture' /\ OutputsOwn'
      BY <2>3 DEF InfTypeOK, BoxesOrdered, CanvasOfPicture, OutputsOwn
    <3> QED
      BY <3>3, <3>4
  <2>5. InsidePicture'
    BY <2>2, <2>3 DEF InsidePicture, InfTypeOK
  <2>6. OwnDefects'
    <3> SUFFICES ASSUME net.own
                 PROVE  /\ \A box \in net.sight : \E d \in defects :
                             \A a \in Axes : /\ Close(d[a].min, box[a].lo, net.size)
                                             /\ Close(d[a].max, box[a].hi, net.size)
                        /\ net.sight = {} => defects = {}
      BY <2>3 DEF OwnDefects, InfTypeOK
    <3>1. net.outputs = OnCanvas(net.sight, net.size, net.scaled)
      BY <1>9 DEF Postprocess, OutputsOwn
    <3>2. CASE net.sight = {}
      BY <3>1, <3>2 DEF OnCanvas
    <3>3. CASE net.sight # {}
      <4>1. net.size \in Sizes /\ net.sight \in Sights(net.size)
        BY <3>3 DEF BoxesOrdered, InfTypeOK
      <4>2. net.scaled \in ScaledSizes(net.size)
        BY <1>9, <4>1, SizesHaveEdges DEF Postprocess, CanvasOfPicture
      <4> QED
        BY <3>1, <3>3, <4>1, <4>2, DefectsClose
    <3> QED
      BY <3>2, <3>3
  <2> QED
    BY <2>4, <2>5, <2>6
<1>10. CASE InferUnset
  <2>1. PICK found \in Guesses : net' = [net EXCEPT !.at = "ran", !.own = FALSE, !.outputs = found]
    BY <1>10 DEF InferUnset
  <2>2. UNCHANGED <<net.sight, net.size>> /\ net'.outputs = found
    BY <2>1 DEF InfTypeOK
  <2>3. InfTypeOK' /\ BoxesOrdered'
    <3>1. found \in SUBSET [Axes -> Spans] /\ "ran" \in Places
      BY GuessesAreBoxes DEF Places
    <3>2. InfTypeOK'
      BY <2>1, <3>1 DEF InfTypeOK
    <3> QED
      BY <2>2, <3>2, GuessesAreBoxes DEF BoxesOrdered
  <2>4. CanvasOfPicture' /\ OutputsOwn' /\ OwnDefects' /\ InsidePicture'
    BY <1>10 DEF InferUnset, InfTypeOK, CanvasOfPicture, OutputsOwn, OwnDefects, InsidePicture
  <2> QED
    BY <2>3, <2>4
<1>11. CASE UNCHANGED net
  BY <1>11 DEF InfTypeOK, BoxesOrdered, CanvasOfPicture, OutputsOwn, OwnDefects, InsidePicture
<1> QED
  BY <1>1, <1>2, <1>3, <1>4, <1>5, <1>6, <1>7, <1>8, <1>9, <1>10, <1>11 DEF InfNext

LEMMA InfInvariance == InfSpec => []InfInv
BY InfStart, InfStep, PTL DEF InfSpec

-----------------------------------------------------------------------------
(* After a run of the engine, the objects of a picture are reported within *)
(* a pixel of the canvas of where they are, and half a pixel of rounding:  *)
(* for pictures and canvases of every size, whatever has failed before.    *)
THEOREM DefectsAreOwn == InfSpec => []OwnDefects
<1>1. InfInv => OwnDefects
  BY DEF InfInv
<1> QED
  BY <1>1, InfInvariance, PTL

(* Whatever the engine has left, the edges of a defect are in order and in *)
(* the picture it is reported of.                                          *)
THEOREM DefectsAreInside == InfSpec => []InsidePicture
<1>1. InfInv => InsidePicture
  BY DEF InfInv
<1> QED
  BY <1>1, InfInvariance, PTL

(* For any scale the physical coordinates of a defect are in order as its  *)
(* pixels are, as long as the larger is an int before it is cast to one.   *)
THEOREM PhysicalIsOrdered == InfSpec => []PhysicalOrdered
<1>1. InfInv => PhysicalOrdered
  <2> SUFFICES ASSUME InfInv, net.at = "wait", NEW d \in net.defects, NEW s \in Scales,
                      Lround(d["y"].max * s[1], s[2]) < HalfInt
               PROVE  ComputePhysicalCoordinate(d["y"].min, s)
                        <= ComputePhysicalCoordinate(d["y"].max, s)
    BY DEF PhysicalOrdered
  <2>1. d["y"].min \in Nat /\ d["y"].max \in Nat /\ d["y"].min <= d["y"].max
    <3>1. "y" \in Axes /\ d \in [Axes -> [min : Int, max : Int]]
      BY DEF InfInv, InfTypeOK, Axes
    <3>2. 0 <= d["y"].min /\ d["y"].min <= d["y"].max
      BY <3>1 DEF InfInv, InsidePicture
    <3> QED
      BY <3>1, <3>2
  <2> QED
    BY <2>1, PhysicalOrder
<1> QED
  BY <1>1, InfInvariance, PTL

(* Whatever the sides of canvas and picture: where a picture was read, no  *)
(* number is copied that is not there, and none is left out.               *)
THEOREM TensorIsFilled == InfSpec => []CanvasFilled
<1>1. InfInv => CanvasFilled
  <2> SUFFICES ASSUME InfTypeOK, net.size # Blank
               PROVE  BlobSize(net.size, net.scaled) = Copied
    BY DEF InfInv, CanvasFilled
  <2>1. \A a \in Axes : Before(net.scaled[a]) + net.scaled[a] + After(net.scaled[a]) = Side
    BY Borders DEF InfTypeOK
  <2>2. "x" \in Axes /\ "y" \in Axes /\ Channels(net.size) = 3
    BY DEF Axes, Channels
  <2> QED
    BY <2>1, <2>2 DEF BlobSize, Copied
<1> QED
  BY <1>1, InfInvariance, PTL

(* It is the shape of a picture alone that decides whether resize throws.  *)
THEOREM ShapesAreServed == InfSpec => []ShapeServed
<1>1. InfInv => ShapeServed
  <2> SUFFICES ASSUME InfInv, net.size # Blank
               PROVE  /\ net.at = "thrown" => Longest(net.size) >= 2 * Side * Shortest(net.size)
                      /\ net.at \in {"loaded", "ran"} =>
                           Longest(net.size) <= 2 * Side * Shortest(net.size)
    BY DEF ShapeServed
  <2>1. Edges(net.size)
    BY SizesHaveEdges DEF InfInv, InfTypeOK
  <2> QED
    BY <2>1, ScaledShape DEF InfInv, CanvasOfPicture
<1> QED
  BY <1>1, InfInvariance, PTL

=============================================================================
