------------------------ MODULE BufferPointersProofs ------------------------
(***************************************************************************)
(* What the arithmetic of buffer pointers computes, for every size of the  *)
(* buffer and every width of the pointers, as long as the one divides the  *)
(* other: the lemmas that the proofs about the data paths of the sockets   *)
(* cite.                                                                   *)
(***************************************************************************)
EXTENDS BufferPointers, TLAPS

-----------------------------------------------------------------------------
(* Division with remainder, of which the provers know the definition only. *)

\* A quotient and a remainder.
LEMMA Division ==
    ASSUME NEW x \in Int, NEW m \in Nat \ {0}
    PROVE  /\ x % m \in 0..(m - 1)
           /\ x \div m \in Int
           /\ x = m * (x \div m) + (x % m)
OBVIOUS

LEMMA Distributes ==
    ASSUME NEW m \in Nat, NEW a \in Int, NEW b \in Int
    PROVE  /\ m * (a + b) = m * a + m * b
           /\ m * (a - b) = m * a - m * b
           /\ m * a \in Int
OBVIOUS

\* A number less than m is no multiple of m, except 0.
LEMMA SmallMultiple ==
    ASSUME NEW m \in Nat \ {0}, NEW q \in Int, m * q < m, -m < m * q
    PROVE  q = 0
<1>1. CASE q >= 1
    <2>1. m * q >= m
        BY <1>1
    <2>. QED BY <2>1
<1>2. CASE q =< -1
    <2>1. m * q =< -m
        BY <1>2
    <2>. QED BY <2>1
<1>. QED BY <1>1, <1>2

\* The remainder is the only one.
LEMMA Remainder ==
    ASSUME NEW m \in Nat \ {0}, NEW q \in Int, NEW r \in 0..(m - 1), NEW x \in Int, x = m * q + r
    PROVE  x % m = r
<1>. DEFINE s == x % m
            d == x \div m
<1>1. s \in 0..(m - 1) /\ d \in Int /\ x = m * d + s
    BY Division
<1>. HIDE DEF s, d
<1>2. m * (q - d) = s - r
    BY <1>1
<1>3. q - d \in Int /\ m * (q - d) < m /\ -m < m * (q - d)
    BY <1>1, <1>2
<1>4. q - d = 0
    BY <1>3, SmallMultiple
<1>5. s = r
    BY <1>1, <1>2, <1>4
<1>. QED BY <1>5 DEF s

\* Numbers that differ by a multiple of m have the same remainder.
LEMMA SameRemainder ==
    ASSUME NEW m \in Nat \ {0}, NEW q \in Int, NEW x \in Int, NEW y \in Int, x = m * q + y
    PROVE  x % m = y % m
<1>. DEFINE s == y % m
            d == y \div m
<1>1. s \in 0..(m - 1) /\ d \in Int /\ y = m * d + s
    BY Division
<1>. HIDE DEF s, d
<1>2. x = m * (q + d) + s /\ q + d \in Int
    BY <1>1
<1>3. x % m = s
    BY <1>1, <1>2, Remainder
<1>. QED BY <1>3 DEF s

-----------------------------------------------------------------------------
(* Pointers: they wrap at POINTERS, and places in a buffer at Size.        *)

LEMMA Constants ==
    /\ Size \in Nat \ {0} /\ POINTERS \in Nat \ {0} /\ Size < POINTERS
    /\ POINTERS = Size * (POINTERS \div Size) /\ POINTERS \div Size \in Int
<1>1. Size \in Nat \ {0} /\ POINTERS \in Nat \ {0} /\ Size < POINTERS /\ POINTERS % Size = 0
    BY SizeAssumption, PointersAssumption
<1>. QED BY <1>1, Division

LEMMA AheadIs ==
    ASSUME NEW p \in Int, NEW q \in Int
    PROVE  /\ Ahead(p, q) \in 0..(POINTERS - 1)
           /\ \E e \in Int : p - q = POINTERS * e + Ahead(p, q)
<1>. DEFINE x == p - q
<1>1. x \in Int
    OBVIOUS
<1>. HIDE DEF x
<1>2. /\ x % POINTERS \in 0..(POINTERS - 1)
      /\ \E e \in Int : x = POINTERS * e + (x % POINTERS)
    BY <1>1, Constants, Division
<1>. QED BY <1>2 DEF Ahead, x

LEMMA AheadEquals ==
    ASSUME NEW p \in Int, NEW q \in Int, NEW e \in Int, NEW d \in 0..(POINTERS - 1),
           p - q = POINTERS * e + d
    PROVE  Ahead(p, q) = d
BY Constants, Remainder DEF Ahead

LEMMA AddIs ==
    ASSUME NEW p \in Int, NEW n \in Int
    PROVE  /\ Add(p, n) \in Pointers
           /\ \E e \in Int : p + n = POINTERS * e + Add(p, n)
<1>. DEFINE x == p + n
<1>1. x \in Int
    OBVIOUS
<1>. HIDE DEF x
<1>2. /\ x % POINTERS \in 0..(POINTERS - 1)
      /\ \E e \in Int : x = POINTERS * e + (x % POINTERS)
    BY <1>1, Constants, Division
<1>. QED BY <1>2 DEF Add, Pointers, x

\* What advances gets farther ahead, and what it is ahead of less far.
LEMMA AdvanceFirst ==
    ASSUME NEW p \in Int, NEW q \in Int, NEW n \in Nat, Ahead(p, q) + n < POINTERS
    PROVE  Ahead(Add(p, n), q) = Ahead(p, q) + n
<1>1. PICK e \in Int : p - q = POINTERS * e + Ahead(p, q)
    BY AheadIs
<1>2. PICK f \in Int : p + n = POINTERS * f + Add(p, n)
    BY AddIs
<1>3. Add(p, n) \in Pointers /\ Ahead(p, q) \in 0..(POINTERS - 1) /\ POINTERS \in Nat
    BY AddIs, AheadIs, Constants
<1>4. Add(p, n) - q = POINTERS * (e - f) + (Ahead(p, q) + n) /\ e - f \in Int
    <2>. DEFINE v == POINTERS * e
                w == POINTERS * f
    <2>1. v \in Int /\ w \in Int /\ POINTERS * (e - f) = v - w
        BY <1>3, Distributes
    <2>2. p - q = v + Ahead(p, q) /\ p + n = w + Add(p, n)
        BY <1>1, <1>2
    <2>. HIDE DEF v, w
    <2>3. Add(p, n) - q = (v - w) + (Ahead(p, q) + n)
        BY <2>1, <2>2, <1>3 DEF Pointers
    <2>. QED BY <2>1, <2>3
<1>5. Ahead(p, q) + n \in 0..(POINTERS - 1) /\ Add(p, n) \in Int
    BY <1>3 DEF Pointers
<1>. QED BY <1>4, <1>5, AheadEquals

LEMMA AdvanceSecond ==
    ASSUME NEW p \in Int, NEW q \in Int, NEW n \in Nat, n =< Ahead(p, q)
    PROVE  /\ Ahead(p, Add(q, n)) = Ahead(p, q) - n
           /\ Ahead(p, q + n) = Ahead(p, q) - n
<1>1. PICK e \in Int : p - q = POINTERS * e + Ahead(p, q)
    BY AheadIs
<1>2. PICK f \in Int : q + n = POINTERS * f + Add(q, n)
    BY AddIs
<1>3. Add(q, n) \in Pointers /\ Ahead(p, q) \in 0..(POINTERS - 1) /\ POINTERS \in Nat
    BY AddIs, AheadIs, Constants
<1>4. /\ p - Add(q, n) = POINTERS * (e + f) + (Ahead(p, q) - n)
      /\ p - (q + n) = POINTERS * e + (Ahead(p, q) - n)
      /\ e + f \in Int /\ q + n \in Int
    BY <1>1, <1>2, <1>3 DEF Pointers
<1>5. Ahead(p, q) - n \in 0..(POINTERS - 1) /\ Add(q, n) \in Int
    BY <1>3 DEF Pointers
<1>. QED BY <1>4, <1>5, AheadEquals

LEMMA AheadOfItself ==
    ASSUME NEW p \in Int
    PROVE  Ahead(p, p) = 0
<1>1. p - p = POINTERS * 0 + 0 /\ 0 \in 0..(POINTERS - 1)
    BY Constants
<1>. QED BY <1>1, AheadEquals

LEMMA SamePointer ==
    ASSUME NEW p \in Pointers, NEW q \in Pointers, Ahead(p, q) = 0
    PROVE  p = q
<1>0. p \in Int /\ q \in Int
    BY Constants DEF Pointers
<1>1. PICK e \in Int : p - q = POINTERS * e + Ahead(p, q)
    BY <1>0, AheadIs
<1>2. POINTERS \in Nat \ {0}
    BY Constants
<1>3. POINTERS * e < POINTERS /\ -POINTERS < POINTERS * e
    BY <1>0, <1>1, <1>2 DEF Pointers
<1>4. e = 0
    BY <1>2, <1>3, SmallMultiple
<1>. QED BY <1>0, <1>1, <1>2, <1>4

\* Two pointers, both behind a third.
LEMMA AheadOfEachOther ==
    ASSUME NEW p \in Int, NEW q \in Int, NEW r \in Int, Ahead(p, q) =< Ahead(p, r)
    PROVE  Ahead(q, r) = Ahead(p, r) - Ahead(p, q)
<1>1. PICK e \in Int : p - q = POINTERS * e + Ahead(p, q)
    BY AheadIs
<1>2. PICK f \in Int : p - r = POINTERS * f + Ahead(p, r)
    BY AheadIs
<1>3. /\ Ahead(p, q) \in 0..(POINTERS - 1)
      /\ Ahead(p, r) \in 0..(POINTERS - 1)
      /\ POINTERS \in Nat
    BY AheadIs, Constants
<1>4. q - r = POINTERS * (f - e) + (Ahead(p, r) - Ahead(p, q)) /\ f - e \in Int
    <2>. DEFINE v == POINTERS * e
                w == POINTERS * f
    <2>1. v \in Int /\ w \in Int /\ POINTERS * (f - e) = w - v
        BY <1>3, Distributes
    <2>2. p - q = v + Ahead(p, q) /\ p - r = w + Ahead(p, r)
        BY <1>1, <1>2
    <2>. HIDE DEF v, w
    <2>. DEFINE a == Ahead(p, q)
                b == Ahead(p, r)
    <2>3. a \in Int /\ b \in Int /\ p - q = v + a /\ p - r = w + b
        BY <1>3, <2>2
    <2>. HIDE DEF a, b
    <2>4. q - r = (w - v) + (b - a)
        BY <2>1, <2>3
    <2>. QED BY <2>1, <2>4 DEF a, b
<1>5. Ahead(p, r) - Ahead(p, q) \in 0..(POINTERS - 1)
    BY <1>3
<1>. QED BY <1>4, <1>5, AheadEquals

-----------------------------------------------------------------------------
(* Places: how far one is from where a pointer points.                     *)

LEMMA PlaceIs ==
    ASSUME NEW p \in Int
    PROVE  /\ Place(p) \in Places
           /\ \E e \in Int : p = Size * e + Place(p)
BY Constants, Division DEF Place, Places

LEMMA FromIs ==
    ASSUME NEW i \in Int, NEW p \in Int
    PROVE  /\ From(i, p) \in Places
           /\ \E e \in Int : i - p = Size * e + From(i, p)
<1>1. PICK a \in Int : p = Size * a + Place(p)
    BY PlaceIs
<1>2. Place(p) \in Int
    BY PlaceIs, Constants DEF Places
<1>3. PICK b \in Int : i - Place(p) = POINTERS * b + Ahead(i, Place(p))
    BY <1>2, AheadIs
<1>. DEFINE h == Ahead(i, Place(p))
            k == POINTERS \div Size
<1>4. h \in Int /\ k \in Int /\ POINTERS = Size * k
    BY <1>2, AheadIs, Constants
<1>. HIDE DEF h, k
<1>5. h = Size * (h \div Size) + (h % Size) /\ h % Size \in 0..(Size - 1) /\ h \div Size \in Int
    BY <1>4, Constants, Division
<1>6. i - p = Size * (k * b + (h \div Size) - a) + (h % Size)
    <2>1. i - Place(p) = Size * (k * b) + h /\ k * b \in Int
        BY <1>2, <1>3, <1>4, Constants DEF h
    <2>. DEFINE g == k * b
                d == h \div Size
                r == h % Size
    <2>2. g \in Int /\ d \in Int /\ r \in Int /\ h = Size * d + r /\ i - Place(p) = Size * g + h
        BY <2>1, <1>4, <1>5, Constants
    <2>. HIDE DEF g, d, r
    <2>3. i - p = Size * (g + d - a) + r
        BY <2>2, <1>1, <1>2, <1>4, Constants
    <2>. QED BY <2>3 DEF g, d, r
<1>7. k * b + (h \div Size) - a \in Int
    BY <1>4, <1>5
<1>8. From(i, p) = h % Size
    BY DEF From, h
<1>. QED BY <1>5, <1>6, <1>7, <1>8 DEF Places

LEMMA FromEquals ==
    ASSUME NEW i \in Int, NEW p \in Int, NEW e \in Int, NEW d \in Places, i - p = Size * e + d
    PROVE  From(i, p) = d
<1>1. PICK f \in Int : i - p = Size * f + From(i, p)
    BY FromIs
<1>2. From(i, p) \in Places /\ Size \in Nat \ {0}
    BY FromIs, Constants
<1>3. Size * (e - f) = From(i, p) - d /\ e - f \in Int
    BY <1>1, <1>2 DEF Places
<1>4. Size * (e - f) < Size /\ -Size < Size * (e - f)
    BY <1>2, <1>3 DEF Places
<1>5. e - f = 0
    BY <1>2, <1>3, <1>4, SmallMultiple
<1>. QED BY <1>2, <1>3, <1>5 DEF Places

\* The pointer advances.
LEMMA FromAdvanced ==
    ASSUME NEW i \in Int, NEW p \in Int, NEW n \in 0..Size
    PROVE  From(i, Add(p, n)) = IF n =< From(i, p) THEN From(i, p) - n ELSE From(i, p) - n + Size
<1>1. PICK e \in Int : i - p = Size * e + From(i, p)
    BY FromIs
<1>0. n \in Int
    BY Constants
<1>2. PICK f \in Int : p + n = POINTERS * f + Add(p, n)
    BY <1>0, AddIs
<1>. DEFINE k == POINTERS \div Size
            g == k * f
<1>3. /\ Add(p, n) \in Int /\ k \in Int /\ POINTERS = Size * k /\ POINTERS \in Nat
      /\ From(i, p) \in Places
    BY <1>0, AddIs, FromIs, Constants DEF Pointers
<1>4. POINTERS * f = Size * g /\ g \in Int
    BY <1>3, Constants
<1>. HIDE DEF k, g
<1>5. i - Add(p, n) = Size * (e + g) + (From(i, p) - n)
    <2>1. i - Add(p, n) = Size * e + Size * g + (From(i, p) - n)
        <3>1. Size * e \in Int /\ Size * g \in Int
            BY <1>4, Constants, Distributes
        <3>. QED BY <3>1, <1>0, <1>1, <1>2, <1>3, <1>4 DEF Places
    <2>. QED BY <2>1, <1>4, Constants, Distributes
<1>6. CASE n =< From(i, p)
    <2>1. From(i, p) - n \in Places
        BY <1>0, <1>3, <1>6, Constants DEF Places
    <2>2. e + g \in Int
        BY <1>4
    <2>3. From(i, Add(p, n)) = From(i, p) - n
        BY <1>3, <1>5, <2>1, <2>2, FromEquals
    <2>. QED BY <1>6, <2>3
<1>7. CASE ~(n =< From(i, p))
    <2>1. From(i, p) - n + Size \in Places
        BY <1>0, <1>3, <1>7, Constants DEF Places
    <2>2. e + g - 1 \in Int
        BY <1>4
    <2>3. Size * (e + g) = Size * (e + g - 1) + Size
        BY <1>4, Constants
    <2>4. i - Add(p, n) = Size * (e + g - 1) + (From(i, p) - n + Size)
        BY <1>0, <1>5, <1>3, <2>2, <2>3, Constants DEF Places
    <2>5. From(i, Add(p, n)) = From(i, p) - n + Size
        BY <1>3, <2>1, <2>2, <2>4, FromEquals
    <2>. QED BY <1>7, <2>5
<1>. QED BY <1>6, <1>7

\* The place of what the pointer is ahead of.
LEMMA FromPlaceBehind ==
    ASSUME NEW p \in Int, NEW q \in Int, Ahead(p, q) \in 1..Size
    PROVE  From(Place(q), p) = Size - Ahead(p, q)
<1>1. PICK a \in Int : q = Size * a + Place(q)
    BY PlaceIs
<1>2. PICK b \in Int : p - q = POINTERS * b + Ahead(p, q)
    BY AheadIs
<1>. DEFINE k == POINTERS \div Size
            g == k * b
<1>3. Place(q) \in Int /\ k \in Int /\ POINTERS = Size * k /\ g \in Int
    BY PlaceIs, Constants DEF Places
<1>4. POINTERS * b = Size * g
    BY <1>3, Constants
<1>. HIDE DEF k, g
<1>5. Place(q) - p = Size * (-a - g - 1) + (Size - Ahead(p, q))
    BY <1>1, <1>2, <1>3, <1>4, Constants
<1>6. Size - Ahead(p, q) \in Places /\ -a - g - 1 \in Int
    BY <1>3, Constants DEF Places
<1>. QED BY <1>3, <1>5, <1>6, FromEquals

\* The place that the pointer points to.
LEMMA FromPlace ==
    ASSUME NEW i \in Places, NEW p \in Int
    PROVE  From(i, p) = 0 <=> i = Place(p)
<1>1. PICK a \in Int : p = Size * a + Place(p)
    BY PlaceIs
<1>3. i \in Int /\ Place(p) \in Int /\ Place(p) \in Places /\ Size \in Nat \ {0}
    BY PlaceIs, Constants DEF Places
<1>2. PICK b \in Int : i - p = Size * b + From(i, p)
    BY <1>3, FromIs
<1>4. ASSUME i = Place(p) PROVE From(i, p) = 0
    <2>1. i - p = Size * (-a) + 0
        BY <1>1, <1>3, <1>4, Constants
    <2>2. 0 \in Places /\ -a \in Int
        BY <1>3 DEF Places
    <2>. QED BY <1>3, <2>1, <2>2, FromEquals
<1>5. ASSUME From(i, p) = 0 PROVE i = Place(p)
    <2>1. i - Place(p) = Size * (a + b)
        BY <1>1, <1>2, <1>3, <1>5
    <2>2. i - Place(p) < Size /\ -Size < i - Place(p)
        BY <1>3 DEF Places
    <2>3. a + b = 0
        BY <2>1, <2>2, Constants, SmallMultiple
    <2>. QED BY <1>3, <2>1, <2>3, Constants
<1>. QED BY <1>4, <1>5

\* A pointer that is as far ahead of another as the size allows, and the places
\* of what it points to.
LEMMA FromPlaceAhead ==
    ASSUME NEW p \in Int, NEW n \in Places
    PROVE  Place(p + n) \in Places /\ From(Place(p + n), p) = n
<1>1. n \in Int /\ p + n \in Int
    BY Constants DEF Places
<1>2. Place(p + n) \in Places /\ Place(p + n) \in Int
    BY <1>1, PlaceIs, Constants DEF Places
<1>. DEFINE q == p + n
<1>3. PICK e \in Int : q = Size * e + Place(q)
    BY <1>1, PlaceIs
<1>4. Place(q) - p = Size * (-e) + n
    <2>. DEFINE v == Size * e
                a == Place(q)
    <2>1. v \in Int /\ Size * (-e) = -v
        BY Constants
    <2>2. a \in Int /\ q = v + a
        BY <1>2, <1>3
    <2>. HIDE DEF v, a
    <2>3. a - p = -v + n
        BY <1>1, <2>1, <2>2
    <2>. QED BY <2>1, <2>3 DEF a
<1>5. -e \in Int
    OBVIOUS
<1>. QED BY <1>1, <1>2, <1>4, <1>5, FromEquals

\* Pointers that are the same but for a multiple of POINTERS point to the same
\* place.
LEMMA SamePlace ==
    ASSUME NEW p \in Int, NEW q \in Int, NEW e \in Int, p = POINTERS * e + q
    PROVE  Place(p) = Place(q)
<1>. DEFINE k == POINTERS \div Size
            f == k * e
<1>1. POINTERS = Size * k /\ k \in Int /\ f \in Int /\ POINTERS * e = Size * f
    BY Constants
<1>. HIDE DEF f
<1>2. p = Size * f + q
    BY <1>1
<1>. HIDE DEF k
<1>3. Size \in Nat \ {0} /\ f \in Int
    BY <1>1, Constants
<1>4. \A x \in Int, y \in Int : x = Size * f + y => x % Size = y % Size
    BY <1>3, SameRemainder
<1>. QED BY <1>2, <1>4 DEF Place

LEMMA PlaceOfAdd ==
    ASSUME NEW p \in Int, NEW n \in Int, NEW m \in Int
    PROVE  Place(Add(p, n) + m) = Place(p + n + m)
<1>1. PICK e \in Int : p + n = POINTERS * e + Add(p, n)
    BY AddIs
<1>2. Add(p, n) \in Int
    BY AddIs, Constants DEF Pointers
<1>3. p + n + m = POINTERS * e + (Add(p, n) + m)
    BY <1>1, <1>2, Constants
<1>4. Add(p, n) + m \in Int /\ p + n + m \in Int
    BY <1>2
<1>. QED BY <1>3, <1>4, SamePlace

LEMMA PlaceOfAhead ==
    ASSUME NEW p \in Int, NEW q \in Int, NEW m \in Int
    PROVE  Place(q + Ahead(p, q) + m) = Place(p + m)
<1>1. PICK e \in Int : p - q = POINTERS * e + Ahead(p, q)
    BY AheadIs
<1>. DEFINE a == Ahead(p, q)
            v == POINTERS * e
<1>2. a \in Int /\ v \in Int /\ p - q = v + a
    BY <1>1, AheadIs, Constants
<1>. HIDE DEF a, v
<1>3. p + m = v + (q + a + m)
    BY <1>2
<1>4. p + m \in Int /\ q + a + m \in Int
    BY <1>2
<1>5. Place(p + m) = Place(q + a + m)
    BY <1>3, <1>4, SamePlace DEF v
<1>. QED BY <1>5 DEF a
=============================================================================
