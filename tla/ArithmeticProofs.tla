-------------------------- MODULE ArithmeticProofs --------------------------
(***************************************************************************)
(* The other results of single instructions, for every width B of a byte   *)
(* and every machine: products and quotients (ProductsExact), shifts,      *)
(* rotations, bits and wide moves (ShiftsExact), and so all that the       *)
(* property ArithmeticExact says (EveryOperationExact).                    *)
(*                                                                         *)
(* The masks and divisions of prim_ops.cpp are taken apart into quotients  *)
(* and remainders by powers of two; a rotation is a number whose two parts *)
(* change places, so that one by k + 1 places is one by k and one more,    *)
(* and place by place the function of PlacesExact is followed (Follows).   *)
(***************************************************************************)
EXTENDS ProcessorProofs, WellFoundedInduction

-----------------------------------------------------------------------------
(* Products: what their high halves say.                                   *)

(* The product of two signed numbers, as a number of twice the width: what  *)
(* its high half says of it, if that is compared with the sign of its low   *)
(* half, which m stands for.                                                *)
SignedParts(N, H, p, high, low) ==
  /\ low \in 0..(N - 1) /\ high \in 0..(N - 1)
  /\ p % (N * N) = N * high + low
  /\ \A m \in Int : (m = N - 1 \/ (p >= 0 /\ p \div N # m)) =>
       (high # (IF low >= H THEN m ELSE 0) <=> ~(-H <= p /\ p < H))

LEMMA SignedProduct ==
  ASSUME NEW H \in Nat, H >= 2, NEW p \in Int, -(H * H) <= p, p <= H * H
  PROVE  \E high, low : SignedParts(2 * H, H, p, high, low)
<1> DEFINE N == 2 * H
<1>1. N \in Nat \ {0} /\ N = 2 * H /\ N * N = 4 * (H * H) /\ N * N \in Nat \ {0}
  <2>1. N \in Nat \ {0} /\ N * N = 4 * (H * H)
    OBVIOUS
  <2>2. N * N >= N
    BY <2>1
  <2>. QED BY <2>1, <2>2
<1>. HIDE DEF N
<1>2. PICK q \in Int, l \in 0..(N - 1) : p = N * q + l /\ q = p \div N /\ l = p % N
  BY <1>1, Division
<1>3. 2 * q <= H
  <2>1. CASE 2 * q > H
    <3>1. H * (2 * q) >= H * (H + 1)
      BY <2>1
    <3>2. N * q = H * (2 * q)
      BY <1>1
    <3>3. H * (H + 1) = H * H + H
      OBVIOUS
    <3>. QED BY <1>1, <1>2, <3>1, <3>2, <3>3
  <2>. QED BY <2>1
<1>4. 2 * q >= -H - 1
  <2>1. CASE 2 * q < -H - 1
    <3>1. H * (2 * q) <= H * (-H - 2)
      BY <2>1
    <3>2. N * q = H * (2 * q)
      BY <1>1
    <3>3. H * (-H - 2) = -(H * H) - N
      BY <1>1
    <3>. QED BY <1>1, <1>2, <3>1, <3>2, <3>3
  <2>. QED BY <2>1
<1>5. p < 0 <=> q < 0
  <2>1. CASE q < 0
    <3>1. N * q <= -N
      BY <1>1, <2>1
    <3>. QED BY <1>1, <1>2, <2>1, <3>1
  <2>2. CASE q >= 0
    <3>1. N * q >= 0
      BY <1>1, <2>2
    <3>. QED BY <1>1, <1>2, <2>2, <3>1
  <2>. QED BY <2>1, <2>2
<1>6. PICK high \in 0..(N - 1) : (q < 0 => high = N + q) /\ (q >= 0 => high = q)
  <2>1. q < 0 => N + q \in 0..(N - 1)
    BY <1>1, <1>4
  <2>2. q >= 0 => q \in 0..(N - 1)
    BY <1>1, <1>3
  <2>. QED BY <1>1, <1>2, <2>1, <2>2
<1>7. p % (N * N) = N * high + l
  <2>1. PICK M \in Nat \ {0} : M = N * N
    BY <1>1
  <2>2. N * high <= N * (N - 1) /\ N * (N - 1) = M - N /\ N * high >= 0
    BY <1>1, <1>6, <2>1
  <2>3. PICK v \in 0..(M - 1) : v = N * high + l
    <3>1. PICK y \in Int : y = N * high /\ 0 <= y /\ y <= M - N
      BY <1>1, <2>2
    <3>2. y + l \in 0..(M - 1)
      BY <1>1, <1>2, <2>1, <3>1
    <3>. QED BY <3>1, <3>2
  <2>4. q >= 0 => p = M * 0 + v
    BY <1>2, <1>6, <2>1, <2>3
  <2>5. q < 0 => p = M * (-1) + v
    <3>1. N * (N + q) = M + N * q
      BY <1>1, <2>1
    <3>2. q < 0 => v = (M + N * q) + l
      BY <1>6, <2>3, <3>1
    <3>3. PICK y \in Int : y = N * q
      BY <1>1, <1>2
    <3>. QED BY <1>2, <2>3, <3>2, <3>3
  <2>6. q >= 0 => p % M = v
    <3>1. 0 \in Int
      OBVIOUS
    <3>. QED BY <2>4, <3>1, DivisionOf, Zenon
  <2>7. q < 0 => p % M = v
    <3>1. PICK c \in Int : c = -1
      OBVIOUS
    <3>2. q < 0 => p = M * c + v
      BY <2>5, <3>1
    <3>. QED BY <3>2, DivisionOf, Zenon
  <2>. QED BY <1>2, <2>1, <2>3, <2>6, <2>7
<1>8. -H <= p /\ p < H <=> (q = 0 /\ l < H) \/ (q = -1 /\ l >= H)
  <2>1. CASE q = 0
    <3>1. N \in Int
      BY <1>1
    <3>2. PICK y \in Int : y = N * q
      BY <1>2, <3>1
    <3>3. N * 0 = 0
      BY <3>1
    <3>4. y = 0
      BY <2>1, <3>2, <3>3, Zenon
    <3>5. p = y + l
      BY <1>2, <3>2, Zenon
    <3>6. p = l
      BY <1>2, <3>4, <3>5
    <3>7. l \in Int /\ H \in Nat /\ l >= 0
      BY <1>1, <1>2
    <3>. QED BY <2>1, <3>6, <3>7
  <2>2. CASE q = -1
    BY <1>1, <1>2, <2>2
  <2>3. CASE q >= 1
    <3>1. N * q >= N
      BY <1>1, <2>3
    <3>. QED BY <1>1, <1>2, <2>3, <3>1
  <2>4. CASE q <= -2
    <3>1. N * q <= N * (-2)
      BY <1>1, <2>4
    <3>. QED BY <1>1, <1>2, <2>4, <3>1
  <2>. QED BY <2>1, <2>2, <2>3, <2>4
<1>9. ASSUME NEW m \in Int, m = N - 1 \/ (p >= 0 /\ q # m)
      PROVE  high # (IF l >= H THEN m ELSE 0) <=> ~(-H <= p /\ p < H)
  <2>1. CASE q >= 0
    <3>1. q # N - 1 /\ high = q
      BY <1>1, <1>3, <1>6, <2>1
    <3>2. q # m
      BY <1>9, <3>1
    <3>3. -H <= p /\ p < H <=> q = 0 /\ l < H
      BY <1>8, <2>1
    <3>4. l >= H \/ l < H
      BY <1>2
    <3>5. l >= H => (high # (IF l >= H THEN m ELSE 0) <=> ~(-H <= p /\ p < H))
      <4>1. l >= H => ~(l < H)
        BY <1>2
      <4>. QED BY <3>1, <3>2, <3>3, <4>1, Zenon
    <3>6. l < H => (high # (IF l >= H THEN m ELSE 0) <=> ~(-H <= p /\ p < H))
      <4>1. l < H => ~(l >= H)
        BY <1>2
      <4>. QED BY <3>1, <3>2, <3>3, <4>1, Zenon
    <3>. QED BY <3>4, <3>5, <3>6, Zenon
  <2>2. CASE q < 0
    <3>1. m = N - 1
      BY <1>2, <1>5, <1>9, <2>2
    <3>2. high = N + q /\ high # 0
      BY <1>1, <1>4, <1>6, <2>2
    <3>3. -H <= p /\ p < H <=> q = -1 /\ l >= H
      BY <1>8, <2>2
    <3>4. l >= H \/ l < H
      BY <1>2
    <3>5. l >= H => (high # (IF l >= H THEN m ELSE 0) <=> ~(-H <= p /\ p < H))
      <4>1. l >= H => ~(l < H)
        BY <1>2
      <4>2. high = m <=> q = -1
        <5>1. N \in Int /\ q \in Int
          BY <1>1, <1>2
        <5>. QED BY <3>1, <3>2, <5>1
      <4>. QED BY <3>3, <4>1, <4>2, Zenon
    <3>6. l < H => (high # (IF l >= H THEN m ELSE 0) <=> ~(-H <= p /\ p < H))
      <4>1. l < H => ~(l >= H)
        BY <1>2
      <4>. QED BY <3>1, <3>2, <3>3, <4>1, Zenon
    <3>. QED BY <3>4, <3>5, <3>6, Zenon
  <2>3. q >= 0 \/ q < 0
    BY <1>2
  <2>. QED BY <2>1, <2>2, <2>3, Zenon
<1>10. SignedParts(N, H, p, high, l)
  BY <1>2, <1>6, <1>7, <1>9, Zenon DEF SignedParts
<1>. QED BY <1>10 DEF N

LEMMA Bounded ==
  ASSUME NEW H \in Nat, NEW x \in (-H)..H, NEW y \in (-H)..H
  PROVE  x * y \in Int /\ -(H * H) <= x * y /\ x * y <= H * H
<1>1. \A a, b \in 0..H : a * b \in Int /\ 0 <= a * b /\ a * b <= H * H
  <2>. SUFFICES ASSUME NEW a \in 0..H, NEW b \in 0..H
                PROVE  a * b \in Int /\ 0 <= a * b /\ a * b <= H * H
    OBVIOUS
  <2>1. a * b <= a * H
    OBVIOUS
  <2>2. a * H <= H * H
    OBVIOUS
  <2>3. 0 <= a * b
    OBVIOUS
  <2>. QED BY <2>1, <2>2, <2>3
<1>2. CASE x >= 0 /\ y >= 0
  <2>1. x \in 0..H /\ y \in 0..H
    BY <1>2
  <2>2. H * H >= 0
    OBVIOUS
  <2>. QED BY <1>1, <2>1, <2>2
<1>3. CASE x >= 0 /\ y < 0
  <2>1. x \in 0..H /\ -y \in 0..H /\ x * (-y) = -(x * y)
    BY <1>3
  <2>2. x * (-y) \in Int /\ 0 <= x * (-y) /\ x * (-y) <= H * H
    BY <1>1, <2>1, Zenon
  <2>3. x * y \in Int /\ H * H \in Int /\ H * H >= 0
    OBVIOUS
  <2>. QED BY <2>1, <2>2, <2>3
<1>4. CASE x < 0 /\ y >= 0
  <2>1. -x \in 0..H /\ y \in 0..H /\ (-x) * y = -(x * y)
    BY <1>4
  <2>2. (-x) * y \in Int /\ 0 <= (-x) * y /\ (-x) * y <= H * H
    BY <1>1, <2>1, Zenon
  <2>3. x * y \in Int /\ H * H \in Int /\ H * H >= 0
    OBVIOUS
  <2>. QED BY <2>1, <2>2, <2>3
<1>5. CASE x < 0 /\ y < 0
  <2>1. -x \in 0..H /\ -y \in 0..H /\ (-x) * (-y) = x * y
    BY <1>5
  <2>2. (-x) * (-y) \in Int /\ 0 <= (-x) * (-y) /\ (-x) * (-y) <= H * H
    BY <1>1, <2>1, Zenon
  <2>3. x * y \in Int /\ H * H \in Int /\ H * H >= 0
    OBVIOUS
  <2>. QED BY <2>1, <2>2, <2>3
<1>. QED BY <1>2, <1>3, <1>4, <1>5

(* What ProductExact says, of any set f of flags and any product y.         *)
ProductFlags(n, unsigned, y, f) ==
  LET fits == IF unsigned THEN Within(n, y) ELSE SignedWithin(n, y)
  IN  /\ n = B \/ unsigned \/ (y >= 0 /\ y \div 2^n # Byte - 1) => ("CF" \in f <=> ~fits)
      /\ "OF" \in f <=> "CF" \in f

(* A product r in two halves, and the number y that they make.              *)
ProductHalves(n, r, y, low, high) ==
  /\ low \in 0..(2^n - 1) /\ high \in 0..(2^n - 1)
  /\ low = r.res % 2^n /\ high = r.res \div 2^n
  /\ 2^n * high + low = y % 2^(2 * n)

LEMMA ProductChange ==
  ASSUME NEW n, NEW y, NEW f, NEW on \in BOOLEAN
  PROVE  LET r == Product(n, y, f, on)
         IN  /\ r.res = y % 2^(2 * n)
             /\ "CF" \in r.f <=> on
             /\ "OF" \in r.f <=> on
<1> DEFINE g == [CF |-> on, OF |-> on]
<1>1. g["CF"] = on /\ g["OF"] = on /\ "CF" \in DOMAIN g /\ "OF" \in DOMAIN g
  OBVIOUS
<1>. HIDE DEF g
<1>2. Product(n, y, f, on) = [res |-> y % 2^(2 * n), f |-> Change(f, g)]
  BY Zenon DEF Product, Result, g
<1>3. /\ Product(n, y, f, on).res = y % 2^(2 * n)
      /\ Product(n, y, f, on).f = Change(f, g)
  BY <1>2, ResultParts, Zenon
<1>4. "CF" \in Flags /\ "OF" \in Flags
  BY FlagNames
<1>5. ("CF" \in Change(f, g) <=> on) /\ ("OF" \in Change(f, g) <=> on)
  BY <1>1, <1>4, Changed, Zenon
<1>. QED BY <1>3, <1>5, Zenon

LEMMA Unsigned ==
  ASSUME NEW N \in Nat \ {0}, NEW d \in 0..(N - 1), NEW s \in 0..(N - 1)
  PROVE  d * s \in 0..(N * N - 1) /\ N * N \in Nat \ {0}
<1>1. d * s \in Nat /\ d * s <= (N - 1) * s /\ (N - 1) * s <= (N - 1) * (N - 1)
  <2>1. d * s \in Nat
    OBVIOUS
  <2>2. d * s <= (N - 1) * s
    OBVIOUS
  <2>3. (N - 1) * s <= (N - 1) * (N - 1)
    OBVIOUS
  <2>. QED BY <2>1, <2>2, <2>3
<1>2. (N - 1) * (N - 1) = N * N - N - N + 1
  OBVIOUS
<1>3. (N - 1) * (N - 1) < N * N /\ N * N \in Nat \ {0}
  <2>1. N * N \in Nat /\ N * N >= N
    OBVIOUS
  <2>. QED BY <1>2, <2>1
<1>4. PICK y \in Nat, v \in Nat \ {0} : y = d * s /\ v = N * N /\ y < v
  <2>1. (N - 1) * s \in Int /\ (N - 1) * (N - 1) \in Int
    OBVIOUS
  <2>. QED BY <1>1, <1>3, <2>1
<1>. QED BY <1>4

LEMMA MulIs ==
  ASSUME NEW n, Width(n), NEW d \in 0..(2^n - 1), NEW s \in 0..(2^n - 1), NEW f,
         NEW r, r = mul(n, d, s, f), NEW y, y = d * s
  PROVE  /\ ProductFlags(n, TRUE, y, r.f)
         /\ \E low, high : ProductHalves(n, r, y, low, high)
<1>1. PICK N \in Nat \ {0} : N = 2^n /\ 2^(2 * n) = N * N
  BY Squared
<1>2. y \in 0..(N * N - 1) /\ N * N \in Nat \ {0} /\ y \in Int
  <2>1. d \in 0..(N - 1) /\ s \in 0..(N - 1)
    BY <1>1
  <2>2. y \in 0..(N * N - 1) /\ N * N \in Nat \ {0}
    BY <2>1, Unsigned, Zenon
  <2>. QED BY <2>2
<1>3. y % (N * N) = y
  BY <1>2, Small, Zenon
<1>4. PICK on \in BOOLEAN : on <=> y >= 2^n
  OBVIOUS
<1>5. r = Product(n, y, f, on)
  <2>1. r = Product(n, y, f, y >= 2^n)
    BY Zenon DEF mul
  <2>2. (y >= 2^n) \in BOOLEAN
    OBVIOUS
  <2>3. on = (y >= 2^n)
    BY <1>4, <2>2
  <2>. QED BY <2>1, <2>3, Zenon
<1>6. r.res = y /\ ("CF" \in r.f <=> on) /\ ("OF" \in r.f <=> on)
  <2>1. /\ r.res = y % 2^(2 * n)
        /\ "CF" \in r.f <=> on
        /\ "OF" \in r.f <=> on
    BY <1>4, <1>5, ProductChange, Zenon
  <2>. QED BY <1>1, <1>3, <2>1, Zenon
<1>7. on <=> ~Within(n, y)
  <2>1. y >= 0 /\ (y >= N <=> ~(y < N))
    BY <1>1, <1>2
  <2>2. Within(n, y) <=> 0 <= y /\ y < N
    BY <1>1, Zenon DEF Within
  <2>3. on <=> y >= N
    BY <1>1, <1>4, Zenon
  <2>4. y >= 0 <=> 0 <= y
    BY <1>2
  <2>. QED BY <2>1, <2>2, <2>3, <2>4, Zenon
<1>8. ProductFlags(n, TRUE, y, r.f)
  BY <1>6, <1>7, Zenon DEF ProductFlags
<1>9. y % N \in 0..(N - 1) /\ y \div N \in 0..(N - 1) /\ y = N * (y \div N) + (y % N)
  BY <1>2, SplitParts, Zenon
<1>10. ProductHalves(n, r, y, y % N, y \div N)
  BY <1>1, <1>3, <1>6, <1>9, Zenon DEF ProductHalves
<1>. QED BY <1>8, <1>10, Zenon

LEMMA SignedBound ==
  ASSUME NEW n, Width(n), NEW H \in Nat \ {0}, 2^n = 2 * H, 2^(n - 1) = H, NEW x \in 0..(2 * H - 1)
  PROVE  Signed(n, x) \in (-H)..H
<1>1. PICK b, l : Topped(n, H, x, b, l)
  BY TopOf
<1>2. b \in 0..1 /\ l \in 0..(H - 1) /\ Signed(n, x) = l - H * b
  BY <1>1 DEF Topped
<1>3. b = 0 \/ b = 1
  BY <1>2
<1>. QED BY <1>2, <1>3

LEMMA ImulIs ==
  ASSUME NEW n, Width(n), NEW d \in 0..(2^n - 1), NEW s \in 0..(2^n - 1), NEW f,
         NEW r, r = imul(n, d, s, f), NEW y, y = Signed(n, d) * Signed(n, s)
  PROVE  /\ ProductFlags(n, FALSE, y, r.f)
         /\ \E low, high : ProductHalves(n, r, y, low, high)
<1>1. PICK H \in Nat \ {0} : 2^n = 2 * H /\ 2^(n - 1) = H
  BY WidthFacts
<1>2. PICK N \in Nat \ {0} : N = 2^n /\ 2^(2 * n) = N * N /\ N = 2 * H /\ n \in Nat
  BY <1>1, Squared
<1>3. H >= 2
  <2>1. n - 1 \in Nat /\ n - 1 >= 1
    BY WidthFacts
  <2>2. PICK k \in Nat : k + 1 = n - 1
    BY <2>1
  <2>3. 2^(k + 1) = 2 * 2^k /\ 2^k \in Nat \ {0}
    BY <2>2, PowerNext, PowerPositive
  <2>. QED BY <1>1, <2>2, <2>3
<1>4. y \in Int /\ -(H * H) <= y /\ y <= H * H
  <2>1. d \in 0..(2 * H - 1) /\ s \in 0..(2 * H - 1)
    BY <1>1
  <2>2. Signed(n, d) \in (-H)..H /\ Signed(n, s) \in (-H)..H
    BY <1>1, <2>1, SignedBound
  <2>3. H \in Nat
    OBVIOUS
  <2>. QED BY <2>2, <2>3, Bounded, Zenon
<1>5. PICK high, low : SignedParts(2 * H, H, y, high, low)
  BY <1>3, <1>4, SignedProduct
<1>6. SignedParts(N, H, y, high, low)
  BY <1>2, <1>5, Zenon
<1>7. /\ low \in 0..(N - 1) /\ high \in 0..(N - 1)
      /\ y % (N * N) = N * high + low
      /\ \A m \in Int : (m = N - 1 \/ (y >= 0 /\ y \div N # m)) =>
           (high # (IF low >= H THEN m ELSE 0) <=> ~(-H <= y /\ y < H))
  BY <1>6, Zenon DEF SignedParts
<1> DEFINE res == y % 2^(2 * n)
<1>8. res = N * high + low /\ res \in Int /\ high \in Int
  <2>1. N * high + low \in Int /\ high \in Int
    BY <1>7
  <2>. QED BY <1>2, <1>7, <2>1, Zenon
<1>. HIDE DEF res
<1>9. res \div N = high /\ res % N = low
  BY <1>7, <1>8, DivisionOf, Zenon
<1>10. Bit(res, n - 1) <=> low >= H
  <2>1. n - 1 \in Nat /\ n = (n - 1) + 1
    BY WidthFacts
  <2>2. Bit(res, n - 1) <=> res % 2^n >= 2^(n - 1)
    BY <1>8, <2>1, TopBit, Zenon
  <2>. QED BY <1>1, <1>2, <1>9, <2>2, Zenon
<1>11. res % (N * N) = res
  <2>1. N * N \in Nat \ {0}
    <3>1. N * N \in Nat /\ N * N >= N
      OBVIOUS
    <3>. QED BY <3>1
  <2>2. PICK M \in Nat \ {0} : M = N * N
    BY <2>1
  <2>3. y % M \in 0..(M - 1)
    BY <1>4, <2>2, Division
  <2>4. res = y % M
    BY <1>2, <2>2, Zenon DEF res
  <2>. QED BY <2>2, <2>3, <2>4, Small, Zenon
<1>12. PICK on \in BOOLEAN : on = (high # (IF low >= H THEN Byte - 1 ELSE 0))
  OBVIOUS
<1>13. r = Product(n, res, f, on)
  <2>1. r = Product(n, res, f, res \div 2^n # (IF Bit(res, n - 1) THEN Byte - 1 ELSE 0))
    BY Zenon DEF imul, res
  <2>2. (IF Bit(res, n - 1) THEN Byte - 1 ELSE 0) = (IF low >= H THEN Byte - 1 ELSE 0)
    BY <1>10, Zenon
  <2>. QED BY <1>2, <1>9, <1>12, <2>1, <2>2, Zenon
<1>14. r.res = res /\ ("CF" \in r.f <=> on) /\ ("OF" \in r.f <=> on)
  BY <1>2, <1>11, <1>13, ProductChange, ZenonT(60)
<1>15. ASSUME n = B \/ (y >= 0 /\ y \div 2^n # Byte - 1)
       PROVE  on <=> ~SignedWithin(n, y)
  <2>1. PICK m \in Int : m = Byte - 1
    BY HalfByte
  <2>2. n = B => m = N - 1
    BY <1>2, <2>1 DEF Byte
  <2>3. m = N - 1 \/ (y >= 0 /\ y \div N # m)
    BY <1>2, <1>15, <2>1, <2>2, Zenon
  <2>4. high # (IF low >= H THEN m ELSE 0) <=> ~(-H <= y /\ y < H)
    BY <1>7, <2>3, Zenon
  <2>5. SignedWithin(n, y) <=> -H <= y /\ y < H
    BY <1>1, Zenon DEF SignedWithin
  <2>. QED BY <1>12, <2>1, <2>4, <2>5, Zenon
<1>16. ProductFlags(n, FALSE, y, r.f)
  BY <1>14, <1>15, Zenon DEF ProductFlags
<1>17. ProductHalves(n, r, y, low, high)
  BY <1>2, <1>7, <1>8, <1>9, <1>14, Zenon DEF ProductHalves, res
<1>. QED BY <1>16, <1>17, Zenon

-----------------------------------------------------------------------------
(* mul and imul.                                                           *)

(* The one instruction that has been executed, and its operands.            *)
OneStep(i, k) ==
  /\ Ready(origin) /\ origin.intr = {} /\ machine = Stepped(origin, i, k)
  /\ i.w \in {1, 2} /\ i \in Instructions
  /\ Width(Bits(i.w))
  /\ Before(i.w, AX) = Reg(origin, i.w, AX) /\ Before(i.w, i.rl) = Reg(origin, i.w, i.rl)
  /\ Before(i.w, AX) \in 0..(2^Bits(i.w) - 1) /\ Before(i.w, i.rl) \in 0..(2^Bits(i.w) - 1)

LEMMA OneStepTaken ==
  ASSUME Came, Len(done) = 1
  PROVE  \E k : OneStep(done[1], k)
<1> DEFINE i == done[1]
<1>1. IsMachine(origin) /\ origin.intr = {}
  BY DEF Came
<1>2. i \in Instructions
  <2>1. \A k \in 1..Len(done) : done[k] \in Instructions
    BY CameInstructions, Zenon
  <2>2. 1 \in 1..1
    OBVIOUS
  <2>. QED BY <2>1, <2>2
<1>3. PICK k : machine = Stepped(origin, i, k)
  BY Zenon DEF Came
<1>. HIDE DEF i
<1>4. i.w \in {1, 2} /\ i.rl \in 0..7 /\ AX \in 0..7 /\ origin.reg \in [Names -> Words]
  BY <1>1, <1>2 DEF Instructions, IsMachine, Names, AX
<1>5. \A x \in 0..7 : Reg(origin, i.w, x) \in 0..(2^Bits(i.w) - 1)
  BY <1>4, RegValue
<1>6. Fields(origin) /\ origin.ip \in Words
  BY <1>1, MachineFields DEF IsMachine
<1>7. Width(Bits(i.w))
  BY <1>4, BitsWidth
<1>8. OneStep(i, k)
  BY <1>1, <1>2, <1>3, <1>4, <1>5, <1>6, <1>7, Zenon DEF OneStep, Ready, Before
<1>. QED BY <1>8, Zenon DEF i

LEMMA ProductInv == Came /\ Len(done) = 1 => ProductExact(done[1])
<1>. SUFFICES ASSUME Came, Len(done) = 1 PROVE ProductExact(done[1])
  OBVIOUS
<1> DEFINE i == done[1]
<1>1. PICK k : OneStep(i, k)
  BY OneStepTaken
<1>. HIDE DEF i
<1>2. PICK n, d, s : n = Bits(i.w) /\ d = Before(i.w, AX) /\ s = Before(i.w, i.rl)
  OBVIOUS
<1>3. /\ Width(n) /\ d \in 0..(2^n - 1) /\ s \in 0..(2^n - 1)
      /\ d = Reg(origin, i.w, AX) /\ s = Reg(origin, i.w, i.rl)
  BY <1>1, <1>2, Zenon DEF OneStep
<1>4. ASSUME i.op \in {"opcF6_RM", "opcF7_RM"}, i.mod = 3, i.rh \in {4, 5},
             NEW r, r = IF i.rh = 4 THEN mul(n, d, s, origin.flg) ELSE imul(n, d, s, origin.flg),
             NEW y, NEW low, NEW high, ProductHalves(n, r, y, low, high),
             NEW u \in BOOLEAN, ProductFlags(n, u, y, r.f)
      PROVE  /\ Wide(machine, i.w) = y % 2^(2 * n)
             /\ machine.flg = r.f
  <2>1. ProductIs(origin, i, r, low, high)
    BY <1>2, <1>3, <1>4, Zenon DEF ProductIs, ProductHalves
  <2>2. Ready(origin) /\ origin.intr = {} /\ i.w \in {1, 2} /\ machine = Stepped(origin, i, k)
    BY <1>1 DEF OneStep
  <2>3. Both(origin, machine, i.w, low, high, r.f, (origin.ip + 2) % Word)
    BY <1>4, <2>1, <2>2, Multiplying
  <2>4. PICK reg : Halved(reg, i.w, low, high) /\ Step(origin, machine, reg, r.f, (origin.ip + 2) % Word)
    BY <2>3, Zenon DEF Both
  <2>5. machine.reg = reg /\ machine.flg = r.f
    BY <2>4, Zenon DEF Step
  <2>6. Wide(machine, i.w) = 2^n * high + low
    BY <1>2, <2>4, <2>5, Zenon DEF Halved
  <2>. QED BY <1>4, <2>5, <2>6, Zenon DEF ProductHalves
<1>5. ASSUME i.op \in {"opcF6_RM", "opcF7_RM"}, i.mod = 3, i.rh = 4
      PROVE  Wide(machine, i.w) = (d * s) % 2^(2 * n) /\ ProductFlags(n, TRUE, d * s, machine.flg)
  <2>1. PICK r, y : r = mul(n, d, s, origin.flg) /\ y = d * s
    OBVIOUS
  <2>2. ProductFlags(n, TRUE, y, r.f) /\ \E low, high : ProductHalves(n, r, y, low, high)
    BY <1>3, <2>1, MulIs
  <2>3. PICK low, high : ProductHalves(n, r, y, low, high)
    BY <2>2
  <2>4. Wide(machine, i.w) = y % 2^(2 * n) /\ machine.flg = r.f
    BY <1>4, <1>5, <2>1, <2>2, <2>3
  <2>. QED BY <2>1, <2>2, <2>4, Zenon
<1>6. ASSUME i.op \in {"opcF6_RM", "opcF7_RM"}, i.mod = 3, i.rh = 5, NEW y, y = Signed(n, d) * Signed(n, s)
      PROVE  Wide(machine, i.w) = y % 2^(2 * n) /\ ProductFlags(n, FALSE, y, machine.flg)
  <2>1. PICK r : r = imul(n, d, s, origin.flg)
    OBVIOUS
  <2>2. ProductFlags(n, FALSE, y, r.f) /\ \E low, high : ProductHalves(n, r, y, low, high)
    BY <1>3, <1>6, <2>1, ImulIs
  <2>3. PICK low, high : ProductHalves(n, r, y, low, high)
    BY <2>2
  <2>4. Wide(machine, i.w) = y % 2^(2 * n) /\ machine.flg = r.f
    <3>1. r = IF i.rh = 4 THEN mul(n, d, s, origin.flg) ELSE imul(n, d, s, origin.flg)
      BY <1>6, <2>1
    <3>2. FALSE \in BOOLEAN /\ i.rh \in {4, 5}
      BY <1>6
    <3>. QED BY <1>4, <1>6, <2>2, <2>3, <3>1, <3>2, Zenon
  <2>. QED BY <2>1, <2>2, <2>4, Zenon
<1>7. ASSUME i.op \in {"opcF6_RM", "opcF7_RM"}, i.mod = 3, i.rh = 4 PROVE ProductExact(i)
  BY <1>2, <1>5, <1>7 DEF ProductExact, ProductFlags, Flag
<1>8. ASSUME i.op \in {"opcF6_RM", "opcF7_RM"}, i.mod = 3, i.rh = 5 PROVE ProductExact(i)
  <2>1. PICK y : y = Signed(n, d) * Signed(n, s)
    OBVIOUS
  <2>2. Wide(machine, i.w) = y % 2^(2 * n) /\ ProductFlags(n, FALSE, y, machine.flg)
    BY <1>6, <1>8, <2>1
  <2>. QED BY <1>2, <1>8, <2>1, <2>2 DEF ProductExact, ProductFlags, Flag
<1>9. ~(i.op \in {"opcF6_RM", "opcF7_RM"} /\ i.mod = 3 /\ i.rh \in {4, 5}) => ProductExact(i)
  BY Zenon DEF ProductExact
<1>. QED BY <1>7, <1>8, <1>9 DEF i

-----------------------------------------------------------------------------
(* Quotients: C's truncation, and numbers that fit.                        *)

(* A division that truncates.                                               *)
Truncates(x, s, q, r) ==
  /\ x = q * s + r /\ Magnitude(r) < Magnitude(s)
  /\ r # 0 => (r < 0) = (x < 0)

LEMMA MagnitudeOf ==
  ASSUME NEW x \in Int
  PROVE  /\ Magnitude(x) \in Nat
         /\ x >= 0 => Magnitude(x) = x
         /\ x < 0 => Magnitude(x) = -x
BY DEF Magnitude

LEMMA Truncated ==
  ASSUME NEW x \in Int, NEW s \in Int, s # 0, NEW q, q = Quotient(x, s), NEW r, r = Remainder(x, s)
  PROVE  /\ q \in Int /\ r \in Int /\ Truncates(x, s, q, r)
         /\ Magnitude(q) = Magnitude(x) \div Magnitude(s)
<1>1. PICK a \in Nat, b \in Nat \ {0} :
        /\ a = Magnitude(x) /\ b = Magnitude(s)
        /\ (x >= 0 => a = x) /\ (x < 0 => a = -x)
        /\ (s >= 0 => b = s) /\ (s < 0 => b = -s)
  <2>1. Magnitude(x) \in Nat /\ Magnitude(s) \in Nat \ {0}
    BY MagnitudeOf
  <2>. QED BY <2>1, MagnitudeOf
<1>2. PICK p \in Int, t \in 0..(b - 1) : a = b * p + t /\ p = a \div b
  <2>1. a \in Int
    OBVIOUS
  <2>2. a \div b \in Int /\ a % b \in 0..(b - 1) /\ a = (b * (a \div b)) + (a % b)
    BY <2>1, Division, Zenon
  <2>. QED BY <2>2, Zenon
<1>3. PICK z \in Int : z = b * p
  OBVIOUS
<1>4. p >= 0
  <2>1. CASE p < 0
    <3>1. b * p <= b * (-1)
      BY <2>1
    <3>. QED BY <1>2, <3>1
  <2>. QED BY <2>1
<1>5. q = IF (x < 0) # (s < 0) THEN -p ELSE p
  <2>1. Quotient(x, s) = IF (x < 0) # (s < 0) THEN -(a \div b) ELSE a \div b
    BY <1>1, Zenon DEF Quotient
  <2>. QED BY <1>2, <2>1, Zenon
<1>6. q \in Int /\ Magnitude(q) = p
  <2>1. q = p \/ q = -p
    BY <1>5, Zenon
  <2>. QED BY <1>4, <2>1 DEF Magnitude
<1>7. r = x - s * q
  <2>1. Remainder(x, s) = x - s * Quotient(x, s)
    BY Zenon DEF Remainder
  <2>. QED BY <2>1, Zenon
<1>8. /\ x >= 0 => s * q = z
      /\ x < 0 => s * q = -z
  <2>1. CASE x >= 0 /\ s >= 0
    <3>1. s = b /\ q = p
      BY <1>1, <1>5, <2>1
    <3>. QED BY <1>3, <2>1, <3>1
  <2>2. CASE x >= 0 /\ s < 0
    <3>1. s = -b /\ q = -p
      BY <1>1, <1>5, <2>2
    <3>2. (-b) * (-p) = b * p
      OBVIOUS
    <3>. QED BY <1>3, <2>2, <3>1, <3>2
  <2>3. CASE x < 0 /\ s >= 0
    <3>1. s = b /\ q = -p
      BY <1>1, <1>5, <2>3
    <3>2. b * (-p) = -(b * p)
      OBVIOUS
    <3>. QED BY <1>3, <2>3, <3>1, <3>2
  <2>4. CASE x < 0 /\ s < 0
    <3>1. s = -b /\ q = p
      BY <1>1, <1>5, <2>4
    <3>2. (-b) * p = -(b * p)
      OBVIOUS
    <3>. QED BY <1>3, <2>4, <3>1, <3>2
  <2>. QED BY <2>1, <2>2, <2>3, <2>4
<1>9. (x >= 0 => r = t) /\ (x < 0 => r = -t)
  <2>1. a = z + t
    BY <1>2, <1>3
  <2>2. x >= 0 => r = x - z
    BY <1>7, <1>8
  <2>3. x < 0 => r = x - (-z)
    BY <1>7, <1>8
  <2>4. x >= 0 => r = t
    BY <1>1, <2>1, <2>2
  <2>5. x < 0 => r = -t
    <3>1. x < 0 => -x = z + t
      BY <1>1, <2>1
    <3>2. t \in Int
      BY <1>2
    <3>. QED BY <1>3, <2>3, <3>1, <3>2
  <2>. QED BY <2>4, <2>5
<1>10. r \in Int /\ Magnitude(r) < b /\ (r # 0 => (r < 0) = (x < 0))
  <2>1. t \in Int /\ 0 <= t /\ t < b
    BY <1>2
  <2>2. r \in Int /\ Magnitude(r) < b
    BY <1>9, <2>1 DEF Magnitude
  <2>3. CASE x >= 0
    BY <1>9, <2>1, <2>2, <2>3
  <2>4. CASE x < 0
    BY <1>9, <2>1, <2>2, <2>4
  <2>. QED BY <2>2, <2>3, <2>4
<1>11. x = q * s + r
  <2>1. PICK y \in Int : y = s * q /\ y = q * s
    BY <1>6
  <2>. QED BY <1>7, <2>1
<1>. QED BY <1>1, <1>2, <1>6, <1>10, <1>11, Zenon DEF Truncates

(* A signed number, cut to n bits and read again.                           *)
LEMMA SignedBack ==
  ASSUME NEW n, Width(n), NEW H \in Nat \ {0}, 2^n = 2 * H, 2^(n - 1) = H,
         NEW v \in Int, -H <= v, v < H
  PROVE  v % 2^n \in 0..(2^n - 1) /\ Signed(n, v % 2^n) = v
<1>1. PICK N \in Nat \ {0} : N = 2 * H /\ 2^n = N
  OBVIOUS
<1>2. PICK y \in 0..(N - 1) :
        /\ y = v % N
        /\ v >= 0 => y = v
        /\ v < 0 => y = v + N
  <2>1. v >= 0 => v = N * 0 + v /\ v \in 0..(N - 1)
    BY <1>1
  <2>2. PICK c \in Int : c = -1
    OBVIOUS
  <2>3. v < 0 => v = N * c + (v + N) /\ v + N \in 0..(N - 1)
    BY <1>1, <2>2
  <2>4. 0 \in Int
    OBVIOUS
  <2>5. v >= 0 => v % N = v
    BY <2>1, <2>4, DivisionOf, Zenon
  <2>6. v < 0 => v % N = v + N
    BY <2>2, <2>3, DivisionOf, Zenon
  <2>7. v >= 0 \/ v < 0
    OBVIOUS
  <2>. QED BY <2>1, <2>3, <2>5, <2>6, <2>7
<1>3. Bit(y, n - 1) <=> y >= H
  <2>1. n - 1 \in Nat /\ n = (n - 1) + 1 /\ y \in Int
    BY WidthFacts
  <2>2. Bit(y, n - 1) <=> y % 2^n >= 2^(n - 1)
    BY <2>1, TopBit, Zenon
  <2>3. y % N = y
    BY Small, Zenon
  <2>. QED BY <1>1, <2>2, <2>3, Zenon
<1>4. Signed(n, y) = IF y >= H THEN y - N ELSE y
  BY <1>1, <1>3, Zenon DEF Signed
<1>5. Signed(n, y) = v
  <2>1. v >= 0 => ~(y >= H) /\ y = v
    BY <1>1, <1>2
  <2>2. v < 0 => y >= H /\ y - N = v
    BY <1>1, <1>2
  <2>3. v >= 0 \/ v < 0
    OBVIOUS
  <2>4. v >= 0 => Signed(n, y) = v
    BY <1>4, <2>1
  <2>5. v < 0 => Signed(n, y) = v
    BY <1>4, <2>2
  <2>. QED BY <2>3, <2>4, <2>5, Zenon
<1>6. v % 2^n = y
  BY <1>1, <1>2, Zenon
<1>. QED BY <1>1, <1>2, <1>5, <1>6, Zenon

LEMMA TooLarge ==
  ASSUME NEW x \in Nat, NEW s \in Nat \ {0}, NEW L \in Int, ~(x \div s < L)
  PROVE  x >= s * L
<1>1. PICK q \in Int, t \in 0..(s - 1) : x = s * q + t /\ q = x \div s
  BY Division
<1>2. s * q >= s * L
  BY <1>1
<1>. QED BY <1>1, <1>2

-----------------------------------------------------------------------------
(* div and idiv.                                                           *)

(* A handler that raises the division error, and one that ends the          *)
(* simulator.                                                               *)
LEMMA RaisedHere ==
  ASSUME NEW m, m.intr = {}, NEW i, NEW j, NEW d, NEW flg, NEW ip, Step(m, d, m.reg, flg, ip),
         Handled(Fetch(m, j), i) = Clear([d EXCEPT !.intr = d.intr \union {"SYNCH"}])
  PROVE  Stepped(m, i, j).stop = TRUE /\ Stepped(m, i, j).reg = m.reg
<1> DEFINE e == [d EXCEPT !.intr = {"SYNCH"}]
           g == Clear(e)
<1>1. Fields(d) /\ d.intr = {} /\ d.reg = m.reg
  BY DEF Step
<1>2. Handled(Fetch(m, j), i) = g
  <2>1. d.intr \union {"SYNCH"} = {"SYNCH"}
    BY <1>1
  <2>. QED BY <2>1
<1>3. Fields(e) /\ e.intr = {"SYNCH"} /\ e.reg = m.reg
  BY <1>1 DEF Fields
<1>. HIDE DEF e
<1>4. Fields(g) /\ g.intr = {"SYNCH"} /\ g.reg = m.reg
  BY <1>3 DEF Fields, Clear
<1>. HIDE DEF g
<1>5. Checks(g) = [[g EXCEPT !.stop = TRUE] EXCEPT !.intr = {}]
  BY <1>4 DEF Checks, SystemHalted
<1>6. Checks(g).stop = TRUE /\ Checks(g).reg = m.reg /\ Fields(Checks(g))
  BY <1>4, <1>5 DEF Fields
<1>7. Finish(g).stop = TRUE /\ Finish(g).reg = m.reg
  BY <1>6 DEF Finish, Fields
<1>8. Stepped(m, i, j) = Finish(g)
  BY <1>2, Around, Zenon
<1>. QED BY <1>7, <1>8

LEMMA DeadSet ==
  ASSUME NEW d, Fields(d), NEW v
  PROVE  LET e == [d EXCEPT !.dead = v] IN Fields(e) /\ e.dead = v /\ e.intr = d.intr
BY DEF Fields

LEMMA EndedHere ==
  ASSUME NEW m, m.intr = {}, NEW i, NEW j, NEW d, NEW flg, NEW ip, Step(m, d, m.reg, flg, ip),
         Handled(Fetch(m, j), i) = Clear([d EXCEPT !.dead = TRUE])
  PROVE  Stepped(m, i, j).dead = TRUE
<1> DEFINE e == [d EXCEPT !.dead = TRUE]
           g == Clear(e)
<1>1. Fields(d) /\ d.intr = {}
  BY DEF Step
<1>2. Handled(Fetch(m, j), i) = g
  OBVIOUS
<1>3. Fields(e) /\ e.intr = {} /\ e.dead = TRUE
  <2>1. Fields(e) /\ e.intr = d.intr /\ e.dead = TRUE
    BY <1>1, DeadSet
  <2>. HIDE DEF e
  <2>. QED BY <1>1, <2>1
<1>. HIDE DEF e
<1>4. Fields(g) /\ g.intr = {} /\ g.dead = TRUE
  BY <1>3 DEF Fields, Clear
<1>. HIDE DEF g
<1>5. Checks(g) = g
  BY <1>4 DEF Checks
<1>6. Finish(g).dead = TRUE
  BY <1>4, <1>5 DEF Finish, Fields
<1>7. Stepped(m, i, j) = Finish(g)
  BY <1>2, Around, Zenon
<1>. QED BY <1>6, <1>7, Zenon

(* A division without a quotient.                                           *)
Refused(m, i, n, x, v, t) ==
  /\ i.rh = 6 /\ ~DivFits(n, x, v) => t.stop = TRUE /\ t.reg = m.reg
  /\ i.rh = 7 /\ IdivTraps(n, x, v) => t.dead = TRUE
  /\ i.rh = 7 /\ ~IdivTraps(n, x, v) /\ ~IdivFits(n, x, v) => t.stop = TRUE /\ t.reg = m.reg

LEMMA NoQuotient ==
  ASSUME NEW m, Ready(m), m.intr = {}, NEW i, i.w \in {1, 2}, i.mod = 3, NEW j,
         i.op \in {"opcF6_RM", "opcF7_RM"},
         NEW n, n = Bits(i.w), NEW v, v = Reg(m, i.w, i.rl), NEW x, x = Wide(m, i.w),
         NEW t, t = Stepped(m, i, j)
  PROVE  Refused(m, i, n, x, v, t)
<1>1. PICK d, ip : d = Decode(Fetch(m, j), i) /\ ip = (m.ip + 2) % Word
  OBVIOUS
<1>2. ASSUME i.rh # 1
      PROVE  /\ Step(m, d, m.reg, m.flg, ip)
             /\ \A w, k : Reg(d, w, k) = Reg(m, w, k)
             /\ Handled(Fetch(m, j), i) = Clear(Unary(d, i, v))
  <2>1. Fields(m) /\ m.ip \in Words
    BY DEF Ready
  <2>2. /\ Step(m, d, m.reg, m.flg, (m.ip + 2) % Word)
        /\ \A w, k : Reg(d, w, k) = Reg(m, w, k)
        /\ Handled(Fetch(m, j), i) = Clear(Unary(d, i, v))
    BY <1>1, <1>2, <2>1, GroupHandled
  <2>. QED BY <1>1, <2>2, Zenon
<1>3. i.rh # 1 => d.flg = m.flg /\ Wide(d, i.w) = x
  BY <1>2 DEF Step, Wide
<1> DEFINE e == [d EXCEPT !.intr = d.intr \union {"SYNCH"}]
<1>4. \A fits : ~fits => \A r : Divide(d, i.w, fits, r) = e
  BY Zenon DEF Divide
<1>9. ASSUME i.rh # 1, Handled(Fetch(m, j), i) = Clear(e) PROVE t.stop = TRUE /\ t.reg = m.reg
  <2>1. PICK flg : Step(m, d, m.reg, flg, ip) /\ m.intr = {}
    BY <1>2, <1>9
  <2>2. Handled(Fetch(m, j), i) = Clear([d EXCEPT !.intr = d.intr \union {"SYNCH"}])
    BY <1>9
  <2>. HIDE DEF e
  <2>3. Stepped(m, i, j).stop = TRUE /\ Stepped(m, i, j).reg = m.reg
    BY <2>1, <2>2, RaisedHere
  <2>. QED BY <2>3, Zenon
<1>. HIDE DEF e
<1>5. ASSUME i.rh = 6, ~DivFits(n, x, v) PROVE t.stop = TRUE /\ t.reg = m.reg
  <2>1. Unary(d, i, v)
          = Divide(d, i.w, DivFits(n, Wide(d, i.w), v), div(n, Wide(d, i.w), v, d.flg))
    BY <1>5 DEF Unary
  <2>2. i.rh # 1
    BY <1>5
  <2>3. Unary(d, i, v) = Divide(d, i.w, DivFits(n, x, v), div(n, x, v, d.flg))
    BY <1>3, <2>1, <2>2, Zenon
  <2>4. Unary(d, i, v) = e
    BY <1>4, <1>5, <2>3, Zenon
  <2>5. Handled(Fetch(m, j), i) = Clear(e)
    BY <1>2, <2>2, <2>4, Zenon
  <2>. QED BY <1>9, <2>2, <2>5
<1>6. i.rh = 7 =>
        Unary(d, i, v)
          = IF IdivTraps(n, Wide(d, i.w), v) THEN [d EXCEPT !.dead = TRUE]
            ELSE Divide(d, i.w, IdivFits(n, Wide(d, i.w), v), idiv(n, Wide(d, i.w), v, d.flg))
  BY DEF Unary
<1>7. ASSUME i.rh = 7, IdivTraps(n, x, v) PROVE t.dead = TRUE
  <2>1. i.rh # 1
    BY <1>7
  <2>2. Unary(d, i, v) = [d EXCEPT !.dead = TRUE]
    BY <1>3, <1>6, <1>7, <2>1, Zenon
  <2>3. Handled(Fetch(m, j), i) = Clear([d EXCEPT !.dead = TRUE])
    BY <1>2, <2>1, <2>2, Zenon
  <2>. QED BY <1>2, <2>1, <2>3, EndedHere
<1>8. ASSUME i.rh = 7, ~IdivTraps(n, x, v), ~IdivFits(n, x, v) PROVE t.stop = TRUE /\ t.reg = m.reg
  <2>1. i.rh # 1
    BY <1>8
  <2>2. Unary(d, i, v) = Divide(d, i.w, IdivFits(n, x, v), idiv(n, x, v, d.flg))
    BY <1>3, <1>6, <1>8, <2>1, Zenon
  <2>3. Unary(d, i, v) = e
    BY <1>4, <1>8, <2>2, Zenon
  <2>4. Handled(Fetch(m, j), i) = Clear(e)
    BY <1>2, <2>1, <2>3, Zenon
  <2>. QED BY <1>9, <2>1, <2>4
<1>. QED BY <1>5, <1>7, <1>8, Zenon DEF Refused

LEMMA QuotientParts ==
  \A a, b, c : /\ [quo |-> a, rem |-> b, f |-> c].quo = a
               /\ [quo |-> a, rem |-> b, f |-> c].rem = b
OBVIOUS

LEMMA DividedParts ==
  \A n, quo, rem, f : /\ Divided(n, quo, rem, f).quo = quo % 2^n
                      /\ Divided(n, quo, rem, f).rem = rem % 2^n
BY QuotientParts, Zenon DEF Divided

(* The quotient and the remainder that the code computes, and what they     *)
(* stand for.                                                               *)
QuotientFound(n, x, s, r, q, t, largest) ==
  /\ Truncates(x, s, q, t) /\ Magnitude(q) <= largest
  /\ r.quo \in 0..(2^n - 1) /\ r.rem \in 0..(2^n - 1)

LEMMA DivFound ==
  ASSUME NEW n, Width(n), NEW x \in Nat, NEW s \in 0..(2^n - 1), NEW f,
         DivFits(n, x, s), NEW r, r = div(n, x, s, f)
  PROVE  QuotientFound(n, x, s, r, r.quo, r.rem, 2^n - 1)
<1>1. PICK N \in Nat \ {0} : N = 2^n
  BY Squared
<1>2. s \in Nat \ {0} /\ x \div s < N /\ s <= N - 1 /\ x \in Int
  BY <1>1 DEF DivFits
<1>3. PICK q \in Int, t \in 0..(s - 1) : x = s * q + t /\ q = x \div s /\ t = x % s
  BY <1>2, Division
<1>4. q >= 0
  <2>1. CASE q < 0
    <3>1. s * q <= s * (-1)
      BY <1>2, <2>1
    <3>. QED BY <1>2, <1>3, <3>1
  <2>. QED BY <2>1
<1>5. q \in 0..(N - 1) /\ t \in 0..(N - 1)
  BY <1>2, <1>3, <1>4
<1>6. r.quo = q /\ r.rem = t
  <2>1. r = Divided(n, q, t, f)
    BY <1>3, Zenon DEF div
  <2>2. r.quo = q % N /\ r.rem = t % N
    <3>1. r.quo = q % 2^n /\ r.rem = t % 2^n
      BY <2>1, DividedParts, Zenon
    <3>. QED BY <1>1, <3>1, Zenon
  <2>3. q % N = q /\ t % N = t
    BY <1>5, Small, Zenon
  <2>. QED BY <2>2, <2>3, Zenon
<1>7. Magnitude(q) = q /\ Magnitude(t) = t /\ Magnitude(s) = s
  BY <1>2, <1>3, <1>4, MagnitudeOf
<1>8. x = q * s + t
  <2>1. PICK y \in Int : y = s * q /\ y = q * s
    BY <1>2
  <2>. QED BY <1>3, <2>1
<1>9. t < s /\ (t < 0) = (x < 0) /\ q <= N - 1
  BY <1>3, <1>5
<1>10. Truncates(x, s, q, t)
  BY <1>7, <1>8, <1>9, Zenon DEF Truncates
<1>. QED BY <1>1, <1>5, <1>6, <1>7, <1>9, <1>10, Zenon DEF QuotientFound

(* The host's abs is the magnitude, but for its least integer, which it     *)
(* leaves as it is.                                                         *)
LEMMA HostAbsOf ==
  ASSUME NEW q \in Int
  PROVE  /\ q # -2^(4 * B - 1) => HostAbs(q) = Magnitude(q)
         /\ HostAbs(q) <= Magnitude(q)
<1>1. 4 * B - 1 \in Nat
  BY PrimOpsAssumption
<1>2. 2^(4 * B - 1) \in Nat \ {0}
  BY <1>1, PowerPositive
<1>3. q # -2^(4 * B - 1) => HostAbs(q) = Magnitude(q)
  BY Zenon DEF HostAbs
<1>4. q = -2^(4 * B - 1) => HostAbs(q) = q /\ q < 0
  BY <1>2 DEF HostAbs
<1>5. PICK v \in Nat : v = Magnitude(q)
  BY MagnitudeOf
<1>6. CASE q = -2^(4 * B - 1)
  <2>1. HostAbs(q) = q /\ q < 0 /\ q <= v
    BY <1>4, <1>5, <1>6
  <2>. QED BY <1>5, <1>6, <2>1, Zenon
<1>7. CASE q # -2^(4 * B - 1)
  <2>1. v <= v
    OBVIOUS
  <2>. QED BY <1>3, <1>5, <1>7, <2>1, Zenon
<1>. QED BY <1>6, <1>7, Zenon

(* A signed dividend.                                                       *)
LEMMA DividendBound ==
  ASSUME NEW k \in Nat, NEW x \in 0..(2^(k + 1) - 1)
  PROVE  -2^k <= Signed(k + 1, x) /\ Signed(k + 1, x) < 2^k
<1>1. PICK p \in Nat \ {0} : p = 2^k /\ 2^(k + 1) = 2 * p
  BY PowerPositive, PowerNext
<1>10. x \in Int
  OBVIOUS
<1>2. PICK q \in Int, l \in 0..(p - 1) : x = p * q + l /\ q = x \div p
  <2>1. /\ x \div p \in Int /\ x % p \in 0..(p - 1)
        /\ x = (p * (x \div p)) + (x % p)
    BY <1>10, Division, Zenon
  <2>. QED BY <2>1, Zenon
<1>3. k + 1 - 1 = k /\ x \in Nat /\ x <= 2 * p - 1
  <2>1. x \in 0..(2 * p - 1)
    BY <1>1, Zenon
  <2>2. k + 1 - 1 = k
    OBVIOUS
  <2>. QED BY <1>1, <2>1, <2>2
<1>4. q >= 0
  <2>1. CASE q < 0
    <3>1. p * q <= p * (-1)
      BY <1>1, <2>1
    <3>. QED BY <1>1, <1>2, <1>3, <3>1
  <2>. QED BY <1>2, <2>1
<1>5. q < 2
  <2>1. CASE q >= 2
    <3>1. p * q >= p * 2
      BY <1>1, <2>1
    <3>. QED BY <1>1, <1>2, <1>3, <3>1
  <2>. QED BY <1>2, <2>1
<1>6. Bit(x, k) <=> q % 2 = 1
  BY <1>1, <1>2 DEF Bit
<1>9. Signed(k + 1, x) = IF Bit(x, k) THEN x - 2 * p ELSE x
  <2>1. \A j : Signed(j, x) = IF Bit(x, j - 1) THEN x - 2^j ELSE x
    BY Zenon DEF Signed
  <2>2. PICK j : j = k + 1 /\ j - 1 = k /\ 2^j = 2 * p
    BY <1>1, <1>3
  <2>. QED BY <2>1, <2>2, Zenon
<1>7. CASE q = 0
  <2>1. ~Bit(x, k) /\ x = l
    BY <1>1, <1>2, <1>6, <1>7
  <2>2. Signed(k + 1, x) = x
    BY <1>9, <2>1, Zenon
  <2>. QED BY <1>1, <1>2, <2>1, <2>2
<1>8. CASE q = 1
  <2>1. Bit(x, k) /\ x = p + l
    <3>1. p * 1 = p /\ 1 % 2 = 1
      BY <1>1
    <3>2. x = p * 1 + l /\ Bit(x, k)
      BY <1>2, <1>6, <1>8, <3>1, Zenon
    <3>. QED BY <3>1, <3>2, Zenon
  <2>2. Signed(k + 1, x) = x - 2 * p
    BY <1>9, <2>1, Zenon
  <2>. QED BY <1>1, <1>2, <2>1, <2>2
<1>. QED BY <1>2, <1>4, <1>5, <1>7, <1>8

(* A quotient that is as large as its dividend.                             *)
LEMMA WholeQuotient ==
  ASSUME NEW a \in Nat, NEW b \in Nat \ {0}, NEW M \in Nat \ {0}, a <= M, a \div b >= M
  PROVE  a = M /\ b = 1
<1>1. PICK q \in Int, t \in 0..(b - 1) : a = b * q + t /\ q = a \div b
  BY Division
<1>2. q >= M
  BY <1>1
<1>3. b * q >= b * M
  BY <1>2
<1>4. CASE b >= 2
  <2>1. b * M >= 2 * M
    BY <1>4
  <2>. QED BY <1>1, <1>3, <2>1
<1>5. CASE b = 1
  BY <1>1, <1>3, <1>5
<1>. QED BY <1>4, <1>5

(* The quotient that the host's abs leaves negative has one dividend and    *)
(* one divisor.                                                             *)
LEMMA UnseenOnly ==
  ASSUME NEW n, Width(n), NEW x \in 0..(2^(2 * n) - 1), NEW X \in Int, X = Signed(2 * n, x),
         NEW S \in Int, S # 0, Quotient(X, S) = -2^(4 * B - 1)
  PROVE  Unseen(n, X, S)
<1>1. PICK M \in Nat \ {0} : M = 2^(4 * B - 1)
  <2>1. 4 * B - 1 \in Nat
    BY PrimOpsAssumption
  <2>. QED BY <2>1, PowerPositive
<1>2. PICK k \in Nat, P \in Nat \ {0} : k + 1 = 2 * n /\ P = 2^k
  <2>1. n \in Nat /\ n >= 2
    BY WidthFacts
  <2>2. 2 * n - 1 \in Nat /\ (2 * n - 1) + 1 = 2 * n
    BY <2>1
  <2>. QED BY <2>2, PowerPositive
<1>3. -P <= X /\ X < P
  BY <1>2, DividendBound
<1>4. PICK q, t : q = Quotient(X, S) /\ t = Remainder(X, S)
  OBVIOUS
<1>5. /\ q \in Int /\ t \in Int /\ Truncates(X, S, q, t)
      /\ Magnitude(q) = Magnitude(X) \div Magnitude(S)
  BY <1>4, Truncated
<1>6. q = -M /\ Magnitude(q) = M
  BY <1>1, <1>4, <1>5, MagnitudeOf
<1>7. PICK a \in Nat, b \in Nat \ {0} : a = Magnitude(X) /\ b = Magnitude(S)
  <2>1. Magnitude(X) \in Nat /\ Magnitude(S) \in Nat \ {0}
    BY MagnitudeOf
  <2>. QED BY <2>1
<1>8. a <= P /\ a \div b = M
  <2>1. a <= P
    BY <1>3, <1>7, MagnitudeOf
  <2>2. a \div b = M
    BY <1>5, <1>6, <1>7, Zenon
  <2>. QED BY <2>1, <2>2
<1>9. P <= M /\ (P = M => n = 2 * B)
  <2>1. n = B \/ n = 2 * B
    BY DEF Width
  <2>2. CASE n = 2 * B
    <3>1. k = 4 * B - 1
      BY <1>2, <2>2, PrimOpsAssumption
    <3>. QED BY <1>1, <1>2, <2>2, <3>1
  <2>3. CASE n = B
    <3>1. PICK c \in Nat : c + 1 = 2 * B /\ 4 * B - 1 = (k + c) + 1
      <4>1. 2 * B - 1 \in Nat /\ (2 * B - 1) + 1 = 2 * B /\ k = 2 * B - 1
        BY <1>2, <2>3, PrimOpsAssumption
      <4>2. 4 * B - 1 = (k + (2 * B - 1)) + 1
        BY <4>1, PrimOpsAssumption
      <4>. QED BY <4>1, <4>2
    <3>2. k + c \in Nat /\ 2^((k + c) + 1) = 2 * 2^(k + c) /\ 2^(k + c) = 2^k * 2^c
      BY PowerNext, PowerSum
    <3>3. PICK C \in Nat \ {0} : C = 2^c
      BY PowerPositive
    <3>4. M = 2 * (P * C)
      BY <1>1, <1>2, <3>1, <3>2, <3>3, Zenon
    <3>5. P * C >= P
      BY <3>3
    <3>. QED BY <3>3, <3>4, <3>5
  <2>. QED BY <2>1, <2>2, <2>3
<1>10. a = M /\ b = 1
  BY <1>8, <1>9, WholeQuotient
<1>11. n = 2 * B
  BY <1>8, <1>9, <1>10
<1>12. X = -M
  <2>1. X = M \/ X = -M
    BY <1>7, <1>10, MagnitudeOf
  <2>2. X < M
    BY <1>3, <1>9
  <2>. QED BY <1>1, <2>1, <2>2
<1>13. S = 1
  <2>1. S = 1 \/ S = -1
    <3>1. Magnitude(S) = 1
      BY <1>7, <1>10
    <3>2. Magnitude(S) = S \/ Magnitude(S) = -S
      BY MagnitudeOf
    <3>. QED BY <3>1, <3>2
  <2>2. Magnitude(t) < 1 /\ X = q * S + t
    BY <1>5, <1>7, <1>10, Zenon DEF Truncates
  <2>3. t = 0
    BY <1>5, <2>2, MagnitudeOf
  <2>4. S = -1 => q * S = M
    BY <1>6
  <2>. QED BY <1>1, <1>12, <2>1, <2>2, <2>3, <2>4
<1>. QED BY <1>1, <1>11, <1>12, <1>13 DEF Unseen

LEMMA IdivFound ==
  ASSUME NEW n, Width(n), NEW x, NEW X \in Int, X = Signed(2 * n, x),
         x \in 0..(2^(2 * n) - 1),
         NEW s \in 0..(2^n - 1), NEW f, IdivFits(n, x, s), NEW r, r = idiv(n, x, s, f),
         ~Unseen(n, X, Signed(n, s))
  PROVE  QuotientFound(n, X, Signed(n, s), r, Signed(n, r.quo), Signed(n, r.rem), 2^(n - 1) - 1)
<1>1. PICK H \in Nat \ {0} : 2^n = 2 * H /\ 2^(n - 1) = H
  BY WidthFacts
<1>2. PICK S \in (-H)..H : S = Signed(n, s)
  <2>1. s \in 0..(2 * H - 1)
    BY <1>1
  <2>2. Signed(n, s) \in (-H)..H
    BY <1>1, <2>1, SignedBound
  <2>. QED BY <2>2
<1>3. S # 0
  <2>1. PICK b, l : Topped(n, H, s, b, l)
    <3>1. s \in 0..(2 * H - 1)
      BY <1>1
    <3>. QED BY <1>1, <3>1, TopOf
  <2>2. b \in 0..1 /\ l \in 0..(H - 1) /\ s = H * b + l /\ S = l - H * b
    BY <1>2, <2>1 DEF Topped
  <2>3. s # 0
    BY DEF IdivFits
  <2>4. b = 0 \/ b = 1
    BY <2>2
  <2>. QED BY <2>2, <2>3, <2>4
<1>4. PICK q, t : q = Quotient(X, S) /\ t = Remainder(X, S)
  OBVIOUS
<1>5. q \in Int /\ t \in Int /\ Truncates(X, S, q, t)
  <2>1. S \in Int
    BY <1>2
  <2>. QED BY <1>3, <1>4, <2>1, Truncated, Zenon
<1>6. Magnitude(q) < H
  <2>1. HostAbs(Quotient(X, S)) < 2^(n - 1)
    BY <1>2, Zenon DEF IdivFits
  <2>2. q # -2^(4 * B - 1)
    <3>1. S \in Int
      BY <1>2
    <3>. QED BY <1>2, <1>3, <1>4, <3>1, UnseenOnly
  <2>3. HostAbs(q) = Magnitude(q)
    BY <1>5, <2>2, HostAbsOf
  <2>. QED BY <1>1, <1>4, <2>1, <2>3, Zenon
<1>7. -H <= q /\ q < H
  BY <1>5, <1>6, MagnitudeOf
<1>8. Magnitude(t) < Magnitude(S)
  BY <1>5, Zenon DEF Truncates
<1>9. -H <= t /\ t < H
  BY <1>2, <1>5, <1>8, MagnitudeOf
<1>10. q % 2^n \in 0..(2^n - 1) /\ Signed(n, q % 2^n) = q
  BY <1>1, <1>5, <1>7, SignedBack
<1>11. t % 2^n \in 0..(2^n - 1) /\ Signed(n, t % 2^n) = t
  BY <1>1, <1>5, <1>9, SignedBack
<1>12. r.quo = q % 2^n /\ r.rem = t % 2^n
  <2>1. r = Divided(n, q, t, f)
    BY <1>2, <1>4, Zenon DEF idiv
  <2>. QED BY <2>1, DividedParts, Zenon
<1>13. Magnitude(q) <= 2^(n - 1) - 1
  BY <1>1, <1>5, <1>6, MagnitudeOf
<1>. QED BY <1>2, <1>5, <1>10, <1>11, <1>12, <1>13, Zenon DEF QuotientFound

(* The overflow that the code does not see leaves zeros.                    *)
LEMMA IdivUnseen ==
  ASSUME NEW n, Width(n), NEW x, NEW s \in 0..(2^n - 1), NEW f, NEW r, r = idiv(n, x, s, f),
         Unseen(n, Signed(2 * n, x), Signed(n, s))
  PROVE  /\ IdivFits(n, x, s) /\ r.quo = 0 /\ r.rem = 0
         /\ Signed(n, 0) = 0 /\ 0 \in 0..(2^n - 1)
<1>1. PICK H \in Nat \ {0} : 2^n = 2 * H /\ 2^(n - 1) = H
  BY WidthFacts
<1>2. Signed(n, 0) = 0 /\ 0 \in 0..(2^n - 1)
  <2>1. /\ 0 \in Int /\ -H <= 0 /\ 0 < H /\ 2^n \in Nat \ {0} /\ 0 \in 0..(2^n - 1)
    BY <1>1
  <2>2. 0 % 2^n = 0
    BY <2>1, Small
  <2>3. Signed(n, 0 % 2^n) = 0
    BY <1>1, <2>1, SignedBack
  <2>. QED BY <2>1, <2>2, <2>3
<1>3. PICK M \in Nat \ {0} : M = 2^(4 * B - 1) /\ \E c \in Nat : M = 2^n * c
  <2>1. n = 2 * B
    BY DEF Unseen
  <2>2. n \in Nat /\ n - 1 \in Nat /\ 4 * B - 1 = n + (n - 1)
    BY <2>1, PrimOpsAssumption
  <2>3. 2^(4 * B - 1) = 2^n * 2^(n - 1)
    BY <2>2, PowerSum
  <2>4. 2^(4 * B - 1) \in Nat \ {0} /\ 2^(n - 1) \in Nat
    BY <2>2, PowerPositive
  <2>. QED BY <2>3, <2>4
<1>4. PICK X, S : X = Signed(2 * n, x) /\ S = Signed(n, s)
  OBVIOUS
<1>5. X = -M /\ S = 1
  BY <1>3, <1>4 DEF Unseen
<1>6. Quotient(X, S) = -M
  <2>1. Magnitude(X) = M /\ Magnitude(S) = 1
    BY <1>3, <1>5, MagnitudeOf
  <2>2. M \div 1 = M
    BY <1>3
  <2>3. (X < 0) # (S < 0)
    BY <1>3, <1>5
  <2>4. Quotient(X, S)
          = IF (X < 0) # (S < 0) THEN -(Magnitude(X) \div Magnitude(S))
            ELSE Magnitude(X) \div Magnitude(S)
    BY Zenon DEF Quotient
  <2>. QED BY <2>1, <2>2, <2>3, <2>4
<1>7. Remainder(X, S) = 0
  <2>1. Remainder(X, S) = X - S * Quotient(X, S)
    BY Zenon DEF Remainder
  <2>. QED BY <1>3, <1>5, <1>6, <2>1
<1>8. r = Divided(n, -M, 0, f)
  BY <1>4, <1>6, <1>7, Zenon DEF idiv
<1>9. r.quo = (-M) % 2^n /\ r.rem = 0 % 2^n
  BY <1>8, DividedParts, Zenon
<1>10. (-M) % 2^n = 0 /\ 0 % 2^n = 0
  <2>1. PICK N \in Nat \ {0}, c \in Nat : N = 2^n /\ M = N * c
    BY <1>1, <1>3
  <2>2. -M = N * (-c) + 0 /\ -c \in Int /\ -M \in Int /\ 0 \in 0..(N - 1)
    BY <2>1
  <2>3. (-M) % N = 0
    BY <2>2, DivisionUnique
  <2>4. 0 % N = 0
    BY <2>2, Small
  <2>. QED BY <2>1, <2>3, <2>4
<1>11. s # 0
  <2>1. s = 0 => S = 0
    BY <1>2, <1>4, Zenon
  <2>. QED BY <1>5, <2>1
<1>12. HostAbs(Quotient(X, S)) < 2^(n - 1)
  <2>1. HostAbs(-M) = -M
    BY <1>3, Zenon DEF HostAbs
  <2>. QED BY <1>1, <1>3, <1>6, <2>1
<1>13. IdivFits(n, x, s)
  BY <1>4, <1>11, <1>12, Zenon DEF IdivFits
<1>. QED BY <1>2, <1>9, <1>10, <1>13, Zenon

(* What the dividend is like where there is no quotient.                    *)
LEMMA DivMissing ==
  ASSUME NEW n, Width(n), NEW x \in Nat, NEW s \in 0..(2^n - 1), ~DivFits(n, x, s), s # 0
  PROVE  Magnitude(x) >= Magnitude(s) * (2^n - 1 + 1)
<1>1. PICK N \in Nat \ {0} : N = 2^n
  BY Squared
<1>2. s \in Nat \ {0} /\ ~(x \div s < N) /\ N - 1 + 1 = N /\ N \in Int
  BY <1>1 DEF DivFits
<1>3. x >= s * N
  BY <1>2, TooLarge, Zenon
<1>4. Magnitude(x) = x /\ Magnitude(s) = s
  BY <1>2, MagnitudeOf
<1>. QED BY <1>1, <1>2, <1>3, <1>4, Zenon

LEMMA IdivMissing ==
  ASSUME NEW n, Width(n), NEW x, NEW X \in Int, X = Signed(2 * n, x),
         NEW s \in 0..(2^n - 1), ~IdivFits(n, x, s), NEW S \in Int, S = Signed(n, s), S # 0
  PROVE  Magnitude(X) >= Magnitude(S) * (2^(n - 1) - 1 + 1)
<1>1. PICK H \in Nat \ {0} : 2^n = 2 * H /\ 2^(n - 1) = H
  BY WidthFacts
<1>2. s # 0
  <2>1. CASE s = 0
    <3>1. PICK b, l : Topped(n, H, s, b, l)
      <4>1. s \in 0..(2 * H - 1)
        BY <1>1
      <4>. QED BY <1>1, <4>1, TopOf
    <3>2. b \in 0..1 /\ l \in 0..(H - 1) /\ s = H * b + l /\ S = l - H * b
      BY <3>1 DEF Topped
    <3>3. b = 0 \/ b = 1
      BY <3>2
    <3>. QED BY <2>1, <3>2, <3>3
  <2>. QED BY <2>1
<1>3. ~(HostAbs(Quotient(X, S)) < H)
  BY <1>1, <1>2, Zenon DEF IdivFits
<1>4. PICK q, t : q = Quotient(X, S) /\ t = Remainder(X, S)
  OBVIOUS
<1>5. q \in Int /\ Magnitude(q) = Magnitude(X) \div Magnitude(S)
  BY <1>4, Truncated
<1>9. ~(Magnitude(q) < H)
  <2>1. HostAbs(q) <= Magnitude(q) /\ Magnitude(q) \in Nat
    BY <1>5, HostAbsOf, MagnitudeOf
  <2>2. HostAbs(q) \in Int
    BY <1>5, <2>1 DEF HostAbs
  <2>. QED BY <1>1, <1>3, <1>4, <2>1, <2>2
<1>6. PICK a \in Nat, b \in Nat \ {0} : a = Magnitude(X) /\ b = Magnitude(S)
  <2>1. Magnitude(X) \in Nat /\ Magnitude(S) \in Nat \ {0}
    BY MagnitudeOf
  <2>. QED BY <2>1
<1>7. ~(a \div b < H) /\ H \in Int /\ H - 1 + 1 = H
  BY <1>5, <1>6, <1>9
<1>8. a >= b * H
  BY <1>7, TooLarge, Zenon
<1>. QED BY <1>1, <1>6, <1>7, <1>8, Zenon

LEMMA SignedWhole ==
  ASSUME NEW k \in Nat, NEW x \in Int
  PROVE  Signed(k, x) \in Int
<1>1. 2^k \in Nat \ {0}
  BY PowerPositive
<1>2. x - 2^k \in Int
  BY <1>1
<1>. QED BY <1>2, Zenon DEF Signed

LEMMA WideNat ==
  ASSUME NEW m, m.reg \in [Names -> Words], NEW w \in {1, 2}
  PROVE  Wide(m, w) \in Nat
<1>1. m.reg.AX \in Nat /\ m.reg.DX \in Nat /\ Word \in Nat
  <2>1. m.reg.AX \in Words /\ m.reg.DX \in Words
    BY DEF Names
  <2>. QED BY <2>1, HalfByte DEF Words
<1>2. Word * m.reg.DX \in Nat
  <2>1. PICK a \in Nat, b \in Nat : a = Word /\ b = m.reg.DX
    BY <1>1
  <2>. QED BY <2>1
<1>3. Word * m.reg.DX + m.reg.AX \in Nat
  BY <1>1, <1>2
<1>. QED BY <1>1, <1>3, Zenon DEF Wide

LEMMA WideBound ==
  ASSUME NEW m, m.reg \in [Names -> Words], NEW w \in {1, 2}
  PROVE  Wide(m, w) \in 0..(2^(2 * Bits(w)) - 1)
<1>1. PICK W \in Nat \ {0} : W = Word
  BY HalfByte
<1>2. PICK a \in 0..(W - 1), d \in 0..(W - 1) : a = m.reg.AX /\ d = m.reg.DX
  <2>1. m.reg.AX \in Words /\ m.reg.DX \in Words
    BY DEF Names
  <2>. QED BY <1>1, <2>1 DEF Words
<1>3. CASE w = 1
  <2>1. 2 * Bits(w) = 2 * B
    BY <1>3, PrimOpsAssumption DEF Bits
  <2>2. Wide(m, w) = a
    BY <1>2, <1>3 DEF Wide
  <2>. QED BY <1>1, <2>1, <2>2 DEF Word
<1>4. CASE w = 2
  <2>1. 2 * B \in Nat /\ 2 * Bits(w) = 2 * B + 2 * B
    BY <1>4, PrimOpsAssumption DEF Bits
  <2>2. 2^(2 * Bits(w)) = W * W
    BY <1>1, <2>1, PowerSum DEF Word
  <2>3. Wide(m, w) = W * d + a
    BY <1>1, <1>2, <1>4 DEF Wide
  <2>4. W * d <= W * (W - 1) /\ W * d >= 0 /\ W * (W - 1) = W * W - W
    BY <1>1
  <2>5. W * d \in Int /\ W * W \in Int
    BY <1>1
  <2>. QED BY <1>2, <2>2, <2>3, <2>4, <2>5
<1>. QED BY <1>3, <1>4

LEMMA QuotientShown ==
  ASSUME NEW i, NEW k, OneStep(i, k), i.op \in {"opcF6_RM", "opcF7_RM"}, i.mod = 3, i.rh \in {6, 7},
         ~origin.stop, NEW r, QuotientIs(origin, i, r)
  PROVE  /\ Value(i.w, AX) = r.quo
         /\ (IF i.w = 1 THEN Value(1, 4) ELSE Value(2, DX)) = r.rem
         /\ ~machine.stop
<1>1. Ready(origin) /\ origin.intr = {} /\ i.w \in {1, 2} /\ machine = Stepped(origin, i, k)
  BY DEF OneStep
<1>2. Both(origin, machine, i.w, r.quo, r.rem, r.f, (origin.ip + 2) % Word)
  BY <1>1, Dividing
<1>3. PICK reg : /\ Halved(reg, i.w, r.quo, r.rem)
                 /\ Step(origin, machine, reg, r.f, (origin.ip + 2) % Word)
  BY <1>2, Zenon DEF Both
<1>4. machine.reg = reg /\ machine.stop = origin.stop
  BY <1>3, Zenon DEF Step
<1>5. Reg(machine, i.w, AX) = r.quo /\ Reg(machine, i.w, HighPart(i.w)) = r.rem
  BY <1>3, <1>4, Zenon DEF Halved
<1>6. Value(i.w, HighPart(i.w)) = IF i.w = 1 THEN Value(1, 4) ELSE Value(2, DX)
  BY <1>1 DEF HighPart, AH
<1>. QED BY <1>4, <1>5, <1>6, Zenon DEF Value

(* What QuotientExact says, of numbers.                                     *)
Divides(x, s, q, t, largest) ==
  IF machine.stop
  THEN machine.reg = origin.reg /\ (s # 0 => Magnitude(x) >= Magnitude(s) * (largest + 1))
  ELSE Truncates(x, s, q, t) /\ Magnitude(q) <= largest

LEMMA UnsignedQuotient ==
  ASSUME NEW i, NEW k, OneStep(i, k), i.op \in {"opcF6_RM", "opcF7_RM"}, i.mod = 3, i.rh = 6, ~origin.stop,
         NEW n, n = Bits(i.w), NEW s, s = Before(i.w, i.rl), NEW x, x = Wide(origin, i.w),
         NEW t, t = IF i.w = 1 THEN Value(1, 4) ELSE Value(2, DX)
  PROVE  Divides(x, s, Value(i.w, AX), t, 2^n - 1)
<1>1. /\ Width(n) /\ s \in 0..(2^n - 1) /\ s = Reg(origin, i.w, i.rl)
      /\ Ready(origin) /\ origin.intr = {} /\ i.w \in {1, 2} /\ machine = Stepped(origin, i, k)
  BY Zenon DEF OneStep
<1>2. x \in Nat
  <2>1. origin.reg \in [Names -> Words]
    BY <1>1 DEF Ready
  <2>. QED BY <1>1, <2>1, WideNat, Zenon
<1>7. Refused(origin, i, n, x, s, machine)
  BY <1>1, NoQuotient
<1>3. ASSUME DivFits(n, x, s) PROVE Divides(x, s, Value(i.w, AX), t, 2^n - 1)
  <2>1. PICK f, r : f = origin.flg /\ r = div(n, x, s, f)
    OBVIOUS
  <2>2. QuotientFound(n, x, s, r, r.quo, r.rem, 2^n - 1)
    BY <1>1, <1>2, <1>3, <2>1, DivFound
  <2>3. i.rh \in {6, 7} /\ i.rh # 7
    OBVIOUS
  <2>4. QuotientIs(origin, i, r)
    BY <1>1, <1>3, <2>1, <2>2, <2>3, Zenon DEF QuotientIs, QuotientFound
  <2>5. Value(i.w, AX) = r.quo /\ t = r.rem /\ ~machine.stop
    BY <2>3, <2>4, QuotientShown
  <2>. QED BY <2>2, <2>5, Zenon DEF Divides, QuotientFound
<1>4. ASSUME ~DivFits(n, x, s) PROVE Divides(x, s, Value(i.w, AX), t, 2^n - 1)
  <2>1. machine.stop = TRUE /\ machine.reg = origin.reg
    BY <1>4, <1>7, Zenon DEF Refused
  <2>2. s # 0 => Magnitude(x) >= Magnitude(s) * (2^n - 1 + 1)
    BY <1>1, <1>2, <1>4, DivMissing
  <2>. QED BY <2>1, <2>2, Zenon DEF Divides
<1>. QED BY <1>3, <1>4, Zenon

LEMMA SignedQuotient ==
  ASSUME NEW i, NEW k, OneStep(i, k), i.op \in {"opcF6_RM", "opcF7_RM"}, i.mod = 3, i.rh = 7, ~origin.stop,
         ~machine.dead,
         NEW n, n = Bits(i.w), NEW s, s = Before(i.w, i.rl), NEW x, x = Wide(origin, i.w),
         NEW t, t = IF i.w = 1 THEN Value(1, 4) ELSE Value(2, DX)
  PROVE  IF Unseen(n, Signed(2 * n, x), Signed(n, s))
         THEN ~machine.stop /\ Signed(n, Value(i.w, AX)) = 0 /\ Signed(n, t) = 0
         ELSE Divides(Signed(2 * n, x), Signed(n, s), Signed(n, Value(i.w, AX)), Signed(n, t), 2^(n - 1) - 1)
<1>1. /\ Width(n) /\ s \in 0..(2^n - 1) /\ s = Reg(origin, i.w, i.rl)
      /\ Ready(origin) /\ origin.intr = {} /\ i.w \in {1, 2} /\ machine = Stepped(origin, i, k)
  BY Zenon DEF OneStep
<1>2. PICK X, S : X = Signed(2 * n, x) /\ S = Signed(n, s)
  OBVIOUS
<1>3. X \in Int /\ S \in Int
  <2>1. x \in Nat
    <3>1. origin.reg \in [Names -> Words]
      BY <1>1 DEF Ready
    <3>. QED BY <1>1, <3>1, WideNat, Zenon
  <2>2. n \in Nat
    BY <1>1, Squared
  <2>3. x \in Int /\ 2 * n \in Nat /\ s \in Int
    BY <1>1, <2>1, <2>2
  <2>. QED BY <1>2, <2>2, <2>3, SignedWhole, Zenon
<1>7. Refused(origin, i, n, x, s, machine)
  BY <1>1, NoQuotient
<1>4. ~IdivTraps(n, x, s)
  BY <1>7, Zenon DEF Refused
<1>8. x \in 0..(2^(2 * n) - 1)
  <2>1. origin.reg \in [Names -> Words]
    BY <1>1 DEF Ready
  <2>. QED BY <1>1, <2>1, WideBound
<1>9. ASSUME Unseen(n, X, S)
      PROVE  ~machine.stop /\ Signed(n, Value(i.w, AX)) = 0 /\ Signed(n, t) = 0
  <2>1. PICK f, r : f = origin.flg /\ r = idiv(n, x, s, f)
    OBVIOUS
  <2>2. /\ IdivFits(n, x, s) /\ r.quo = 0 /\ r.rem = 0
        /\ Signed(n, 0) = 0 /\ 0 \in 0..(2^n - 1)
    BY <1>1, <1>2, <1>9, <2>1, IdivUnseen
  <2>3. i.rh \in {6, 7} /\ i.rh # 6
    OBVIOUS
  <2>4. QuotientIs(origin, i, r)
    BY <1>1, <1>4, <2>1, <2>2, <2>3, Zenon DEF QuotientIs
  <2>5. Value(i.w, AX) = r.quo /\ t = r.rem /\ ~machine.stop
    BY <2>3, <2>4, QuotientShown
  <2>. QED BY <2>2, <2>5, Zenon
<1>5. ASSUME IdivFits(n, x, s), ~Unseen(n, X, S)
      PROVE  Divides(X, S, Signed(n, Value(i.w, AX)), Signed(n, t), 2^(n - 1) - 1)
  <2>1. PICK f, r : f = origin.flg /\ r = idiv(n, x, s, f)
    OBVIOUS
  <2>2. QuotientFound(n, X, Signed(n, s), r, Signed(n, r.quo), Signed(n, r.rem), 2^(n - 1) - 1)
    BY <1>1, <1>2, <1>3, <1>5, <1>8, <2>1, IdivFound
  <2>3. i.rh \in {6, 7} /\ i.rh # 6
    OBVIOUS
  <2>4. QuotientIs(origin, i, r)
    BY <1>1, <1>4, <1>5, <2>1, <2>2, <2>3, Zenon DEF QuotientIs, QuotientFound
  <2>5. Value(i.w, AX) = r.quo /\ t = r.rem /\ ~machine.stop
    BY <2>3, <2>4, QuotientShown
  <2>. QED BY <1>2, <2>2, <2>5, Zenon DEF Divides, QuotientFound
<1>6. ASSUME ~IdivFits(n, x, s)
      PROVE  Divides(X, S, Signed(n, Value(i.w, AX)), Signed(n, t), 2^(n - 1) - 1)
  <2>1. machine.stop = TRUE /\ machine.reg = origin.reg
    BY <1>4, <1>6, <1>7, Zenon DEF Refused
  <2>2. S # 0 => Magnitude(X) >= Magnitude(S) * (2^(n - 1) - 1 + 1)
    BY <1>1, <1>2, <1>3, <1>6, IdivMissing
  <2>. QED BY <2>1, <2>2, Zenon DEF Divides
<1>. QED BY <1>2, <1>5, <1>6, <1>9, Zenon

LEMMA QuotientInv == Came /\ Len(done) = 1 => QuotientExact(done[1])
<1>. SUFFICES ASSUME Came, Len(done) = 1 PROVE QuotientExact(done[1])
  OBVIOUS
<1> DEFINE i == done[1]
<1>1. PICK k : OneStep(i, k)
  BY OneStepTaken
<1>2. ~origin.stop
  BY Zenon DEF Came
<1>. HIDE DEF i
<1>3. PICK n, s, x, t : /\ n = Bits(i.w) /\ s = Before(i.w, i.rl) /\ x = Wide(origin, i.w)
                        /\ t = IF i.w = 1 THEN Value(1, 4) ELSE Value(2, DX)
  OBVIOUS
<1>4. ASSUME i.op \in {"opcF6_RM", "opcF7_RM"}, i.mod = 3, i.rh = 6 PROVE QuotientExact(i)
  <2>1. Divides(x, s, Value(i.w, AX), t, 2^n - 1)
    BY <1>1, <1>2, <1>3, <1>4, UnsignedQuotient
  <2>2. ~Unseen(n, x, s)
    <3>1. x \in Nat
      <4>1. i.w \in {1, 2} /\ Ready(origin)
        BY <1>1 DEF OneStep
      <4>2. origin.reg \in [Names -> Words]
        BY <4>1 DEF Ready
      <4>. QED BY <1>3, <4>1, <4>2, WideNat
    <3>2. 4 * B - 1 \in Nat
      BY PrimOpsAssumption
    <3>3. 2^(4 * B - 1) \in Nat \ {0}
      BY <3>2, PowerPositive
    <3>. QED BY <3>1, <3>3 DEF Unseen
  <2>. QED BY <1>3, <1>4, <2>1, <2>2, Zenon DEF QuotientExact, Divides, Truncates
<1>5. ASSUME i.op \in {"opcF6_RM", "opcF7_RM"}, i.mod = 3, i.rh = 7, ~machine.dead PROVE QuotientExact(i)
  <2>1. i.rh # 6
    BY <1>5
  <2>2. IF Unseen(n, Signed(2 * n, x), Signed(n, s))
        THEN ~machine.stop /\ Signed(n, Value(i.w, AX)) = 0 /\ Signed(n, t) = 0
        ELSE Divides(Signed(2 * n, x), Signed(n, s), Signed(n, Value(i.w, AX)), Signed(n, t), 2^(n - 1) - 1)
    BY <1>1, <1>2, <1>3, <1>5, SignedQuotient
  <2>. QED BY <1>3, <1>5, <2>1, <2>2, Zenon DEF QuotientExact, Divides, Truncates
<1>6. ~(i.op \in {"opcF6_RM", "opcF7_RM"} /\ i.mod = 3 /\ i.rh \in {6, 7} /\ ~machine.dead)
        => QuotientExact(i)
  BY Zenon DEF QuotientExact
<1>. QED BY <1>4, <1>5, <1>6 DEF i

(* mul and imul give the whole product, and CF and OF say whether it needs  *)
(* its high half; div and idiv give the quotient and the remainder, or stop *)
(* the program with its registers as they were, and for no other dividend   *)
(* and divisor than those of Unseen does a quotient that does not fit go    *)
(* unnoticed (prim_ops.cpp, 2249).                                          *)
THEOREM ProductsExact ==
  Spec => [](Len(done) = 1 => ProductExact(done[1]) /\ QuotientExact(done[1]))
<1>1. Came => (Len(done) = 1 => ProductExact(done[1]) /\ QuotientExact(done[1]))
  BY ProductInv, QuotientInv
<1>. QED BY <1>1, CameAlways, PTL

-----------------------------------------------------------------------------
(* Numbers taken apart by powers of two.                                   *)

LEMMA Scaled ==
  ASSUME NEW P \in Nat \ {0}, NEW Q \in Nat \ {0}, NEW x \in Int
  PROVE  /\ P * Q \in Nat \ {0} /\ P * x \in Int
         /\ (P * x) % (P * Q) = P * (x % Q)
         /\ (P * x) \div (P * Q) = x \div Q
<1>1. PICK N \in Nat \ {0} : N = P * Q
  <2>1. P * Q >= P /\ P * Q \in Nat
    OBVIOUS
  <2>. QED BY <2>1
<1>2. PICK q \in Int, l \in 0..(Q - 1) : x = Q * q + l /\ q = x \div Q /\ l = x % Q
  BY Division
<1>3. P * x = N * q + P * l
  <2>1. P * (Q * q + l) = P * (Q * q) + P * l /\ P * (Q * q) = (P * Q) * q
    OBVIOUS
  <2>. QED BY <1>1, <1>2, <2>1
<1>4. P * l \in 0..(N - 1)
  <2>1. P * l \in Int /\ P * l >= 0 /\ P * l <= P * (Q - 1)
    OBVIOUS
  <2>2. P * (Q - 1) = P * Q - P
    OBVIOUS
  <2>3. PICK y \in Int : y = P * l
    BY <2>1
  <2>. QED BY <1>1, <2>1, <2>2, <2>3
<1>5. PICK X \in Int, L \in 0..(N - 1) : X = P * x /\ L = P * l
  BY <1>4
<1>6. X = N * q + L
  BY <1>3, <1>5, Zenon
<1>7. X \div N = q /\ X % N = L
  BY <1>6, DivisionOf, Zenon
<1>. QED BY <1>1, <1>2, <1>5, <1>7, Zenon

LEMMA DividedTwice ==
  ASSUME NEW P \in Nat \ {0}, NEW Q \in Nat \ {0}, NEW x \in Int
  PROVE  /\ x \div (P * Q) = (x \div P) \div Q
         /\ x % (P * Q) = P * ((x \div P) % Q) + (x % P)
<1>1. PICK N \in Nat \ {0} : N = P * Q
  BY Scaled
<1>2. PICK a \in Int, b \in 0..(P - 1) : x = P * a + b /\ a = x \div P /\ b = x % P
  BY Division
<1>3. PICK c \in Int, e \in 0..(Q - 1) : a = Q * c + e /\ c = a \div Q /\ e = a % Q
  BY Division
<1>4. PICK y \in Int : y = P * e
  OBVIOUS
<1>5. x = N * c + (y + b)
  <2>1. P * (Q * c + e) = P * (Q * c) + P * e /\ P * (Q * c) = (P * Q) * c
    OBVIOUS
  <2>2. P * a = N * c + y
    BY <1>1, <1>3, <1>4, <2>1
  <2>3. P * a \in Int /\ N * c \in Int
    OBVIOUS
  <2>. QED BY <1>2, <2>2, <2>3
<1>6. y + b \in 0..(N - 1)
  <2>1. y >= 0 /\ y <= P * (Q - 1)
    BY <1>4
  <2>2. P * (Q - 1) = N - P
    BY <1>1
  <2>. QED BY <2>1, <2>2
<1>7. x \div N = c /\ x % N = y + b
  <2>1. PICK z \in 0..(N - 1) : z = y + b
    BY <1>6
  <2>2. x = N * c + z
    BY <1>5, <2>1, Zenon
  <2>. QED BY <2>1, <2>2, DivisionOf, Zenon
<1>. QED BY <1>1, <1>2, <1>3, <1>4, <1>7, Zenon

(* A number x below 2 P Q, its Q places below the top P taken apart: h, then *)
(* a bit t, then l.                                                         *)
Parting(P, Q, x, h, t, l) ==
  /\ h \in 0..(P - 1) /\ t \in 0..1 /\ l \in 0..(Q - 1)
  /\ x = Q * (2 * h + t) + l
  /\ x \div Q = 2 * h + t /\ x % Q = l
  /\ x \div (2 * Q) = h /\ x % (2 * Q) = Q * t + l
  /\ (x \div Q) % 2 = t

LEMMA PartingOf ==
  ASSUME NEW P \in Nat \ {0}, NEW Q \in Nat \ {0}, NEW N, N = 2 * (P * Q), NEW x \in 0..(N - 1)
  PROVE  \E h, t, l : Parting(P, Q, x, h, t, l)
<1>1. PICK H \in Nat \ {0} : H = P * Q /\ N = 2 * H /\ x \in Int /\ x >= 0 /\ x < 2 * H
  BY Scaled
<1>2. PICK a \in Int, l \in 0..(Q - 1) : x = Q * a + l /\ a = x \div Q /\ l = x % Q
  BY <1>1, Division
<1>3. PICK h \in Int, t \in 0..1 : a = 2 * h + t /\ h = a \div 2 /\ t = a % 2
  OBVIOUS
<1>4. x \div (2 * Q) = h /\ x % (2 * Q) = Q * t + l
  <2>1. PICK two \in Nat \ {0} : two = 2
    OBVIOUS
  <2>2. x \div (Q * two) = a \div two /\ x % (Q * two) = Q * (a % two) + l
    <3>1. /\ x \div (Q * two) = (x \div Q) \div two
          /\ x % (Q * two) = Q * ((x \div Q) % two) + (x % Q)
      BY <1>1, DividedTwice
    <3>. QED BY <1>2, <3>1, Zenon
  <2>3. Q * two = 2 * Q
    BY <2>1
  <2>. QED BY <1>3, <2>1, <2>2, <2>3, Zenon
<1>5. a >= 0
  <2>1. CASE a < 0
    <3>1. Q * a <= Q * (-1)
      BY <2>1
    <3>2. Q * (-1) = -Q
      OBVIOUS
    <3>3. PICK y \in Int : y = Q * a
      OBVIOUS
    <3>. QED BY <1>1, <1>2, <3>1, <3>2, <3>3
  <2>. QED BY <2>1
<1>6. a < 2 * P
  <2>1. CASE a >= 2 * P
    <3>1. Q * a >= Q * (2 * P)
      BY <2>1
    <3>2. Q * (2 * P) = 2 * H
      BY <1>1
    <3>3. PICK y \in Int : y = Q * a
      OBVIOUS
    <3>. QED BY <1>1, <1>2, <3>1, <3>2, <3>3
  <2>. QED BY <2>1
<1>7. h \in 0..(P - 1)
  BY <1>3, <1>5, <1>6
<1>. QED BY <1>2, <1>3, <1>4, <1>7, Zenon DEF Parting

-----------------------------------------------------------------------------
(* Shifts and rotations.                                                   *)

(* The number x of digits in base two, rotated: P = 2^j places to the left   *)
(* where Q is 2 to the power of the others.                                 *)
Rotated(P, Q, x) == P * (x % Q) + (x \div Q)

Halving(P, Q, H, N) ==
  /\ P \in Nat \ {0} /\ Q \in Nat \ {0} /\ H \in Nat \ {0}
  /\ H = P * Q /\ N = 2 * H

LEMMA RotatedOnce ==
  ASSUME NEW P, NEW Q, NEW H, NEW N, Halving(P, Q, H, N),
         NEW x \in 0..(N - 1), NEW y, y = Rotated(P, 2 * Q, x)
  PROVE  /\ y \in 0..(N - 1)
         /\ Rotated(2 * P, Q, x) = ((2 * y) % N) + (y \div H)
<1>. P \in Nat \ {0} /\ Q \in Nat \ {0} /\ H \in Nat \ {0} /\ H = P * Q /\ N = 2 * H
  BY DEF Halving
<1>1. PICK h, t, l : Parting(P, Q, x, h, t, l)
  BY PartingOf
<1>2. /\ h \in 0..(P - 1) /\ t \in 0..1 /\ l \in 0..(Q - 1)
      /\ x \div (2 * Q) = h /\ x % (2 * Q) = Q * t + l
      /\ x \div Q = 2 * h + t /\ x % Q = l
  BY <1>1 DEF Parting
<1>3. H \in Nat \ {0} /\ N \in Nat \ {0}
  BY Scaled
<1>4. PICK z \in Int : z = P * l
  BY <1>2
<1>5. y = H * t + (z + h)
  <2>1. y = P * (Q * t + l) + h
    BY <1>2, Zenon DEF Rotated
  <2>2. P * (Q * t + l) = (P * Q) * t + P * l
    BY <1>2
  <2>. QED BY <1>2, <1>4, <2>1, <2>2
<1>6. z + h \in 0..(H - 1)
  <2>1. z >= 0 /\ z <= P * (Q - 1)
    BY <1>2, <1>4
  <2>2. P * (Q - 1) = H - P
    OBVIOUS
  <2>. QED BY <1>2, <1>3, <2>1, <2>2
<1>7. PICK L \in 0..(H - 1) : L = z + h
  BY <1>6
<1>8. y \in Int /\ y = H * t + L /\ (t = 0 => y = L) /\ (t = 1 => y = H + L)
  <2>1. t = 0 => H * t = 0
    BY <1>3
  <2>2. t = 1 => H * t = H
    BY <1>3
  <2>3. PICK w \in Int : w = H * t
    BY <1>2, <1>3
  <2>4. y = w + L
    BY <1>5, <1>7, <2>3, Zenon
  <2>5. y = H * t + L
    BY <2>3, <2>4, Zenon
  <2>6. (t = 0 => w = 0) /\ (t = 1 => w = H)
    BY <2>1, <2>2, <2>3, Zenon
  <2>7. H \in Int
    BY <1>3
  <2>. QED BY <2>4, <2>5, <2>6, <2>7
<1>9. y \div H = t
  <2>1. t \in Int
    BY <1>2
  <2>2. PICK Y \in Int : Y = y /\ Y = H * t + L
    BY <1>8
  <2>3. PICK V \in Nat \ {0} : V = H
    BY <1>3
  <2>4. L \in 0..(V - 1) /\ Y = V * t + L
    BY <1>7, <2>2, <2>3, Zenon
  <2>5. Y \div V = t
    BY <2>1, <2>4, DivisionOf, Zenon
  <2>. QED BY <2>2, <2>3, <2>5, Zenon
<1>10. (2 * y) % N = 2 * L
  <2>1. 2 * y = N * t + 2 * L
    <3>1. t = 0 => N * t = 0
      BY <1>3
    <3>2. t = 1 => N * t = N
      BY <1>3
    <3>3. N * t = IF t = 0 THEN 0 ELSE N
      BY <1>2, <3>1, <3>2
    <3>. QED BY <1>2, <1>3, <1>8, <3>3
  <2>2. 2 * L \in 0..(N - 1) /\ 2 * y \in Int /\ t \in Int
    BY <1>2, <1>3, <1>8
  <2>3. PICK Y \in Int, V \in 0..(N - 1) : Y = 2 * y /\ V = 2 * L
    BY <2>2
  <2>4. Y = N * t + V
    BY <2>1, <2>3, Zenon
  <2>5. Y % N = V
    BY <1>3, <2>2, <2>4, DivisionOf, Zenon
  <2>. QED BY <2>3, <2>5, Zenon
<1>11. Rotated(2 * P, Q, x) = 2 * z + (2 * h + t)
  <2>1. Rotated(2 * P, Q, x) = (2 * P) * l + (2 * h + t)
    BY <1>2, Zenon DEF Rotated
  <2>2. (2 * P) * l = 2 * z
    BY <1>2, <1>4
  <2>. QED BY <2>1, <2>2, Zenon
<1>12. y \in 0..(N - 1)
  BY <1>2, <1>3, <1>8
<1>. QED BY <1>2, <1>4, <1>7, <1>9, <1>10, <1>11, <1>12

(* A place to the right takes a place to the left back.                     *)
LEMMA RotatedBack ==
  ASSUME NEW P, NEW Q, NEW H, NEW N, Halving(P, Q, H, N), NEW y \in 0..(N - 1),
         NEW x, x = ((2 * y) % N) + (y \div H)
  PROVE  x \in Int /\ x % 2 = y \div H /\ x \div 2 + (x % 2) * H = y
<1>. H \in Nat \ {0} /\ N = 2 * H
  BY DEF Halving
<1>1. PICK t \in Int, l \in 0..(H - 1) : y = H * t + l /\ t = y \div H
  <2>1. y \in Int
    OBVIOUS
  <2>. QED BY <2>1, Division
<1>2. t \in 0..1 /\ (t = 0 => y = l) /\ (t = 1 => y = H + l)
  <2>1. CASE t < 0
    <3>1. H * t <= H * (-1) /\ H * (-1) = -H
      BY <2>1
    <3>2. PICK z \in Int : z = H * t
      OBVIOUS
    <3>. QED BY <1>1, <3>1, <3>2
  <2>2. CASE t > 1
    <3>1. H * t >= H * 2
      BY <2>2
    <3>2. PICK z \in Int : z = H * t
      OBVIOUS
    <3>. QED BY <1>1, <3>1, <3>2
  <2>3. t = 0 => H * t = 0
    OBVIOUS
  <2>4. t = 1 => H * t = H
    OBVIOUS
  <2>. QED BY <1>1, <2>1, <2>2, <2>3, <2>4
<1>3. (2 * y) % N = 2 * l
  <2>1. 2 * y = N * t + 2 * l
    <3>1. t = 0 => N * t = 0
      OBVIOUS
    <3>2. t = 1 => N * t = N
      OBVIOUS
    <3>. QED BY <1>2, <3>1, <3>2
  <2>2. 2 * l \in 0..(N - 1) /\ 2 * y \in Int /\ N \in Nat \ {0}
    BY <1>2
  <2>. QED BY <2>1, <2>2, DivisionOf, Zenon
<1>4. x = 2 * l + t
  BY <1>1, <1>3
<1>5. x \in Int /\ x % 2 = t /\ x \div 2 = l
  <2>1. 2 \in Nat \ {0} /\ x \in Int /\ l \in Int /\ t \in 0..(2 - 1)
    BY <1>2, <1>4
  <2>. QED BY <1>4, <2>1, DivisionOf, Zenon
<1>6. t * H + l = y
  <2>1. t = 0 => t * H = 0
    OBVIOUS
  <2>2. t = 1 => t * H = H
    OBVIOUS
  <2>. QED BY <1>2, <2>1, <2>2
<1>7. t * H \in Int /\ l \in Int
  OBVIOUS
<1>8. l + t * H = y
  BY <1>6, <1>7
<1>. QED BY <1>1, <1>5, <1>8, Zenon

LEMMA RotatedAround ==
  ASSUME NEW P \in Nat \ {0}, NEW x \in 0..(P - 1)
  PROVE  Rotated(1, P, x) = x /\ Rotated(P, 1, x) = x
<1>1. x % P = x /\ x \div P = 0
  BY Small
<1>2. x % 1 = 0 /\ x \div 1 = x
  OBVIOUS
<1>3. P * 0 = 0
  OBVIOUS
<1>. QED BY <1>1, <1>2, <1>3 DEF Rotated

(* j places to the left, of w.                                              *)
Turned(w, x, j) == Rotated(2^j, 2^(w - j), x)

LEMMA PowersOf ==
  ASSUME NEW w \in Nat, NEW j \in 0..w
  PROVE  /\ 2^j \in Nat \ {0} /\ 2^(w - j) \in Nat \ {0} /\ 2^w \in Nat \ {0}
         /\ 2^w = 2^j * 2^(w - j)
<1>1. j \in Nat /\ w - j \in Nat /\ j + (w - j) = w
  OBVIOUS
<1>2. 2^(j + (w - j)) = 2^j * 2^(w - j)
  BY <1>1, PowerSum
<1>. QED BY <1>1, <1>2, PowerPositive

(* The powers of two around place j of w.                                   *)
Placed(w, j, P, Q, H) ==
  /\ P \in Nat \ {0} /\ Q \in Nat \ {0} /\ H \in Nat \ {0}
  /\ H = P * Q /\ 2^j = P /\ 2^(j + 1) = 2 * P
  /\ 2^(w - j) = 2 * Q /\ 2^(w - (j + 1)) = Q
  /\ 2^w = 2 * H /\ 2^(w - 1) = H

LEMMA PlacedAt ==
  ASSUME NEW w \in Nat, NEW j \in Nat, j < w
  PROVE  \E P, Q, H : Placed(w, j, P, Q, H)
<1>1. PICK k \in Nat : k = w - (j + 1)
  OBVIOUS
<1>2. /\ w - j = k + 1 /\ w = (w - 1) + 1 /\ w - 1 \in Nat /\ j \in 0..(w - 1)
      /\ (w - 1) - j = k
  BY <1>1
<1>3. 2^(j + 1) = 2 * 2^j /\ 2^(k + 1) = 2 * 2^k /\ 2^((w - 1) + 1) = 2 * 2^(w - 1)
  BY <1>1, <1>2, PowerNext
<1>4. 2^(w - 1) = 2^j * 2^((w - 1) - j)
  BY <1>2, PowersOf
<1>5. 2^j \in Nat \ {0} /\ 2^k \in Nat \ {0} /\ 2^(w - 1) \in Nat \ {0}
  BY <1>1, <1>2, PowerPositive
<1>6. Placed(w, j, 2^j, 2^k, 2^(w - 1))
  BY <1>1, <1>2, <1>3, <1>4, <1>5, Zenon DEF Placed
<1>. QED BY <1>6, Zenon

LEMMA TurnedNext ==
  ASSUME NEW w \in Nat, NEW j \in Nat, j < w, NEW x \in 0..(2^w - 1),
         NEW y, y = Turned(w, x, j), NEW z, z = Turned(w, x, j + 1)
  PROVE  /\ y \in 0..(2^w - 1)
         /\ z = ((2 * y) % 2^w) + (y \div 2^(w - 1))
         /\ z \in Int /\ z % 2 = y \div 2^(w - 1) /\ z \div 2 + (z % 2) * 2^(w - 1) = y
<1>1. PICK P, Q, H : Placed(w, j, P, Q, H)
  BY PlacedAt
<1>2. /\ P \in Nat \ {0} /\ Q \in Nat \ {0} /\ H \in Nat \ {0}
      /\ H = P * Q /\ 2^j = P /\ 2^(j + 1) = 2 * P
      /\ 2^(w - j) = 2 * Q /\ 2^(w - (j + 1)) = Q
      /\ 2^w = 2 * H /\ 2^(w - 1) = H
  BY <1>1, Zenon DEF Placed
<1>3. PICK N : N = 2 * H /\ Halving(P, Q, H, N)
  BY <1>2, Zenon DEF Halving
<1>4. 2^w = N /\ y = Rotated(P, 2 * Q, x) /\ z = Rotated(2 * P, Q, x) /\ x \in 0..(N - 1)
  BY <1>2, <1>3, Zenon DEF Turned
<1>5. y \in 0..(N - 1) /\ Rotated(2 * P, Q, x) = ((2 * y) % N) + (y \div H)
  BY <1>2, <1>3, <1>4, RotatedOnce
<1>6. z = ((2 * y) % N) + (y \div H)
  BY <1>4, <1>5, Zenon
<1>7. z \in Int /\ z % 2 = y \div H /\ z \div 2 + (z % 2) * H = y
  BY <1>2, <1>3, <1>5, <1>6, RotatedBack
<1>. QED BY <1>2, <1>4, <1>5, <1>6, <1>7, Zenon

LEMMA TurnedAround ==
  ASSUME NEW w \in Nat, NEW x \in 0..(2^w - 1)
  PROVE  Turned(w, x, 0) = x /\ Turned(w, x, w) = x
<1>1. w - 0 = w /\ w - w = 0
  OBVIOUS
<1>2. 2^w \in Nat \ {0} /\ 2^0 = 1
  BY PowerPositive, PowerZero
<1>3. Rotated(1, 2^w, x) = x /\ Rotated(2^w, 1, x) = x
  BY <1>2, RotatedAround
<1>. QED BY <1>1, <1>2, <1>3, Zenon DEF Turned

(* What rol and ror compute.                                                *)
LEMMA TurnedIs ==
  ASSUME NEW w \in Nat, NEW j \in 0..w, NEW x \in Int
  PROVE  ((x * 2^j) % 2^w) + (x \div 2^(w - j)) = Turned(w, x, j)
<1>1. PICK P \in Nat \ {0}, Q \in Nat \ {0} : P = 2^j /\ Q = 2^(w - j) /\ 2^w = P * Q
  BY PowersOf
<1>2. (P * x) % (P * Q) = P * (x % Q)
  BY Scaled
<1>3. x * P = P * x
  OBVIOUS
<1>. QED BY <1>1, <1>2, <1>3, Zenon DEF Turned, Rotated

(* And what rcl and rcr do, of n places and the carry c above them.         *)
Shifted(n, j, d, c, res, b) ==
  /\ res = ((d * 2^j) % 2^n) + (d \div 2^((n + 1) - j)) + c * 2^(j - 1)
  /\ b = (d \div 2^(n - j)) % 2

LEMMA TurnedThrough ==
  ASSUME NEW n \in Nat, NEW j \in 1..n, NEW d \in 0..(2^n - 1), NEW c \in 0..1,
         NEW res, NEW b, Shifted(n, j, d, c, res, b)
  PROVE  /\ res \in 0..(2^n - 1) /\ b \in 0..1
         /\ Turned(n + 1, 2^n * c + d, j) = 2^n * b + res
         /\ (d \div 2^((n + 1) - j)) % 2^(j - 1) = d \div 2^((n + 1) - j)
<1>. /\ res = ((d * 2^j) % 2^n) + (d \div 2^((n + 1) - j)) + c * 2^(j - 1)
     /\ b = (d \div 2^(n - j)) % 2
  BY Zenon DEF Shifted
<1>1. PICK k \in Nat : k + 1 = j /\ k < n /\ j - 1 = k /\ (n + 1) - j = n - k /\ j \in Int
  <2>1. j - 1 \in Nat /\ (j - 1) + 1 = j /\ j - 1 < n /\ (n + 1) - j = n - (j - 1)
    OBVIOUS
  <2>. QED BY <2>1
<1>2. PICK P, Q, H : Placed(n, k, P, Q, H)
  BY <1>1, PlacedAt
<1>3. /\ P \in Nat \ {0} /\ Q \in Nat \ {0} /\ H \in Nat \ {0}
      /\ H = P * Q /\ 2^(j - 1) = P /\ 2^j = 2 * P
      /\ 2^((n + 1) - j) = 2 * Q /\ 2^(n - j) = Q /\ 2^n = 2 * H
  BY <1>1, <1>2, Zenon DEF Placed
<1>4. PICK N \in Nat \ {0} : N = 2^n /\ N = 2 * H /\ N = 2 * (P * Q) /\ d \in 0..(N - 1) /\ d \in Int
  BY <1>3
<1>5. PICK h, t, l : Parting(P, Q, d, h, t, l)
  BY <1>3, <1>4, PartingOf
<1>6. /\ h \in 0..(P - 1) /\ t \in 0..1 /\ l \in 0..(Q - 1)
      /\ d \div (2 * Q) = h /\ d % (2 * Q) = Q * t + l
      /\ d % Q = l /\ (d \div Q) % 2 = t
  BY <1>5, Zenon DEF Parting
<1>7. PICK z \in Int : z = P * l
  BY <1>3, <1>6
<1>8. PICK y \in Int : y = c * P /\ (c = 0 => y = 0) /\ (c = 1 => y = P)
  BY <1>3
<1>9. (d * 2^j) % 2^n = 2 * z
  <2>1. PICK p \in Nat \ {0} : p = 2 * P
    BY <1>3
  <2>2. (p * d) % (p * Q) = p * (d % Q)
    <3>1. Q \in Nat \ {0} /\ d \in Int
      BY <1>3, <1>4
    <3>. QED BY <3>1, Scaled, Zenon
  <2>3. p * Q = N
    BY <1>3, <1>4, <2>1
  <2>4. p * l = 2 * z
    BY <1>3, <1>6, <1>7, <2>1
  <2>5. d * p = p * d
    BY <1>4, <2>1
  <2>. QED BY <1>3, <1>4, <1>6, <2>1, <2>2, <2>3, <2>4, <2>5, Zenon
<1>10. res = 2 * z + h + y
  BY <1>3, <1>6, <1>8, <1>9, Zenon
<1>11. z >= 0 /\ z <= H - P
  <2>1. P * l >= 0 /\ P * l <= P * (Q - 1)
    BY <1>3, <1>6
  <2>2. P * (Q - 1) = P * Q - P
    BY <1>3
  <2>. QED BY <1>3, <1>7, <2>1, <2>2
<1>12. res \in 0..(N - 1)
  <2>1. 0 <= y /\ y <= P
    BY <1>3, <1>8
  <2>. QED BY <1>3, <1>4, <1>6, <1>7, <1>8, <1>10, <1>11, <2>1
<1>13. b = t
  BY <1>3, <1>6, Zenon
<1>14. h % P = h
  BY <1>3, <1>6, Small, Zenon
<1>15. PICK X \in Int : X = N * c + d
  BY <1>4
<1>16. PICK V \in Nat \ {0} : V = 2 * Q
  BY <1>3
<1>17. X \div V = y + h /\ X % V = Q * t + l
  <2>1. d = V * h + (Q * t + l) /\ Q * t + l \in 0..(V - 1)
    <3>1. d % V \in 0..(V - 1) /\ d = V * (d \div V) + (d % V)
      BY <1>4, <1>16, Division
    <3>. QED BY <1>6, <1>16, <3>1, Zenon
  <2>2. N * c = V * y
    <3>1. V * (c * P) = (2 * (P * Q)) * c
      BY <1>3, <1>16
    <3>. QED BY <1>4, <1>8, <3>1, Zenon
  <2>3. V * (y + h) = V * y + V * h
    BY <1>6, <1>8
  <2>4. PICK s \in 0..(V - 1) : s = Q * t + l
    BY <2>1
  <2>5. X = V * (y + h) + s
    <3>1. PICK u \in Int, v \in Int : u = V * y /\ v = V * h
      BY <1>6, <1>8
    <3>2. X = u + (v + s) /\ V * (y + h) = u + v
      BY <1>15, <2>1, <2>2, <2>3, <2>4, <3>1, Zenon
    <3>3. s \in Int
      OBVIOUS
    <3>4. u + (v + s) = (u + v) + s
      BY <3>1, <3>3
    <3>. QED BY <3>2, <3>4, Zenon
  <2>6. y + h \in Int
    BY <1>6, <1>8
  <2>. QED BY <2>4, <2>5, <2>6, DivisionOf, Zenon
<1>18. Turned(n + 1, X, j) = N * t + res
  <2>1. Turned(n + 1, X, j) = (2 * P) * (Q * t + l) + (y + h)
    BY <1>3, <1>16, <1>17, Zenon DEF Turned, Rotated
  <2>2. (2 * P) * (Q * t + l) = (2 * (P * Q)) * t + 2 * (P * l)
    BY <1>3, <1>6
  <2>3. (2 * P) * (Q * t + l) = N * t + 2 * z
    BY <1>4, <1>7, <2>2, Zenon
  <2>4. PICK u \in Int : u = N * t
    BY <1>4, <1>6
  <2>5. (2 * P) * (Q * t + l) = u + 2 * z
    BY <2>3, <2>4, Zenon
  <2>6. (u + 2 * z) + (y + h) = u + (2 * z + h + y)
    BY <1>6
  <2>. QED BY <1>10, <2>1, <2>4, <2>5, <2>6, Zenon
<1>19. t \in 0..1
  BY <1>6
<1>. QED BY <1>3, <1>4, <1>6, <1>12, <1>13, <1>14, <1>15, <1>18, <1>19, Zenon

(* What a shift gives: its result and its carry.                            *)
Out(r, v, c) == r.res = v /\ Carry(r.f) = c

LEMMA CarryBit == \A f : Carry(f) \in 0..1
BY DEF Carry

LEMMA BitNumber ==
  ASSUME NEW x \in Int, NEW k \in Nat, NEW c, c = (x \div 2^k) % 2
  PROVE  c \in 0..1 /\ (Bit(x, k) <=> c = 1)
<1>1. 2^k \in Nat \ {0}
  BY PowerPositive
<1>2. PICK q \in Int : q = x \div 2^k
  BY <1>1, Division
<1>. QED BY <1>2 DEF Bit

LEMMA CarryOf ==
  ASSUME NEW f, NEW on, "CF" \in DOMAIN on, NEW c \in 0..1, on["CF"] <=> c = 1
  PROVE  Carry(Change(f, on)) = c
<1>1. "CF" \in Flags
  BY FlagNames
<1>2. "CF" \in Change(f, on) <=> on["CF"]
  BY <1>1, Changed, Zenon
<1>3. c = 0 \/ c = 1
  OBVIOUS
<1>. QED BY <1>2, <1>3, Zenon DEF Carry

LEMMA OutOf ==
  ASSUME NEW n, NEW v, NEW N \in Nat \ {0}, N = 2^n, v \in 0..(N - 1), NEW f, NEW on,
         "CF" \in DOMAIN on, NEW c \in 0..1, on["CF"] <=> c = 1,
         NEW r, r = Result(n, v, f, on)
  PROVE  Out(r, v, c)
<1>1. v % N = v
  BY Small, Zenon
<1>2. Result(n, v, f, on) = [res |-> v, f |-> Change(f, on)]
  BY <1>1, Zenon DEF Result
<1>3. r.res = v /\ r.f = Change(f, on)
  <2>1. PICK F : F = Change(f, on)
    OBVIOUS
  <2>2. [res |-> v, f |-> F].res = v /\ [res |-> v, f |-> F].f = F
    BY ResultParts, Zenon
  <2>. QED BY <1>2, <2>1, <2>2, Zenon
<1>4. Carry(Change(f, on)) = c
  BY CarryOf, Zenon
<1>. QED BY <1>3, <1>4, Zenon DEF Out

LEMMA OutPlain ==
  ASSUME NEW d, NEW f, NEW r, r = [res |-> d, f |-> f]
  PROVE  Out(r, d, Carry(f))
BY ResultParts, Zenon DEF Out

(* The carry among the flags that a shift sets.                             *)
LEMMA CarryAmong ==
  ASSUME NEW c, NEW g
  PROVE  /\ "CF" \in DOMAIN ([CF |-> c] ++ g) /\ ([CF |-> c] ++ g)["CF"] = c
         /\ "CF" \in DOMAIN [CF |-> c, OF |-> g] /\ [CF |-> c, OF |-> g]["CF"] = c
         /\ "CF" \in DOMAIN [CF |-> c] /\ [CF |-> c]["CF"] = c
<1> DEFINE a == [CF |-> c]
<1>1. DOMAIN a = {"CF"} /\ a["CF"] = c
  OBVIOUS
<1>. HIDE DEF a
<1>2. "CF" \in DOMAIN (a ++ g) /\ (a ++ g)["CF"] = c
  BY <1>1 DEF ++
<1>. QED BY <1>1, <1>2 DEF a

LEMMA CarryAfterSign ==
  ASSUME NEW n, NEW x, NEW g, "CF" \in DOMAIN g, NEW c, g["CF"] = c
  PROVE  "CF" \in DOMAIN (Sign(n, x) ++ g) /\ (Sign(n, x) ++ g)["CF"] = c
<1> DEFINE a == Sign(n, x)
<1>1. "CF" \notin DOMAIN a
  BY DEF Sign
<1>. HIDE DEF a
<1>2. "CF" \in DOMAIN (a ++ g) /\ (a ++ g)["CF"] = c
  BY <1>1 DEF ++
<1>. QED BY <1>2 DEF a

(* A width, and a number and a count for it.                                *)
Operand(n, N, H, d) ==
  /\ n \in Nat /\ n >= 2 /\ N \in Nat \ {0} /\ H \in Nat \ {0}
  /\ N = 2^n /\ H = 2^(n - 1) /\ N = 2 * H /\ d \in 0..(N - 1) /\ d \in Int

LEMMA OperandOf ==
  ASSUME NEW n, Width(n), NEW d \in 0..(2^n - 1)
  PROVE  \E N, H : Operand(n, N, H, d)
<1>1. n \in Nat /\ n >= 2 /\ \E p \in Nat \ {0} : 2^n = 2 * p /\ 2^(n - 1) = p
  BY WidthFacts
<1>2. PICK H \in Nat \ {0} : 2^n = 2 * H /\ 2^(n - 1) = H
  BY <1>1
<1>3. PICK N \in Nat \ {0} : N = 2 * H /\ N = 2^n /\ d \in 0..(N - 1) /\ d \in Int
  BY <1>2
<1>4. Operand(n, N, H, d)
  BY <1>1, <1>2, <1>3, Zenon DEF Operand
<1>. QED BY <1>4, Zenon

LEMMA RolIs ==
  ASSUME NEW n, NEW N, NEW H, NEW d, Operand(n, N, H, d), NEW s \in Nat, NEW f,
         NEW r, r = rol(n, d, s, f), NEW v, v = Turned(n, d, s % n)
  PROVE  v \in 0..(N - 1) /\ r.res = v /\ (s > 0 => Carry(r.f) = v % 2)
<1>1. /\ n \in Nat \ {0} /\ N \in Nat \ {0} /\ N = 2^n /\ d \in 0..(N - 1) /\ d \in Int
  BY DEF Operand
<1>2. PICK k \in Nat : k = s % n /\ k < n
  BY <1>1
<1>3. v \in 0..(N - 1)
  BY <1>1, <1>2, TurnedNext
<1>4. PICK c \in 0..1 : c = v % 2 /\ (Bit(v, 0) <=> c = 1)
  <2>1. 2^0 = 1 /\ 0 \in Nat
    BY PowerZero
  <2>2. v \in Int /\ v \div 1 = v
    BY <1>3
  <2>3. (v % 2) = (v \div 2^0) % 2
    BY <2>1, <2>2, Zenon
  <2>4. (v % 2) \in 0..1 /\ (Bit(v, 0) <=> v % 2 = 1)
    BY <2>1, <2>2, <2>3, BitNumber, Zenon
  <2>. QED BY <2>4
<1>5. CASE s = 0
  <2>1. k = 0
    BY <1>1, <1>2, <1>5
  <2>2. v = d
    BY <1>1, <1>2, <2>1, TurnedAround
  <2>3. r = [res |-> d, f |-> f]
    BY <1>5 DEF rol
  <2>4. ~(s > 0)
    BY <1>5
  <2>. QED BY <1>3, <2>2, <2>3, <2>4, ResultParts, Zenon
<1>6. CASE s # 0 /\ k = 0
  <2>1. v = d
    BY <1>1, <1>2, <1>6, TurnedAround
  <2>2. r = [res |-> d, f |-> Change(f, [CF |-> Bit(d, 0)])]
    BY <1>2, <1>6, Zenon DEF rol
  <2>3. r.res = d /\ r.f = Change(f, [CF |-> Bit(d, 0)])
    BY <2>2, ResultParts, Zenon
  <2>4. PICK on : on = [CF |-> Bit(d, 0)] /\ "CF" \in DOMAIN on /\ on["CF"] = Bit(d, 0)
    BY CarryAmong, Zenon
  <2>5. Carry(Change(f, on)) = c
    BY <1>4, <2>1, <2>4, CarryOf, Zenon
  <2>. QED BY <1>3, <1>4, <2>1, <2>3, <2>4, <2>5, Zenon
<1>7. CASE s # 0 /\ k # 0
  <2>1. v = ((d * 2^k) % 2^n) + (d \div 2^(n - k))
    <3>1. n \in Nat /\ k \in 0..n
      BY <1>1, <1>2
    <3>2. ((d * 2^k) % 2^n) + (d \div 2^(n - k)) = Turned(n, d, k)
      BY <1>1, <3>1, TurnedIs, Zenon
    <3>. QED BY <1>2, <3>2, Zenon
  <2>2. r = Result(n, v, f, [CF |-> Bit(v, 0)] ++ [OF |-> s = 1 /\ Bit(v, 0) # Bit(v, n - 1)])
    BY <1>2, <1>7, <2>1, Zenon DEF rol
  <2>3. PICK g : g = [OF |-> s = 1 /\ Bit(v, 0) # Bit(v, n - 1)]
    OBVIOUS
  <2>4. PICK on : on = [CF |-> Bit(v, 0)] ++ g /\ "CF" \in DOMAIN on /\ on["CF"] = Bit(v, 0)
    BY CarryAmong, Zenon
  <2>5. r = Result(n, v, f, on)
    BY <2>2, <2>3, <2>4, Zenon
  <2>6. Out(r, v, c)
    BY <1>1, <1>3, <1>4, <2>4, <2>5, OutOf, Zenon
  <2>. QED BY <1>3, <1>4, <2>6, Zenon DEF Out
<1>. QED BY <1>5, <1>6, <1>7, Zenon

LEMMA TopNumber ==
  ASSUME NEW n, NEW N, NEW H, NEW d, Operand(n, N, H, d), NEW v \in 0..(N - 1), NEW c, c = v \div H
  PROVE  c \in 0..1 /\ (Bit(v, n - 1) <=> c = 1) /\ (c = 1 <=> v >= H)
<1>1. /\ n - 1 \in Nat /\ N = 2 * H /\ H \in Nat \ {0} /\ H = 2^(n - 1)
  BY DEF Operand
<1>2. PICK q \in Int, l \in 0..(H - 1) : v = H * q + l /\ q = v \div H
  <2>1. v \in Int
    BY <1>1
  <2>. QED BY <1>1, <2>1, Division
<1>3. v \in Int /\ v >= 0 /\ v < 2 * H
  BY <1>1
<1>4. q \in 0..1 /\ (q = 1 <=> v >= H)
  <2>1. PICK z \in Int : z = H * q /\ v = z + l
    BY <1>1, <1>2
  <2>2. q < 0 => z <= -H
    <3>1. q < 0 => H * q <= H * (-1)
      BY <1>1
    <3>2. H * (-1) = -H
      BY <1>1
    <3>. QED BY <2>1, <3>1, <3>2
  <2>3. q > 1 => z >= 2 * H
    <3>1. q > 1 => H * q >= H * 2
      BY <1>1
    <3>2. H * 2 = 2 * H
      BY <1>1
    <3>. QED BY <2>1, <3>1, <3>2
  <2>4. q = 0 => z = 0
    <3>1. H * 0 = 0
      BY <1>1
    <3>. QED BY <2>1, <3>1, Zenon
  <2>5. q = 1 => z = H
    <3>1. H * 1 = H
      BY <1>1
    <3>. QED BY <2>1, <3>1, Zenon
  <2>6. H \in Nat /\ H > 0
    BY <1>1
  <2>7. l \in Int /\ 0 <= l /\ l < H
    BY <2>6
  <2>. QED BY <1>3, <2>1, <2>2, <2>3, <2>4, <2>5, <2>6, <2>7
<1>5. q % 2 = q
  BY <1>4
<1>6. Bit(v, n - 1) <=> (v \div H) % 2 = 1
  BY <1>1, Zenon DEF Bit
<1>. QED BY <1>2, <1>4, <1>5, <1>6, Zenon

LEMMA RorIs ==
  ASSUME NEW n, NEW N, NEW H, NEW d, Operand(n, N, H, d), NEW s \in Nat, NEW f,
         NEW r, r = ror(n, d, s, f), NEW v, v = Turned(n, d, n - (s % n))
  PROVE  v \in 0..(N - 1) /\ r.res = v /\ (s > 0 => Carry(r.f) = v \div H)
<1>1. /\ n \in Nat \ {0} /\ N \in Nat \ {0} /\ N = 2^n /\ d \in 0..(N - 1) /\ d \in Int /\ H = 2^(n - 1)
  BY DEF Operand
<1>2. PICK k \in Nat : k = s % n /\ k < n
  BY <1>1
<1>3. v \in 0..(N - 1)
  <2>1. CASE k = 0
    <3>1. n - k = n
      BY <1>1, <2>1
    <3>2. v = d
      BY <1>1, <1>2, <3>1, TurnedAround
    <3>. QED BY <1>1, <3>2
  <2>2. CASE k # 0
    <3>1. PICK j \in Nat : j = n - k /\ j < n
      BY <1>1, <1>2, <2>2
    <3>2. Turned(n, d, j) \in 0..(2^n - 1)
      BY <1>1, <3>1, TurnedNext
    <3>. QED BY <1>1, <1>2, <3>1, <3>2, Zenon
  <2>. QED BY <2>1, <2>2
<1>4. PICK c \in 0..1 : c = v \div H /\ (Bit(v, n - 1) <=> c = 1)
  BY <1>3, TopNumber
<1>5. k = 0 => v = d
  <2>1. k = 0 => n - k = n
    BY <1>1
  <2>2. Turned(n, d, n) = d
    BY <1>1, TurnedAround
  <2>. QED BY <1>2, <2>1, <2>2, Zenon
<1>6. CASE s = 0
  <2>1. k = 0
    BY <1>1, <1>2, <1>6
  <2>2. r = [res |-> d, f |-> f]
    BY <1>6 DEF ror
  <2>3. ~(s > 0)
    BY <1>6
  <2>. QED BY <1>3, <1>5, <2>1, <2>2, <2>3, ResultParts, Zenon
<1>7. CASE s # 0 /\ k = 0
  <2>1. v = d
    BY <1>5, <1>7
  <2>2. r = [res |-> d, f |-> Change(f, [CF |-> Bit(d, n - 1)])]
    BY <1>2, <1>7, Zenon DEF ror
  <2>3. r.res = d /\ r.f = Change(f, [CF |-> Bit(d, n - 1)])
    BY <2>2, ResultParts, Zenon
  <2>4. PICK on : on = [CF |-> Bit(d, n - 1)] /\ "CF" \in DOMAIN on /\ on["CF"] = Bit(d, n - 1)
    BY CarryAmong, Zenon
  <2>5. Carry(Change(f, on)) = c
    BY <1>4, <2>1, <2>4, CarryOf, Zenon
  <2>. QED BY <1>3, <1>4, <2>1, <2>3, <2>4, <2>5, Zenon
<1>8. CASE s # 0 /\ k # 0
  <2>1. v = ((d * 2^(n - k)) % 2^n) + (d \div 2^k)
    <3>1. n \in Nat /\ n - k \in 0..n /\ n - (n - k) = k
      BY <1>1, <1>2
    <3>2. ((d * 2^(n - k)) % 2^n) + (d \div 2^(n - (n - k))) = Turned(n, d, n - k)
      BY <1>1, <3>1, TurnedIs, Zenon
    <3>. QED BY <1>2, <3>1, <3>2, Zenon
  <2>2. PICK g : g = [OF |-> s = 1 /\ Bit(v, n - 1) # Bit(v, n - 2)]
    OBVIOUS
  <2>3. r = Result(n, v, f, [CF |-> Bit(v, n - 1)] ++ g)
    BY <1>2, <1>8, <2>1, <2>2, Zenon DEF ror
  <2>4. PICK on : on = [CF |-> Bit(v, n - 1)] ++ g /\ "CF" \in DOMAIN on /\ on["CF"] = Bit(v, n - 1)
    BY CarryAmong, Zenon
  <2>5. r = Result(n, v, f, on)
    BY <2>3, <2>4, Zenon
  <2>6. Out(r, v, c)
    BY <1>1, <1>3, <1>4, <2>4, <2>5, OutOf, Zenon
  <2>. QED BY <1>3, <1>4, <2>6, Zenon DEF Out
<1>. QED BY <1>6, <1>7, <1>8, Zenon

(* A rotation through the carry turns the operand with the carry above it.  *)
Through(n, N, y, k, v, c) ==
  v \in 0..(N - 1) /\ c \in 0..1 /\ Turned(n + 1, y, k) = N * c + v

LEMMA WholeFits ==
  ASSUME NEW n, NEW N, NEW H, NEW d, Operand(n, N, H, d), NEW f, NEW y, y = N * Carry(f) + d
  PROVE  y \in 0..(2^(n + 1) - 1) /\ Through(n, N, y, 0, d, Carry(f)) /\ Through(n, N, y, n + 1, d, Carry(f))
<1>1. n \in Nat /\ n + 1 \in Nat /\ N \in Nat \ {0} /\ N = 2^n /\ d \in 0..(N - 1)
  BY DEF Operand
<1>2. 2^(n + 1) = 2 * N
  BY <1>1, PowerNext
<1>3. PICK c \in 0..1 : c = Carry(f)
  BY CarryBit
<1>4. N * c = IF c = 0 THEN 0 ELSE N
  BY <1>1
<1>5. y = (IF c = 0 THEN 0 ELSE N) + d
  BY <1>3, <1>4, Zenon
<1>6. y \in 0..(2 * N - 1)
  BY <1>1, <1>5
<1>7. Turned(n + 1, y, 0) = y /\ Turned(n + 1, y, n + 1) = y
  BY <1>1, <1>2, <1>6, TurnedAround
<1>. QED BY <1>1, <1>2, <1>3, <1>6, <1>7, Zenon DEF Through

LEMMA RclIs ==
  ASSUME NEW n, NEW N, NEW H, NEW d, Operand(n, N, H, d), NEW s \in Nat, NEW f,
         NEW r, r = rcl(n, d, s, f)
  PROVE  \E v, c : Out(r, v, c) /\ Through(n, N, N * Carry(f) + d, s % (n + 1), v, c)
<1>1. n \in Nat \ {0} /\ N \in Nat \ {0} /\ N = 2^n /\ d \in 0..(N - 1) /\ d \in Int
  BY DEF Operand
<1>2. PICK k \in Nat : k = s % (n + 1) /\ k <= n
  BY <1>1
<1>3. PICK y, e : y = N * Carry(f) + d /\ e = Carry(f) /\ e \in 0..1
  BY CarryBit
<1>4. CASE k = 0
  <2>1. r = [res |-> d, f |-> f]
    BY <1>2, <1>4, Zenon DEF rcl
  <2>2. Out(r, d, e)
    BY <1>3, <2>1, OutPlain, Zenon
  <2>3. Through(n, N, y, 0, d, e)
    BY <1>3, WholeFits
  <2>. QED BY <1>2, <1>3, <1>4, <2>2, <2>3, Zenon
<1>5. CASE k # 0
  <2>1. PICK v, b : /\ v = ((d * 2^k) % 2^n) + (d \div 2^((n + 1) - k)) + e * 2^(k - 1)
                    /\ b = (d \div 2^(n - k)) % 2
                    /\ Shifted(n, k, d, e, v, b)
    BY Zenon DEF Shifted
  <2>2. n \in Nat /\ k \in 1..n /\ d \in 0..(2^n - 1)
    BY <1>1, <1>2, <1>5
  <2>3. /\ v \in 0..(2^n - 1) /\ b \in 0..1
        /\ Turned(n + 1, 2^n * e + d, k) = 2^n * b + v
        /\ (d \div 2^((n + 1) - k)) % 2^(k - 1) = d \div 2^((n + 1) - k)
    BY <1>3, <2>1, <2>2, TurnedThrough
  <2>4. v \in 0..(N - 1) /\ Through(n, N, y, k, v, b)
    BY <1>1, <1>3, <2>3, Zenon DEF Through
  <2>5. n - k \in Nat
    BY <2>2
  <2>6. Bit(d, n - k) <=> b = 1
    BY <1>1, <2>1, <2>5, BitNumber, Zenon
  <2>7. PICK cf, of : cf = Bit(d, n - k) /\ of = (k = 1 /\ cf # Bit(v, n - 1))
    OBVIOUS
  <2>8. r = Result(n, v, f, [CF |-> cf, OF |-> of])
    <3>1. n + 1 - k = (n + 1) - k
      BY <1>1, <1>2
    <3>2. v = ((d * 2^k) % 2^n) + ((d \div 2^(n + 1 - k)) % 2^(k - 1)) + Carry(f) * 2^(k - 1)
      BY <1>3, <2>1, <2>3, <3>1, Zenon
    <3>3. r = Result(n, ((d * 2^k) % 2^n) + ((d \div 2^(n + 1 - k)) % 2^(k - 1)) + Carry(f) * 2^(k - 1), f,
                [CF |-> Bit(d, n - k),
                 OF |-> k = 1 /\ Bit(d, n - k) # Bit(((d * 2^k) % 2^n) + ((d \div 2^(n + 1 - k)) % 2^(k - 1)) + Carry(f) * 2^(k - 1), n - 1)])
      BY <1>2, <1>5, Zenon DEF rcl
    <3>. QED BY <2>7, <3>2, <3>3, Zenon
  <2>9. PICK on : on = [CF |-> cf, OF |-> of] /\ "CF" \in DOMAIN on /\ on["CF"] = cf
    BY CarryAmong, Zenon
  <2>10. r = Result(n, v, f, on)
    BY <2>8, <2>9, Zenon
  <2>11. Out(r, v, b)
    BY <1>1, <2>3, <2>4, <2>6, <2>7, <2>9, <2>10, OutOf, Zenon
  <2>. QED BY <1>2, <1>3, <2>4, <2>11, Zenon
<1>. QED BY <1>4, <1>5

LEMMA RcrIs ==
  ASSUME NEW n, NEW N, NEW H, NEW d, Operand(n, N, H, d), NEW s \in Nat, NEW f,
         NEW r, r = rcr(n, d, s, f)
  PROVE  \E v, c : Out(r, v, c) /\ Through(n, N, N * Carry(f) + d, (n + 1) - (s % (n + 1)), v, c)
<1>1. n \in Nat \ {0} /\ N \in Nat \ {0} /\ N = 2^n /\ d \in 0..(N - 1) /\ d \in Int
  BY DEF Operand
<1>2. PICK k \in Nat : k = s % (n + 1) /\ k <= n
  BY <1>1
<1>3. PICK y, e : y = N * Carry(f) + d /\ e = Carry(f) /\ e \in 0..1
  BY CarryBit
<1>4. CASE k = 0
  <2>1. r = [res |-> d, f |-> f]
    BY <1>2, <1>4, Zenon DEF rcr
  <2>2. Out(r, d, e)
    BY <1>3, <2>1, OutPlain, Zenon
  <2>3. Through(n, N, y, n + 1, d, e)
    BY <1>3, WholeFits
  <2>4. (n + 1) - k = n + 1
    BY <1>1, <1>4
  <2>. QED BY <1>2, <1>3, <2>2, <2>3, <2>4, Zenon
<1>5. CASE k # 0
  <2>1. PICK j \in 1..n : /\ j = (n + 1) - k /\ (n + 1) - j = k /\ j - 1 = n - k /\ n - j = k - 1
                          /\ k - 1 \in Nat
    <3>1. (n + 1) - k \in 1..n
      BY <1>1, <1>2, <1>5
    <3>. QED BY <1>1, <1>2, <1>5, <3>1
  <2>2. PICK v, b : /\ v = ((d * 2^j) % 2^n) + (d \div 2^((n + 1) - j)) + e * 2^(j - 1)
                    /\ b = (d \div 2^(n - j)) % 2
                    /\ Shifted(n, j, d, e, v, b)
    BY Zenon DEF Shifted
  <2>3. n \in Nat /\ d \in 0..(2^n - 1)
    BY <1>1
  <2>4. /\ v \in 0..(2^n - 1) /\ b \in 0..1
        /\ Turned(n + 1, 2^n * e + d, j) = 2^n * b + v
    BY <1>3, <2>1, <2>2, <2>3, TurnedThrough
  <2>5. v \in 0..(N - 1) /\ Through(n, N, y, j, v, b)
    BY <1>1, <1>3, <2>4, Zenon DEF Through
  <2>6. Bit(d, k - 1) <=> b = 1
    BY <1>1, <2>1, <2>2, BitNumber, Zenon
  <2>7. PICK cf, of : cf = Bit(d, k - 1) /\ of = IF k = 1 THEN [OF |-> ("CF" \in f) # Bit(d, n - 1)] ELSE << >>
    OBVIOUS
  <2>8. r = Result(n, v, f, [CF |-> cf] ++ of)
    <3>1. v = (d \div 2^k) + ((d * 2^j) % 2^n) + e * 2^(n - k)
      <4>1. PICK p \in Int, q \in Int, u \in Int : p = (d * 2^j) % 2^n /\ q = d \div 2^k /\ u = e * 2^(n - k)
        <5>1. 2^j \in Nat \ {0} /\ 2^n \in Nat \ {0} /\ 2^k \in Nat \ {0} /\ 2^(n - k) \in Nat \ {0}
          <6>1. j \in Nat /\ n - k \in Nat
            BY <1>1, <1>2
          <6>. QED BY <1>1, <1>2, <6>1, PowerPositive
        <5>2. d * 2^j \in Int /\ e * 2^(n - k) \in Int
          BY <1>1, <1>3, <5>1
        <5>3. (d * 2^j) % 2^n \in Int /\ d \div 2^k \in Int
          <6>1. (d * 2^j) % 2^n \in 0..(2^n - 1)
            BY <5>1, <5>2, Division, Zenon
          <6>2. d \div 2^k \in Int
            BY <1>1, <5>1, Division, Zenon
          <6>. QED BY <5>1, <6>1, <6>2
        <5>. QED BY <5>2, <5>3
      <4>2. v = p + q + u
        BY <2>1, <2>2, <4>1, Zenon
      <4>3. p + q + u = q + p + u
        OBVIOUS
      <4>. QED BY <4>1, <4>2, <4>3, Zenon
    <3>2. n + 1 - k = j
      BY <1>1, <1>2, <2>1
    <3>3. r = Result(n, (d \div 2^k) + ((d * 2^(n + 1 - k)) % 2^n) + Carry(f) * 2^(n - k), f,
                [CF |-> Bit(d, k - 1)] ++ (IF k = 1 THEN [OF |-> ("CF" \in f) # Bit(d, n - 1)] ELSE << >>))
      BY <1>2, <1>5, Zenon DEF rcr
    <3>. QED BY <1>3, <2>7, <3>1, <3>2, <3>3, Zenon
  <2>9. PICK on : on = [CF |-> cf] ++ of /\ "CF" \in DOMAIN on /\ on["CF"] = cf
    BY CarryAmong, Zenon
  <2>10. r = Result(n, v, f, on)
    BY <2>8, <2>9, Zenon
  <2>11. Out(r, v, b)
    BY <1>1, <2>4, <2>5, <2>6, <2>7, <2>9, <2>10, OutOf, Zenon
  <2>. QED BY <1>2, <1>3, <2>1, <2>5, <2>11, Zenon
<1>. QED BY <1>4, <1>5

(* Plain shifts by fewer places than there are.                             *)
LEMMA ShlIs ==
  ASSUME NEW n, NEW N, NEW H, NEW d, Operand(n, N, H, d), NEW s \in Nat, s < n, NEW f,
         NEW r, r = shl(n, d, s, f), NEW v, v = (d * 2^s) % N,
         NEW c, c = IF s = 0 THEN Carry(f) ELSE (d \div 2^(n - s)) % 2
  PROVE  v \in 0..(N - 1) /\ c \in 0..1 /\ Out(r, v, c)
<1>1. n \in Nat \ {0} /\ N \in Nat \ {0} /\ N = 2^n /\ d \in 0..(N - 1) /\ d \in Int
  BY DEF Operand
<1>2. v \in 0..(N - 1)
  <2>1. 2^s \in Nat \ {0}
    BY PowerPositive
  <2>2. d * 2^s \in Int
    BY <1>1, <2>1
  <2>. QED BY <1>1, <2>2, Division
<1>3. CASE s = 0
  <2>1. v = d
    <3>1. 2^s = 1
      BY <1>3, PowerZero
    <3>2. d * 1 = d
      BY <1>1
    <3>3. d % N = d
      BY <1>1, Small, Zenon
    <3>. QED BY <3>1, <3>2, <3>3, Zenon
  <2>2. r = [res |-> d, f |-> f \ {"OF"}]
    BY <1>3, Zenon DEF shl
  <2>3. r.res = d /\ r.f = f \ {"OF"}
    BY <2>2, ResultParts, Zenon
  <2>4. Carry(f \ {"OF"}) = Carry(f)
    BY DEF Carry
  <2>5. c = Carry(f) /\ c \in 0..1
    BY <1>3, CarryBit, Zenon
  <2>. QED BY <1>2, <2>1, <2>3, <2>4, <2>5, Zenon DEF Out
<1>4. CASE s # 0
  <2>1. n - s \in Nat
    BY <1>1
  <2>2. c = (d \div 2^(n - s)) % 2
    BY <1>4, Zenon
  <2>3. c \in 0..1 /\ (Bit(d, n - s) <=> c = 1)
    BY <1>1, <2>1, <2>2, BitNumber, Zenon
  <2>4. PICK cf, of : cf = Bit(d, n - s) /\ of = (s = 1 /\ Bit(v, n - 1) # cf)
    OBVIOUS
  <2>5. r = Result(n, v, f, Sign(n, v) ++ [CF |-> cf, OF |-> of])
    BY <1>1, <1>4, <2>4, Zenon DEF shl
  <2>6. PICK g : g = [CF |-> cf, OF |-> of] /\ "CF" \in DOMAIN g /\ g["CF"] = cf
    BY CarryAmong, Zenon
  <2>7. PICK on : on = Sign(n, v) ++ g /\ "CF" \in DOMAIN on /\ on["CF"] = cf
    <3>1. "CF" \in DOMAIN (Sign(n, v) ++ g) /\ (Sign(n, v) ++ g)["CF"] = cf
      BY <2>6, CarryAfterSign
    <3>. QED BY <3>1, Zenon
  <2>8. r = Result(n, v, f, on)
    BY <2>5, <2>6, <2>7, Zenon
  <2>9. Out(r, v, c)
    BY <1>1, <1>2, <2>3, <2>4, <2>7, <2>8, OutOf, Zenon
  <2>. QED BY <1>2, <2>3, <2>9
<1>. QED BY <1>3, <1>4, Zenon

ScalesBy(P, Q, x) == (P * x) % (P * Q) = P * (x % Q)

LEMMA Scales ==
  ASSUME NEW P \in Nat \ {0}, NEW Q \in Nat \ {0}, NEW x \in Int
  PROVE  ScalesBy(P, Q, x)
BY Scaled DEF ScalesBy

LEMMA ShlNext ==
  ASSUME NEW n, NEW N, NEW H, NEW d, Operand(n, N, H, d), NEW s \in Nat, s < n,
         NEW v, v = (d * 2^s) % N
  PROVE  (2 * v) % N = (d * 2^(s + 1)) % N /\ v \div H = (d \div 2^(n - (s + 1))) % 2
<1>1. n \in Nat /\ N \in Nat \ {0} /\ N = 2^n /\ d \in 0..(N - 1) /\ d \in Int /\ H = 2^(n - 1)
  BY DEF Operand
<1>2. PICK P, Q, G : Placed(n, s, P, Q, G)
  BY <1>1, PlacedAt
<1>3. /\ P \in Nat \ {0} /\ Q \in Nat \ {0} /\ H \in Nat \ {0}
      /\ H = P * Q /\ 2^s = P /\ 2^(s + 1) = 2 * P
      /\ 2^(n - s) = 2 * Q /\ 2^(n - (s + 1)) = Q
      /\ N = 2 * H
  BY <1>1, <1>2, Zenon DEF Placed
<1>4. PICK h, t, l : Parting(P, Q, d, h, t, l)
  <2>1. N = 2 * (P * Q)
    BY <1>3
  <2>. QED BY <1>1, <1>3, <2>1, PartingOf
<1>5. t \in 0..1 /\ l \in 0..(Q - 1) /\ d % (2 * Q) = Q * t + l /\ d % Q = l /\ (d \div Q) % 2 = t
  BY <1>4, Zenon DEF Parting
<1>6. v = P * (Q * t + l) /\ (d * 2^(s + 1)) % N = (2 * P) * l
  <2>1. PICK p \in Nat \ {0}, q \in Nat \ {0} : p = 2 * P /\ q = 2 * Q
    BY <1>3
  <2>2. (P * d) % (P * q) = P * (d % q) /\ (p * d) % (p * Q) = p * (d % Q)
    <3>1. P \in Nat \ {0} /\ Q \in Nat \ {0} /\ d \in Int
      BY <1>1, <1>3
    <3>2. ScalesBy(P, q, d) /\ ScalesBy(p, Q, d)
      BY <3>1, Scales, Zenon
    <3>. QED BY <3>2, Zenon DEF ScalesBy
  <2>3. P * q = N /\ p * Q = N
    BY <1>3, <2>1
  <2>4. P * d = d * P /\ p * d = d * p
    BY <1>1, <1>3, <2>1
  <2>. QED BY <1>3, <1>5, <2>1, <2>2, <2>3, <2>4, Zenon
<1>7. PICK z \in 0..(H - 1) : z = P * l
  <2>1. P * l \in Int /\ P * l >= 0 /\ P * l <= P * (Q - 1)
    BY <1>3, <1>5
  <2>2. P * (Q - 1) = H - P
    BY <1>3
  <2>. QED BY <1>3, <2>1, <2>2
<1>8. v = H * t + z
  <2>1. P * (Q * t + l) = (P * Q) * t + P * l
    BY <1>3, <1>5
  <2>. QED BY <1>3, <1>6, <1>7, <2>1, Zenon
<1>9. v \div H = t
  <2>1. PICK V \in Int : V = v
    BY <1>3, <1>5, <1>8
  <2>2. V = H * t + z /\ t \in Int
    BY <1>5, <1>8, <2>1
  <2>3. V \div H = t
    BY <1>3, <1>7, <2>2, DivisionOf, Zenon
  <2>. QED BY <2>1, <2>3, Zenon
<1>10. (2 * v) % N = 2 * z
  <2>1. PICK V \in Int, Z \in 0..(N - 1) : V = 2 * v /\ Z = 2 * z
    <3>1. 2 * v \in Int
      BY <1>3, <1>5, <1>8
    <3>. QED BY <1>3, <3>1
  <2>2. 2 * (H * t + z) = (2 * H) * t + 2 * z
    BY <1>3, <1>5
  <2>3. V = N * t + Z
    BY <1>3, <1>8, <2>1, <2>2, Zenon
  <2>4. t \in Int
    BY <1>5
  <2>5. V % N = Z
    BY <1>1, <2>3, <2>4, DivisionOf, Zenon
  <2>. QED BY <2>1, <2>5, Zenon
<1>11. (2 * P) * l = 2 * z
  BY <1>3, <1>5, <1>7
<1>. QED BY <1>3, <1>5, <1>6, <1>9, <1>10, <1>11, Zenon

LEMMA HalvedTwice ==
  ASSUME NEW d \in Int, NEW s \in Nat
  PROVE  d \div 2^s \in Int /\ d \div 2^(s + 1) = (d \div 2^s) \div 2
<1>1. 2^s \in Nat \ {0} /\ 2^(s + 1) = 2 * 2^s
  BY PowerPositive, PowerNext
<1>2. PICK P \in Nat \ {0}, two \in Nat \ {0} : P = 2^s /\ two = 2
  BY <1>1
<1>3. d \div (P * two) = (d \div P) \div two
  BY <1>2, DividedTwice, Zenon
<1>4. P * two = 2 * P
  BY <1>2
<1>5. d \div P \in Int
  BY Division
<1>. QED BY <1>1, <1>2, <1>3, <1>4, <1>5, Zenon

LEMMA ShrIs ==
  ASSUME NEW n, NEW N, NEW H, NEW d, Operand(n, N, H, d), NEW s \in Nat, s < n, NEW f,
         NEW r, r = shr(n, d, s, f), NEW v, v = d \div 2^s,
         NEW c, c = IF s = 0 THEN Carry(f) ELSE (d \div 2^(s - 1)) % 2
  PROVE  v \in 0..(N - 1) /\ c \in 0..1 /\ Out(r, v, c)
<1>1. n \in Nat \ {0} /\ N \in Nat \ {0} /\ N = 2^n /\ d \in 0..(N - 1) /\ d \in Int
  BY DEF Operand
<1>2. v \in 0..(N - 1)
  <2>1. PICK P \in Nat \ {0} : P = 2^s
    BY PowerPositive
  <2>2. PICK l \in 0..(P - 1) : d = P * v + l /\ v \in Int
    BY <1>1, <2>1, Division
  <2>3. v >= 0
    <3>1. CASE v < 0
      <4>1. P * v <= P * (-1) /\ P * (-1) = -P
        BY <2>2, <3>1
      <4>2. PICK z \in Int : z = P * v
        BY <2>2
      <4>. QED BY <1>1, <2>2, <4>1, <4>2
    <3>. QED BY <2>2, <3>1
  <2>4. P * v >= v
    BY <2>2, <2>3
  <2>5. PICK z \in Int : z = P * v
    BY <2>2
  <2>. QED BY <1>1, <2>2, <2>3, <2>4, <2>5
<1>3. CASE s = 0
  <2>1. v = d
    <3>1. 2^s = 1
      BY <1>3, PowerZero
    <3>2. d \div 1 = d
      BY <1>1
    <3>. QED BY <3>1, <3>2, Zenon
  <2>2. r = [res |-> d, f |-> f \ {"OF"}]
    BY <1>3, Zenon DEF shr
  <2>3. r.res = d /\ r.f = f \ {"OF"}
    BY <2>2, ResultParts, Zenon
  <2>4. Carry(f \ {"OF"}) = Carry(f)
    BY DEF Carry
  <2>5. c = Carry(f) /\ c \in 0..1
    BY <1>3, CarryBit, Zenon
  <2>. QED BY <1>2, <2>1, <2>3, <2>4, <2>5, Zenon DEF Out
<1>4. CASE s # 0
  <2>1. s - 1 \in Nat
    BY <1>4
  <2>2. c = (d \div 2^(s - 1)) % 2
    BY <1>4, Zenon
  <2>3. c \in 0..1 /\ (Bit(d, s - 1) <=> c = 1)
    BY <1>1, <2>1, <2>2, BitNumber, Zenon
  <2>4. PICK cf, of : cf = Bit(d, s - 1) /\ of = (s = 1 /\ Bit(v, n - 1) # Bit(v, n - 2))
    OBVIOUS
  <2>5. r = Result(n, v, f, Sign(n, v) ++ [CF |-> cf, OF |-> of])
    BY <1>1, <1>4, <2>4, Zenon DEF shr
  <2>6. PICK g : g = [CF |-> cf, OF |-> of] /\ "CF" \in DOMAIN g /\ g["CF"] = cf
    BY CarryAmong, Zenon
  <2>7. PICK on : on = Sign(n, v) ++ g /\ "CF" \in DOMAIN on /\ on["CF"] = cf
    <3>1. "CF" \in DOMAIN (Sign(n, v) ++ g) /\ (Sign(n, v) ++ g)["CF"] = cf
      BY <2>6, CarryAfterSign
    <3>. QED BY <3>1, Zenon
  <2>8. r = Result(n, v, f, on)
    BY <2>5, <2>6, <2>7, Zenon
  <2>9. Out(r, v, c)
    BY <1>1, <1>2, <2>3, <2>4, <2>7, <2>8, OutOf, Zenon
  <2>. QED BY <1>2, <2>3, <2>9
<1>. QED BY <1>3, <1>4, Zenon

(* An arithmetic shift fills up with the sign.                              *)
Filled(n, d, s) == (d \div 2^s) + (IF Bit(d, n - 1) THEN 2^n - 2^(n - s) ELSE 0)

LEMMA FilledNext ==
  ASSUME NEW n, NEW N, NEW H, NEW d, Operand(n, N, H, d), NEW s \in Nat, s < n,
         NEW v, v = Filled(n, d, s)
  PROVE  /\ v \in 0..(N - 1) /\ v % 2 = (d \div 2^s) % 2
         /\ Filled(n, d, s + 1) = v \div 2 + (v \div H) * H
<1>1. n \in Nat /\ N \in Nat \ {0} /\ N = 2^n /\ d \in 0..(N - 1) /\ d \in Int /\ H = 2^(n - 1)
  BY DEF Operand
<1>2. PICK P, Q, G : Placed(n, s, P, Q, G)
  BY <1>1, PlacedAt
<1>3. /\ P \in Nat \ {0} /\ Q \in Nat \ {0} /\ H \in Nat \ {0}
      /\ H = P * Q /\ 2^s = P /\ 2^(s + 1) = 2 * P
      /\ 2^(n - s) = 2 * Q /\ 2^(n - (s + 1)) = Q
      /\ N = 2 * H
  BY <1>1, <1>2, Zenon DEF Placed
<1>16. PICK a \in Int, l \in 0..(P - 1) : d = P * a + l /\ a = d \div P
  BY <1>1, <1>3, Division
<1>17. PICK z \in Int : z = P * a
  BY <1>3
<1>4. d = z + l /\ z = P * a /\ a = d \div P
  BY <1>16, <1>17, Zenon
<1>5. d \div 2^(s + 1) = a \div 2
  <2>1. d \div 2^(s + 1) = (d \div 2^s) \div 2
    BY <1>1, HalvedTwice
  <2>. QED BY <1>3, <1>4, <2>1, Zenon
<1>6. PICK t \in BOOLEAN : (t <=> Bit(d, n - 1)) /\ (t <=> d >= H)
  <2>1. PICK c : c = d \div H
    OBVIOUS
  <2>2. (Bit(d, n - 1) <=> c = 1) /\ (c = 1 <=> d >= H)
    BY <1>1, <2>1, TopNumber, Zenon
  <2>3. PICK t \in BOOLEAN : t <=> c = 1
    OBVIOUS
  <2>. QED BY <2>2, <2>3, Zenon
<1>7. H >= Q
  BY <1>3
<1>8. /\ a >= 0 /\ a < 2 * Q
      /\ d >= H <=> a >= Q
  <2>1. a < 0 => z <= -P
    <3>1. a < 0 => P * a <= P * (-1)
      BY <1>3, <1>4
    <3>2. P * (-1) = -P
      BY <1>3
    <3>. QED BY <1>4, <3>1, <3>2
  <2>2. a >= 2 * Q => z >= 2 * H
    <3>1. a >= 2 * Q => P * a >= P * (2 * Q)
      BY <1>3, <1>4
    <3>2. P * (2 * Q) = 2 * H
      BY <1>3
    <3>. QED BY <1>4, <3>1, <3>2
  <2>3. a >= Q => z >= H
    <3>1. a >= Q => P * a >= P * Q
      BY <1>3, <1>4
    <3>. QED BY <1>3, <1>4, <3>1
  <2>4. a <= Q - 1 => z <= H - P
    <3>1. a <= Q - 1 => P * a <= P * (Q - 1)
      BY <1>3, <1>4
    <3>2. P * (Q - 1) = H - P
      BY <1>3
    <3>. QED BY <1>4, <3>1, <3>2
  <2>5. d >= 0 /\ d < 2 * H /\ Q \in Nat /\ H \in Nat /\ P \in Nat
    BY <1>1, <1>3
  <2>6. d = z + l
    BY <1>4
  <2>. QED BY <1>4, <2>1, <2>2, <2>3, <2>4, <2>5, <2>6
<1>9. v = a + (IF t THEN N - 2 * Q ELSE 0) /\ Filled(n, d, s + 1) = (a \div 2) + (IF t THEN N - Q ELSE 0)
  BY <1>1, <1>3, <1>4, <1>5, <1>6, Zenon DEF Filled
<1>10. PICK e \in Int, u \in 0..1 : a = 2 * e + u /\ e = a \div 2 /\ u = a % 2
  BY <1>4
<1>11. PICK V \in Int : V = v /\ V \in 0..(N - 1) /\ (t <=> V >= H) /\ (t => V = 2 * (e + H - Q) + u) /\ (~t => V = 2 * e + u)
  <2>1. Q \in Nat /\ H \in Nat /\ Q > 0
    BY <1>3
  <2>2. CASE t
    <3>1. v = a + (N - 2 * Q)
      BY <1>9, <2>2, Zenon
    <3>. QED BY <1>3, <1>6, <1>7, <1>8, <1>10, <2>1, <2>2, <3>1
  <2>3. CASE ~t
    <3>1. v = a + 0
      BY <1>9, <2>3, Zenon
    <3>. QED BY <1>3, <1>6, <1>7, <1>8, <1>10, <2>1, <2>3, <3>1
  <2>. QED BY <2>2, <2>3
<1>12. PICK c : c = V \div H /\ c \in 0..1 /\ (c = 1 <=> V >= H)
  BY <1>11, TopNumber
<1>13. c * H = IF t THEN H ELSE 0
  <2>1. (c = 1 <=> t) /\ (c = 0 \/ c = 1)
    BY <1>11, <1>12
  <2>2. 1 * H = H /\ 0 * H = 0
    BY <1>3
  <2>. QED BY <2>1, <2>2
<1>14. V \div 2 = (IF t THEN e + H - Q ELSE e) /\ V % 2 = u
  <2>1. PICK m \in Int : m = IF t THEN e + H - Q ELSE e
    <3>1. (IF t THEN e + H - Q ELSE e) \in Int
      BY <1>3
    <3>. QED BY <3>1, Zenon
  <2>2. V = 2 * m + u
    BY <1>11, <2>1
  <2>3. 2 \in Nat \ {0} /\ u \in 0..(2 - 1)
    OBVIOUS
  <2>. QED BY <1>11, <2>1, <2>2, <2>3, DivisionOf, Zenon
<1>15. (a \div 2) + (IF t THEN N - Q ELSE 0) = (IF t THEN e + H - Q ELSE e) + (IF t THEN H ELSE 0)
  BY <1>3, <1>10
<1>. QED BY <1>3, <1>4, <1>9, <1>10, <1>11, <1>12, <1>13, <1>14, <1>15, Zenon

LEMMA SarIs ==
  ASSUME NEW n, NEW N, NEW H, NEW d, Operand(n, N, H, d), NEW s \in Nat, s < n, NEW f,
         NEW r, r = sar(n, d, s, f), NEW v, v = Filled(n, d, s),
         NEW c, c = IF s = 0 THEN Carry(f) ELSE (d \div 2^(s - 1)) % 2
  PROVE  v \in 0..(N - 1) /\ c \in 0..1 /\ Out(r, v, c)
<1>1. n \in Nat \ {0} /\ N \in Nat \ {0} /\ N = 2^n /\ d \in 0..(N - 1) /\ d \in Int /\ s % n = s
  <2>1. n \in Nat \ {0} /\ N \in Nat \ {0} /\ N = 2^n /\ d \in 0..(N - 1) /\ d \in Int
    BY DEF Operand
  <2>2. s \in 0..(n - 1)
    BY <2>1
  <2>. QED BY <2>1, <2>2, Small
<1>2. v \in 0..(N - 1)
  BY FilledNext
<1>3. CASE s = 0
  <2>1. v = d
    <3>1. 2^s = 1 /\ n - s = n
      BY <1>1, <1>3, PowerZero
    <3>2. d \div 1 = d
      BY <1>1
    <3>3. 2^n - 2^n = 0 /\ d + 0 = d
      BY <1>1
    <3>4. v = d + (IF Bit(d, n - 1) THEN 2^n - 2^n ELSE 0)
      BY <3>1, <3>2, Zenon DEF Filled
    <3>. QED BY <3>3, <3>4, Zenon
  <2>2. r = [res |-> d, f |-> f]
    BY <1>1, <1>3, Zenon DEF sar
  <2>3. Out(r, d, Carry(f))
    BY <2>2, OutPlain, Zenon
  <2>4. c = Carry(f) /\ c \in 0..1
    BY <1>3, CarryBit, Zenon
  <2>. QED BY <1>2, <2>1, <2>3, <2>4, Zenon
<1>4. CASE s # 0
  <2>1. s - 1 \in Nat
    BY <1>4
  <2>2. c = (d \div 2^(s - 1)) % 2
    BY <1>4, Zenon
  <2>3. c \in 0..1 /\ (Bit(d, s - 1) <=> c = 1)
    BY <1>1, <2>1, <2>2, BitNumber, Zenon
  <2>4. PICK cf : cf = Bit(d, s - 1)
    OBVIOUS
  <2>5. r = Result(n, v, f, Sign(n, v) ++ [CF |-> cf])
    BY <1>1, <1>4, <2>4, Zenon DEF sar, Filled
  <2>6. PICK g : g = [CF |-> cf] /\ "CF" \in DOMAIN g /\ g["CF"] = cf
    BY CarryAmong, Zenon
  <2>7. PICK on : on = Sign(n, v) ++ g /\ "CF" \in DOMAIN on /\ on["CF"] = cf
    <3>1. "CF" \in DOMAIN (Sign(n, v) ++ g) /\ (Sign(n, v) ++ g)["CF"] = cf
      BY <2>6, CarryAfterSign
    <3>. QED BY <3>1, Zenon
  <2>8. r = Result(n, v, f, on)
    BY <2>5, <2>6, <2>7, Zenon
  <2>9. Out(r, v, c)
    BY <1>1, <1>2, <2>3, <2>4, <2>7, <2>8, OutOf, Zenon
  <2>. QED BY <1>2, <2>3, <2>9
<1>. QED BY <1>3, <1>4, Zenon

-----------------------------------------------------------------------------
(* One place more.                                                         *)

LEMMA NextCount ==
  ASSUME NEW w \in Nat \ {0}, NEW s \in Nat, NEW k, k = s % w
  PROVE  /\ k \in 0..(w - 1)
         /\ \/ (s + 1) % w = k + 1 /\ k + 1 < w
            \/ (s + 1) % w = 0 /\ k + 1 = w
<1>1. PICK q \in Int, l \in 0..(w - 1) : s = w * q + l /\ l = s % w
  <2>1. s \in Int
    OBVIOUS
  <2>. QED BY <2>1, Division
<1>2. k = l
  BY <1>1
<1>3. CASE l + 1 < w
  <2>1. PICK m \in 0..(w - 1) : m = l + 1
    BY <1>3
  <2>2. s + 1 = w * q + m
    <3>1. PICK z \in Int : z = w * q
      OBVIOUS
    <3>2. s = z + l
      BY <1>1, <3>1, Zenon
    <3>3. s + 1 = z + m
      BY <2>1, <3>2
    <3>. QED BY <3>1, <3>3, Zenon
  <2>3. s + 1 \in Int
    OBVIOUS
  <2>4. (s + 1) % w = m
    BY <2>2, <2>3, DivisionOf, Zenon
  <2>. QED BY <1>2, <1>3, <2>1, <2>4
<1>4. CASE l + 1 = w
  <2>1. s + 1 = w * (q + 1) + 0
    <3>1. w * (q + 1) = w * q + w
      OBVIOUS
    <3>2. PICK z \in Int : z = w * q
      OBVIOUS
    <3>3. s = z + l /\ w * (q + 1) = z + w
      BY <1>1, <3>1, <3>2, Zenon
    <3>4. s + 1 = (z + w) + 0
      BY <1>4, <3>3
    <3>. QED BY <3>3, <3>4, Zenon
  <2>2. s + 1 \in Int /\ q + 1 \in Int /\ 0 \in 0..(w - 1)
    OBVIOUS
  <2>3. (s + 1) % w = 0
    BY <2>1, <2>2, DivisionOf, Zenon
  <2>. QED BY <1>2, <1>4, <2>3
<1>. QED BY <1>3, <1>4

(* Turning on after a turn around is to start again.                        *)
TurnsOn(w, y, s, k) ==
  /\ k \in Nat /\ k < w
  /\ Turned(w, y, (s + 1) % w) = Turned(w, y, k + 1)
  /\ Turned(w, y, w - ((s + 1) % w)) = Turned(w, y, (w - k) - 1)
  /\ Turned(w, y, w - k) = Turned(w, y, ((w - k) - 1) + 1)

LEMMA TurnedOn ==
  ASSUME NEW w \in Nat \ {0}, NEW y \in 0..(2^w - 1), NEW s \in Nat
  PROVE  TurnsOn(w, y, s, s % w)
<1>. PICK k : k = s % w
  OBVIOUS
<1>1. /\ k \in 0..(w - 1)
      /\ \/ (s + 1) % w = k + 1 /\ k + 1 < w
         \/ (s + 1) % w = 0 /\ k + 1 = w
  BY NextCount
<1>2. Turned(w, y, 0) = Turned(w, y, w)
  <2>1. w \in Nat
    OBVIOUS
  <2>2. Turned(w, y, 0) = y /\ Turned(w, y, w) = y
    BY <2>1, TurnedAround
  <2>. QED BY <2>2, Zenon
<1>3. PICK m : m = (s + 1) % w
  OBVIOUS
<1>4. ((w - k) - 1) + 1 = w - k /\ k \in Nat /\ k < w
  BY <1>1
<1>5. ASSUME m = k + 1
      PROVE  /\ Turned(w, y, m) = Turned(w, y, k + 1)
             /\ Turned(w, y, w - m) = Turned(w, y, (w - k) - 1)
             /\ Turned(w, y, w - k) = Turned(w, y, ((w - k) - 1) + 1)
  <2>1. w - m = (w - k) - 1
    BY <1>1, <1>5
  <2>. QED BY <1>3, <1>4, <1>5, <2>1, Zenon
<1>6. ASSUME m = 0 /\ k + 1 = w
      PROVE  /\ Turned(w, y, m) = Turned(w, y, k + 1)
             /\ Turned(w, y, w - m) = Turned(w, y, (w - k) - 1)
             /\ Turned(w, y, w - k) = Turned(w, y, ((w - k) - 1) + 1)
  <2>1. w - m = w /\ (w - k) - 1 = 0
    BY <1>1, <1>6
  <2>. QED BY <1>2, <1>3, <1>4, <1>6, <2>1, Zenon
<1>7. m = k + 1 \/ (m = 0 /\ k + 1 = w)
  BY <1>1, <1>3
<1>8. TurnsOn(w, y, s, k)
  BY <1>3, <1>4, <1>5, <1>6, <1>7, Zenon DEF TurnsOn
<1>. QED BY <1>8, Zenon

(* What PlacesExact follows.                                                *)
State(r) == [c |-> Carry(r.f), x |-> r.res]

LEMMA Place_shl ==
  \A n, c, v : Place("shl", n, [c |-> c, x |-> v])
                = [c |-> v \div 2^(n - 1), x |-> (2 * v) % 2^n]
<1>. TAKE n, c, v
<1> DEFINE p == [c |-> c, x |-> v]
<1>1. p.c = c /\ p.x = v
  OBVIOUS
<1>. HIDE DEF p
<1>2. Place("shl", n, p) = [c |-> v \div 2^(n - 1), x |-> (2 * v) % 2^n]
  BY <1>1 DEF Place
<1>. QED BY <1>2 DEF p

LEMMA Place_rol ==
  \A n, c, v : Place("rol", n, [c |-> c, x |-> v])
                = [c |-> v \div 2^(n - 1), x |-> ((2 * v) % 2^n) + (v \div 2^(n - 1))]
<1>. TAKE n, c, v
<1> DEFINE p == [c |-> c, x |-> v]
<1>1. p.c = c /\ p.x = v
  OBVIOUS
<1>. HIDE DEF p
<1>2. Place("rol", n, p) = [c |-> v \div 2^(n - 1), x |-> ((2 * v) % 2^n) + (v \div 2^(n - 1))]
  BY <1>1 DEF Place
<1>. QED BY <1>2 DEF p

LEMMA Place_rcl ==
  \A n, c, v : Place("rcl", n, [c |-> c, x |-> v])
                = [c |-> v \div 2^(n - 1), x |-> ((2 * v) % 2^n) + c]
<1>. TAKE n, c, v
<1> DEFINE p == [c |-> c, x |-> v]
<1>1. p.c = c /\ p.x = v
  OBVIOUS
<1>. HIDE DEF p
<1>2. Place("rcl", n, p) = [c |-> v \div 2^(n - 1), x |-> ((2 * v) % 2^n) + c]
  BY <1>1 DEF Place
<1>. QED BY <1>2 DEF p

LEMMA Place_shr ==
  \A n, c, v : Place("shr", n, [c |-> c, x |-> v])
                = [c |-> v % 2, x |-> v \div 2]
<1>. TAKE n, c, v
<1> DEFINE p == [c |-> c, x |-> v]
<1>1. p.c = c /\ p.x = v
  OBVIOUS
<1>. HIDE DEF p
<1>2. Place("shr", n, p) = [c |-> v % 2, x |-> v \div 2]
  BY <1>1 DEF Place
<1>. QED BY <1>2 DEF p

LEMMA Place_sar ==
  \A n, c, v : Place("sar", n, [c |-> c, x |-> v])
                = [c |-> v % 2, x |-> (v \div 2) + (v \div 2^(n - 1)) * 2^(n - 1)]
<1>. TAKE n, c, v
<1> DEFINE p == [c |-> c, x |-> v]
<1>1. p.c = c /\ p.x = v
  OBVIOUS
<1>. HIDE DEF p
<1>2. Place("sar", n, p) = [c |-> v % 2, x |-> (v \div 2) + (v \div 2^(n - 1)) * 2^(n - 1)]
  BY <1>1 DEF Place
<1>. QED BY <1>2 DEF p

LEMMA Place_ror ==
  \A n, c, v : Place("ror", n, [c |-> c, x |-> v])
                = [c |-> v % 2, x |-> (v \div 2) + (v % 2) * 2^(n - 1)]
<1>. TAKE n, c, v
<1> DEFINE p == [c |-> c, x |-> v]
<1>1. p.c = c /\ p.x = v
  OBVIOUS
<1>. HIDE DEF p
<1>2. Place("ror", n, p) = [c |-> v % 2, x |-> (v \div 2) + (v % 2) * 2^(n - 1)]
  BY <1>1 DEF Place
<1>. QED BY <1>2 DEF p

LEMMA Place_rcr ==
  \A n, c, v : Place("rcr", n, [c |-> c, x |-> v])
                = [c |-> v % 2, x |-> (v \div 2) + c * 2^(n - 1)]
<1>. TAKE n, c, v
<1> DEFINE p == [c |-> c, x |-> v]
<1>1. p.c = c /\ p.x = v
  OBVIOUS
<1>. HIDE DEF p
<1>2. Place("rcr", n, p) = [c |-> v % 2, x |-> (v \div 2) + c * 2^(n - 1)]
  BY <1>1 DEF Place
<1>. QED BY <1>2 DEF p

LEMMA RolNext ==
  ASSUME NEW n, NEW N, NEW H, NEW d, Operand(n, N, H, d), NEW s \in Nat, NEW f,
         NEW r, r = rol(n, d, s, f), NEW t, t = rol(n, d, s + 1, f)
  PROVE  State(t) = Place("rol", n, State(r))
<1>1. /\ n \in Nat \ {0} /\ n \in Nat /\ N = 2^n /\ H = 2^(n - 1) /\ d \in 0..(2^n - 1)
      /\ s + 1 \in Nat /\ s + 1 > 0
  BY DEF Operand
<1>2. PICK k : k = s % n
  OBVIOUS
<1>3. PICK y, z : y = Turned(n, d, k) /\ z = Turned(n, d, k + 1)
  OBVIOUS
<1>4. k \in Nat /\ k < n /\ Turned(n, d, (s + 1) % n) = z
  <2>1. /\ k \in Nat /\ k < n
        /\ Turned(n, d, (s + 1) % n) = Turned(n, d, k + 1)
    BY <1>1, <1>2, TurnedOn, Zenon DEF TurnsOn
  <2>. QED BY <1>3, <2>1, Zenon
<1>5. z = ((2 * y) % 2^n) + (y \div 2^(n - 1)) /\ z % 2 = y \div 2^(n - 1)
  BY <1>1, <1>3, <1>4, TurnedNext
<1>6. r.res = y
  BY <1>2, <1>3, RolIs
<1>7. t.res = z /\ Carry(t.f) = z % 2
  BY <1>1, <1>4, RolIs
<1>8. PICK c : c = Carry(r.f) /\ State(r) = [c |-> c, x |-> y]
  BY <1>6, Zenon DEF State
<1>9. Place("rol", n, State(r)) = [c |-> y \div 2^(n - 1), x |-> ((2 * y) % 2^n) + (y \div 2^(n - 1))]
  BY <1>8, Place_rol, Zenon
<1>. QED BY <1>5, <1>7, <1>9, Zenon DEF State

LEMMA RorNext ==
  ASSUME NEW n, NEW N, NEW H, NEW d, Operand(n, N, H, d), NEW s \in Nat, NEW f,
         NEW r, r = ror(n, d, s, f), NEW t, t = ror(n, d, s + 1, f)
  PROVE  State(t) = Place("ror", n, State(r))
<1>1. /\ n \in Nat \ {0} /\ n \in Nat /\ N = 2^n /\ H = 2^(n - 1) /\ d \in 0..(2^n - 1)
      /\ s + 1 \in Nat /\ s + 1 > 0
  BY DEF Operand
<1>2. PICK k : k = s % n
  OBVIOUS
<1>3. PICK j : j = (n - k) - 1
  OBVIOUS
<1>4. PICK y, z : y = Turned(n, d, j) /\ z = Turned(n, d, j + 1)
  OBVIOUS
<1>5. j \in Nat /\ j < n /\ Turned(n, d, n - ((s + 1) % n)) = y /\ Turned(n, d, n - k) = z
  <2>1. TurnsOn(n, d, s, k)
    BY <1>1, <1>2, TurnedOn, Zenon
  <2>3. k \in Nat /\ k < n /\ Turned(n, d, n - ((s + 1) % n)) = Turned(n, d, (n - k) - 1)
    BY <2>1, Zenon DEF TurnsOn
  <2>4. Turned(n, d, n - k) = Turned(n, d, j + 1)
    <3>1. n - k = j + 1
      BY <1>1, <1>3, <2>3
    <3>. QED BY <3>1, Zenon
  <2>2. j \in Nat /\ j < n
    BY <1>1, <1>3, <2>3
  <2>. QED BY <1>3, <1>4, <2>1, <2>2, <2>3, <2>4, Zenon
<1>6. z % 2 = y \div 2^(n - 1) /\ (z \div 2) + (z % 2) * 2^(n - 1) = y
  BY <1>1, <1>4, <1>5, TurnedNext
<1>7. r.res = z
  BY <1>2, <1>5, RorIs
<1>8. t.res = y /\ Carry(t.f) = y \div H
  BY <1>1, <1>5, RorIs
<1>9. PICK c : c = Carry(r.f) /\ State(r) = [c |-> c, x |-> z]
  BY <1>7, Zenon DEF State
<1>10. Place("ror", n, State(r)) = [c |-> z % 2, x |-> (z \div 2) + (z % 2) * 2^(n - 1)]
  BY <1>9, Place_ror, Zenon
<1>. QED BY <1>1, <1>6, <1>8, <1>10, Zenon DEF State

LEMMA ShlPlace ==
  ASSUME NEW n, NEW N, NEW H, NEW d, Operand(n, N, H, d), NEW s \in Nat, s + 1 < n, NEW f,
         NEW r, r = shl(n, d, s, f), NEW t, t = shl(n, d, s + 1, f)
  PROVE  State(t) = Place("shl", n, State(r))
<1>1. /\ N = 2^n /\ H = 2^(n - 1) /\ s + 1 \in Nat /\ s + 1 # 0 /\ s < n
  BY DEF Operand
<1>2. PICK v, w, c : /\ v = (d * 2^s) % N /\ w = (d * 2^(s + 1)) % N
                     /\ c = (d \div 2^(n - (s + 1))) % 2
  OBVIOUS
<1>3. PICK b : b = IF s = 0 THEN Carry(f) ELSE (d \div 2^(n - s)) % 2
  OBVIOUS
<1>4. Out(r, v, b)
  BY <1>1, <1>2, <1>3, ShlIs
<1>5. c = IF s + 1 = 0 THEN Carry(f) ELSE (d \div 2^(n - (s + 1))) % 2
  BY <1>1, <1>2
<1>6. Out(t, w, c)
  BY <1>1, <1>2, <1>5, ShlIs
<1>7. (2 * v) % N = w /\ v \div H = c
  BY <1>1, <1>2, ShlNext
<1>8. State(r) = [c |-> b, x |-> v] /\ State(t) = [c |-> c, x |-> w]
  BY <1>4, <1>6, Zenon DEF State, Out
<1>9. Place("shl", n, State(r)) = [c |-> v \div 2^(n - 1), x |-> (2 * v) % 2^n]
  BY <1>8, Place_shl, Zenon
<1>. QED BY <1>1, <1>7, <1>8, <1>9, Zenon

LEMMA ShrPlace ==
  ASSUME NEW n, NEW N, NEW H, NEW d, Operand(n, N, H, d), NEW s \in Nat, s + 1 < n, NEW f,
         NEW r, r = shr(n, d, s, f), NEW t, t = shr(n, d, s + 1, f)
  PROVE  State(t) = Place("shr", n, State(r))
<1>1. s + 1 \in Nat /\ s + 1 # 0 /\ s < n /\ (s + 1) - 1 = s /\ d \in Int
  BY DEF Operand
<1>2. PICK v, w, c : v = d \div 2^s /\ w = d \div 2^(s + 1) /\ c = (d \div 2^s) % 2
  OBVIOUS
<1>3. PICK b : b = IF s = 0 THEN Carry(f) ELSE (d \div 2^(s - 1)) % 2
  OBVIOUS
<1>4. Out(r, v, b)
  BY <1>1, <1>2, <1>3, ShrIs
<1>5. c = IF s + 1 = 0 THEN Carry(f) ELSE (d \div 2^((s + 1) - 1)) % 2
  BY <1>1, <1>2, Zenon
<1>6. Out(t, w, c)
  BY <1>1, <1>2, <1>5, ShrIs
<1>7. w = v \div 2
  BY <1>1, <1>2, HalvedTwice
<1>8. State(r) = [c |-> b, x |-> v] /\ State(t) = [c |-> c, x |-> w]
  BY <1>4, <1>6, Zenon DEF State, Out
<1>9. Place("shr", n, State(r)) = [c |-> v % 2, x |-> v \div 2]
  <2>1. Place("shr", n, [c |-> b, x |-> v]) = [c |-> v % 2, x |-> v \div 2]
    BY Place_shr
  <2>. QED BY <1>8, <2>1, Zenon
<1>. QED BY <1>2, <1>7, <1>8, <1>9, Zenon

LEMMA SarPlace ==
  ASSUME NEW n, NEW N, NEW H, NEW d, Operand(n, N, H, d), NEW s \in Nat, s + 1 < n, NEW f,
         NEW r, r = sar(n, d, s, f), NEW t, t = sar(n, d, s + 1, f)
  PROVE  State(t) = Place("sar", n, State(r))
<1>1. s + 1 \in Nat /\ s + 1 # 0 /\ s < n /\ (s + 1) - 1 = s /\ H = 2^(n - 1)
  BY DEF Operand
<1>2. PICK v, w, c : v = Filled(n, d, s) /\ w = Filled(n, d, s + 1) /\ c = (d \div 2^s) % 2
  OBVIOUS
<1>3. PICK b : b = IF s = 0 THEN Carry(f) ELSE (d \div 2^(s - 1)) % 2
  OBVIOUS
<1>4. Out(r, v, b)
  BY <1>1, <1>2, <1>3, SarIs
<1>5. c = IF s + 1 = 0 THEN Carry(f) ELSE (d \div 2^((s + 1) - 1)) % 2
  BY <1>1, <1>2, Zenon
<1>6. Out(t, w, c)
  BY <1>1, <1>2, <1>5, SarIs
<1>7. w = v \div 2 + (v \div H) * H /\ v % 2 = c
  BY <1>1, <1>2, FilledNext
<1>8. State(r) = [c |-> b, x |-> v] /\ State(t) = [c |-> c, x |-> w]
  BY <1>4, <1>6, Zenon DEF State, Out
<1>9. Place("sar", n, State(r)) = [c |-> v % 2, x |-> (v \div 2) + (v \div 2^(n - 1)) * 2^(n - 1)]
  BY <1>8, Place_sar, Zenon
<1>. QED BY <1>1, <1>7, <1>8, <1>9, Zenon

(* One place through the carry, of n places, and of the n + 1.              *)
Leftward(H, N, x, c, y, z, v, b) ==
  /\ H \in Nat \ {0} /\ N \in Nat \ {0} /\ N = 2 * H /\ x \in 0..(N - 1) /\ c \in 0..1
  /\ y = N * c + x /\ z = ((2 * y) % (2 * N)) + (y \div N)
  /\ v = ((2 * x) % N) + c /\ b = x \div H

LEMMA ThroughLeft ==
  ASSUME NEW H, NEW N, NEW x, NEW c, NEW y, NEW z, NEW v, NEW b, Leftward(H, N, x, c, y, z, v, b)
  PROVE  v \in 0..(N - 1) /\ b \in 0..1 /\ z = N * b + v
<1>. /\ H \in Nat \ {0} /\ N \in Nat \ {0} /\ N = 2 * H /\ x \in 0..(N - 1) /\ c \in 0..1
     /\ y = N * c + x /\ z = ((2 * y) % (2 * N)) + (y \div N)
     /\ v = ((2 * x) % N) + c /\ b = x \div H
  BY DEF Leftward
<1>1. PICK q \in Int, l \in 0..(H - 1), g \in Int : x = g + l /\ g = H * q /\ b = q
  <2>1. x \in Int
    OBVIOUS
  <2>2. PICK q \in Int, l \in 0..(H - 1) : x = H * q + l /\ b = q
    BY <2>1, Division
  <2>3. PICK g \in Int : g = H * q
    OBVIOUS
  <2>4. x = g + l
    BY <2>2, <2>3, Zenon
  <2>. QED BY <2>2, <2>3, <2>4, Zenon
<1>2. (b = 0 \/ b = 1) /\ (b = 0 => x = l) /\ (b = 1 => x = H + l)
  <2>1. q < 0 => g <= -H
    <3>1. q < 0 => H * q <= H * (-1)
      OBVIOUS
    <3>2. H * (-1) = -H
      OBVIOUS
    <3>. QED BY <1>1, <3>1, <3>2
  <2>2. q > 1 => g >= 2 * H
    <3>1. q > 1 => H * q >= H * 2
      OBVIOUS
    <3>. QED BY <1>1, <3>1
  <2>3. (q = 0 => g = 0) /\ (q = 1 => g = H)
    <3>1. H * 0 = 0 /\ H * 1 = H
      OBVIOUS
    <3>. QED BY <1>1, <3>1, Zenon
  <2>4. H > 0 /\ x < 2 * H /\ x >= 0 /\ x \in Int
    OBVIOUS
  <2>. QED BY <1>1, <2>1, <2>2, <2>3, <2>4
<1>3. (2 * x) % N = 2 * l
  <2>1. PICK X \in Int, L \in 0..(N - 1) : X = 2 * x /\ L = 2 * l
    OBVIOUS
  <2>2. X = N * b + L
    <3>1. N * 0 = 0 /\ N * 1 = N
      OBVIOUS
    <3>2. (b = 0 => X = 0 + L) /\ (b = 1 => X = N + L)
      BY <1>2, <2>1
    <3>. QED BY <1>2, <3>1, <3>2, Zenon
  <2>3. b \in Int
    BY <1>1
  <2>4. X % N = L
    BY <2>2, <2>3, DivisionOf, Zenon
  <2>. QED BY <2>1, <2>4, Zenon
<1>4. v = 2 * l + c /\ v \in 0..(N - 1)
  <2>1. v = 2 * l + c
    BY <1>3, Zenon
  <2>2. 2 * l + c \in 0..(N - 1)
    OBVIOUS
  <2>. QED BY <2>1, <2>2, Zenon
<1>5. y \div N = c /\ y \in Int /\ (c = 0 => y = x) /\ (c = 1 => y = N + x)
  <2>1. (c = 0 => N * c = 0) /\ (c = 1 => N * c = N) /\ N * c \in Int
    OBVIOUS
  <2>2. y \in Int /\ x \in 0..(N - 1) /\ c \in Int
    BY <2>1
  <2>3. PICK Y \in Int : Y = y /\ Y = N * c + x
    BY <2>2
  <2>4. Y \div N = c
    BY <2>2, <2>3, DivisionOf, Zenon
  <2>5. (c = 0 => y = x) /\ (c = 1 => y = N + x)
    <3>1. PICK g2 \in Int : g2 = N * c
      BY <2>1
    <3>2. y = g2 + x
      BY <3>1, Zenon
    <3>. QED BY <2>1, <3>1, <3>2
  <2>. QED BY <2>3, <2>4, <2>5, Zenon
<1>6. (2 * y) % (2 * N) = 2 * x
  <2>1. PICK Y \in Int, X \in Int, M \in Nat \ {0} : Y = 2 * y /\ X = 2 * x /\ M = 2 * N
    BY <1>5
  <2>2. Y = M * c + X
    <3>1. M * 0 = 0 /\ M * 1 = M
      OBVIOUS
    <3>2. (c = 0 => Y = 0 + X) /\ (c = 1 => Y = M + X) /\ (c = 0 \/ c = 1)
      BY <1>5, <2>1
    <3>. QED BY <3>1, <3>2, Zenon
  <2>3. X \in 0..(M - 1) /\ c \in Int
    BY <2>1
  <2>4. Y % M = X
    BY <2>2, <2>3, DivisionOf, Zenon
  <2>. QED BY <2>1, <2>4, Zenon
<1>7. z = 2 * x + c
  BY <1>5, <1>6, Zenon
<1>8. z = N * b + v
  <2>1. N * 0 = 0 /\ N * 1 = N
    OBVIOUS
  <2>2. (b = 0 => z = 0 + v) /\ (b = 1 => z = N + v)
    BY <1>2, <1>4, <1>7
  <2>. QED BY <1>2, <2>1, <2>2, Zenon
<1>. QED BY <1>2, <1>4, <1>8

LEMMA ThroughRight ==
  ASSUME NEW H \in Nat \ {0}, NEW N \in Nat \ {0}, N = 2 * H, NEW x \in 0..(N - 1), NEW c \in 0..1,
         NEW y, y = N * c + x, NEW v, v = (x \div 2) + c * H, NEW b, b = x % 2
  PROVE  v \in 0..(N - 1) /\ b \in 0..1 /\ (y \div 2) + (y % 2) * N = N * b + v
<1>1. PICK q \in Int : x = 2 * q + b /\ b \in 0..1 /\ q = x \div 2
  OBVIOUS
<1>2. (c = 0 \/ c = 1) /\ (c = 0 => y = x) /\ (c = 1 => y = N + x) /\ y \in Int
  <2>1. N * 0 = 0 /\ N * 1 = N
    OBVIOUS
  <2>2. c = 0 \/ c = 1
    OBVIOUS
  <2>3. y = IF c = 0 THEN 0 + x ELSE N + x
    BY <2>1, <2>2, Zenon
  <2>. QED BY <2>2, <2>3
<1>3. v = IF c = 0 THEN q ELSE q + H
  <2>1. 0 * H = 0 /\ 1 * H = H
    OBVIOUS
  <2>2. v = q + (IF c = 0 THEN 0 ELSE H)
    BY <1>1, <1>2, <2>1, Zenon
  <2>. QED BY <2>2
<1>4. y \div 2 = v /\ y % 2 = b
  <2>1. y = 2 * v + b /\ v \in Int
    BY <1>1, <1>2, <1>3
  <2>2. 2 \in Nat \ {0} /\ b \in 0..(2 - 1)
    BY <1>1
  <2>3. PICK Y \in Int, V \in Int, two \in Nat \ {0} : Y = y /\ V = v /\ two = 2
    BY <1>2, <2>1
  <2>4. Y = two * V + b /\ b \in 0..(two - 1)
    BY <2>1, <2>2, <2>3, Zenon
  <2>6. PICK e \in 0..(two - 1) : e = b /\ Y = two * V + e
    BY <2>4, Zenon
  <2>7. Y \div two = V /\ Y % two = e
    BY <2>6, DivisionOf, Zenon
  <2>5. Y \div two = V /\ Y % two = b
    BY <2>6, <2>7, Zenon
  <2>. QED BY <2>3, <2>5, Zenon
<1>5. v \in 0..(N - 1)
  BY <1>1, <1>3
<1>6. b * N \in Int /\ N * b = b * N
  BY <1>1
<1>7. v + b * N = N * b + v
  BY <1>5, <1>6
<1>. QED BY <1>1, <1>4, <1>5, <1>7, Zenon

LEMMA SameParts ==
  ASSUME NEW N \in Nat \ {0}, NEW v \in 0..(N - 1), NEW u \in 0..(N - 1), NEW c \in 0..1, NEW b \in 0..1,
         N * c + v = N * b + u
  PROVE  c = b /\ v = u
<1>1. c \in Int /\ b \in Int /\ N * c + v \in Int
  <2>1. N * c \in Int
    OBVIOUS
  <2>. QED BY <2>1
<1>2. PICK y \in Int : y = N * c + v /\ y = N * b + u
  BY <1>1
<1>3. y \div N = c /\ y % N = v
  BY <1>1, <1>2, DivisionOf, Zenon
<1>4. y \div N = b /\ y % N = u
  BY <1>1, <1>2, DivisionOf, Zenon
<1>. QED BY <1>3, <1>4, Zenon

LEMMA RclNext ==
  ASSUME NEW n, NEW N, NEW H, NEW d, Operand(n, N, H, d), NEW s \in Nat, NEW f,
         NEW r, r = rcl(n, d, s, f), NEW t, t = rcl(n, d, s + 1, f)
  PROVE  State(t) = Place("rcl", n, State(r))
<1>1. /\ n \in Nat /\ N \in Nat \ {0} /\ H \in Nat \ {0} /\ N = 2^n /\ H = 2^(n - 1) /\ N = 2 * H
      /\ s + 1 \in Nat
  BY DEF Operand
<1>2. PICK w \in Nat \ {0} : w = n + 1 /\ w - 1 = n
  BY <1>1
<1>3. 2^w = 2 * N /\ 2^(w - 1) = N
  BY <1>1, <1>2, PowerNext
<1>4. PICK D : D = N * Carry(f) + d
  OBVIOUS
<1>5. D \in 0..(2^w - 1)
  BY <1>2, <1>4, WholeFits
<1>6. PICK k, y, z : k = s % w /\ y = Turned(w, D, k) /\ z = Turned(w, D, k + 1)
  OBVIOUS
<1>7. TurnsOn(w, D, s, k)
  BY <1>2, <1>5, <1>6, TurnedOn, Zenon
<1>8. k \in Nat /\ k < w /\ w \in Nat /\ Turned(w, D, (s + 1) % w) = z
  BY <1>2, <1>6, <1>7 DEF TurnsOn
<1>9. z = ((2 * y) % (2 * N)) + (y \div N)
  <2>1. z = ((2 * y) % 2^w) + (y \div 2^(w - 1))
    BY <1>5, <1>6, <1>8, TurnedNext
  <2>. QED BY <1>3, <2>1, Zenon
<1>10. PICK v, c : Out(r, v, c) /\ Through(n, N, D, k, v, c)
  BY <1>2, <1>4, <1>6, RclIs, Zenon
<1>11. PICK u, b : Out(t, u, b) /\ Through(n, N, D, (s + 1) % w, u, b)
  BY <1>1, <1>2, <1>4, RclIs, Zenon
<1>12. /\ v \in 0..(N - 1) /\ c \in 0..1 /\ y = N * c + v
       /\ u \in 0..(N - 1) /\ b \in 0..1 /\ z = N * b + u
  BY <1>2, <1>6, <1>8, <1>10, <1>11, Zenon DEF Through
<1>13. PICK x, e : x = ((2 * v) % N) + c /\ e = v \div H
  OBVIOUS
<1>14. x \in 0..(N - 1) /\ e \in 0..1 /\ z = N * e + x
  <2>1. /\ H \in Nat \ {0} /\ N \in Nat \ {0} /\ N = 2 * H /\ v \in 0..(N - 1) /\ c \in 0..1
        /\ y = N * c + v /\ z = ((2 * y) % (2 * N)) + (y \div N)
        /\ x = ((2 * v) % N) + c /\ e = v \div H
    BY <1>1, <1>9, <1>12, <1>13, Zenon
  <2>2. Leftward(H, N, v, c, y, z, x, e)
    BY <2>1 DEF Leftward
  <2>. QED BY <2>2, ThroughLeft
<1>15. b = e /\ u = x
  BY <1>1, <1>12, <1>14, SameParts
<1>16. State(r) = [c |-> c, x |-> v] /\ State(t) = [c |-> e, x |-> x]
  BY <1>10, <1>11, <1>15, Zenon DEF State, Out
<1>17. Place("rcl", n, State(r)) = [c |-> v \div 2^(n - 1), x |-> ((2 * v) % 2^n) + c]
  BY <1>16, Place_rcl, Zenon
<1>. QED BY <1>1, <1>13, <1>16, <1>17, Zenon

LEMMA RcrNext ==
  ASSUME NEW n, NEW N, NEW H, NEW d, Operand(n, N, H, d), NEW s \in Nat, NEW f,
         NEW r, r = rcr(n, d, s, f), NEW t, t = rcr(n, d, s + 1, f)
  PROVE  State(t) = Place("rcr", n, State(r))
<1>1. /\ n \in Nat /\ N \in Nat \ {0} /\ H \in Nat \ {0} /\ N = 2^n /\ H = 2^(n - 1) /\ N = 2 * H
      /\ s + 1 \in Nat
  BY DEF Operand
<1>2. PICK w \in Nat \ {0} : w = n + 1 /\ w - 1 = n
  BY <1>1
<1>3. 2^w = 2 * N /\ 2^(w - 1) = N
  BY <1>1, <1>2, PowerNext
<1>4. PICK D : D = N * Carry(f) + d
  OBVIOUS
<1>5. D \in 0..(2^w - 1)
  BY <1>2, <1>4, WholeFits
<1>6. PICK k, j : k = s % w /\ j = (w - k) - 1
  OBVIOUS
<1>7. PICK y, z : y = Turned(w, D, j) /\ z = Turned(w, D, j + 1)
  OBVIOUS
<1>8. TurnsOn(w, D, s, k)
  BY <1>2, <1>5, <1>6, TurnedOn, Zenon
<1>9. k \in Nat /\ k < w /\ w \in Nat /\ Turned(w, D, w - ((s + 1) % w)) = y
  BY <1>2, <1>6, <1>7, <1>8 DEF TurnsOn
<1>10. j \in Nat /\ j < w /\ w - k = j + 1
  BY <1>6, <1>9
<1>11. z % 2 = y \div N /\ (z \div 2) + (z % 2) * N = y
  <2>1. z % 2 = y \div 2^(w - 1) /\ (z \div 2) + (z % 2) * 2^(w - 1) = y
    BY <1>5, <1>7, <1>9, <1>10, TurnedNext
  <2>. QED BY <1>3, <2>1, Zenon
<1>12. PICK v, c : Out(r, v, c) /\ Through(n, N, D, w - k, v, c)
  BY <1>2, <1>4, <1>6, RcrIs, Zenon
<1>13. PICK u, b : Out(t, u, b) /\ Through(n, N, D, w - ((s + 1) % w), u, b)
  BY <1>1, <1>2, <1>4, RcrIs, Zenon
<1>14. /\ v \in 0..(N - 1) /\ c \in 0..1 /\ z = N * c + v
       /\ u \in 0..(N - 1) /\ b \in 0..1 /\ y = N * b + u
  BY <1>2, <1>7, <1>9, <1>10, <1>12, <1>13, Zenon DEF Through
<1>15. PICK x, e : x = (v \div 2) + c * H /\ e = v % 2
  OBVIOUS
<1>16. x \in 0..(N - 1) /\ e \in 0..1 /\ (z \div 2) + (z % 2) * N = N * e + x
  BY <1>1, <1>14, <1>15, ThroughRight
<1>17. b = e /\ u = x
  BY <1>1, <1>11, <1>14, <1>16, SameParts
<1>18. State(r) = [c |-> c, x |-> v] /\ State(t) = [c |-> e, x |-> x]
  BY <1>12, <1>13, <1>17, Zenon DEF State, Out
<1>19. Place("rcr", n, State(r)) = [c |-> v % 2, x |-> (v \div 2) + c * 2^(n - 1)]
  BY <1>18, Place_rcr, Zenon
<1>. QED BY <1>1, <1>15, <1>18, <1>19, Zenon

(* Any of them by one place more; those that shift, below the width.        *)
Turning == {"rol", "ror", "rcl", "rcr"}
Shifting == {"shl", "shr", "sar"}

LEMMA ShiftNamed ==
  \A n, d, s, f :
    /\ Shift("rol", n, d, s, f) = rol(n, d, s, f) /\ Shift("ror", n, d, s, f) = ror(n, d, s, f)
    /\ Shift("rcl", n, d, s, f) = rcl(n, d, s, f) /\ Shift("rcr", n, d, s, f) = rcr(n, d, s, f)
    /\ Shift("shl", n, d, s, f) = shl(n, d, s, f) /\ Shift("shr", n, d, s, f) = shr(n, d, s, f)
    /\ Shift("sar", n, d, s, f) = sar(n, d, s, f)
BY DEF Shift

LEMMA ShiftNext ==
  ASSUME NEW n, NEW N, NEW H, NEW d, Operand(n, N, H, d), NEW s \in Nat, NEW f,
         NEW op \in Turning \union Shifting, op \in Shifting => s + 1 < n
  PROVE  State(Shift(op, n, d, s + 1, f)) = Place(op, n, State(Shift(op, n, d, s, f)))
<1>1. CASE op = "rol"
  <2>1. PICK r, t : r = rol(n, d, s, f) /\ t = rol(n, d, s + 1, f)
    OBVIOUS
  <2>2. State(t) = Place("rol", n, State(r))
    BY <2>1, RolNext
  <2>3. Shift("rol", n, d, s + 1, f) = t /\ Shift("rol", n, d, s, f) = r
    BY <2>1, ShiftNamed, Zenon
  <2>. QED BY <1>1, <2>2, <2>3, Zenon
<1>2. CASE op = "ror"
  <2>1. PICK r, t : r = ror(n, d, s, f) /\ t = ror(n, d, s + 1, f)
    OBVIOUS
  <2>2. State(t) = Place("ror", n, State(r))
    BY <2>1, RorNext
  <2>3. Shift("ror", n, d, s + 1, f) = t /\ Shift("ror", n, d, s, f) = r
    BY <2>1, ShiftNamed, Zenon
  <2>. QED BY <1>2, <2>2, <2>3, Zenon
<1>3. CASE op = "rcl"
  <2>1. PICK r, t : r = rcl(n, d, s, f) /\ t = rcl(n, d, s + 1, f)
    OBVIOUS
  <2>2. State(t) = Place("rcl", n, State(r))
    BY <2>1, RclNext
  <2>3. Shift("rcl", n, d, s + 1, f) = t /\ Shift("rcl", n, d, s, f) = r
    BY <2>1, ShiftNamed, Zenon
  <2>. QED BY <1>3, <2>2, <2>3, Zenon
<1>4. CASE op = "rcr"
  <2>1. PICK r, t : r = rcr(n, d, s, f) /\ t = rcr(n, d, s + 1, f)
    OBVIOUS
  <2>2. State(t) = Place("rcr", n, State(r))
    BY <2>1, RcrNext
  <2>3. Shift("rcr", n, d, s + 1, f) = t /\ Shift("rcr", n, d, s, f) = r
    BY <2>1, ShiftNamed, Zenon
  <2>. QED BY <1>4, <2>2, <2>3, Zenon
<1>5. CASE op = "shl"
  <2>1. PICK r, t : r = shl(n, d, s, f) /\ t = shl(n, d, s + 1, f)
    OBVIOUS
  <2>2. s + 1 < n
    BY <1>5 DEF Shifting
  <2>3. State(t) = Place("shl", n, State(r))
    BY <2>1, <2>2, ShlPlace
  <2>4. Shift("shl", n, d, s + 1, f) = t /\ Shift("shl", n, d, s, f) = r
    BY <2>1, ShiftNamed, Zenon
  <2>. QED BY <1>5, <2>3, <2>4, Zenon
<1>6. CASE op = "shr"
  <2>1. PICK r, t : r = shr(n, d, s, f) /\ t = shr(n, d, s + 1, f)
    OBVIOUS
  <2>2. s + 1 < n
    BY <1>6 DEF Shifting
  <2>3. State(t) = Place("shr", n, State(r))
    BY <2>1, <2>2, ShrPlace
  <2>4. Shift("shr", n, d, s + 1, f) = t /\ Shift("shr", n, d, s, f) = r
    BY <2>1, ShiftNamed, Zenon
  <2>. QED BY <1>6, <2>3, <2>4, Zenon
<1>7. CASE op = "sar"
  <2>1. PICK r, t : r = sar(n, d, s, f) /\ t = sar(n, d, s + 1, f)
    OBVIOUS
  <2>2. s + 1 < n
    BY <1>7 DEF Shifting
  <2>3. State(t) = Place("sar", n, State(r))
    BY <2>1, <2>2, SarPlace
  <2>4. Shift("sar", n, d, s + 1, f) = t /\ Shift("sar", n, d, s, f) = r
    BY <2>1, ShiftNamed, Zenon
  <2>. QED BY <1>7, <2>3, <2>4, Zenon
<1>. QED BY <1>1, <1>2, <1>3, <1>4, <1>5, <1>6, <1>7 DEF Turning, Shifting

LEMMA ShiftNone ==
  ASSUME NEW n, NEW N, NEW H, NEW d, Operand(n, N, H, d), NEW f,
         NEW op \in Turning \union Shifting
  PROVE  State(Shift(op, n, d, 0, f)) = [c |-> Carry(f), x |-> d]
<1>1. 0 % n = 0 /\ 0 % (n + 1) = 0
  BY DEF Operand
<1>2. Carry(f \ {"OF"}) = Carry(f)
  BY DEF Carry
<1>3. CASE op \in {"shl", "shr"}
  <2>1. Shift(op, n, d, 0, f) = [res |-> d, f |-> f \ {"OF"}]
    BY <1>3 DEF Shift, shl, shr
  <2>. QED BY <1>2, <2>1 DEF State
<1>4. CASE op \in {"rol", "ror", "rcl", "rcr", "sar"}
  <2>1. /\ rol(n, d, 0, f) = [res |-> d, f |-> f] /\ ror(n, d, 0, f) = [res |-> d, f |-> f]
        /\ rcl(n, d, 0, f) = [res |-> d, f |-> f] /\ rcr(n, d, 0, f) = [res |-> d, f |-> f]
        /\ sar(n, d, 0, f) = [res |-> d, f |-> f]
    BY <1>1, Zenon DEF rol, ror, rcl, rcr, sar
  <2>2. Shift(op, n, d, 0, f) = [res |-> d, f |-> f]
    BY <1>4, <2>1, ShiftNamed
  <2>. QED BY <2>2 DEF State
<1>. QED BY <1>3, <1>4 DEF Turning, Shifting

(* What comes of an operand fits its width.                                 *)
LEMMA ShiftFits ==
  ASSUME NEW n, NEW N, NEW H, NEW d, Operand(n, N, H, d), NEW s \in Nat, NEW f,
         NEW op \in Turning \union Shifting, op \in Shifting => s < n
  PROVE  Shift(op, n, d, s, f).res \in 0..(N - 1)
<1>1. CASE op = "rol"
  <2>1. PICK r, v : r = rol(n, d, s, f) /\ v = Turned(n, d, s % n)
    OBVIOUS
  <2>2. v \in 0..(N - 1) /\ r.res = v
    BY <2>1, RolIs
  <2>3. Shift(op, n, d, s, f) = r
    BY <1>1, <2>1, ShiftNamed, Zenon
  <2>. QED BY <2>2, <2>3, Zenon
<1>2. CASE op = "ror"
  <2>1. PICK r, v : r = ror(n, d, s, f) /\ v = Turned(n, d, n - (s % n))
    OBVIOUS
  <2>2. v \in 0..(N - 1) /\ r.res = v
    BY <2>1, RorIs
  <2>3. Shift(op, n, d, s, f) = r
    BY <1>2, <2>1, ShiftNamed, Zenon
  <2>. QED BY <2>2, <2>3, Zenon
<1>3. CASE op = "rcl"
  <2>1. PICK r : r = rcl(n, d, s, f)
    OBVIOUS
  <2>2. PICK v, c, k, y : Out(r, v, c) /\ Through(n, N, y, k, v, c)
    BY <2>1, RclIs, Zenon
  <2>3. Shift(op, n, d, s, f) = r
    BY <1>3, <2>1, ShiftNamed, Zenon
  <2>. QED BY <2>2, <2>3, Zenon DEF Out, Through
<1>4. CASE op = "rcr"
  <2>1. PICK r : r = rcr(n, d, s, f)
    OBVIOUS
  <2>2. PICK v, c, k, y : Out(r, v, c) /\ Through(n, N, y, k, v, c)
    BY <2>1, RcrIs, Zenon
  <2>3. Shift(op, n, d, s, f) = r
    BY <1>4, <2>1, ShiftNamed
  <2>. QED BY <2>2, <2>3, Zenon DEF Out, Through
<1>5. CASE op = "shl"
  <2>1. PICK r, v, c : /\ r = shl(n, d, s, f) /\ v = (d * 2^s) % N
                       /\ c = IF s = 0 THEN Carry(f) ELSE (d \div 2^(n - s)) % 2
    OBVIOUS
  <2>2. s < n
    BY <1>5 DEF Shifting
  <2>3. v \in 0..(N - 1) /\ Out(r, v, c)
    BY <2>1, <2>2, ShlIs
  <2>4. Shift(op, n, d, s, f) = r
    BY <1>5, <2>1, ShiftNamed, Zenon
  <2>. QED BY <2>3, <2>4, Zenon DEF Out
<1>6. CASE op = "shr"
  <2>1. PICK r, v, c : /\ r = shr(n, d, s, f) /\ v = d \div 2^s
                       /\ c = IF s = 0 THEN Carry(f) ELSE (d \div 2^(s - 1)) % 2
    OBVIOUS
  <2>2. s < n
    BY <1>6 DEF Shifting
  <2>3. v \in 0..(N - 1) /\ Out(r, v, c)
    BY <2>1, <2>2, ShrIs
  <2>4. Shift(op, n, d, s, f) = r
    BY <1>6, <2>1, ShiftNamed, Zenon
  <2>. QED BY <2>3, <2>4, Zenon DEF Out
<1>7. CASE op = "sar"
  <2>1. PICK r, v, c : /\ r = sar(n, d, s, f) /\ v = Filled(n, d, s)
                       /\ c = IF s = 0 THEN Carry(f) ELSE (d \div 2^(s - 1)) % 2
    OBVIOUS
  <2>2. s < n
    BY <1>7 DEF Shifting
  <2>3. v \in 0..(N - 1) /\ Out(r, v, c)
    BY <2>1, <2>2, SarIs
  <2>4. Shift(op, n, d, s, f) = r
    BY <1>7, <2>1, ShiftNamed, Zenon
  <2>. QED BY <2>3, <2>4, Zenon DEF Out
<1>. QED BY <1>1, <1>2, <1>3, <1>4, <1>5, <1>6, <1>7 DEF Turning, Shifting

-----------------------------------------------------------------------------
(* Shifts by CL.                                                           *)

(* Place by place: the function of PlacesExact is what Shift gives.         *)
Follows(g, op, n, cnt, p) ==
  g = [k \in 0..cnt |-> IF k = 0 THEN p ELSE Place(op, n, g[k - 1])]

LEMMA FollowsIs ==
  ASSUME NEW n, NEW N, NEW H, NEW d, Operand(n, N, H, d), NEW f, NEW cnt \in Nat,
         NEW op \in Turning \union Shifting, op \in Shifting => cnt < n,
         NEW after, after = CHOOSE g : Follows(g, op, n, cnt, [c |-> Carry(f), x |-> d])
  PROVE  after[cnt] = State(Shift(op, n, d, cnt, f))
<1> DEFINE p == [c |-> Carry(f), x |-> d]
           X(k) == State(Shift(op, n, d, k, f))
           g == [k \in 0..cnt |-> X(k)]
<1>1. X(0) = p
  BY ShiftNone
<1>2. ASSUME NEW k \in Nat, k + 1 \in 0..cnt
      PROVE  X(k + 1) = Place(op, n, X(k))
  <2>1. op \in Shifting => k + 1 < n
    BY <1>2 DEF Operand
  <2>. QED BY <2>1, ShiftNext
<1>. HIDE DEF p, X
<1>3. \A k \in 0..cnt : k # 0 => k - 1 \in 0..cnt /\ X(k) = Place(op, n, X(k - 1))
  <2>. SUFFICES ASSUME NEW k \in 0..cnt, k # 0
                PROVE  k - 1 \in 0..cnt /\ X(k) = Place(op, n, X(k - 1))
    OBVIOUS
  <2>1. PICK l \in Nat : l = k - 1 /\ k = l + 1 /\ l \in 0..cnt
    OBVIOUS
  <2>2. X(l + 1) = Place(op, n, X(l))
    BY <1>2, <2>1
  <2>. QED BY <2>1, <2>2, Zenon
<1>4. g = [k \in 0..cnt |-> IF k = 0 THEN p ELSE Place(op, n, g[k - 1])]
  <2>1. ASSUME NEW k \in 0..cnt
        PROVE  X(k) = IF k = 0 THEN p ELSE Place(op, n, g[k - 1])
    <3>1. k # 0 => g[k - 1] = X(k - 1)
      BY <1>3
    <3>. QED BY <1>1, <1>3, <3>1
  <2>. QED BY <2>1
<1>5. Follows(g, op, n, cnt, p)
  BY <1>4, Zenon DEF Follows
<1>6. Follows(after, op, n, cnt, p)
  BY <1>5, Zenon DEF p
<1>7. \A k \in 0..cnt : after[k] = IF k = 0 THEN p ELSE Place(op, n, after[k - 1])
  <2>1. after = [k \in 0..cnt |-> IF k = 0 THEN p ELSE Place(op, n, after[k - 1])]
    BY <1>6, Zenon DEF Follows
  <2>. QED BY <2>1
<1> DEFINE bad == {k \in 0..cnt : after[k] # X(k)}
<1>8. bad = {}
  <2>. SUFFICES ASSUME bad # {} PROVE FALSE
    OBVIOUS
  <2>1. bad \subseteq Nat
    OBVIOUS
  <2>2. PICK m \in bad : \A k \in bad : ~ (<<k, m>> \in OpToRel(<, Nat))
    <3>. HIDE DEF bad
    <3>. QED BY <2>1, WFMin, NatLessThanWellFounded
  <2>3. m \in 0..cnt /\ after[m] # X(m)
    OBVIOUS
  <2>4. m # 0
    BY <1>1, <1>7, <2>3
  <2>5. m - 1 \in 0..cnt /\ <<m - 1, m>> \in OpToRel(<, Nat)
    BY <2>3, <2>4 DEF OpToRel
  <2>6. after[m - 1] = X(m - 1)
    BY <2>2, <2>5
  <2>. QED BY <1>3, <1>7, <2>3, <2>4, <2>6
<1>9. cnt \in 0..cnt
  OBVIOUS
<1>. QED BY <1>8, <1>9 DEF X

(* The shifts by CL of a register.                                          *)
ByCL == {"opcD2_RM_CL", "opcD3_RM_CL"}

LEMMA ShiftByCL ==
  ASSUME NEW m, NEW i, i.op \in ByCL
  PROVE  Handled(m, i) = ShiftBy(Decode(m, i), i, Reg(m, 1, CX))
<1>1. i.op = "opcD2_RM_CL" => Handled(m, i) = opcD2_RM_CL(m, i)
  BY DEF Handled, TwoByte
<1>2. i.op = "opcD3_RM_CL" => Handled(m, i) = opcD3_RM_CL(m, i)
  BY DEF Handled, TwoByte
<1>. QED BY <1>1, <1>2 DEF ByCL, opcD2_RM_CL, opcD3_RM_CL

LEMMA ShiftHandled ==
  ASSUME NEW m, IsMachine(m), NEW i \in Instructions, i.mod = 3, i.op \in ByCL, NEW j,
         NEW r, r = Shift(ShiftOps[i.rh + 1], Bits(i.w), Reg(m, i.w, i.rl), Reg(m, 1, CX), m.flg)
  PROVE  Handled(Fetch(m, j), i)
           = Clear(SetReg([Decode(Fetch(m, j), i) EXCEPT !.flg = r.f], i.w, i.rl, r.res))
<1>1. PICK d, e : d = Decode(Fetch(m, j), i) /\ e = Fetch(m, j)
  OBVIOUS
<1>2. /\ Step(m, d, m.reg, m.flg, (m.ip + 2) % Word)
      /\ Read(d, i) = d /\ RM(d, i) = Reg(m, i.w, i.rl)
      /\ \A x, v : Put(x, i, v) = SetReg(x, i.w, i.rl, v)
  BY <1>1, Fetched2, Zenon
<1>3. Reg(e, 1, CX) = Reg(m, 1, CX) /\ d.flg = m.flg
  <2>1. e.reg = m.reg
    BY <1>1 DEF Fetch
  <2>. QED BY <1>2, <2>1 DEF Reg, Step
<1>4. Handled(e, i) = ShiftBy(d, i, Reg(m, 1, CX))
  BY <1>1, <1>3, ShiftByCL
<1>5. ShiftBy(d, i, Reg(m, 1, CX)) = Clear(Put([d EXCEPT !.flg = r.f], i, r.res))
  BY <1>2, <1>3, Zenon DEF ShiftBy
<1>. QED BY <1>1, <1>2, <1>4, <1>5, Zenon

LEMMA CountSmall ==
  ASSUME NEW m, IsMachine(m)
  PROVE  Reg(m, 1, CX) \in Nat
<1>1. m.reg \in [Names -> Words] /\ CX \in 0..7
  BY DEF IsMachine, Names, CX
<1>2. Reg(m, 1, CX) \in 0..(2^Bits(1) - 1)
  BY <1>1, RegValue
<1>. QED BY <1>2

LEMMA ShiftOpsAre == \A k \in 0..7 : ShiftOps[k + 1] \in Turning \union Shifting
BY DEF ShiftOps, Turning, Shifting

LEMMA ShiftShown ==
  ASSUME IsMachine(origin), NEW i, NEW k, OneStep(i, k), i.mod = 3, i.op \in ByCL,
         NEW n, NEW N, NEW H, NEW d, n = Bits(i.w), d = Before(i.w, i.rl), Operand(n, N, H, d),
         NEW op, op = ShiftOps[i.rh + 1], NEW cnt, cnt = Before(1, CX), op \in Shifting => cnt < n,
         NEW r, r = Shift(op, n, d, cnt, origin.flg)
  PROVE  Value(i.w, i.rl) = r.res /\ machine.flg = r.f
<1>1. /\ origin.intr = {} /\ machine = Stepped(origin, i, k) /\ i \in Instructions
      /\ d = Reg(origin, i.w, i.rl) /\ cnt = Reg(origin, 1, CX)
  BY DEF OneStep, Before
<1>2. cnt \in Nat
  BY <1>1, CountSmall
<1>3. i.rh \in 0..7
  BY <1>1 DEF Instructions
<1>4. op \in Turning \union Shifting
  BY <1>3, ShiftOpsAre
<1>5. N = 2^Bits(i.w)
  BY DEF Operand
<1>6. PICK v, f : v = r.res /\ f = r.f
  OBVIOUS
<1>7. v \in 0..(2^Bits(i.w) - 1)
  <2>1. v \in 0..(N - 1)
    BY <1>2, <1>4, <1>6, ShiftFits
  <2>. QED BY <1>5, <2>1, Zenon
<1>8. Handled(Fetch(origin, k), i)
        = Clear(SetReg([Decode(Fetch(origin, k), i) EXCEPT !.flg = f], i.w, i.rl, v))
  <2>1. r = Shift(ShiftOps[i.rh + 1], Bits(i.w), Reg(origin, i.w, i.rl), Reg(origin, 1, CX), origin.flg)
    BY <1>1, Zenon
  <2>2. Handled(Fetch(origin, k), i)
          = Clear(SetReg([Decode(Fetch(origin, k), i) EXCEPT !.flg = r.f], i.w, i.rl, r.res))
    BY <1>1, <2>1, ShiftHandled
  <2>. QED BY <1>6, <2>2, Zenon
<1>9. PICK reg : /\ Replaced(origin.reg, reg, i.w, i.rl, v)
                 /\ Step(origin, machine, reg, f, (origin.ip + 2) % Word)
  BY <1>1, <1>7, <1>8, OneRegister
<1>10. machine.reg = reg /\ machine.flg = f
  BY <1>9 DEF Step
<1>. QED BY <1>6, <1>9, <1>10, Zenon DEF Replaced, Value

LEMMA PlacesInv == Came /\ Len(done) = 1 => PlacesExact(done[1])
<1>. SUFFICES ASSUME Came, Len(done) = 1 PROVE PlacesExact(done[1])
  OBVIOUS
<1> DEFINE i == done[1]
<1>1. PICK k : OneStep(i, k)
  BY OneStepTaken
<1>2. IsMachine(origin)
  BY DEF Came
<1>. HIDE DEF i
<1>3. PICK n, op, cnt, d, f : /\ n = Bits(i.w) /\ op = ShiftOps[i.rh + 1] /\ cnt = Before(1, CX)
                              /\ d = Before(i.w, i.rl) /\ f = origin.flg
  OBVIOUS
<1>4. op \in Turning \union Shifting /\ cnt \in Nat
  <2>1. i.rh \in 0..7
    BY <1>1 DEF Instructions, OneStep
  <2>. QED BY <1>2, <1>3, <2>1, ShiftOpsAre, CountSmall DEF Before
<1>5. PICK N, H : Operand(n, N, H, d)
  <2>1. Width(n) /\ d \in 0..(2^n - 1)
    BY <1>1, <1>3 DEF OneStep
  <2>. QED BY <2>1, OperandOf
<1>6. ASSUME i.op \in ByCL, i.mod = 3, op \in Shifting => cnt < n,
             NEW after, after = CHOOSE g : Follows(g, op, n, cnt, [c |-> Carry(f), x |-> d])
      PROVE  Value(i.w, i.rl) = after[cnt].x /\ Carry(machine.flg) = after[cnt].c
  <2>1. PICK r : r = Shift(op, n, d, cnt, f)
    OBVIOUS
  <2>2. after[cnt] = State(r)
    BY <1>4, <1>5, <1>6, <2>1, FollowsIs
  <2>3. Value(i.w, i.rl) = r.res /\ machine.flg = r.f
    BY <1>1, <1>2, <1>3, <1>5, <1>6, <2>1, ShiftShown
  <2>. QED BY <2>2, <2>3 DEF State
<1>7. i.op \in {"opcD2_RM_CL", "opcD3_RM_CL"} /\ i.mod = 3 =>
        ((op \in {"shl", "shr", "sar"} => cnt < n) =>
           LET after[j \in 0..cnt] ==
                 IF j = 0 THEN [c |-> Carry(f), x |-> d] ELSE Place(op, n, after[j - 1])
           IN  /\ Value(i.w, i.rl) = after[cnt].x
               /\ Carry(machine.flg) = after[cnt].c)
  BY <1>6, Zenon DEF Follows, ByCL, Shifting
<1>8. PlacesExact(i)
  BY <1>3, <1>7, Zenon DEF PlacesExact
<1>. QED BY <1>8 DEF i

-----------------------------------------------------------------------------
(* Instructions of two bytes.                                              *)

(* A two-byte instruction with its operands in registers.                   *)
Decoded2(m, j, i, d) ==
  /\ d = Decode(Skip(Fetch(m, j), 1), i)
  /\ Read(d, i) = d /\ RM(d, i) = Reg(m, i.w, i.rl) /\ d.flg = m.flg
  /\ \A w, k : Reg(d, w, k) = Reg(m, w, k) /\ Reg(Skip(Fetch(m, j), 1), w, k) = Reg(m, w, k)
  /\ \A e, v : Put(e, i, v) = SetReg(e, i.w, i.rl, v)
  /\ \E ip \in Int : Step(m, d, m.reg, m.flg, ip)

LEMMA Fetched3 ==
  ASSUME NEW m, IsMachine(m), NEW i, i.mod = 3, NEW j
  PROVE  \E d : Decoded2(m, j, i, d)
<1>1. Fields(m) /\ m.ip \in Words
  BY MachineFields DEF IsMachine
<1>2. \A x \in Int : x % Word \in Int
  <2>1. PICK W \in Nat \ {0} : W = Word
    BY HalfByte
  <2>. QED BY <2>1
<1>3. m.ip \in Int /\ m.ip + 1 \in Int
  BY <1>1, HalfByte DEF Words
<1>4. PICK a \in Int : Step(m, Fetch(m, j), m.reg, m.flg, a)
  BY <1>1, <1>2, <1>3, Fetching, Zenon
<1>5. PICK e, d : e = Skip(Fetch(m, j), 1) /\ d = Decode(e, i)
  OBVIOUS
<1>6. PICK b \in Int : Step(m, e, m.reg, m.flg, b)
  <2>1. \A k \in Nat : Step(m, Skip(Fetch(m, j), k), m.reg, m.flg, (a + k) % Word)
    BY <1>4, Steps
  <2>2. 1 \in Nat /\ a + 1 \in Int
    OBVIOUS
  <2>. QED BY <1>2, <1>5, <2>1, <2>2, Zenon
<1>7. PICK c \in Int : Step(m, d, m.reg, m.flg, c)
  <2>1. Step(m, d, m.reg, m.flg, (b + 1) % Word)
    BY <1>5, <1>6, InRegister
  <2>2. b + 1 \in Int
    OBVIOUS
  <2>. QED BY <1>2, <2>1, <2>2, Zenon
<1>8. d.reg = m.reg /\ e.reg = m.reg /\ d.flg = m.flg
  BY <1>6, <1>7, Zenon DEF Step
<1>9. \A w, k : Reg(d, w, k) = Reg(m, w, k) /\ Reg(e, w, k) = Reg(m, w, k)
  BY <1>8 DEF Reg
<1>10. Read(d, i) = d /\ RM(d, i) = Reg(d, i.w, i.rl) /\ \A x, v : Put(x, i, v) = SetReg(x, i.w, i.rl, v)
  BY DEF Read, RM, Put
<1>11. Decoded2(m, j, i, d)
  BY <1>5, <1>7, <1>8, <1>9, <1>10, Zenon DEF Decoded2
<1>. QED BY <1>11, Zenon

(* How it ends: with the registers, or a register, and the flags it leaves. *)
LEMMA Leaves ==
  ASSUME NEW i, NEW k, OneStep(i, k), NEW e, NEW ip \in Int, NEW reg, NEW f,
         Step(origin, e, reg, f, ip), Handled(Fetch(origin, k), i) = Clear(e)
  PROVE  machine.reg = reg /\ machine.flg = f
<1>1. origin.intr = {} /\ machine = Stepped(origin, i, k)
  BY DEF OneStep
<1>2. Step(origin, machine, reg, f, ip)
  BY <1>1, Closing
<1>. QED BY <1>2, Zenon DEF Step

LEMMA LeavesKept ==
  ASSUME NEW i, NEW k, OneStep(i, k), NEW d, Decoded2(origin, k, i, d), NEW f,
         Handled(Fetch(origin, k), i) = Clear([d EXCEPT !.flg = f])
  PROVE  machine.reg = origin.reg /\ machine.flg = f
<1>1. PICK ip \in Int : Step(origin, d, origin.reg, origin.flg, ip)
  BY Zenon DEF Decoded2
<1>2. Step(origin, [d EXCEPT !.flg = f], origin.reg, f, ip)
  BY <1>1, FlagsSet
<1>. QED BY <1>2, Leaves

LEMMA LeavesAfter ==
  ASSUME NEW i, NEW k, OneStep(i, k), IsMachine(origin), NEW e, NEW ip \in Int, NEW f,
         Step(origin, e, origin.reg, f, ip),
         NEW w \in {1, 2}, NEW r \in 0..7, NEW v \in 0..(2^Bits(w) - 1),
         Handled(Fetch(origin, k), i) = Clear(SetReg(e, w, r, v))
  PROVE  Value(w, r) = v /\ machine.flg = f
<1>1. origin.reg \in [Names -> Words]
  BY DEF IsMachine, Names
<1>2. PICK reg : Replaced(origin.reg, reg, w, r, v) /\ Step(origin, SetReg(e, w, r, v), reg, f, ip)
  BY <1>1, RegSet
<1>3. machine.reg = reg /\ machine.flg = f
  BY <1>2, Leaves
<1>. QED BY <1>2, <1>3, Zenon DEF Replaced, Value

LEMMA LeavesPlain ==
  ASSUME NEW i, NEW k, OneStep(i, k), IsMachine(origin), NEW d, Decoded2(origin, k, i, d),
         NEW w \in {1, 2}, NEW r \in 0..7, NEW v \in 0..(2^Bits(w) - 1),
         Handled(Fetch(origin, k), i) = Clear(SetReg(d, w, r, v))
  PROVE  Value(w, r) = v
<1>1. PICK ip \in Int : Step(origin, d, origin.reg, origin.flg, ip)
  BY Zenon DEF Decoded2
<1>. QED BY <1>1, LeavesAfter

LEMMA LeavesReg ==
  ASSUME NEW i, NEW k, OneStep(i, k), IsMachine(origin), NEW d, Decoded2(origin, k, i, d), NEW f,
         NEW w \in {1, 2}, NEW r \in 0..7, NEW v \in 0..(2^Bits(w) - 1),
         Handled(Fetch(origin, k), i) = Clear(SetReg([d EXCEPT !.flg = f], w, r, v))
  PROVE  Value(w, r) = v /\ machine.flg = f
<1>1. PICK ip \in Int : Step(origin, d, origin.reg, origin.flg, ip)
  BY Zenon DEF Decoded2
<1>2. Step(origin, [d EXCEPT !.flg = f], origin.reg, f, ip)
  BY <1>1, FlagsSet
<1>3. PICK e : e = [d EXCEPT !.flg = f]
  OBVIOUS
<1>4. Step(origin, e, origin.reg, f, ip) /\ Handled(Fetch(origin, k), i) = Clear(SetReg(e, w, r, v))
  BY <1>2, <1>3, Zenon
<1>5. Value(w, r) = v
  BY <1>1, <1>4, LeavesAfter
<1>6. machine.flg = f
  BY <1>1, <1>4, LeavesAfter
<1>. QED BY <1>5, <1>6

LEMMA LeavesFlags ==
  ASSUME NEW i, NEW k, OneStep(i, k), IsMachine(origin), NEW d, Decoded2(origin, k, i, d), NEW f,
         NEW w \in {1, 2}, NEW r \in 0..7, NEW v \in 0..(2^Bits(w) - 1),
         Handled(Fetch(origin, k), i) = Clear(SetReg([d EXCEPT !.flg = f], w, r, v))
  PROVE  machine.flg = f
BY LeavesReg

LEMMA Two ==
  ASSUME NEW m, NEW i, i.op \in TwoByte
  PROVE  Handled(m, i) = Handled2(Skip(m, 1), i)
BY DEF Handled, TwoByte

LEMMA Named2 ==
  ASSUME NEW m, NEW i
  PROVE  LET e == Skip(m, 1) IN
         /\ i.op = "shld_CL" => Handled(m, i) = shld_CL(e, i)
         /\ i.op = "shrd_CL" => Handled(m, i) = shrd_CL(e, i)
         /\ i.op = "bt_R" => Handled(m, i) = BitR(e, i, "bt")
         /\ i.op = "btr_R" => Handled(m, i) = BitR(e, i, "btr")
         /\ i.op = "btc_R" => Handled(m, i) = BitR(e, i, "btc")
         /\ i.op = "bsf" => Handled(m, i) = bsf(e, i)
         /\ i.op = "bsr" => Handled(m, i) = bsr(e, i)
         /\ i.op = "imul_R_RM" => Handled(m, i) = imul_R_RM(e, i)
         /\ i.op = "movzx_R_RM" => Handled(m, i) = movzx_R_RM(e, i)
         /\ i.op = "movsx_R_RM" => Handled(m, i) = movsx_R_RM(e, i)
<1>1. PICK e : e = Skip(m, 1)
  OBVIOUS
<1>2. i.op \in {"shld_CL", "shrd_CL", "bt_R", "btr_R", "btc_R", "bsf", "bsr", "imul_R_RM",
                "movzx_R_RM", "movsx_R_RM"} => Handled(m, i) = Handled2(e, i)
  BY <1>1, Two DEF TwoByte
<1>3. i.op = "shld_CL" => Handled2(e, i) = shld_CL(e, i)
  BY DEF Handled2
<1>4. i.op = "shrd_CL" => Handled2(e, i) = shrd_CL(e, i)
  BY DEF Handled2
<1>5. i.op = "bt_R" => Handled2(e, i) = BitR(e, i, "bt")
  BY DEF Handled2, bt_R
<1>6. i.op = "btr_R" => Handled2(e, i) = BitR(e, i, "btr")
  BY DEF Handled2, btr_R
<1>7. i.op = "btc_R" => Handled2(e, i) = BitR(e, i, "btc")
  BY DEF Handled2, btc_R
<1>8. i.op = "bsf" => Handled2(e, i) = bsf(e, i)
  BY DEF Handled2
<1>9. i.op = "bsr" => Handled2(e, i) = bsr(e, i)
  BY DEF Handled2
<1>10. i.op = "imul_R_RM" => Handled2(e, i) = imul_R_RM(e, i)
  BY DEF Handled2
<1>11. i.op = "movzx_R_RM" => Handled2(e, i) = movzx_R_RM(e, i)
  BY DEF Handled2
<1>12. i.op = "movsx_R_RM" => Handled2(e, i) = movsx_R_RM(e, i)
  BY DEF Handled2
<1>. QED BY <1>1, <1>2, <1>3, <1>4, <1>5, <1>6, <1>7, <1>8, <1>9, <1>10, <1>11, <1>12

(* A register of two bytes holds a word, and a count is a number.           *)
LEMMA WordIn ==
  ASSUME IsMachine(origin), NEW w \in {1, 2}, NEW r \in 0..7
  PROVE  Before(w, r) = Reg(origin, w, r) /\ Before(w, r) \in 0..(2^Bits(w) - 1)
<1>1. origin.reg \in [Names -> Words]
  BY DEF IsMachine, Names
<1>2. Reg(origin, w, r) \in 0..(2^Bits(w) - 1)
  BY <1>1, RegValue
<1>. QED BY <1>2, Zenon DEF Before

(* Copies with zeros, or with the sign.                                     *)
LEMMA MoveInv ==
  ASSUME IsMachine(origin), NEW i, NEW k, OneStep(i, k), i.mod = 3,
         NEW n, n = Bits(i.w), NEW s, s = Before(i.w, i.rl)
  PROVE  /\ i.op = "movzx_R_RM" => Value(2, i.rh) = s
         /\ i.op = "movsx_R_RM" => Value(2, i.rh) = Signed(n, s) % Word
<1>1. PICK d : Decoded2(origin, k, i, d)
  BY Fetched3
<1>2. /\ i.w \in {1, 2} /\ i.rl \in 0..7 /\ i.rh \in 0..7
  BY DEF OneStep, Instructions
<1>3. s = Reg(origin, i.w, i.rl) /\ s \in 0..(2^n - 1)
  BY <1>2, WordIn, Zenon
<1>4. PICK f : f = origin.flg
  OBVIOUS
<1>5. PICK W \in Nat \ {0} : W = Word /\ 2^Bits(2) = W
  BY HalfByte, BitsWidth
<1>6. s \in 0..(2^Bits(2) - 1) /\ s \in Int
  <2>1. CASE i.w = 1
    <3>1. s \in 0..(Byte - 1) /\ Byte <= Word /\ Byte \in Nat
      BY <1>3, <2>1, BitsWidth, HalfByte
    <3>. QED BY <1>5, <3>1
  <2>2. CASE i.w = 2
    BY <1>3, <1>5, <2>2
  <2>. QED BY <1>2, <2>1, <2>2
<1>7. ASSUME i.op = "movzx_R_RM" PROVE Value(2, i.rh) = s
  <2>1. Handled(Fetch(origin, k), i) = Clear(SetReg(d, 2, i.rh, s))
    <3>1. Handled(Fetch(origin, k), i) = movzx_R_RM(Skip(Fetch(origin, k), 1), i)
      BY <1>7, Named2
    <3>2. movzx_R_RM(Skip(Fetch(origin, k), 1), i) = Clear(SetReg(Read(d, i), 2, i.rh, RM(d, i)))
      BY <1>1, Zenon DEF movzx_R_RM, Decoded2
    <3>. QED BY <1>1, <1>3, <3>1, <3>2, Zenon DEF Decoded2
  <2>. QED BY <1>1, <1>2, <1>6, <2>1, LeavesPlain
<1>8. ASSUME i.op = "movsx_R_RM" PROVE Value(2, i.rh) = Signed(n, s) % Word
  <2>1. PICK v : v = Signed(n, s) % Word
    OBVIOUS
  <2>2. v \in 0..(2^Bits(2) - 1)
    <3>1. Signed(n, s) \in Int
      <4>1. 2^n \in Nat
        BY BitsWidth, WidthFacts, <1>2, PowerPositive
      <4>. QED BY <1>6, <4>1 DEF Signed
    <3>. QED BY <1>5, <2>1, <3>1
  <2>3. Handled(Fetch(origin, k), i) = Clear(SetReg(d, 2, i.rh, v))
    <3>1. Handled(Fetch(origin, k), i) = movsx_R_RM(Skip(Fetch(origin, k), 1), i)
      BY <1>8, Named2
    <3>2. movsx_R_RM(Skip(Fetch(origin, k), 1), i)
            = Clear(SetReg(Read(d, i), 2, i.rh, Signed(Bits(i.w), RM(d, i)) % Word))
      BY <1>1, Zenon DEF movsx_R_RM, Decoded2
    <3>. QED BY <1>1, <1>3, <2>1, <3>1, <3>2, Zenon DEF Decoded2
  <2>4. Value(2, i.rh) = v
    BY <1>1, <1>2, <2>2, <2>3, LeavesPlain
  <2>. QED BY <2>1, <2>4
<1>. QED BY <1>7, <1>8

-----------------------------------------------------------------------------
(* shld and shrd.                                                          *)

(* Both halves of a double shift.                                           *)
LEMMA LeftDouble ==
  \A P, Q, N \in Nat \ {0} : \A d, s \in Int : N = P * Q =>
    (((N * d + s) * P) \div N) % N = (((d * P) % N) + (s \div Q)) % N
<1>. TAKE P, Q, N \in Nat \ {0}
<1>. TAKE d, s \in Int
<1>. HAVE N = P * Q
<1>1. PICK a \in Int, l \in 0..(Q - 1) : s = Q * a + l /\ a = s \div Q
  BY Division
<1>2. PICK r \in 0..(N - 1) : r = P * l
  <2>1. P * l <= P * (Q - 1) /\ P * l >= 0 /\ P * l \in Int
    OBVIOUS
  <2>2. P * (Q - 1) = P * Q - P
    OBVIOUS
  <2>. QED BY <2>1, <2>2
<1>3. PICK y \in Int : y = d * P
  OBVIOUS
<1>4. (N * d + s) * P = N * (y + a) + r
  <2>1. (N * d + s) * P = (N * d) * P + s * P
    OBVIOUS
  <2>2. (N * d) * P = N * (d * P)
    OBVIOUS
  <2>3. s * P = (Q * a) * P + l * P
    BY <1>1
  <2>4. (Q * a) * P = (P * Q) * a /\ l * P = P * l
    OBVIOUS
  <2>5. N * (y + a) = N * y + N * a
    OBVIOUS
  <2>6. PICK u \in Int, v \in Int, w \in Int : u = N * y /\ v = N * a /\ w = s * P
    OBVIOUS
  <2>7. w = v + r
    BY <1>2, <2>3, <2>4, <2>6, Zenon
  <2>8. (N * d + s) * P = u + w /\ N * (y + a) = u + v
    BY <1>3, <2>1, <2>2, <2>5, <2>6, Zenon
  <2>9. u + w = (u + v) + r
    BY <2>7
  <2>. QED BY <2>8, <2>9, Zenon
<1>5. PICK x \in Int : x = (N * d + s) * P
  OBVIOUS
<1>6. y + a \in Int /\ x = N * (y + a) + r
  BY <1>4, <1>5
<1>7. x \div N = y + a
  BY <1>6, DivisionOf, Zenon
<1>8. ((y % N) + a) % N = (y + a) % N
  BY ModSum
<1>. QED BY <1>1, <1>3, <1>5, <1>7, <1>8, Zenon

DoubledRight(P, Q, N, d, s) == ((N * s + d) \div P) % N = ((d \div P) + ((s * Q) % N)) % N

LEMMA RightDouble ==
  ASSUME NEW P \in Nat \ {0}, NEW Q \in Nat \ {0}, NEW N \in Nat \ {0}, N = P * Q,
         NEW d \in Int, NEW s \in Int
  PROVE  DoubledRight(P, Q, N, d, s)
<1>1. PICK a \in Int, l \in 0..(P - 1) : d = P * a + l /\ a = d \div P
  BY Division
<1>2. PICK y \in Int, x \in Int : y = s * Q /\ x = N * s + d
  OBVIOUS
<1>3. x = P * (y + a) + l
  <2>1. N * s = P * (s * Q)
    OBVIOUS
  <2>2. P * (y + a) = P * y + P * a
    OBVIOUS
  <2>3. PICK u \in Int, v \in Int : u = P * y /\ v = P * a
    OBVIOUS
  <2>4. x = u + d /\ d = v + l /\ P * (y + a) = u + v
    BY <1>1, <1>2, <2>1, <2>2, <2>3, Zenon
  <2>5. u + d = (u + v) + l
    BY <2>4
  <2>. QED BY <2>4, <2>5, Zenon
<1>4. y + a \in Int
  OBVIOUS
<1>5. x \div P = y + a
  BY <1>3, <1>4, DivisionOf, Zenon
<1>6. ((y % N) + a) % N = (y + a) % N
  BY ModSum
<1>7. (y % N) + a = a + (y % N)
  OBVIOUS
<1>. QED BY <1>1, <1>2, <1>5, <1>6, <1>7, Zenon DEF DoubledRight

ShldGives(n, N, d, s, c, r) ==
  /\ r.res = (((N * d + s) * 2^c) \div N) % N
  /\ c > 0 => Carry(r.f) = (d \div 2^(n - c)) % 2

ShrdGives(N, d, s, c, r) ==
  /\ r.res = ((N * s + d) \div 2^c) % N
  /\ c > 0 => Carry(r.f) = (d \div 2^(c - 1)) % 2

LEMMA ShldIs ==
  ASSUME NEW n, n = 2 * B, NEW N, N = 2^n, NEW d \in 0..(N - 1), NEW s \in 0..(N - 1), NEW c \in Nat, c < n, NEW f,
         NEW r, r = shld(d, s, c, f)
  PROVE  ShldGives(n, N, d, s, c, r)
<1>1. n \in Nat /\ c \in 0..n /\ n - c \in Nat
  BY PrimOpsAssumption
<1>2. PICK P \in Nat \ {0}, Q \in Nat \ {0} : P = 2^c /\ Q = 2^(n - c) /\ N = P * Q
  BY <1>1, PowersOf
<1>3. N \in Nat \ {0} /\ d \in Int /\ s \in Int
  BY <1>1, PowerPositive
<1>4. (((N * d + s) * P) \div N) % N = (((d * P) % N) + (s \div Q)) % N
  BY <1>2, <1>3, LeftDouble
<1>5. CASE c = 0
  <2>1. r = [res |-> d, f |-> f \ {"OF"}]
    BY <1>5, Zenon DEF shld
  <2>2. P = 1 /\ Q = N
    BY <1>1, <1>2, <1>5, PowerZero
  <2>3. (((d * 1) % N) + (s \div N)) % N = d
    <3>1. d * 1 = d /\ d % N = d /\ s \div N = 0
      BY <1>3, Small
    <3>2. d + 0 = d
      BY <1>3
    <3>. QED BY <3>1, <3>2, Zenon
  <2>4. r.res = d
    BY <2>1
  <2>5. ~ (c > 0)
    BY <1>5
  <2>. QED BY <1>2, <1>4, <2>2, <2>3, <2>4, <2>5, Zenon DEF ShldGives
<1>6. CASE c # 0
  <2>1. PICK x : x = ((d * P) % N) + (s \div Q)
    OBVIOUS
  <2>2. PICK g : g = [CF |-> Bit(d, n - c), OF |-> c = 1 /\ Bit(x, n - 1) # Bit(d, n - c)]
    OBVIOUS
  <2>3. r = Result(n, x, f, Sign(n, x) ++ g)
    BY <1>2, <1>6, <2>1, <2>2, Zenon DEF shld
  <2>4. r.res = x % N /\ r.f = Change(f, Sign(n, x) ++ g)
    BY <2>3 DEF Result
  <2>5. PICK b : b = (d \div Q) % 2
    OBVIOUS
  <2>6. b \in 0..1 /\ (Bit(d, n - c) <=> b = 1)
    BY <1>1, <1>2, <1>3, <2>5, BitNumber
  <2>7. "CF" \in DOMAIN g /\ g["CF"] = Bit(d, n - c)
    BY <2>2
  <2>8. PICK on : on = Sign(n, x) ++ g
    OBVIOUS
  <2>9. "CF" \in DOMAIN on /\ on["CF"] = Bit(d, n - c)
    BY <2>7, <2>8, CarryAfterSign
  <2>10. Carry(Change(f, on)) = b
    BY <2>6, <2>9, CarryOf
  <2>. QED BY <1>2, <1>4, <2>1, <2>4, <2>5, <2>8, <2>10, Zenon DEF ShldGives
<1>. QED BY <1>5, <1>6

LEMMA ShrdIs ==
  ASSUME NEW n, n = 2 * B, NEW N, N = 2^n, NEW d \in 0..(N - 1), NEW s \in 0..(N - 1), NEW c \in Nat, c < n, NEW f,
         NEW r, r = shrd(d, s, c, f)
  PROVE  ShrdGives(N, d, s, c, r)
<1>1. n \in Nat /\ c \in 0..n /\ n - c \in Nat
  BY PrimOpsAssumption
<1>2. PICK P \in Nat \ {0}, Q \in Nat \ {0} : P = 2^c /\ Q = 2^(n - c) /\ N = P * Q
  BY <1>1, PowersOf
<1>3. N \in Nat \ {0} /\ d \in Int /\ s \in Int
  BY <1>1, PowerPositive
<1>4. ((N * s + d) \div P) % N = ((d \div P) + ((s * Q) % N)) % N
  <2>1. DoubledRight(P, Q, N, d, s)
    BY <1>2, <1>3, RightDouble
  <2>. QED BY <2>1, Zenon DEF DoubledRight
<1>5. CASE c = 0
  <2>1. r = [res |-> d, f |-> f \ {"OF"}]
    BY <1>5, Zenon DEF shrd
  <2>2. P = 1 /\ Q = N
    BY <1>1, <1>2, <1>5, PowerZero
  <2>3. ((d \div 1) + ((s * N) % N)) % N = d
    <3>1. d \div 1 = d /\ d % N = d
      BY <1>3, Small
    <3>2. PICK y \in Int : y = s * N
      BY <1>3
    <3>3. y = N * s + 0 /\ 0 \in 0..(N - 1)
      BY <1>3, <3>2
    <3>4. y % N = 0
      BY <1>3, <3>3, DivisionOf, Zenon
    <3>5. d + 0 = d
      BY <1>3
    <3>. QED BY <3>1, <3>2, <3>4, <3>5, Zenon
  <2>4. r.res = d
    BY <2>1
  <2>5. ~ (c > 0)
    BY <1>5
  <2>. QED BY <1>2, <1>4, <2>2, <2>3, <2>4, <2>5, Zenon DEF ShrdGives
<1>6. CASE c # 0
  <2>1. PICK x : x = (d \div P) + ((s * Q) % N)
    OBVIOUS
  <2>2. PICK g : g = [CF |-> Bit(d, c - 1), OF |-> c = 1 /\ Bit(x, n - 1) # Bit(x, n - 2)]
    OBVIOUS
  <2>3. r = Result(n, x, f, Sign(n, x) ++ g)
    BY <1>2, <1>6, <2>1, <2>2, Zenon DEF shrd
  <2>4. r.res = x % N /\ r.f = Change(f, Sign(n, x) ++ g)
    BY <2>3 DEF Result
  <2>5. PICK b : b = (d \div 2^(c - 1)) % 2
    OBVIOUS
  <2>6. b \in 0..1 /\ (Bit(d, c - 1) <=> b = 1)
    <3>1. c - 1 \in Nat
      BY <1>6
    <3>. QED BY <1>3, <2>5, <3>1, BitNumber
  <2>7. "CF" \in DOMAIN g /\ g["CF"] = Bit(d, c - 1)
    BY <2>2
  <2>8. PICK on : on = Sign(n, x) ++ g
    OBVIOUS
  <2>9. "CF" \in DOMAIN on /\ on["CF"] = Bit(d, c - 1)
    BY <2>7, <2>8, CarryAfterSign
  <2>10. Carry(Change(f, on)) = b
    BY <2>6, <2>9, CarryOf
  <2>. QED BY <1>2, <1>4, <2>1, <2>4, <2>5, <2>8, <2>10, Zenon DEF ShrdGives
<1>. QED BY <1>5, <1>6

LEMMA DoubleShiftInv ==
  ASSUME IsMachine(origin), NEW i, NEW k, OneStep(i, k), i.mod = 3, i.w = 2
  PROVE  DoubleShiftExact(i)
<1>1. PICK d : Decoded2(origin, k, i, d)
  BY Fetched3
<1>2. i.rl \in 0..7 /\ i.rh \in 0..7
  BY DEF OneStep, Instructions
<1>3. PICK n, N, c, x, s, f : /\ n = 2 * B /\ N = 2^n /\ c = Before(1, CX) /\ x = Before(2, i.rl)
                              /\ s = Before(2, i.rh) /\ f = origin.flg
  OBVIOUS
<1>4. /\ x = Reg(origin, 2, i.rl) /\ x \in 0..(N - 1) /\ s = Reg(origin, 2, i.rh) /\ s \in 0..(N - 1)
      /\ c = Reg(origin, 1, CX) /\ c \in Nat /\ 2^Bits(2) = N /\ N \in Nat \ {0}
  <2>1. Bits(2) = 2 * B /\ 2^Bits(2) = Word
    BY BitsWidth
  <2>2. x \in 0..(2^Bits(2) - 1) /\ s \in 0..(2^Bits(2) - 1)
    BY <1>2, <1>3, WordIn
  <2>3. c = Reg(origin, 1, CX) /\ c \in Nat
    BY <1>3, CountSmall DEF Before
  <2>. QED BY <1>3, <2>1, <2>2, <2>3, HalfByte DEF Before
<1>5. ASSUME NEW op, NEW r, r = (IF op = "shld" THEN shld(x, s, c, f) ELSE shrd(x, s, c, f)),
             r.res \in 0..(N - 1),
             Handled(Fetch(origin, k), i) = DoubleShift(d, i, op, c)
      PROVE  Value(2, i.rl) = r.res /\ machine.flg = r.f
  <2>1. DoubleShift(d, i, op, c) = Clear(SetReg([d EXCEPT !.flg = r.f], 2, i.rl, r.res))
    <3>1. /\ Read(d, i) = d /\ RM(d, i) = x /\ d.flg = f /\ Reg(d, 2, i.rh) = s
          /\ \A e, v : Put(e, i, v) = SetReg(e, 2, i.rl, v)
      BY <1>1, <1>3, <1>4, Zenon DEF Decoded2
    <3>. QED BY <1>5, <3>1 DEF DoubleShift
  <2>2. PICK v, g : v = r.res /\ g = r.f
    OBVIOUS
  <2>3. v \in 0..(2^Bits(2) - 1)
    BY <1>4, <1>5, <2>2, Zenon
  <2>4. Handled(Fetch(origin, k), i) = Clear(SetReg([d EXCEPT !.flg = g], 2, i.rl, v))
    BY <1>5, <2>1, <2>2, Zenon
  <2>5. Value(2, i.rl) = v
    BY <1>1, <1>2, <2>3, <2>4, LeavesReg
  <2>6. machine.flg = g
    BY <1>1, <1>2, <2>3, <2>4, LeavesFlags
  <2>. QED BY <2>2, <2>5, <2>6, Zenon
<1>6. PICK e : e = Skip(Fetch(origin, k), 1) /\ d = Decode(e, i) /\ Reg(e, 1, CX) = c
  BY <1>1, <1>4, Zenon DEF Decoded2
<1>7. ASSUME i.op = "shld_CL", c < n
      PROVE  /\ Value(2, i.rl) = (((N * x + s) * 2^c) \div N) % N
             /\ c > 0 => Carry(machine.flg) = (x \div 2^(n - c)) % 2
  <2>1. PICK r : r = shld(x, s, c, f)
    OBVIOUS
  <2>2. /\ r.res = (((N * x + s) * 2^c) \div N) % N
        /\ c > 0 => Carry(r.f) = (x \div 2^(n - c)) % 2
    <3>1. ShldGives(n, N, x, s, c, r)
      BY <1>3, <1>4, <1>7, <2>1, ShldIs
    <3>. QED BY <3>1, Zenon DEF ShldGives
  <2>3. r.res \in 0..(N - 1)
    <3>1. PICK y \in Int : y = ((N * x + s) * 2^c) \div N
      <4>1. PICK p \in Int : p = 2^c
        BY <1>4, PowerPositive
      <4>2. (N * x + s) * p \in Int
        BY <1>4
      <4>. QED BY <1>4, <4>1, <4>2
    <3>. QED BY <1>4, <2>2, <3>1
  <2>4. Handled(Fetch(origin, k), i) = DoubleShift(d, i, "shld", c)
    BY <1>6, <1>7, Named2 DEF shld_CL
  <2>5. Value(2, i.rl) = r.res /\ machine.flg = r.f
    BY <1>5, <2>1, <2>3, <2>4
  <2>. QED BY <2>2, <2>5, Zenon
<1>8. ASSUME i.op = "shrd_CL", c < n
      PROVE  /\ Value(2, i.rl) = ((N * s + x) \div 2^c) % N
             /\ c > 0 => Carry(machine.flg) = (x \div 2^(c - 1)) % 2
  <2>1. PICK r : r = shrd(x, s, c, f)
    OBVIOUS
  <2>2. /\ r.res = ((N * s + x) \div 2^c) % N
        /\ c > 0 => Carry(r.f) = (x \div 2^(c - 1)) % 2
    <3>1. ShrdGives(N, x, s, c, r)
      BY <1>3, <1>4, <1>8, <2>1, ShrdIs
    <3>. QED BY <3>1, Zenon DEF ShrdGives
  <2>3. r.res \in 0..(N - 1)
    <3>1. PICK y \in Int : y = (N * s + x) \div 2^c
      <4>1. PICK p \in Nat \ {0} : p = 2^c
        BY <1>4, PowerPositive
      <4>2. N * s + x \in Int
        BY <1>4
      <4>. QED BY <4>1, <4>2
    <3>. QED BY <1>4, <2>2, <3>1
  <2>4. Handled(Fetch(origin, k), i) = DoubleShift(d, i, "shrd", c)
    BY <1>6, <1>8, Named2 DEF shrd_CL
  <2>5. Value(2, i.rl) = r.res /\ machine.flg = r.f
    BY <1>5, <2>1, <2>3, <2>4
  <2>. QED BY <2>2, <2>5, Zenon
<1>. QED BY <1>3, <1>7, <1>8, Zenon DEF DoubleShiftExact

-----------------------------------------------------------------------------
(* bt, btr and btc.                                                        *)

(* A bit of a number below 2^n, and the number with the bit changed.        *)
LEMMA BitPlace ==
  ASSUME NEW n \in Nat, NEW N, N = 2^n, NEW x \in 0..(N - 1), NEW k \in Nat, k < n,
         NEW p, p = 2^k, NEW was, was = (x \div p) % 2
  PROVE  /\ was \in 0..1 /\ p \in Nat \ {0} /\ N \in Nat \ {0}
         /\ was = 1 => x - p \in 0..(N - 1)
         /\ was = 0 => x + p \in 0..(N - 1)
<1>1. PICK P \in Nat \ {0} : p \in Nat \ {0} /\ N = 2 * (P * p)
  <2>1. k + 1 \in 0..n /\ n - (k + 1) \in Nat
    OBVIOUS
  <2>2. PICK P \in Nat \ {0} : P = 2^(n - (k + 1)) /\ N = 2^(k + 1) * P
    BY <2>1, PowersOf
  <2>3. 2^(k + 1) = 2 * p /\ p \in Nat \ {0}
    BY PowerNext, PowerPositive
  <2>4. (2 * p) * P = 2 * (P * p)
    BY <2>3
  <2>. QED BY <2>2, <2>3, <2>4, Zenon
<1>2. PICK h, t, l : Parting(P, p, x, h, t, l)
  BY <1>1, PartingOf
<1>3. /\ h \in 0..(P - 1) /\ t \in 0..1 /\ l \in 0..(p - 1) /\ t = was
      /\ x = p * (2 * h + t) + l
  BY <1>2, Zenon DEF Parting
<1>4. PICK M \in Nat \ {0}, g \in Int : M = P * p /\ g = p * h /\ g >= 0 /\ g <= M - p
  <2>1. P * p \in Nat \ {0}
    BY <1>1, Scaled
  <2>2. p * h >= 0 /\ p * h <= p * (P - 1) /\ p * h \in Int
    BY <1>1, <1>3
  <2>3. p * (P - 1) = P * p - p
    BY <1>1
  <2>. QED BY <2>1, <2>2, <2>3
<1>5. N = 2 * M
  BY <1>1, <1>4
<1>6. (t = 0 => x = 2 * g + l) /\ (t = 1 => x = (2 * g + p) + l)
  <2>1. p * (2 * h + 0) = 2 * (p * h) /\ p * (2 * h + 1) = 2 * (p * h) + p
    BY <1>1, <1>3
  <2>. QED BY <1>3, <1>4, <2>1
<1>7. was = 1 => x - p \in 0..(N - 1)
  BY <1>1, <1>3, <1>4, <1>5, <1>6
<1>8. was = 0 => x + p \in 0..(N - 1)
  BY <1>1, <1>3, <1>4, <1>5, <1>6
<1>9. N \in Nat \ {0}
  BY PowerPositive
<1>. QED BY <1>1, <1>3, <1>7, <1>8, <1>9

LEMMA WithBitIs ==
  ASSUME NEW n \in Nat, NEW N, N = 2^n, NEW x \in 0..(N - 1), NEW k \in Nat, k < n,
         NEW p, p = 2^k, NEW was, was = (x \div p) % 2
  PROVE  /\ was \in 0..1 /\ (Bit(x, k) <=> was = 1)
         /\ WithBit("btr", x, k) = x - was * p /\ WithBit("btr", x, k) \in 0..(N - 1)
         /\ WithBit("btc", x, k) = x + (1 - 2 * was) * p /\ WithBit("btc", x, k) \in 0..(N - 1)
<1>1. /\ was \in 0..1 /\ p \in Nat \ {0} /\ N \in Nat \ {0}
      /\ was = 1 => x - p \in 0..(N - 1)
      /\ was = 0 => x + p \in 0..(N - 1)
  BY BitPlace
<1>2. x \in Int /\ (Bit(x, k) <=> was = 1)
  <2>1. x \in Int
    BY <1>1
  <2>. QED BY <2>1, BitNumber
<1>3. CASE was = 1
  <2>1. WithBit("btr", x, k) = (x - p) + 0 /\ WithBit("btc", x, k) = (x - p) + 0
    BY <1>2, <1>3 DEF WithBit
  <2>2. x - 1 * p = x - p /\ x + (1 - 2 * 1) * p = x - p /\ (x - p) + 0 = x - p
    BY <1>1, <1>2
  <2>. QED BY <1>1, <1>2, <1>3, <2>1, <2>2, Zenon
<1>4. CASE was = 0
  <2>1. WithBit("btr", x, k) = (x - 0) + 0 /\ WithBit("btc", x, k) = (x - 0) + p
    BY <1>2, <1>4 DEF WithBit
  <2>2. x - 0 * p = x /\ x + (1 - 2 * 0) * p = x + p /\ (x - 0) + 0 = x /\ (x - 0) + p = x + p
    BY <1>1, <1>2
  <2>. QED BY <1>1, <1>2, <1>4, <2>1, <2>2, Zenon
<1>. QED BY <1>1, <1>3, <1>4

LEMMA BitInv ==
  ASSUME IsMachine(origin), NEW i, NEW k, OneStep(i, k), i.mod = 3, i.w = 2
  PROVE  BitExact(i)
<1>1. PICK d : Decoded2(origin, k, i, d)
  BY Fetched3
<1>2. i.rl \in 0..7 /\ i.rh \in 0..7
  BY DEF OneStep, Instructions
<1>3. PICK n, N, x, s, b, p, was, f :
        /\ n = 2 * B /\ N = 2^n /\ x = Before(2, i.rl) /\ s = Before(2, i.rh)
        /\ b = s % n /\ p = 2^b /\ was = (x \div p) % 2 /\ f = origin.flg
  OBVIOUS
<1>4. /\ x = Reg(origin, 2, i.rl) /\ x \in 0..(N - 1) /\ s = Reg(origin, 2, i.rh) /\ s \in 0..(N - 1)
      /\ 2^Bits(2) = N /\ N \in Nat \ {0} /\ n \in Nat \ {0} /\ b \in Nat /\ b < n
  <2>1. Bits(2) = 2 * B /\ 2^Bits(2) = Word
    BY BitsWidth
  <2>2. x \in 0..(2^Bits(2) - 1) /\ s \in 0..(2^Bits(2) - 1)
    BY <1>2, <1>3, WordIn
  <2>3. n \in Nat \ {0} /\ N \in Nat \ {0} /\ 2^Bits(2) = N
    BY <1>3, <2>1, PrimOpsAssumption, HalfByte
  <2>4. b \in Nat /\ b < n
    BY <1>3, <2>2, <2>3
  <2>. QED BY <1>3, <2>2, <2>3, <2>4 DEF Before
<1>5. /\ was \in 0..1 /\ (Bit(x, b) <=> was = 1)
      /\ WithBit("btr", x, b) = x - was * p /\ WithBit("btr", x, b) \in 0..(N - 1)
      /\ WithBit("btc", x, b) = x + (1 - 2 * was) * p /\ WithBit("btc", x, b) \in 0..(N - 1)
  <2>1. n \in Nat
    BY <1>4
  <2>. QED BY <1>3, <1>4, <2>1, WithBitIs
<1>6. PICK g : g = Change(f, [CF |-> Bit(x, b)])
  OBVIOUS
<1>7. Carry(g) = was
  <2>1. "CF" \in DOMAIN [CF |-> Bit(x, b)] /\ [CF |-> Bit(x, b)]["CF"] = Bit(x, b)
    OBVIOUS
  <2>2. PICK on : on = [CF |-> Bit(x, b)]
    OBVIOUS
  <2>. QED BY <1>5, <1>6, <2>1, <2>2, CarryOf
<1>8. PICK e : e = Skip(Fetch(origin, k), 1) /\ d = Decode(e, i)
  BY <1>1, Zenon DEF Decoded2
<1>9. \A op : BitR(e, i, op) = IF op = "bt" THEN Clear([d EXCEPT !.flg = g])
                               ELSE Clear(SetReg([d EXCEPT !.flg = g], 2, i.rl, WithBit(op, x, b)))
  <2>. TAKE op
  <2>1. /\ Read(d, i) = d /\ RM(d, i) = x /\ d.flg = f /\ Reg(d, 2, i.rh) = s
        /\ \A y, v : Put(y, i, v) = SetReg(y, 2, i.rl, v)
    BY <1>1, <1>3, <1>4, Zenon DEF Decoded2
  <2>2. BitR(e, i, op) = BitAt(d, i, op, b)
    BY <1>3, <1>8, <2>1 DEF BitR
  <2>3. [Read(d, i) EXCEPT !.flg = Change(@, [CF |-> Bit(x, b)])] = [d EXCEPT !.flg = g]
    BY <1>6, <2>1
  <2>4. BitAt(d, i, op, b) = Clear(IF op = "bt" THEN [d EXCEPT !.flg = g]
                                   ELSE Put([d EXCEPT !.flg = g], i, WithBit(op, x, b)))
    BY <2>1, <2>3, Zenon DEF BitAt
  <2>. QED BY <2>1, <2>2, <2>4
<1>10. ASSUME i.op = "bt_R" PROVE Carry(machine.flg) = was /\ Value(2, i.rl) = x
  <2>1. Handled(Fetch(origin, k), i) = Clear([d EXCEPT !.flg = g])
    BY <1>8, <1>9, <1>10, Named2
  <2>2. machine.reg = origin.reg /\ machine.flg = g
    BY <1>1, <2>1, LeavesKept
  <2>3. Value(2, i.rl) = x
    BY <1>3, <2>2 DEF Value, Before, Reg
  <2>. QED BY <1>7, <2>2, <2>3
<1>11. ASSUME NEW op, op # "bt", Handled(Fetch(origin, k), i) = BitR(e, i, op), WithBit(op, x, b) \in 0..(N - 1)
       PROVE  Carry(machine.flg) = was /\ Value(2, i.rl) = WithBit(op, x, b)
  <2>1. PICK v \in 0..(2^Bits(2) - 1) : v = WithBit(op, x, b)
    BY <1>4, <1>11, Zenon
  <2>2. Handled(Fetch(origin, k), i) = Clear(SetReg([d EXCEPT !.flg = g], 2, i.rl, v))
    BY <1>9, <1>11, <2>1
  <2>3. Value(2, i.rl) = v
    BY <1>1, <1>2, <2>1, <2>2, LeavesReg
  <2>4. machine.flg = g
    BY <1>1, <1>2, <2>1, <2>2, LeavesFlags
  <2>. QED BY <1>7, <2>1, <2>3, <2>4, Zenon
<1>12. ASSUME i.op = "btr_R" PROVE Carry(machine.flg) = was /\ Value(2, i.rl) = x - was * p
  <2>1. Handled(Fetch(origin, k), i) = BitR(e, i, "btr")
    BY <1>8, <1>12, Named2
  <2>2. Carry(machine.flg) = was /\ Value(2, i.rl) = WithBit("btr", x, b)
    BY <1>5, <1>11, <2>1
  <2>. QED BY <1>5, <2>2, Zenon
<1>13. ASSUME i.op = "btc_R" PROVE Carry(machine.flg) = was /\ Value(2, i.rl) = x + (1 - 2 * was) * p
  <2>1. Handled(Fetch(origin, k), i) = BitR(e, i, "btc")
    BY <1>8, <1>13, Named2
  <2>2. Carry(machine.flg) = was /\ Value(2, i.rl) = WithBit("btc", x, b)
    BY <1>5, <1>11, <2>1
  <2>. QED BY <1>5, <2>2, Zenon
<1>14. i.op \in {"bt_R", "btr_R", "btc_R"} => Carry(machine.flg) = was
  BY <1>10, <1>12, <1>13
<1>. QED BY <1>3, <1>10, <1>12, <1>13, <1>14, Zenon DEF BitExact

-----------------------------------------------------------------------------
(* bsf and bsr.                                                            *)

(* The least and the greatest of some numbers.                              *)
LEMMA Least ==
  ASSUME NEW S, S \subseteq Nat, S # {}
  PROVE  \E m \in S : \A k \in S : m <= k
<1>1. PICK m \in S : \A k \in S : ~ (<<k, m>> \in OpToRel(<, Nat))
  BY WFMin, NatLessThanWellFounded
<1>2. \A k \in S : ~ (k < m)
  BY <1>1 DEF OpToRel
<1>. QED BY <1>2

LEMMA MinIs ==
  ASSUME NEW S, S \subseteq Nat, S # {}
  PROVE  Min(S) \in S /\ \A k \in S : Min(S) <= k
BY Least DEF Min

LEMMA MaxIs ==
  ASSUME NEW n \in Nat, NEW S, S \subseteq 0..n, S # {}
  PROVE  Max(S) \in S /\ \A k \in S : k <= Max(S)
<1> DEFINE T == {n - k : k \in S}
<1>1. T \subseteq Nat /\ T # {}
  <2>1. \A k \in S : n - k \in Nat
    OBVIOUS
  <2>2. PICK x : x \in S
    OBVIOUS
  <2>3. n - x \in T
    BY <2>2
  <2>. QED BY <2>1, <2>3
<1>2. PICK m \in T : \A k \in T : m <= k
  <2>. HIDE DEF T
  <2>. QED BY <1>1, Least
<1>3. PICK x \in S : m = n - x
  OBVIOUS
<1>4. \A k \in S : x >= k
  BY <1>2, <1>3
<1>5. \E y \in S : \A k \in S : y >= k
  BY <1>4
<1>6. Max(S) \in S /\ \A k \in S : Max(S) >= k
  BY <1>5 DEF Max
<1>. QED BY <1>6

LEMMA PowerAbove ==
  ASSUME NEW n \in Nat
  PROVE  n < 2^n
<1> DEFINE bad == {k \in Nat : ~ (k < 2^k)}
<1>1. bad = {}
  <2>. SUFFICES ASSUME bad # {} PROVE FALSE
    OBVIOUS
  <2>1. PICK m \in bad : \A k \in bad : m <= k
    <3>1. bad \subseteq Nat
      OBVIOUS
    <3>. HIDE DEF bad
    <3>. QED BY <3>1, Least
  <2>2. m # 0
    <3>1. 0 < 2^0
      BY PowerZero
    <3>2. ~ (m < 2^m)
      BY <2>1
    <3>. QED BY <3>1, <3>2
  <2>3. PICK l \in Nat : m = l + 1
    BY <2>2
  <2>4. l < 2^l /\ 2^m = 2 * 2^l /\ 2^l \in Nat \ {0}
    BY <2>1, <2>3, PowerNext, PowerPositive
  <2>. QED BY <2>3, <2>4
<1>. QED BY <1>1

(* A number with zeros in its lowest places, and in its highest.            *)
LEMMA LowZeros ==
  ASSUME NEW s \in Int, NEW m \in Nat, \A k \in 0..(m - 1) : ~Bit(s, k)
  PROVE  s % 2^m = 0
<1> DEFINE bad == {k \in Nat : k <= m /\ s % 2^k # 0}
<1>1. bad = {}
  <2>. SUFFICES ASSUME bad # {} PROVE FALSE
    OBVIOUS
  <2>1. PICK j \in bad : \A k \in bad : j <= k
    <3>1. bad \subseteq Nat
      OBVIOUS
    <3>. HIDE DEF bad
    <3>. QED BY <3>1, Least
  <2>2. j # 0
    <3>1. s % 2^0 = 0
      BY PowerZero
    <3>2. s % 2^j # 0
      BY <2>1
    <3>. QED BY <3>1, <3>2
  <2>3. PICK l \in Nat : j = l + 1 /\ l \in 0..(m - 1)
    BY <2>2
  <2>4. s % 2^l = 0
    BY <2>1, <2>3
  <2>5. PICK P \in Nat \ {0}, two \in Nat \ {0} : P = 2^l /\ two = 2 /\ 2^j = P * two
    <3>1. 2^j = 2 * 2^l /\ 2^l \in Nat \ {0}
      BY <2>3, PowerNext, PowerPositive
    <3>2. 2 * 2^l = 2^l * 2
      BY <3>1
    <3>. QED BY <3>1, <3>2
  <2>6. PICK t : t = (s \div P) % 2
    OBVIOUS
  <2>7. t = 0
    <3>1. t \in 0..1 /\ (Bit(s, l) <=> t = 1)
      BY <2>5, <2>6, BitNumber
    <3>. QED BY <2>3, <3>1
  <2>8. s % (P * two) = P * ((s \div P) % two) + (s % P)
    BY DividedTwice
  <2>9. P * 0 + 0 = 0
    OBVIOUS
  <2>10. s % 2^j = 0
    BY <2>4, <2>5, <2>6, <2>7, <2>8, <2>9, Zenon
  <2>. QED BY <2>1, <2>10
<1>2. m \in Nat /\ m <= m
  OBVIOUS
<1>. QED BY <1>1, <1>2

LEMMA HighZeros ==
  ASSUME NEW n \in Nat, NEW s \in 0..(2^n - 1), NEW m \in Nat, m <= n, \A k \in m..(n - 1) : ~Bit(s, k)
  PROVE  s \div 2^m = 0
<1> DEFINE bad == {k \in Nat : k <= n - m /\ s \div 2^(n - k) # 0}
<1>1. 2^n \in Nat \ {0} /\ s \in Int
  BY PowerPositive
<1>2. bad = {}
  <2>. SUFFICES ASSUME bad # {} PROVE FALSE
    OBVIOUS
  <2>1. PICK j \in bad : \A k \in bad : j <= k
    <3>1. bad \subseteq Nat
      OBVIOUS
    <3>. HIDE DEF bad
    <3>. QED BY <3>1, Least
  <2>2. j # 0
    <3>1. s \div 2^n = 0 /\ n - 0 = n
      BY <1>1, Small
    <3>2. s \div 2^(n - j) # 0
      BY <2>1
    <3>. QED BY <3>1, <3>2
  <2>3. PICK l \in Nat : l = n - j /\ l \in m..(n - 1) /\ j - 1 \in Nat /\ n - (j - 1) = l + 1
    BY <2>2
  <2>4. s \div 2^(l + 1) = 0
    <3>1. PICK i \in Nat : i = j - 1 /\ n - i = l + 1 /\ i <= n - m /\ ~ (j <= i)
      BY <2>1, <2>3
    <3>2. i \notin bad
      BY <2>1, <3>1
    <3>3. s \div 2^(n - i) = 0
      BY <3>1, <3>2
    <3>. QED BY <3>1, <3>3, Zenon
  <2>5. PICK a \in Int : a = s \div 2^l /\ a \div 2 = 0
    <3>1. s \div 2^l \in Int /\ s \div 2^(l + 1) = (s \div 2^l) \div 2
      BY <1>1, HalvedTwice
    <3>. QED BY <2>4, <3>1
  <2>6. a # 0
    BY <2>3, <2>5
  <2>7. a % 2 = 1
    BY <2>5, <2>6
  <2>8. Bit(s, l)
    BY <2>5, <2>7 DEF Bit
  <2>. QED BY <2>3, <2>8
<1>3. PICK j : j = n - m /\ j \in Nat /\ j <= n - m /\ n - j = m
  OBVIOUS
<1>4. j \notin bad
  BY <1>2
<1>5. s \div 2^(n - j) = 0
  BY <1>3, <1>4
<1>. QED BY <1>3, <1>5

(* bsf and bsr: the lowest and the highest bit that is 1.                   *)
LEMMA LowestBit ==
  ASSUME NEW n \in Nat, NEW s \in 0..(2^n - 1), NEW m, m = Min(Ones(n, s) \union {n})
  PROVE  m \in 0..n /\ (s # 0 => s % 2^m = 0 /\ (s \div 2^m) % 2 = 1)
<1>1. 2^n \in Nat \ {0} /\ s \in Int
  BY PowerPositive
<1>2. PICK S : S = Ones(n, s) \union {n}
  OBVIOUS
<1>3. S \subseteq 0..n /\ S \subseteq Nat /\ S # {}
  BY <1>2 DEF Ones
<1>4. m \in S /\ \A k \in S : m <= k
  BY <1>2, <1>3, MinIs
<1>5. m \in 0..n /\ m \in Nat
  BY <1>3, <1>4
<1>6. \A k \in 0..(m - 1) : ~Bit(s, k)
  <2>. SUFFICES ASSUME NEW k \in 0..(m - 1), Bit(s, k) PROVE FALSE
    OBVIOUS
  <2>1. k \in S
    BY <1>2, <1>5 DEF Ones
  <2>2. m <= k
    BY <1>4, <2>1, Zenon
  <2>3. k < m /\ k \in Int
    BY <1>5
  <2>. QED BY <1>5, <2>2, <2>3
<1>7. s % 2^m = 0
  BY <1>1, <1>5, <1>6, LowZeros
<1>8. ASSUME s # 0 PROVE (s \div 2^m) % 2 = 1
  <2>1. m # n
    <3>1. s % 2^n = s
      BY <1>1, Small
    <3>. QED BY <1>7, <1>8, <3>1
  <2>. QED BY <1>2, <1>4, <2>1 DEF Ones, Bit
<1>. QED BY <1>5, <1>7, <1>8

LEMMA HighestBit ==
  ASSUME NEW n \in Nat \ {0}, NEW s \in 0..(2^n - 1), NEW m, m = Max(Ones(n, s) \union {0})
  PROVE  m \in 0..n /\ (s # 0 => s \div 2^m = 1)
<1>1. 2^n \in Nat \ {0} /\ s \in Int
  BY PowerPositive
<1>2. PICK S : S = Ones(n, s) \union {0}
  OBVIOUS
<1>3. S \subseteq 0..(n - 1) /\ n - 1 \in Nat /\ S # {}
  BY <1>2 DEF Ones
<1>4. m \in S /\ \A k \in S : k <= m
  BY <1>2, <1>3, MaxIs
<1>5. m \in 0..(n - 1) /\ m \in Nat /\ m + 1 \in Nat /\ m + 1 <= n
  BY <1>3, <1>4
<1>6. \A k \in (m + 1)..(n - 1) : ~Bit(s, k)
  <2>. SUFFICES ASSUME NEW k \in (m + 1)..(n - 1), Bit(s, k) PROVE FALSE
    OBVIOUS
  <2>1. k \in S
    BY <1>2, <1>5 DEF Ones
  <2>. QED BY <1>4, <1>5, <2>1
<1>7. s \div 2^(m + 1) = 0
  BY <1>5, <1>6, HighZeros
<1>8. PICK a \in Int : a = s \div 2^m /\ a \div 2 = 0
  <2>1. s \div 2^m \in Int /\ s \div 2^(m + 1) = (s \div 2^m) \div 2
    BY <1>1, <1>5, HalvedTwice
  <2>. QED BY <1>7, <2>1
<1>9. ASSUME s # 0 PROVE a = 1
  <2>1. CASE m = 0
    <3>1. s \div 1 = s
      BY <1>1
    <3>2. a = s
      BY <1>8, <2>1, <3>1, PowerZero
    <3>. QED BY <1>8, <1>9, <3>2
  <2>2. CASE m # 0
    <3>1. Bit(s, m)
      BY <1>2, <1>4, <2>2 DEF Ones
    <3>2. a % 2 = 1
      BY <1>8, <3>1 DEF Bit
    <3>. QED BY <1>8, <3>2
  <2>. QED BY <2>1, <2>2
<1>. QED BY <1>5, <1>8, <1>9

LEMMA ScanInv ==
  ASSUME IsMachine(origin), NEW i, NEW k, OneStep(i, k), i.mod = 3, i.w = 2
  PROVE  ScanExact(i)
<1>1. PICK d : Decoded2(origin, k, i, d)
  BY Fetched3
<1>2. i.rl \in 0..7 /\ i.rh \in 0..7
  BY DEF OneStep, Instructions
<1>3. PICK n, s, f : n = 2 * B /\ s = Before(2, i.rl) /\ f = origin.flg
  OBVIOUS
<1>4. s = Reg(origin, 2, i.rl) /\ s \in 0..(2^n - 1) /\ 2^Bits(2) = 2^n /\ n \in Nat \ {0} /\ n < 2^n /\ 2^n \in Nat
  <2>1. Bits(2) = 2 * B
    BY BitsWidth
  <2>2. s \in 0..(2^Bits(2) - 1) /\ s = Reg(origin, 2, i.rl)
    BY <1>2, <1>3, WordIn
  <2>3. n \in Nat \ {0}
    BY <1>3, PrimOpsAssumption
  <2>. QED BY <1>3, <2>1, <2>2, <2>3, PowerAbove, PowerPositive
<1>5. PICK g : g = Change(f, [ZF |-> s = 0])
  OBVIOUS
<1>6. "ZF" \in g <=> s = 0
  <2>1. PICK on : on = [ZF |-> s = 0]
    OBVIOUS
  <2>2. "ZF" \in DOMAIN on /\ (on["ZF"] <=> s = 0) /\ "ZF" \in Flags
    BY <2>1, FlagNames
  <2>3. "ZF" \in Change(f, on) <=> on["ZF"]
    BY <2>2, Changed, Zenon
  <2>. QED BY <1>5, <2>1, <2>2, <2>3, Zenon
<1>7. PICK e : e = Skip(Fetch(origin, k), 1) /\ d = Decode(e, i)
  BY <1>1, Zenon DEF Decoded2
<1>8. /\ Read(d, i) = d /\ RM(d, i) = s /\ d.flg = f
  BY <1>1, <1>3, <1>4, Zenon DEF Decoded2
<1>9. \A v : BitScan(d, i, v) = Clear(SetReg([d EXCEPT !.flg = g], 2, i.rh, v))
  <2>. TAKE v
  <2>1. [Read(d, i) EXCEPT !.flg = Change(@, [ZF |-> RM(d, i) = 0])] = [d EXCEPT !.flg = g]
    BY <1>5, <1>8
  <2>. QED BY <2>1, Zenon DEF BitScan
<1>10. ASSUME NEW v, v \in 0..n, Handled(Fetch(origin, k), i) = BitScan(d, i, v)
       PROVE  Value(2, i.rh) = v /\ (Flag("ZF") <=> s = 0)
  <2>1. v \in 0..(2^Bits(2) - 1)
    BY <1>4, <1>10
  <2>2. Handled(Fetch(origin, k), i) = Clear(SetReg([d EXCEPT !.flg = g], 2, i.rh, v))
    BY <1>9, <1>10
  <2>3. Value(2, i.rh) = v
    BY <1>1, <1>2, <2>1, <2>2, LeavesReg
  <2>4. machine.flg = g
    BY <1>1, <1>2, <2>1, <2>2, LeavesFlags
  <2>. QED BY <1>6, <2>3, <2>4, Zenon DEF Flag
<1>11. i.rl # i.rh => Found(d, i) = Ones(n, s)
  BY <1>3, <1>8 DEF Found
<1>12. ASSUME i.op = "bsf", i.rl # i.rh
       PROVE  /\ Flag("ZF") <=> (s = 0)
              /\ s # 0 => s % 2^Value(2, i.rh) = 0 /\ (s \div 2^Value(2, i.rh)) % 2 = 1
  <2>1. PICK v : v = Min(Ones(n, s) \union {n})
    OBVIOUS
  <2>2. v \in 0..n /\ (s # 0 => s % 2^v = 0 /\ (s \div 2^v) % 2 = 1)
    BY <1>4, <2>1, LowestBit
  <2>3. Handled(Fetch(origin, k), i) = BitScan(d, i, v)
    BY <1>3, <1>7, <1>11, <1>12, <2>1, Named2 DEF bsf
  <2>4. Value(2, i.rh) = v /\ (Flag("ZF") <=> s = 0)
    BY <1>10, <2>2, <2>3
  <2>. QED BY <2>2, <2>4
<1>13. ASSUME i.op = "bsr", i.rl # i.rh
       PROVE  /\ Flag("ZF") <=> (s = 0)
              /\ s # 0 => s \div 2^Value(2, i.rh) = 1
  <2>1. PICK v : v = Max(Ones(n, s) \union {0})
    OBVIOUS
  <2>2. v \in 0..n /\ (s # 0 => s \div 2^v = 1)
    BY <1>4, <2>1, HighestBit
  <2>3. Handled(Fetch(origin, k), i) = BitScan(d, i, v)
    BY <1>7, <1>11, <1>13, <2>1, Named2 DEF bsr
  <2>4. Value(2, i.rh) = v /\ (Flag("ZF") <=> s = 0)
    BY <1>10, <2>2, <2>3
  <2>. QED BY <2>2, <2>4
<1>14. i.op \in {"bsf", "bsr"} /\ i.rl # i.rh => (Flag("ZF") <=> (s = 0))
  BY <1>12, <1>13
<1>. QED BY <1>3, <1>12, <1>13, <1>14, Zenon DEF ScanExact

-----------------------------------------------------------------------------
(* Wide operands, and all of it.                                           *)

(* A product in one register.                                               *)
LEMMA ProductKept ==
  ASSUME IsMachine(origin), NEW i, NEW k, OneStep(i, k), i.mod = 3, i.w = 2, i.op = "imul_R_RM",
         NEW p, p = Signed(2 * B, Before(2, i.rh)) * Signed(2 * B, Before(2, i.rl))
  PROVE  /\ Value(2, i.rh) = p % Word
         /\ p >= 0 => (Flag("CF") <=> (p >= Word))
<1>1. PICK d : Decoded2(origin, k, i, d)
  BY Fetched3
<1>2. i.rl \in 0..7 /\ i.rh \in 0..7
  BY DEF OneStep, Instructions
<1>3. PICK x, y, f : x = Before(2, i.rh) /\ y = Before(2, i.rl) /\ f = origin.flg
  OBVIOUS
<1>4. PICK n, W \in Nat \ {0} : n = 2 * B /\ Bits(2) = n /\ W = Word /\ 2^n = W
  BY HalfByte, BitsWidth
<1>5. x = Reg(origin, 2, i.rh) /\ y = Reg(origin, 2, i.rl) /\ x \in 0..(W - 1) /\ y \in 0..(W - 1)
  BY <1>2, <1>3, <1>4, WordIn
<1>6. PICK X \in Int, Y \in Int : X = Signed(n, x) /\ Y = Signed(n, y)
  <2>1. Signed(n, x) \in Int /\ Signed(n, y) \in Int
    BY <1>4, <1>5 DEF Signed
  <2>. QED BY <2>1
<1>7. p = X * Y /\ Y * X = X * Y /\ p \in Int
  BY <1>3, <1>4, <1>6
<1>8. PICK e, b : e = Skip(Fetch(origin, k), 1) /\ b = (p < 0 \/ p >= W)
  OBVIOUS
<1>9. PICK on, g : on = [CF |-> b, OF |-> b] /\ g = Change(f, on)
  OBVIOUS
<1>10. PICK t, u : t = Skip(d, 0) /\ u = [t EXCEPT !.flg = g]
  OBVIOUS
<1>11. PICK ip \in Int : Step(origin, d, origin.reg, origin.flg, ip)
  BY <1>1, Zenon DEF Decoded2
<1>12. PICK j \in Int : Step(origin, t, origin.reg, origin.flg, j)
  <2>1. \A x1 \in Nat : Step(origin, Skip(d, x1), origin.reg, origin.flg, (ip + x1) % Word)
    BY <1>11, Steps
  <2>2. 0 \in Nat /\ (ip + 0) % Word \in Int
    BY <1>4
  <2>. QED BY <1>10, <2>1, <2>2, Zenon
<1>13. Step(origin, u, origin.reg, g, j)
  BY <1>10, <1>12, FlagsSet
<1>14. PICK v : v = p % Word /\ v \in 0..(2^Bits(2) - 1)
  BY <1>4, <1>7
<1>15. Handled(Fetch(origin, k), i) = Clear(SetReg(u, 2, i.rh, v))
  <2>1. Handled(Fetch(origin, k), i) = imul_R_RM(e, i)
    BY <1>8, Named2
  <2>2. imul_R_RM(e, i) = imul_IMM(e, i, 0, X)
    BY <1>1, <1>4, <1>5, <1>6, <1>8, Zenon DEF imul_R_RM, Decoded2
  <2>3. Decode(e, i) = d /\ Read(d, i) = d /\ RM(d, i) = y
    BY <1>1, <1>5, <1>8, Zenon DEF Decoded2
  <2>4. Signed(2 * B, RM(d, i)) * X = p
    BY <1>4, <1>6, <1>7, <2>3
  <2>5. t.flg = f
    BY <1>3, <1>12, Zenon DEF Step
  <2>6. [Skip(Read(d, i), 0) EXCEPT !.flg = Change(@, [CF |-> p < 0 \/ p >= Word, OF |-> p < 0 \/ p >= Word])] = u
    <3>1. [CF |-> p < 0 \/ p >= Word, OF |-> p < 0 \/ p >= Word] = on
      BY <1>4, <1>8, <1>9
    <3>2. [t EXCEPT !.flg = Change(@, on)] = u
      BY <1>9, <1>10, <2>5
    <3>. QED BY <1>10, <2>3, <3>1, <3>2
  <2>7. imul_IMM(e, i, 0, X) = Clear(SetReg(u, 2, i.rh, v))
    BY <1>14, <2>3, <2>4, <2>6, Zenon DEF imul_IMM
  <2>. QED BY <2>1, <2>2, <2>7
<1>16. Value(2, i.rh) = v
  BY <1>2, <1>13, <1>14, <1>15, LeavesAfter
<1>17. machine.flg = g
  BY <1>2, <1>13, <1>14, <1>15, LeavesAfter
<1>18. "CF" \in g <=> b
  <2>1. "CF" \in DOMAIN on /\ (on["CF"] <=> b) /\ "CF" \in Flags
    BY <1>9, FlagNames
  <2>2. "CF" \in Change(f, on) <=> on["CF"]
    BY <2>1, Changed, Zenon
  <2>. QED BY <1>9, <2>1, <2>2, Zenon
<1>19. Flag("CF") <=> b
  BY <1>17, <1>18, Zenon DEF Flag
<1>20. p >= 0 => (b <=> p >= Word)
  <2>1. p >= 0 => ~(p < 0)
    BY <1>7
  <2>. QED BY <1>4, <1>8, <2>1, Zenon
<1>. QED BY <1>14, <1>16, <1>19, <1>20

(* A number with its sign is the same number in a word.                     *)
LEMMA Widened ==
  ASSUME NEW w \in {1, 2}, NEW n, n = Bits(w), NEW x \in 0..(2^n - 1)
  PROVE  Signed(2 * B, Signed(n, x) % Word) = Signed(n, x)
<1>1. Width(n) /\ Width(2 * B) /\ Bits(2) = 2 * B /\ 2^(2 * B) = Word
  <2>1. 2 \in {1, 2}
    OBVIOUS
  <2>. QED BY <2>1, BitsWidth
<1>2. PICK H \in Nat \ {0} : 2^n = 2 * H /\ 2^(n - 1) = H
  BY <1>1, WidthFacts
<1>3. PICK K \in Nat \ {0} : 2^(2 * B) = 2 * K /\ 2^(2 * B - 1) = K
  BY <1>1, WidthFacts
<1>4. 2 * H <= 2 * K
  <2>1. CASE w = 1
    <3>1. PICK a \in Nat \ {0}, W \in Nat : a = Byte /\ W = Word /\ W = a * a
      BY HalfByte
    <3>2. a <= a * a
      <4>1. PICK c \in Nat : a = c + 1
        OBVIOUS
      <4>2. c * a \in Nat
        OBVIOUS
      <4>3. a * a = c * a + a
        BY <4>1
      <4>. QED BY <4>2, <4>3
    <3>3. 2 * H = a
      BY <1>2, <2>1, <3>1, BitsWidth
    <3>. QED BY <1>1, <1>3, <3>1, <3>2, <3>3
  <2>2. CASE w = 2
    BY <1>1, <1>2, <1>3, <2>2
  <2>. QED BY <2>1, <2>2
<1>5. PICK v : v = Signed(n, x)
  OBVIOUS
<1>6. v \in Int /\ -H <= v /\ v < H
  <2>1. x \in 0..(2 * H - 1)
    BY <1>2
  <2>2. PICK b, l : Topped(n, H, x, b, l)
    BY <1>1, <1>2, <2>1, TopOf
  <2>3. b \in 0..1 /\ l \in 0..(H - 1) /\ v = l - H * b
    BY <1>5, <2>2 DEF Topped
  <2>4. b = 0 \/ b = 1
    BY <2>3
  <2>. QED BY <2>3, <2>4
<1>7. -K <= v /\ v < K
  BY <1>4, <1>6
<1>8. Signed(2 * B, v % 2^(2 * B)) = v
  BY <1>1, <1>3, <1>6, <1>7, SignedBack
<1>. QED BY <1>1, <1>5, <1>8

LEMMA WideInv ==
  ASSUME IsMachine(origin), NEW i, NEW k, OneStep(i, k), i.mod = 3,
         i.w = 2 \/ i.op \in {"movzx_R_RM", "movsx_R_RM"}
  PROVE  WideExact(i)
<1>1. PICK n, s : n = Bits(i.w) /\ s = Before(i.w, i.rl)
  OBVIOUS
<1>2. i.w \in {1, 2} /\ i.rl \in 0..7
  BY DEF OneStep, Instructions
<1>3. s \in 0..(2^n - 1)
  BY <1>1, <1>2, WordIn
<1>4. ASSUME i.op = "imul_R_RM" PROVE WideExact(i)
  <2>1. i.w = 2
    BY <1>4
  <2>2. PICK p : p = Signed(2 * B, Before(2, i.rh)) * Signed(2 * B, Before(2, i.rl))
    OBVIOUS
  <2>3. Value(2, i.rh) = p % Word
    BY <1>4, <2>1, <2>2, ProductKept
  <2>4. p >= 0 => (Flag("CF") <=> (p >= Word))
    BY <1>4, <2>1, <2>2, ProductKept
  <2>5. i.op # "movzx_R_RM" /\ i.op # "movsx_R_RM"
    BY <1>4
  <2>. QED BY <2>2, <2>3, <2>4, <2>5, Zenon DEF WideExact
<1>5. ASSUME i.op = "movzx_R_RM" PROVE WideExact(i)
  <2>1. Value(2, i.rh) = s
    BY <1>1, <1>5, MoveInv
  <2>2. i.op # "imul_R_RM" /\ i.op # "movsx_R_RM"
    BY <1>5
  <2>. QED BY <1>1, <2>1, <2>2, Zenon DEF WideExact
<1>6. ASSUME i.op = "movsx_R_RM" PROVE WideExact(i)
  <2>1. Value(2, i.rh) = Signed(n, s) % Word
    BY <1>1, <1>6, MoveInv
  <2>2. Signed(2 * B, Value(2, i.rh)) = Signed(n, s)
    BY <1>1, <1>2, <1>3, <2>1, Widened
  <2>3. i.op # "imul_R_RM" /\ i.op # "movzx_R_RM"
    BY <1>6
  <2>. QED BY <1>1, <2>2, <2>3, Zenon DEF WideExact
<1>7. i.op \notin {"imul_R_RM", "movzx_R_RM", "movsx_R_RM"} => WideExact(i)
  BY DEF WideExact
<1>. QED BY <1>4, <1>5, <1>6, <1>7

LEMMA Bits2Inv == Came /\ Len(done) = 1 => Bits2Exact(done[1])
<1>. SUFFICES ASSUME Came, Len(done) = 1 PROVE Bits2Exact(done[1])
  OBVIOUS
<1> DEFINE i == done[1]
<1>1. PICK k : OneStep(i, k)
  BY OneStepTaken
<1>2. IsMachine(origin)
  BY DEF Came
<1>. HIDE DEF i
<1>3. ASSUME i.mod = 3, i.w = 2 PROVE DoubleShiftExact(i) /\ BitExact(i) /\ ScanExact(i) /\ WideExact(i)
  BY <1>1, <1>2, <1>3, DoubleShiftInv, BitInv, ScanInv, WideInv
<1>4. ASSUME i.mod = 3, i.op \in {"movzx_R_RM", "movsx_R_RM"}
      PROVE  DoubleShiftExact(i) /\ BitExact(i) /\ ScanExact(i) /\ WideExact(i)
  <2>1. DoubleShiftExact(i)
    BY <1>4 DEF DoubleShiftExact
  <2>2. BitExact(i)
    BY <1>4 DEF BitExact
  <2>3. ScanExact(i)
    BY <1>4 DEF ScanExact
  <2>4. WideExact(i)
    BY <1>1, <1>2, <1>4, WideInv
  <2>. QED BY <2>1, <2>2, <2>3, <2>4
<1>5. Bits2Exact(i)
  BY <1>3, <1>4, Zenon DEF Bits2Exact
<1>. QED BY <1>5 DEF i

(* A shift by fewer places than there are, and a rotation by any number,    *)
(* is what the machine does place by place, in its result and its carry;    *)
(* shld and shrd, the bit tests, bsf and bsr, the product in one register   *)
(* and the copies that widen give what they are named for (prim_ops.cpp,    *)
(* proc.cpp).                                                               *)
THEOREM ShiftsExact ==
  Spec => [](Len(done) = 1 => PlacesExact(done[1]) /\ Bits2Exact(done[1]))
<1>1. Came => (Len(done) = 1 => PlacesExact(done[1]) /\ Bits2Exact(done[1]))
  BY PlacesInv, Bits2Inv
<1>. QED BY <1>1, CameAlways, PTL

(* The primitives never look at the numbers: they read overflow off carry   *)
(* chains, shift by masks, and divide with C's truncation (prim_ops.cpp).   *)
(* Still every instruction computes what its operands mean, flags included, *)
(* whatever the width of a byte; the exceptions are those that              *)
(* ProductExact and QuotientExact name.                                     *)
THEOREM EveryOperationExact == Spec => []ArithmeticExact
<1>1. /\ Len(done) = 1 => SumExact(done[1]) /\ CountExact(done[1])
      /\ Len(done) = 1 => ProductExact(done[1]) /\ QuotientExact(done[1])
      /\ Len(done) = 1 => PlacesExact(done[1]) /\ Bits2Exact(done[1])
      => ArithmeticExact
  BY Zenon DEF ArithmeticExact
<1>. QED BY <1>1, SumsExact, ProductsExact, ShiftsExact, PTL
=============================================================================
