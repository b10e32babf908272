-------------------------- MODULE ProcessorProofs --------------------------
(***************************************************************************)
(* Theorems about the processor, for every width B of a byte, every base   *)
(* of the decimal digits, every program and every machine to start on:     *)
(* jumps go where the numbers compared want them (JumpsCompare), decimal   *)
(* arithmetic is exact (DecimalsExact), and so are sums, differences and   *)
(* their flags (SumsExact).                                                *)
(*                                                                         *)
(* The way there is from numbers to flags to instructions.  The flags AF   *)
(* and OF are read off carry chains, which are related to the value, the   *)
(* signed value and the low digits of the operands; a handler is shown to  *)
(* replace one register and the flags and to leave the rest of the machine *)
(* alone (Step); and the invariant Came says that the machine is what the  *)
(* instructions done make of the one that the program started on.          *)
(***************************************************************************)
EXTENDS ProcessorProps, FunctionTheorems, FiniteSetTheorems, TLAPS

-----------------------------------------------------------------------------
(* Powers of two, from the cardinality of a power set.                     *)

LEMMA PowerPositive ==
  ASSUME NEW k \in Nat
  PROVE  2^k \in Nat \ {0}
<1>1. IsFiniteSet(1..k) /\ Cardinality(1..k) = k
  BY FS_Interval
<1>2. IsFiniteSet(SUBSET (1..k)) /\ Cardinality(SUBSET (1..k)) = 2^k
  BY <1>1, FS_SUBSET
<1>3. SUBSET (1..k) # {}
  OBVIOUS
<1>. QED BY <1>2, <1>3, FS_EmptySet, FS_CardinalityType

LEMMA PowerSum ==
  ASSUME NEW a \in Nat, NEW b \in Nat
  PROVE  2^(a + b) = 2^a * 2^b
<1> DEFINE S == 1..a
           T == (a + 1)..(a + b)
           f == [p \in (SUBSET S) \X (SUBSET T) |-> p[1] \cup p[2]]
<1>1. /\ IsFiniteSet(S) /\ Cardinality(S) = a
      /\ IsFiniteSet(T) /\ Cardinality(T) = b
      /\ IsFiniteSet(1..(a + b)) /\ Cardinality(1..(a + b)) = a + b
  <2>1. IsFiniteSet(S) /\ Cardinality(S) = a
    BY FS_Interval
  <2>2. IsFiniteSet(T) /\ Cardinality(T) = b
    <3>1. a + 1 \in Int /\ a + b \in Int
      OBVIOUS
    <3>2. IsFiniteSet(T) /\ Cardinality(T) = IF a + 1 > a + b THEN 0 ELSE (a + b) - (a + 1) + 1
      BY <3>1, FS_Interval
    <3>. HIDE DEF T
    <3>. QED BY <3>2
  <2>3. IsFiniteSet(1..(a + b)) /\ Cardinality(1..(a + b)) = a + b
    <3>1. a + b \in Nat
      OBVIOUS
    <3>. QED BY <3>1, FS_Interval
  <2>. HIDE DEF S, T
  <2>. QED BY <2>1, <2>2, <2>3
<1>2. /\ IsFiniteSet(SUBSET S) /\ Cardinality(SUBSET S) = 2^a
      /\ IsFiniteSet(SUBSET T) /\ Cardinality(SUBSET T) = 2^b
      /\ IsFiniteSet(SUBSET (1..(a + b))) /\ Cardinality(SUBSET (1..(a + b))) = 2^(a + b)
  BY <1>1, FS_SUBSET
<1>3. S \cup T = 1..(a + b) /\ S \cap T = {}
  OBVIOUS
<1> HIDE DEF S, T
<1>4. f \in Bijection((SUBSET S) \X (SUBSET T), SUBSET (S \cup T))
  <2>1. f \in [(SUBSET S) \X (SUBSET T) -> SUBSET (S \cup T)]
    OBVIOUS
  <2>2. ASSUME NEW p \in (SUBSET S) \X (SUBSET T), NEW q \in (SUBSET S) \X (SUBSET T),
               f[p] = f[q]
        PROVE  p = q
    <3>1. p[1] \cup p[2] = q[1] \cup q[2]
      BY <2>2
    <3>2. p[1] = (p[1] \cup p[2]) \cap S /\ p[2] = (p[1] \cup p[2]) \cap T
      BY <1>3
    <3>3. q[1] = (q[1] \cup q[2]) \cap S /\ q[2] = (q[1] \cup q[2]) \cap T
      BY <1>3
    <3>. QED BY <3>1, <3>2, <3>3
  <2>3. ASSUME NEW U \in SUBSET (S \cup T)
        PROVE  \E p \in (SUBSET S) \X (SUBSET T) : f[p] = U
    <3>1. <<U \cap S, U \cap T>> \in (SUBSET S) \X (SUBSET T)
      OBVIOUS
    <3>2. f[<<U \cap S, U \cap T>>] = (U \cap S) \cup (U \cap T)
      BY <3>1
    <3>. QED BY <3>1, <3>2
  <2>. QED BY <2>1, <2>2, <2>3, Fun_IsBij
<1>5. Cardinality((SUBSET S) \X (SUBSET T)) = 2^a * 2^b
  <2> DEFINE P == SUBSET S
             Q == SUBSET T
  <2>1. IsFiniteSet(P) /\ IsFiniteSet(Q)
    BY <1>2
  <2>2. Cardinality(P) = 2^a /\ Cardinality(Q) = 2^b
    BY <1>2
  <2>. HIDE DEF P, Q, S, T, f
  <2>3. Cardinality(P \X Q) = Cardinality(P) * Cardinality(Q)
    BY <2>1, FS_Product
  <2>. QED BY <2>2, <2>3 DEF P, Q
<1>6. ExistsBijection((SUBSET S) \X (SUBSET T), SUBSET (S \cup T))
  BY <1>4 DEF ExistsBijection
<1>7. IsFiniteSet((SUBSET S) \X (SUBSET T))
  <2> DEFINE P == SUBSET S
             Q == SUBSET T
  <2>1. IsFiniteSet(P) /\ IsFiniteSet(Q)
    BY <1>2
  <2>. HIDE DEF P, Q, S, T, f
  <2>2. IsFiniteSet(P \X Q)
    BY <2>1, FS_Product
  <2>. QED BY <2>2 DEF P, Q
<1>8. Cardinality(SUBSET (S \cup T)) = Cardinality((SUBSET S) \X (SUBSET T))
  <2> DEFINE P == (SUBSET S) \X (SUBSET T)
             Q == SUBSET (S \cup T)
  <2>1. IsFiniteSet(P) /\ ExistsBijection(P, Q)
    BY <1>6, <1>7
  <2>. HIDE DEF P, Q
  <2>2. Cardinality(Q) = Cardinality(P)
    BY <2>1, FS_Bijection
  <2>. QED BY <2>2 DEF P, Q
<1>. HIDE DEF f
<1>. QED BY <1>2, <1>3, <1>5, <1>8

LEMMA PowerOne == 2^1 = 2
  OBVIOUS
LEMMA PowerZero == 2^0 = 1
  OBVIOUS

-----------------------------------------------------------------------------
(* Division with a remainder, and the bits of a number.                    *)

LEMMA Division ==
  ASSUME NEW p \in Nat \ {0}, NEW x \in Int
  PROVE  x \div p \in Int /\ x % p \in 0..(p - 1) /\ x = (p * (x \div p)) + (x % p)
OBVIOUS

(* Division with a remainder is unique. *)
LEMMA DivisionUnique ==
  ASSUME NEW p \in Nat \ {0}, NEW x \in Int, NEW q \in Int, NEW l \in 0..(p - 1), x = p * q + l
  PROVE  x \div p = q /\ x % p = l
<1>1. PICK r \in Int, t \in 0..(p - 1) : x = p * r + t /\ r = x \div p /\ t = x % p
  BY Division
<1>2. p * (q - r) = t - l
  BY <1>1
<1>3. q = r
  <2>1. CASE q > r
    <3>1. q - r \in Nat /\ q - r >= 1
      BY <2>1
    <3>2. p * (q - r) >= p
      BY <3>1
    <3>. QED BY <1>2, <3>2
  <2>2. CASE q < r
    <3>1. r - q \in Nat /\ r - q >= 1
      BY <2>2
    <3>2. p * (r - q) >= p
      BY <3>1
    <3>3. p * (r - q) = l - t
      BY <1>1
    <3>. QED BY <3>2, <3>3
  <2>. QED BY <2>1, <2>2
<1>4. r = x \div p /\ t = x % p
  BY <1>1
<1>5. l = t
  BY <1>1, <1>2, <1>3
<1>. QED BY <1>3, <1>4, <1>5, Zenon

LEMMA PowerNext ==
  ASSUME NEW k \in Nat
  PROVE  2^(k + 1) = 2 * 2^k
<1>1. 2^(k + 1) = 2^k * 2
  BY PowerSum, PowerOne
<1>. QED BY <1>1, PowerPositive

(* Bit k of a number, by its parts above and below. *)
LEMMA BitIs ==
  ASSUME NEW k \in Nat, NEW x \in Int, NEW q \in Int, NEW b \in 0..1, NEW l \in 0..(2^k - 1),
         x = 2^k * (2 * q + b) + l
  PROVE  Bit(x, k) <=> b = 1
<1>1. x \div 2^k = 2 * q + b
  BY PowerPositive, DivisionUnique
<1>2. (2 * q + b) % 2 = b
  OBVIOUS
<1>. QED BY <1>1, <1>2 DEF Bit


(* x by the columns of the powers p = 2^k and 2 * p, b being the bit at k. *)
Parted(x, k, p, q, b, l) ==
  /\ q \in Int /\ b \in 0..1 /\ l \in 0..(p - 1)
  /\ x = p * (2 * q + b) + l
  /\ x % (2 * p) = p * b + l
  /\ Bit(x, k) <=> b = 1

LEMMA BitParts ==
  ASSUME NEW k \in Nat, NEW x \in Int, NEW p \in Nat \ {0}, p = 2^k
  PROVE  \E q, b, l : Parted(x, k, p, q, b, l)
<1> DEFINE m == x \div p
           l == x % p
           q == m \div 2
           b == m % 2
<1>1. m \in Int /\ l \in 0..(p - 1) /\ x = p * m + l
  BY Division
<1>. HIDE DEF m, l
<1>3. q \in Int /\ b \in 0..1 /\ m = 2 * q + b
  BY <1>1
<1>. HIDE DEF q, b
<1>4. x = p * (2 * q + b) + l
  BY <1>1, <1>3
<1>5. x = (2 * p) * q + (p * b + l) /\ p * b + l \in 0..(2 * p - 1)
  <2>1. CASE b = 0
    BY <1>1, <1>3, <1>4, <2>1
  <2>2. CASE b = 1
    BY <1>1, <1>3, <1>4, <2>2
  <2>. QED BY <1>3, <2>1, <2>2
<1>6. x % (2 * p) = p * b + l
  <2>1. 2 * p \in Nat \ {0}
    OBVIOUS
  <2>2. PICK pp \in Nat \ {0}, v \in Int : pp = 2 * p /\ v = p * b + l
    BY <2>1, <1>5, <1>1, <1>3
  <2>3. x = pp * q + v /\ v \in 0..(pp - 1)
    BY <1>5, <2>2
  <2>4. x % pp = v
    BY <1>3, <2>3, DivisionUnique
  <2>. QED BY <2>2, <2>4
<1>7. Bit(x, k) <=> b = 1
  BY <1>1, <1>3, <1>4, BitIs
<1>8. Parted(x, k, p, q, b, l)
  BY <1>1, <1>3, <1>4, <1>6, <1>7 DEF Parted
<1>. QED BY <1>8

-----------------------------------------------------------------------------
(* Carries and borrows: what the carry chains of prim_ops.cpp have in a    *)
(* column, and what is carried out of the columns below it.                *)

(* Addition in the columns of p and 2 * p. *)
LEMMA CarryByParts ==
  ASSUME NEW k \in 0..(2 * B - 1), NEW p \in Nat \ {0}, p = 2^k, NEW c \in 0..1,
         NEW d, NEW qd, NEW bd, NEW ld, Parted(d, k, p, qd, bd, ld),
         NEW s, NEW qs, NEW bs, NEW ls, Parted(s, k, p, qs, bs, ls)
  PROVE  Carries(d, s, d + s + c)[k] <=> (d % (2 * p)) + (s % (2 * p)) + c >= 2 * p
<1>. k \in Nat
  BY PrimOpsAssumption
<1>1. /\ qd \in Int /\ bd \in 0..1 /\ ld \in 0..(p - 1)
      /\ qs \in Int /\ bs \in 0..1 /\ ls \in 0..(p - 1)
  BY DEF Parted
<1>. USE <1>1
<1>4. PICK g \in 0..1, lr \in 0..(p - 1) :
        ld + ls + c = p * g + lr /\ (g = 1 <=> ld + ls + c >= p)
  <2>1. CASE ld + ls + c >= p
    <3>1. ld + ls + c - p \in 0..(p - 1)
      BY <2>1
    <3>2. ld + ls + c = p * 1 + (ld + ls + c - p)
      OBVIOUS
    <3>. QED BY <2>1, <3>1, <3>2
  <2>2. CASE ld + ls + c < p
    <3>1. ld + ls + c \in 0..(p - 1)
      BY <2>2
    <3>2. ld + ls + c = p * 0 + (ld + ls + c)
      OBVIOUS
    <3>. QED BY <2>2, <3>1, <3>2
  <2>. QED BY <2>1, <2>2
<1>5. PICK h \in 0..1, br \in 0..1 : bd + bs + g = 2 * h + br
  <2>1. (bd + bs + g) \div 2 \in 0..1 /\ (bd + bs + g) % 2 \in 0..1
    OBVIOUS
  <2>2. bd + bs + g = 2 * ((bd + bs + g) \div 2) + ((bd + bs + g) % 2)
    OBVIOUS
  <2>. QED BY <2>1, <2>2
<1>6. (p * (2 * qd + bd) + ld) + (p * (2 * qs + bs) + ls) + c = p * (2 * (qd + qs + h) + br) + lr
  <2>2. p * (2 * qd + bd) + p * (2 * qs + bs) + p * g = p * (2 * (qd + qs) + (bd + bs + g))
    OBVIOUS
  <2>3. 2 * (qd + qs) + (bd + bs + g) = 2 * (qd + qs + h) + br
    BY <1>5
  <2>. QED BY <1>4, <2>2, <2>3
<1>8. (p * bd + ld) + (p * bs + ls) + c >= 2 * p <=> bd + bs + g >= 2
  <2>1. CASE bd = 0 /\ bs = 0
    BY <1>4, <2>1
  <2>2. CASE bd = 0 /\ bs = 1
    BY <1>4, <2>2
  <2>3. CASE bd = 1 /\ bs = 0
    BY <1>4, <2>3
  <2>4. CASE bd = 1 /\ bs = 1
    BY <1>4, <2>4
  <2>. QED BY <2>1, <2>2, <2>3, <2>4
<1>9. bd + bs + g >= 2 <=> (bs = 1 /\ bd = 1) \/ (br # 1 /\ (bs = 1 \/ bd = 1))
  BY <1>5
<1>10. Bit(d + s + c, k) <=> br = 1
  <2>1. d + s + c = p * (2 * (qd + qs + h) + br) + lr
    BY <1>6 DEF Parted
  <2>2. qd + qs + h \in Int /\ d + s + c \in Int
    BY <2>1
  <2>. QED BY <2>1, <2>2, BitIs
<1>11. Carries(d, s, d + s + c)[k]
           = ((Bit(s, k) /\ Bit(d, k)) \/ (~Bit(d + s + c, k) /\ (Bit(s, k) \/ Bit(d, k))))
  BY Zenon DEF Carries
<1>. QED BY <1>8, <1>9, <1>10, <1>11 DEF Parted

(* The carry out of bit k of a sum. *)
LEMMA CarryOut ==
  ASSUME NEW k \in 0..(2 * B - 1), NEW j, j = k + 1, NEW d \in Int, NEW s \in Int, NEW c \in 0..1
  PROVE  Carries(d, s, d + s + c)[k]
           <=> (d % 2^j) + (s % 2^j) + c >= 2^j
<1>. k \in Nat
  BY PrimOpsAssumption
<1>1. PICK p \in Nat \ {0} : p = 2^k /\ 2^j = 2 * p
  BY PowerPositive, PowerNext
<1>2. PICK qd, bd, ld : Parted(d, k, p, qd, bd, ld)
  BY <1>1, BitParts
<1>3. PICK qs, bs, ls : Parted(s, k, p, qs, bs, ls)
  BY <1>1, BitParts
<1>4. Carries(d, s, d + s + c)[k] <=> (d % (2 * p)) + (s % (2 * p)) + c >= 2 * p
  BY <1>1, <1>2, <1>3, CarryByParts, Zenon
<1>. QED BY <1>1, <1>4, Zenon

(* Subtraction in the columns of p and 2 * p. *)
LEMMA BorrowByParts ==
  ASSUME NEW k \in 0..(2 * B - 1), NEW p \in Nat \ {0}, p = 2^k, NEW c \in 0..1,
         NEW d, NEW qd, NEW bd, NEW ld, Parted(d, k, p, qd, bd, ld),
         NEW s, NEW qs, NEW bs, NEW ls, Parted(s, k, p, qs, bs, ls)
  PROVE  Borrows(d, s, d - s - c)[k] <=> (d % (2 * p)) - (s % (2 * p)) - c < 0
<1>. k \in Nat
  BY PrimOpsAssumption
<1>1. /\ qd \in Int /\ bd \in 0..1 /\ ld \in 0..(p - 1)
      /\ qs \in Int /\ bs \in 0..1 /\ ls \in 0..(p - 1)
  BY DEF Parted
<1>. USE <1>1
<1>4. PICK g \in 0..1, lr \in 0..(p - 1) :
        ld - ls - c = lr - p * g /\ (g = 1 <=> ld - ls - c < 0)
  <2>1. CASE ld - ls - c < 0
    <3>1. ld - ls - c + p \in 0..(p - 1)
      BY <2>1
    <3>2. ld - ls - c = (ld - ls - c + p) - p * 1
      OBVIOUS
    <3>. QED BY <2>1, <3>1, <3>2
  <2>2. CASE ld - ls - c >= 0
    <3>1. ld - ls - c \in 0..(p - 1)
      BY <2>2
    <3>2. ld - ls - c = (ld - ls - c) - p * 0
      OBVIOUS
    <3>. QED BY <2>2, <3>1, <3>2
  <2>. QED BY <2>1, <2>2
<1>5. PICK h \in 0..1, br \in 0..1 : bd - bs - g = br - 2 * h
  <2>1. CASE bd - bs - g = -2
    BY <2>1
  <2>2. CASE bd - bs - g = -1
    BY <2>2
  <2>3. CASE bd - bs - g \in 0..1
    <3>1. bd - bs - g = (bd - bs - g) - 2 * 0
      OBVIOUS
    <3>. QED BY <2>3, <3>1
  <2>. QED BY <2>1, <2>2, <2>3
<1>6. (p * (2 * qd + bd) + ld) - (p * (2 * qs + bs) + ls) - c = p * (2 * (qd - qs - h) + br) + lr
  <2>2. p * (2 * qd + bd) - p * (2 * qs + bs) - p * g = p * (2 * (qd - qs) + (bd - bs - g))
    OBVIOUS
  <2>3. 2 * (qd - qs) + (bd - bs - g) = 2 * (qd - qs - h) + br
    BY <1>5
  <2>. QED BY <1>4, <2>2, <2>3
<1>8. (p * bd + ld) - (p * bs + ls) - c < 0 <=> bd - bs - g < 0
  <2>1. CASE bd = 0 /\ bs = 0
    BY <1>4, <2>1
  <2>2. CASE bd = 0 /\ bs = 1
    BY <1>4, <2>2
  <2>3. CASE bd = 1 /\ bs = 0
    BY <1>4, <2>3
  <2>4. CASE bd = 1 /\ bs = 1
    BY <1>4, <2>4
  <2>. QED BY <2>1, <2>2, <2>3, <2>4
<1>9. bd - bs - g < 0 <=> (br = 1 /\ (bd # 1 \/ bs = 1)) \/ (bd # 1 /\ bs = 1)
  BY <1>5
<1>10. Bit(d - s - c, k) <=> br = 1
  <2>1. d - s - c = p * (2 * (qd - qs - h) + br) + lr
    BY <1>6 DEF Parted
  <2>2. qd - qs - h \in Int /\ d - s - c \in Int
    BY <2>1
  <2>. QED BY <2>1, <2>2, BitIs
<1>11. Borrows(d, s, d - s - c)[k]
           = ((Bit(d - s - c, k) /\ (~Bit(d, k) \/ Bit(s, k))) \/ (~Bit(d, k) /\ Bit(s, k)))
  BY Zenon DEF Borrows
<1>. QED BY <1>8, <1>9, <1>10, <1>11 DEF Parted

(* The borrow out of bit k of a difference. *)
LEMMA BorrowOut ==
  ASSUME NEW k \in 0..(2 * B - 1), NEW j, j = k + 1, NEW d \in Int, NEW s \in Int, NEW c \in 0..1
  PROVE  Borrows(d, s, d - s - c)[k]
           <=> (d % 2^j) - (s % 2^j) - c < 0
<1>. k \in Nat
  BY PrimOpsAssumption
<1>1. PICK p \in Nat \ {0} : p = 2^k /\ 2^j = 2 * p
  BY PowerPositive, PowerNext
<1>2. PICK qd, bd, ld : Parted(d, k, p, qd, bd, ld)
  BY <1>1, BitParts
<1>3. PICK qs, bs, ls : Parted(s, k, p, qs, bs, ls)
  BY <1>1, BitParts
<1>4. Borrows(d, s, d - s - c)[k] <=> (d % (2 * p)) - (s % (2 * p)) - c < 0
  BY <1>1, <1>2, <1>3, BorrowByParts, Zenon
<1>. QED BY <1>1, <1>4, Zenon

-----------------------------------------------------------------------------
(* Numbers of one width, and sets of flags.                                *)

LEMMA TopBit ==
  ASSUME NEW k \in Nat, NEW x \in Int
  PROVE  Bit(x, k) <=> x % 2^(k + 1) >= 2^k
<1>1. PICK p \in Nat \ {0} : p = 2^k /\ 2^(k + 1) = 2 * p
  BY PowerPositive, PowerNext
<1>2. PICK q, b, l : Parted(x, k, p, q, b, l)
  BY <1>1, BitParts
<1>3. q \in Int /\ b \in 0..1 /\ l \in 0..(p - 1)
  BY <1>2 DEF Parted
<1>4. x % (2 * p) = p * b + l /\ (Bit(x, k) <=> b = 1)
  BY <1>2 DEF Parted
<1>5. p * b + l >= p <=> b = 1
  <2>1. CASE b = 0
    BY <1>3, <2>1
  <2>2. CASE b = 1
    BY <1>3, <2>2
  <2>. QED BY <1>3, <2>1, <2>2
<1>. QED BY <1>1, <1>4, <1>5, Zenon

LEMMA Small ==
  ASSUME NEW N \in Nat \ {0}, NEW x \in 0..(N - 1)
  PROVE  x % N = x /\ x \div N = 0
<1>1. x = N * 0 + x
  OBVIOUS
<1>. QED BY <1>1, DivisionUnique, 0 \in Int

(* What bytes and words have in common. *)
Width(n) == n \in {B, 2 * B}

LEMMA WidthFacts ==
  ASSUME NEW n, Width(n)
  PROVE  /\ n \in Nat /\ n >= 2 /\ n - 1 \in 0..(2 * B - 1) /\ n - 2 \in 0..(2 * B - 1)
         /\ \E p \in Nat \ {0} : 2^n = 2 * p /\ 2^(n - 1) = p
<1>1. n \in Nat /\ n >= 2 /\ n - 1 \in 0..(2 * B - 1) /\ n - 2 \in 0..(2 * B - 1)
  BY PrimOpsAssumption DEF Width
<1>2. n - 1 \in Nat /\ (n - 1) + 1 = n
  BY <1>1
<1>3. 2^((n - 1) + 1) = 2 * 2^(n - 1) /\ 2^(n - 1) \in Nat \ {0}
  BY <1>2, PowerNext, PowerPositive
<1>. QED BY <1>1, <1>2, <1>3

LEMMA HalfByte ==
  /\ B \div 2 \in Nat /\ B \div 2 >= 1 /\ B \div 2 - 1 \in 0..(2 * B - 1)
  /\ B = B \div 2 + B \div 2
  /\ Nibble \in Nat /\ Nibble >= 2 /\ Byte = Nibble * Nibble /\ Word = Byte * Byte
  /\ Byte \in Nat \ {0} /\ Word \in Nat \ {0}
<1>1. B \in Nat /\ B > 1 /\ B % 2 = 0
  BY PrimOpsAssumption
<1>2. PICK h \in Nat : h = B \div 2 /\ h >= 1 /\ B = h + h
  BY <1>1
<1>3. h - 1 \in Nat /\ (h - 1) + 1 = h /\ h - 1 \in 0..(2 * B - 1)
  BY <1>1, <1>2
<1>4. 2^h = 2 * 2^(h - 1) /\ 2^(h - 1) \in Nat \ {0}
  BY <1>3, PowerNext, PowerPositive
<1>5. 2^B = 2^h * 2^h
  BY <1>2, PowerSum
<1>6. 2 * B = B + B
  BY <1>1
<1>7. 2^(2 * B) = 2^B * 2^B
  BY <1>1, <1>6, PowerSum
<1>8. 2^B \in Nat \ {0} /\ 2^(2 * B) \in Nat \ {0}
  BY <1>1, PowerPositive
<1>. QED BY <1>1, <1>2, <1>3, <1>4, <1>5, <1>7, <1>8 DEF Nibble, Byte, Word

-----------------------------------------------------------------------------
(* Flags *)

LEMMA Changed ==
  ASSUME NEW f, NEW on, NEW x
  PROVE  /\ x \in DOMAIN on /\ x \in Flags => (x \in Change(f, on) <=> on[x])
         /\ x \notin DOMAIN on => (x \in Change(f, on) <=> x \in f)
BY DEF Change

LEMMA FlagNames == {"CF", "PF", "AF", "ZF", "SF", "OF"} \subseteq Flags
BY PrimOpsAssumption DEF Flags

-----------------------------------------------------------------------------
(* Overflow and auxiliary carry, as the carry chains give them.            *)

(* A number of n bits by its top bit b, of weight p, and the rest l. *)
Topped(n, p, x, b, l) ==
  /\ b \in 0..1 /\ l \in 0..(p - 1)
  /\ x = p * b + l /\ x % 2^n = x /\ x % 2^(n - 1) = l
  /\ Bit(x, n - 1) <=> b = 1
  /\ Signed(n, x) = l - p * b

LEMMA TopOf ==
  ASSUME NEW n, Width(n), NEW p \in Nat \ {0}, 2^n = 2 * p, 2^(n - 1) = p,
         NEW x \in 0..(2 * p - 1)
  PROVE  \E b, l : Topped(n, p, x, b, l)
<1>1. n - 1 \in Nat
  BY WidthFacts
<1>2. PICK q, b, l : Parted(x, n - 1, p, q, b, l)
  BY <1>1, BitParts
<1>3. b \in 0..1 /\ l \in 0..(p - 1) /\ x % (2 * p) = p * b + l /\ (Bit(x, n - 1) <=> b = 1)
  BY <1>2 DEF Parted
<1>4. x % (2 * p) = x
  BY Small, 2 * p \in Nat \ {0}
<1>5. x = p * b + l /\ x % 2^n = x
  BY <1>3, <1>4
<1>6. x % p = l
  <2>1. x \in Int /\ b \in Int
    BY <1>3
  <2>. QED BY <1>3, <1>5, <2>1, DivisionUnique, Zenon
<1>7. Signed(n, x) = l - p * b
  <2>1. CASE b = 1
    BY <1>3, <1>5, <2>1 DEF Signed
  <2>2. CASE b = 0
    BY <1>3, <1>5, <2>2 DEF Signed
  <2>. QED BY <1>3, <2>1, <2>2
<1>. QED BY <1>3, <1>5, <1>6, <1>7 DEF Topped

LEMMA SumOverflow ==
  ASSUME NEW n, Width(n), NEW d \in 0..(2^n - 1), NEW s \in 0..(2^n - 1), NEW c \in 0..1
  PROVE  LET chain == Carries(d, s, d + s + c) IN
         chain[n - 1] # chain[n - 2] <=> ~SignedWithin(n, Signed(n, d) + Signed(n, s) + c)
<1>1. PICK p \in Nat \ {0} : 2^n = 2 * p /\ 2^(n - 1) = p
  BY WidthFacts
<1>2. n - 1 \in 0..(2 * B - 1) /\ n - 2 \in 0..(2 * B - 1) /\ n = (n - 1) + 1 /\ n - 1 = (n - 2) + 1
  BY WidthFacts
<1>3. d \in 0..(2 * p - 1) /\ s \in 0..(2 * p - 1) /\ d \in Int /\ s \in Int
  BY <1>1
<1>4. PICK bd, ld : Topped(n, p, d, bd, ld)
  BY <1>1, <1>3, TopOf
<1>5. PICK bs, ls : Topped(n, p, s, bs, ls)
  BY <1>1, <1>3, TopOf
<1>6. Carries(d, s, d + s + c)[n - 1] <=> (d % 2^n) + (s % 2^n) + c >= 2^n
  BY <1>2, <1>3, CarryOut, Zenon
<1>7. Carries(d, s, d + s + c)[n - 2] <=> (d % 2^(n - 1)) + (s % 2^(n - 1)) + c >= 2^(n - 1)
  BY <1>2, <1>3, CarryOut, Zenon
<1>8. Carries(d, s, d + s + c)[n - 1] <=> p * bd + ld + p * bs + ls + c >= 2 * p
  BY <1>1, <1>3, <1>4, <1>5, <1>6 DEF Topped
<1>9. Carries(d, s, d + s + c)[n - 2] <=> ld + ls + c >= p
  BY <1>1, <1>4, <1>5, <1>7 DEF Topped
<1>10. SignedWithin(n, Signed(n, d) + Signed(n, s) + c)
         <=> -p <= ld - p * bd + ls - p * bs + c /\ ld - p * bd + ls - p * bs + c < p
  BY <1>1, <1>4, <1>5 DEF Topped, SignedWithin
<1>11. bd \in 0..1 /\ bs \in 0..1 /\ ld \in 0..(p - 1) /\ ls \in 0..(p - 1)
  BY <1>4, <1>5 DEF Topped
<1>12. ~(p * bd + ld + p * bs + ls + c >= 2 * p <=> ld + ls + c >= p)
         <=> ~(-p <= ld - p * bd + ls - p * bs + c /\ ld - p * bd + ls - p * bs + c < p)
  <2>1. CASE bd = 0 /\ bs = 0
    BY <1>11, <2>1
  <2>2. CASE bd = 0 /\ bs = 1
    BY <1>11, <2>2
  <2>3. CASE bd = 1 /\ bs = 0
    BY <1>11, <2>3
  <2>4. CASE bd = 1 /\ bs = 1
    BY <1>11, <2>4
  <2>. QED BY <1>11, <2>1, <2>2, <2>3, <2>4
<1>13. Carries(d, s, d + s + c)[n - 1] \in BOOLEAN /\ Carries(d, s, d + s + c)[n - 2] \in BOOLEAN
  BY <1>2 DEF Carries, Bit
<1>. QED BY <1>8, <1>9, <1>10, <1>12, <1>13, Zenon

LEMMA DifferenceOverflow ==
  ASSUME NEW n, Width(n), NEW d \in 0..(2^n - 1), NEW s \in 0..(2^n - 1), NEW c \in 0..1
  PROVE  LET chain == Borrows(d, s, d - s - c) IN
         /\ chain[n - 1] <=> d - s - c < 0
         /\ chain[n - 1] # chain[n - 2] <=> ~SignedWithin(n, Signed(n, d) - Signed(n, s) - c)
<1>1. PICK p \in Nat \ {0} : 2^n = 2 * p /\ 2^(n - 1) = p
  BY WidthFacts
<1>2. n - 1 \in 0..(2 * B - 1) /\ n - 2 \in 0..(2 * B - 1) /\ n = (n - 1) + 1 /\ n - 1 = (n - 2) + 1
  BY WidthFacts
<1>3. d \in 0..(2 * p - 1) /\ s \in 0..(2 * p - 1) /\ d \in Int /\ s \in Int
  BY <1>1
<1>4. PICK bd, ld : Topped(n, p, d, bd, ld)
  BY <1>1, <1>3, TopOf
<1>5. PICK bs, ls : Topped(n, p, s, bs, ls)
  BY <1>1, <1>3, TopOf
<1>6. Borrows(d, s, d - s - c)[n - 1] <=> (d % 2^n) - (s % 2^n) - c < 0
  BY <1>2, <1>3, BorrowOut, Zenon
<1>7. Borrows(d, s, d - s - c)[n - 2] <=> (d % 2^(n - 1)) - (s % 2^(n - 1)) - c < 0
  BY <1>2, <1>3, BorrowOut, Zenon
<1>8. Borrows(d, s, d - s - c)[n - 1] <=> p * bd + ld - p * bs - ls - c < 0
  BY <1>1, <1>3, <1>4, <1>5, <1>6 DEF Topped
<1>9. Borrows(d, s, d - s - c)[n - 2] <=> ld - ls - c < 0
  BY <1>1, <1>4, <1>5, <1>7 DEF Topped
<1>10. SignedWithin(n, Signed(n, d) - Signed(n, s) - c)
         <=> -p <= ld - p * bd - ls + p * bs - c /\ ld - p * bd - ls + p * bs - c < p
  BY <1>1, <1>4, <1>5 DEF Topped, SignedWithin
<1>11. bd \in 0..1 /\ bs \in 0..1 /\ ld \in 0..(p - 1) /\ ls \in 0..(p - 1)
  BY <1>4, <1>5 DEF Topped
<1>12. ~(p * bd + ld - p * bs - ls - c < 0 <=> ld - ls - c < 0)
         <=> ~(-p <= ld - p * bd - ls + p * bs - c /\ ld - p * bd - ls + p * bs - c < p)
  <2>1. CASE bd = 0 /\ bs = 0
    BY <1>11, <2>1
  <2>2. CASE bd = 0 /\ bs = 1
    BY <1>11, <2>2
  <2>3. CASE bd = 1 /\ bs = 0
    BY <1>11, <2>3
  <2>4. CASE bd = 1 /\ bs = 1
    BY <1>11, <2>4
  <2>. QED BY <1>11, <2>1, <2>2, <2>3, <2>4
<1>13. Borrows(d, s, d - s - c)[n - 1] \in BOOLEAN /\ Borrows(d, s, d - s - c)[n - 2] \in BOOLEAN
  BY <1>2 DEF Borrows, Bit
<1>14. d % 2^n = d /\ s % 2^n = s
  BY <1>4, <1>5 DEF Topped
<1>15. Borrows(d, s, d - s - c)[n - 1] <=> d - s - c < 0
  BY <1>6, <1>14
<1>. QED BY <1>8, <1>9, <1>10, <1>12, <1>13, <1>15, Zenon

LEMMA NibbleBits ==
  /\ B \div 2 - 1 \in 0..(2 * B - 1) /\ B \div 2 = (B \div 2 - 1) + 1
BY HalfByte

LEMMA SumNibble ==
  ASSUME NEW d \in Int, NEW s \in Int, NEW c \in 0..1
  PROVE  Carries(d, s, d + s + c)[B \div 2 - 1]
           <=> ~Within(B \div 2, (d % Nibble) + (s % Nibble) + c)
<1>1. Carries(d, s, d + s + c)[B \div 2 - 1] <=> (d % Nibble) + (s % Nibble) + c >= Nibble
  BY NibbleBits, CarryOut, Zenon DEF Nibble
<1>2. d % Nibble \in Nat /\ s % Nibble \in Nat
  BY HalfByte
<1>3. Within(B \div 2, (d % Nibble) + (s % Nibble) + c)
        <=> 0 <= (d % Nibble) + (s % Nibble) + c /\ (d % Nibble) + (s % Nibble) + c < Nibble
  BY DEF Within, Nibble
<1>. HIDE DEF Nibble
<1>. QED BY <1>1, <1>2, <1>3, HalfByte

LEMMA DifferenceNibble ==
  ASSUME NEW d \in Int, NEW s \in Int, NEW c \in 0..1
  PROVE  Borrows(d, s, d - s - c)[B \div 2 - 1]
           <=> ~Within(B \div 2, (d % Nibble) - (s % Nibble) - c)
<1>1. Borrows(d, s, d - s - c)[B \div 2 - 1] <=> (d % Nibble) - (s % Nibble) - c < 0
  BY NibbleBits, BorrowOut, Zenon DEF Nibble
<1>2. d % Nibble \in 0..(Nibble - 1) /\ s % Nibble \in Nat
  BY HalfByte
<1>3. Within(B \div 2, (d % Nibble) - (s % Nibble) - c)
        <=> 0 <= (d % Nibble) - (s % Nibble) - c /\ (d % Nibble) - (s % Nibble) - c < Nibble
  BY DEF Within, Nibble
<1>. HIDE DEF Nibble
<1>. QED BY <1>1, <1>2, <1>3, HalfByte

-----------------------------------------------------------------------------
(* The flags that a result sets.                                           *)

(* What SumFlags says, of any set f of flags. *)
Flagged(f, n, value, signed, low) ==
  /\ "ZF" \in f <=> value % 2^n = 0
  /\ "SF" \in f <=> ~SignedWithin(n, value % 2^n)
  /\ "PF" \in f <=> Cardinality({k \in 0..(B - 1) : Bit(value, k)}) % 2 = 0
  /\ "OF" \in f <=> ~SignedWithin(n, signed)
  /\ "AF" \in f <=> ~Within(B \div 2, low)

LEMMA SignOf ==
  ASSUME NEW n, Width(n), NEW x \in Int
  PROVE  Bit(x, n - 1) <=> ~SignedWithin(n, x % 2^n)
<1>1. PICK p \in Nat \ {0} : 2^n = 2 * p /\ 2^(n - 1) = p
  BY WidthFacts
<1>2. n - 1 \in Nat /\ n = (n - 1) + 1
  BY WidthFacts
<1>3. Bit(x, n - 1) <=> x % 2^n >= 2^(n - 1)
  BY <1>2, TopBit, Zenon
<1>4. x % 2^n \in 0..(2 * p - 1)
  BY <1>1
<1>5. SignedWithin(n, x % 2^n) <=> x % 2^n < p
  BY <1>1, <1>4 DEF SignedWithin
<1>6. Bit(x, n - 1) <=> ~SignedWithin(n, x % 2^n)
  BY <1>1, <1>3, <1>4, <1>5
<1>. QED BY <1>6

(* The flags that Result takes from the sign, a chain and perhaps a carry. *)
LEMMA ResultFlags ==
  ASSUME NEW n, Width(n), NEW value \in Int, NEW chain, NEW f, NEW signed, NEW low, NEW cf,
         chain[n - 1] # chain[n - 2] <=> ~SignedWithin(n, signed),
         chain[B \div 2 - 1] <=> ~Within(B \div 2, low)
  PROVE  /\ Flagged(Change(f, Sign(n, value) ++ FromChain(n, chain)), n, value, signed, low)
         /\ "CF" \in Change(f, Sign(n, value) ++ FromChain(n, chain)) <=> "CF" \in f
         /\ LET g == Change(f, Sign(n, value) ++ FromChain(n, chain) ++ [CF |-> cf]) IN
            Flagged(g, n, value, signed, low) /\ ("CF" \in g <=> cf)
<1> DEFINE two == Sign(n, value) ++ FromChain(n, chain)
<1>1. /\ DOMAIN Sign(n, value) = {"SF", "ZF", "PF"}
      /\ Sign(n, value)["SF"] <=> Bit(value, n - 1)
      /\ Sign(n, value)["ZF"] <=> value % 2^n = 0
      /\ Sign(n, value)["PF"] <=> Parity(value)
  BY DEF Sign
<1>2. /\ DOMAIN FromChain(n, chain) = {"OF", "AF"}
      /\ FromChain(n, chain)["OF"] <=> chain[n - 1] # chain[n - 2]
      /\ FromChain(n, chain)["AF"] <=> chain[B \div 2 - 1]
  BY DEF FromChain
<1>3. /\ DOMAIN two = {"SF", "ZF", "PF", "OF", "AF"}
      /\ two["SF"] <=> Bit(value, n - 1)
      /\ two["ZF"] <=> value % 2^n = 0
      /\ two["PF"] <=> Parity(value)
      /\ two["OF"] <=> chain[n - 1] # chain[n - 2]
      /\ two["AF"] <=> chain[B \div 2 - 1]
  <2> DEFINE S == Sign(n, value)
             F == FromChain(n, chain)
  <2>1. /\ DOMAIN S = {"SF", "ZF", "PF"} /\ DOMAIN F = {"OF", "AF"}
        /\ S["SF"] <=> Bit(value, n - 1)
        /\ S["ZF"] <=> value % 2^n = 0
        /\ S["PF"] <=> Parity(value)
        /\ F["OF"] <=> chain[n - 1] # chain[n - 2]
        /\ F["AF"] <=> chain[B \div 2 - 1]
    BY <1>1, <1>2
  <2>. HIDE DEF S, F
  <2>2. /\ DOMAIN (S ++ F) = {"SF", "ZF", "PF", "OF", "AF"}
        /\ (S ++ F)["SF"] = S["SF"] /\ (S ++ F)["ZF"] = S["ZF"] /\ (S ++ F)["PF"] = S["PF"]
        /\ (S ++ F)["OF"] = F["OF"] /\ (S ++ F)["AF"] = F["AF"]
    <3>1. DOMAIN (S ++ F) = DOMAIN S \cup DOMAIN F
      BY DEF ++
    <3>2. \A x \in DOMAIN S : (S ++ F)[x] = S[x]
      BY DEF ++
    <3>3. \A x \in DOMAIN F : x \in DOMAIN S \/ (S ++ F)[x] = F[x]
      BY DEF ++
    <3>. QED BY <2>1, <3>1, <3>2, <3>3
  <2>3. two = S ++ F
    BY DEF S, F
  <2>. HIDE DEF two
  <2>. QED BY <2>1, <2>2, <2>3
<1>4. Parity(value) <=> Cardinality({k \in 0..(B - 1) : Bit(value, k)}) % 2 = 0
  BY DEF Parity, Ones
<1>5. ASSUME NEW on, {"SF", "ZF", "PF", "OF", "AF"} \subseteq DOMAIN on,
             \A x \in {"SF", "ZF", "PF", "OF", "AF"} : on[x] = two[x]
      PROVE  Flagged(Change(f, on), n, value, signed, low)
  <2>1. \A x \in {"SF", "ZF", "PF", "OF", "AF"} : x \in Change(f, on) <=> two[x]
    BY <1>5, Changed, FlagNames
  <2>2. Bit(value, n - 1) <=> ~SignedWithin(n, value % 2^n)
    BY SignOf
  <2>. HIDE DEF two
  <2>. QED BY <2>1, <2>2, <1>3, <1>4, Zenon DEF Flagged
<1>6. Flagged(Change(f, two), n, value, signed, low)
  BY <1>3, <1>5
<1>7. "CF" \in Change(f, two) <=> "CF" \in f
  BY <1>3, Changed
<1>8. LET g == Change(f, two ++ [CF |-> cf]) IN
      Flagged(g, n, value, signed, low) /\ ("CF" \in g <=> cf)
  <2>1. /\ DOMAIN (two ++ [CF |-> cf]) = {"SF", "ZF", "PF", "OF", "AF", "CF"}
        /\ \A x \in {"SF", "ZF", "PF", "OF", "AF"} : (two ++ [CF |-> cf])[x] = two[x]
        /\ (two ++ [CF |-> cf])["CF"] = cf
    <3> DEFINE c == [CF |-> cf]
    <3>1. DOMAIN c = {"CF"} /\ c["CF"] = cf
      OBVIOUS
    <3>. HIDE DEF two, c
    <3>2. DOMAIN (two ++ c) = DOMAIN two \cup DOMAIN c
      BY DEF ++
    <3>3. \A x \in DOMAIN two : (two ++ c)[x] = two[x]
      BY DEF ++
    <3>4. \A x \in DOMAIN c : x \in DOMAIN two \/ (two ++ c)[x] = c[x]
      BY DEF ++
    <3>5. /\ DOMAIN (two ++ c) = {"SF", "ZF", "PF", "OF", "AF", "CF"}
          /\ \A x \in {"SF", "ZF", "PF", "OF", "AF"} : (two ++ c)[x] = two[x]
          /\ (two ++ c)["CF"] = cf
      BY <3>1, <3>2, <3>3, <3>4, <1>3
    <3>. QED BY <3>5 DEF c
  <2>. HIDE DEF two
  <2>2. Flagged(Change(f, two ++ [CF |-> cf]), n, value, signed, low)
    BY <2>1, <1>5
  <2>3. "CF" \in Change(f, two ++ [CF |-> cf]) <=> cf
    BY <2>1, Changed, FlagNames
  <2>. QED BY <2>2, <2>3
<1>. QED BY <1>6, <1>7, <1>8, Zenon

-----------------------------------------------------------------------------
(* add, adc, sub, sbb, cmp, inc, dec and neg: results and flags.           *)

LEMMA ResultParts == \A a, b : [res |-> a, f |-> b].res = a /\ [res |-> a, f |-> b].f = b
OBVIOUS

LEMMA SumIs ==
  ASSUME NEW n, Width(n), NEW d \in 0..(2^n - 1), NEW s \in 0..(2^n - 1), NEW c \in 0..1, NEW f
  PROVE  LET r == Addition(n, d, s, c, f) IN
         /\ r.res = (d + s + c) % 2^n
         /\ Flagged(r.f, n, d + s + c, Signed(n, d) + Signed(n, s) + c,
                    (d % Nibble) + (s % Nibble) + c)
         /\ "CF" \in r.f <=> ~Within(n, d + s + c)
<1>1. PICK N \in Nat \ {0} : 2^n = N /\ 2^(n + 1) = 2 * N /\ n \in Nat
  BY WidthFacts, PowerNext, PowerPositive
<1>2. d \in Int /\ s \in Int /\ d + s + c \in Int
  BY <1>1
<1> DEFINE chain == Carries(d, s, d + s + c)
<1>3. chain[n - 1] # chain[n - 2] <=> ~SignedWithin(n, Signed(n, d) + Signed(n, s) + c)
  BY SumOverflow, Zenon
<1>4. chain[B \div 2 - 1] <=> ~Within(B \div 2, (d % Nibble) + (s % Nibble) + c)
  BY <1>2, SumNibble, Zenon
<1>. HIDE DEF chain
<1> DEFINE g == Change(f, Sign(n, d + s + c) ++ FromChain(n, chain) ++ [CF |-> Bit(d + s + c, n)])
<1>5. /\ Flagged(g, n, d + s + c, Signed(n, d) + Signed(n, s) + c,
                 (d % Nibble) + (s % Nibble) + c)
      /\ "CF" \in g <=> Bit(d + s + c, n)
  <2> DEFINE cf == Bit(d + s + c, n)
             v  == d + s + c
             sg == Signed(n, d) + Signed(n, s) + c
             lo == (d % Nibble) + (s % Nibble) + c
  <2>1. /\ v \in Int
        /\ chain[n - 1] # chain[n - 2] <=> ~SignedWithin(n, sg)
        /\ chain[B \div 2 - 1] <=> ~Within(B \div 2, lo)
    BY <1>2, <1>3, <1>4, Zenon
  <2>. HIDE DEF cf, v, sg, lo
  <2>2. LET h == Change(f, Sign(n, v) ++ FromChain(n, chain) ++ [CF |-> cf])
        IN  Flagged(h, n, v, sg, lo) /\ ("CF" \in h <=> cf)
    BY <2>1, ResultFlags
  <2>. QED BY <2>2, Zenon DEF cf, v, sg, lo
<1>6. Bit(d + s + c, n) <=> ~Within(n, d + s + c)
  <2>1. Bit(d + s + c, n) <=> (d + s + c) % 2^(n + 1) >= 2^n
    BY <1>1, <1>2, TopBit, Zenon
  <2>2. d + s + c \in 0..(2 * N - 1) /\ 2 * N \in Nat \ {0}
    BY <1>1
  <2>3. (d + s + c) % (2 * N) = d + s + c
    BY <2>2, Small, Zenon
  <2>4. Within(n, d + s + c) <=> 0 <= d + s + c /\ d + s + c < N
    BY <1>1 DEF Within
  <2>. QED BY <1>1, <2>1, <2>2, <2>3, <2>4
<1>7. Addition(n, d, s, c, f)
        = [res |-> (d + s + c) % 2^n,
           f |-> Change(f, Sign(n, d + s + c) ++ FromChain(n, chain) ++ [CF |-> Bit(d + s + c, n)])]
  BY Zenon DEF Addition, Result, chain
<1>10. /\ Addition(n, d, s, c, f).res = (d + s + c) % 2^n
       /\ Addition(n, d, s, c, f).f = 
            Change(f, Sign(n, d + s + c) ++ FromChain(n, chain) ++ [CF |-> Bit(d + s + c, n)])
  BY <1>7, ResultParts, ZenonT(60)
<1>. QED BY <1>5, <1>6, <1>10, Zenon

LEMMA DifferenceIs ==
  ASSUME NEW n, Width(n), NEW d \in 0..(2^n - 1), NEW s \in 0..(2^n - 1), NEW c \in 0..1, NEW f
  PROVE  LET r == Difference(n, d, s, c, f) IN
         /\ r.res = (d - s - c) % 2^n
         /\ Flagged(r.f, n, d - s - c, Signed(n, d) - Signed(n, s) - c,
                    (d % Nibble) - (s % Nibble) - c)
         /\ "CF" \in r.f <=> ~Within(n, d - s - c)
<1>1. PICK N \in Nat \ {0} : 2^n = N /\ n \in Nat
  BY WidthFacts, PowerPositive
<1>2. d \in Int /\ s \in Int /\ d - s - c \in Int
  BY <1>1
<1> DEFINE chain == Borrows(d, s, d - s - c)
<1>3. /\ chain[n - 1] # chain[n - 2] <=> ~SignedWithin(n, Signed(n, d) - Signed(n, s) - c)
      /\ chain[n - 1] <=> d - s - c < 0
  BY DifferenceOverflow, Zenon
<1>4. chain[B \div 2 - 1] <=> ~Within(B \div 2, (d % Nibble) - (s % Nibble) - c)
  BY <1>2, DifferenceNibble, Zenon
<1>. HIDE DEF chain
<1> DEFINE g == Change(f, Sign(n, d - s - c) ++ FromChain(n, chain) ++ [CF |-> chain[n - 1]])
<1>5. /\ Flagged(g, n, d - s - c, Signed(n, d) - Signed(n, s) - c,
                 (d % Nibble) - (s % Nibble) - c)
      /\ "CF" \in g <=> chain[n - 1]
  <2> DEFINE cf == chain[n - 1]
             v  == d - s - c
             sg == Signed(n, d) - Signed(n, s) - c
             lo == (d % Nibble) - (s % Nibble) - c
  <2>1. /\ v \in Int
        /\ chain[n - 1] # chain[n - 2] <=> ~SignedWithin(n, sg)
        /\ chain[B \div 2 - 1] <=> ~Within(B \div 2, lo)
    BY <1>2, <1>3, <1>4, Zenon
  <2>. HIDE DEF cf, v, sg, lo
  <2>2. LET h == Change(f, Sign(n, v) ++ FromChain(n, chain) ++ [CF |-> cf])
        IN  Flagged(h, n, v, sg, lo) /\ ("CF" \in h <=> cf)
    BY <2>1, ResultFlags
  <2>. QED BY <2>2, Zenon DEF cf, v, sg, lo
<1>6. chain[n - 1] <=> ~Within(n, d - s - c)
  <2>1. d - s - c < N
    BY <1>1
  <2>. QED BY <1>1, <1>2, <1>3, <2>1 DEF Within
<1>7. Difference(n, d, s, c, f)
        = [res |-> (d - s - c) % 2^n,
           f |-> Change(f, Sign(n, d - s - c) ++ FromChain(n, chain) ++ [CF |-> chain[n - 1]])]
  BY Zenon DEF Difference, Result, chain
<1>10. /\ Difference(n, d, s, c, f).res = (d - s - c) % 2^n
       /\ Difference(n, d, s, c, f).f = 
            Change(f, Sign(n, d - s - c) ++ FromChain(n, chain) ++ [CF |-> chain[n - 1]])
  BY <1>7, ResultParts, ZenonT(60)
<1>. QED BY <1>5, <1>6, <1>10, Zenon

LEMMA OneAndZero ==
  ASSUME NEW n, Width(n)
  PROVE  /\ 0 \in 0..(2^n - 1) /\ 1 \in 0..(2^n - 1)
         /\ Signed(n, 0) = 0 /\ Signed(n, 1) = 1
         /\ 0 % Nibble = 0 /\ 1 % Nibble = 1
<1>1. PICK p \in Nat \ {0} : 2^n = 2 * p /\ 2^(n - 1) = p
  BY WidthFacts
<1>2. p >= 2
  <2>1. n - 2 \in Nat /\ n - 1 = (n - 2) + 1
    BY WidthFacts
  <2>2. 2^((n - 2) + 1) = 2 * 2^(n - 2) /\ 2^(n - 2) \in Nat \ {0}
    BY <2>1, PowerNext, PowerPositive
  <2>. QED BY <1>1, <2>1, <2>2
<1>3. \A x \in {0, 1} : x \in 0..(2 * p - 1)
  BY <1>2
<1>4. \A x \in {0, 1} : Signed(n, x) = x
  <2>1. SUFFICES ASSUME NEW x \in {0, 1} PROVE Signed(n, x) = x
    OBVIOUS
  <2>2. PICK b, l : Topped(n, p, x, b, l)
    BY <1>1, <1>3, TopOf
  <2>3. b \in 0..1 /\ l \in 0..(p - 1) /\ x = p * b + l /\ (Bit(x, n - 1) <=> b = 1)
    BY <2>2 DEF Topped
  <2>4. b = 0
    BY <1>2, <2>3
  <2>. QED BY <2>3, <2>4 DEF Signed
<1>5. 0 % Nibble = 0 /\ 1 % Nibble = 1
  <2>1. \A x \in {0, 1} : x \in 0..(Nibble - 1) /\ Nibble \in Nat \ {0}
    BY HalfByte
  <2>. QED BY <2>1, Small, Zenon
<1>. QED BY <1>1, <1>2, <1>4, <1>5

LEMMA IncIs ==
  ASSUME NEW n, Width(n), NEW d \in 0..(2^n - 1), NEW f
  PROVE  LET r == inc(n, d, f) IN
         /\ r.res = (d + 1) % 2^n
         /\ Flagged(r.f, n, d + 1, Signed(n, d) + 1, (d % Nibble) + 1)
         /\ "CF" \in r.f <=> "CF" \in f
<1>1. PICK N \in Nat \ {0} : 2^n = N /\ n \in Nat
  BY WidthFacts, PowerPositive
<1>2. d \in Int /\ 1 \in 0..(2^n - 1) /\ Signed(n, 1) = 1 /\ 1 % Nibble = 1 /\ 1 \in Int /\ 0 \in 0..1
  BY <1>1, OneAndZero
<1>3. d + 1 + 0 = d + 1 /\ d + 1 \in Int
  BY <1>2
<1>4. Signed(n, d) \in Int /\ d % Nibble \in Int
  BY <1>1, <1>2, HalfByte DEF Signed
<1>5. Signed(n, d) + 1 + 0 = Signed(n, d) + 1 /\ (d % Nibble) + 1 + 0 = (d % Nibble) + 1
  BY <1>4
<1> DEFINE chain == Carries(d, 1, d + 1)
<1>6. chain[n - 1] # chain[n - 2] <=> ~SignedWithin(n, Signed(n, d) + 1)
  <2>1. LET c == Carries(d, 1, d + 1 + 0) IN
        c[n - 1] # c[n - 2] <=> ~SignedWithin(n, Signed(n, d) + Signed(n, 1) + 0)
    BY <1>2, SumOverflow, Zenon
  <2>. QED BY <1>2, <1>3, <1>5, <2>1, Zenon
<1>7. chain[B \div 2 - 1] <=> ~Within(B \div 2, (d % Nibble) + 1)
  <2>1. Carries(d, 1, d + 1 + 0)[B \div 2 - 1]
          <=> ~Within(B \div 2, (d % Nibble) + (1 % Nibble) + 0)
    BY <1>2, SumNibble, Zenon
  <2>. QED BY <1>2, <1>3, <1>5, <2>1, Zenon
<1>. HIDE DEF chain
<1>8. LET g == Change(f, Sign(n, d + 1) ++ FromChain(n, chain))
      IN  Flagged(g, n, d + 1, Signed(n, d) + 1, (d % Nibble) + 1) /\ ("CF" \in g <=> "CF" \in f)
  BY <1>3, <1>6, <1>7, ResultFlags, ZenonT(60)
<1>9. inc(n, d, f)
        = [res |-> (d + 1) % 2^n, f |-> Change(f, Sign(n, d + 1) ++ FromChain(n, chain))]
  BY Zenon DEF inc, Result, chain
<1>10. /\ inc(n, d, f).res = (d + 1) % 2^n
       /\ inc(n, d, f).f = 
            Change(f, Sign(n, d + 1) ++ FromChain(n, chain))
  BY <1>9, ResultParts, ZenonT(60)
<1>. QED BY <1>8, <1>10, Zenon

LEMMA DecIs ==
  ASSUME NEW n, Width(n), NEW d \in 0..(2^n - 1), NEW f
  PROVE  LET r == dec(n, d, f) IN
         /\ r.res = (d - 1) % 2^n
         /\ Flagged(r.f, n, d - 1, Signed(n, d) - 1, (d % Nibble) - 1)
         /\ "CF" \in r.f <=> "CF" \in f
<1>1. PICK N \in Nat \ {0} : 2^n = N /\ n \in Nat
  BY WidthFacts, PowerPositive
<1>2. d \in Int /\ 1 \in 0..(2^n - 1) /\ Signed(n, 1) = 1 /\ 1 % Nibble = 1 /\ 1 \in Int /\ 0 \in 0..1
  BY <1>1, OneAndZero
<1>3. d - 1 - 0 = d - 1 /\ d - 1 \in Int
  BY <1>2
<1>4. Signed(n, d) \in Int /\ d % Nibble \in Int
  BY <1>1, <1>2, HalfByte DEF Signed
<1>5. Signed(n, d) - 1 - 0 = Signed(n, d) - 1 /\ (d % Nibble) - 1 - 0 = (d % Nibble) - 1
  BY <1>4
<1> DEFINE chain == Borrows(d, 1, d - 1)
<1>6. chain[n - 1] # chain[n - 2] <=> ~SignedWithin(n, Signed(n, d) - 1)
  <2>1. LET c == Borrows(d, 1, d - 1 - 0) IN
        c[n - 1] # c[n - 2] <=> ~SignedWithin(n, Signed(n, d) - Signed(n, 1) - 0)
    BY <1>2, DifferenceOverflow, Zenon
  <2>. QED BY <1>2, <1>3, <1>5, <2>1, Zenon
<1>7. chain[B \div 2 - 1] <=> ~Within(B \div 2, (d % Nibble) - 1)
  <2>1. Borrows(d, 1, d - 1 - 0)[B \div 2 - 1]
          <=> ~Within(B \div 2, (d % Nibble) - (1 % Nibble) - 0)
    BY <1>2, DifferenceNibble, Zenon
  <2>. QED BY <1>2, <1>3, <1>5, <2>1, Zenon
<1>. HIDE DEF chain
<1>8. LET g == Change(f, Sign(n, d - 1) ++ FromChain(n, chain))
      IN  Flagged(g, n, d - 1, Signed(n, d) - 1, (d % Nibble) - 1) /\ ("CF" \in g <=> "CF" \in f)
  BY <1>3, <1>6, <1>7, ResultFlags, ZenonT(60)
<1>9. dec(n, d, f)
        = [res |-> (d - 1) % 2^n, f |-> Change(f, Sign(n, d - 1) ++ FromChain(n, chain))]
  BY Zenon DEF dec, Result, chain
<1>10. /\ dec(n, d, f).res = (d - 1) % 2^n
       /\ dec(n, d, f).f = 
            Change(f, Sign(n, d - 1) ++ FromChain(n, chain))
  BY <1>9, ResultParts, ZenonT(60)
<1>. QED BY <1>8, <1>10, Zenon

LEMMA NegIs ==
  ASSUME NEW n, Width(n), NEW s \in 0..(2^n - 1), NEW f
  PROVE  LET r == neg(n, s, f) IN
         /\ r.res = (-s) % 2^n
         /\ Flagged(r.f, n, -s, -Signed(n, s), -(s % Nibble))
         /\ "CF" \in r.f <=> s # 0
<1>1. PICK N \in Nat \ {0} : 2^n = N /\ n \in Nat
  BY WidthFacts, PowerPositive
<1>2. s \in Int /\ 0 \in 0..(2^n - 1) /\ Signed(n, 0) = 0 /\ 0 % Nibble = 0 /\ 0 \in Int /\ 0 \in 0..1
  BY <1>1, OneAndZero
<1>3. 0 - s - 0 = -s /\ -s \in Int
  BY <1>2
<1>4. Signed(n, s) \in Int /\ s % Nibble \in Int
  BY <1>1, <1>2, HalfByte DEF Signed
<1>5. 0 - Signed(n, s) - 0 = -Signed(n, s) /\ 0 - (s % Nibble) - 0 = -(s % Nibble)
  BY <1>4
<1> DEFINE chain == Borrows(0, s, -s)
<1>6. chain[n - 1] # chain[n - 2] <=> ~SignedWithin(n, -Signed(n, s))
  <2>1. LET c == Borrows(0, s, 0 - s - 0) IN
        c[n - 1] # c[n - 2] <=> ~SignedWithin(n, Signed(n, 0) - Signed(n, s) - 0)
    BY <1>2, DifferenceOverflow, Zenon
  <2>. QED BY <1>2, <1>3, <1>5, <2>1, Zenon
<1>7. chain[B \div 2 - 1] <=> ~Within(B \div 2, -(s % Nibble))
  <2>1. Borrows(0, s, 0 - s - 0)[B \div 2 - 1]
          <=> ~Within(B \div 2, (0 % Nibble) - (s % Nibble) - 0)
    BY <1>2, DifferenceNibble, Zenon
  <2>. QED BY <1>2, <1>3, <1>5, <2>1, Zenon
<1>. HIDE DEF chain
<1>8. LET g == Change(f, Sign(n, -s) ++ FromChain(n, chain) ++ [CF |-> s # 0])
      IN  Flagged(g, n, -s, -Signed(n, s), -(s % Nibble)) /\ ("CF" \in g <=> s # 0)
  BY <1>3, <1>6, <1>7, ResultFlags, ZenonT(60)
<1>9. neg(n, s, f)
        = [res |-> (-s) % 2^n,
           f |-> Change(f, Sign(n, -s) ++ FromChain(n, chain) ++ [CF |-> s # 0])]
  BY Zenon DEF neg, Result, chain
<1>10. /\ neg(n, s, f).res = (-s) % 2^n
       /\ neg(n, s, f).f = 
            Change(f, Sign(n, -s) ++ FromChain(n, chain) ++ [CF |-> s # 0])
  BY <1>9, ResultParts, ZenonT(60)
<1>. QED BY <1>8, <1>10, Zenon

-----------------------------------------------------------------------------
(* A machine's fields, and what fetching, decoding and finishing an        *)
(* instruction leave alone.                                                *)

(* A record with a machine's fields; and one that differs from m at most in *)
(* its registers, its flags, its instruction pointer, its overrides, its    *)
(* junk and its memory.                                                     *)
Fields(m) ==
  m = [reg |-> m.reg, seg |-> m.seg, ip |-> m.ip, flg |-> m.flg, mode |-> m.mode,
       intr |-> m.intr, mem |-> m.mem, stop |-> m.stop, start |-> m.start,
       junk |-> m.junk, dummy |-> m.dummy, dead |-> m.dead]

Step(m, e, reg, flg, ip) ==
  /\ Fields(e)
  /\ e.reg = reg /\ e.flg = flg /\ e.ip = ip
  /\ e.intr = m.intr /\ e.stop = m.stop /\ e.dead = m.dead

LEMMA MachineFields ==
  ASSUME NEW m, IsMachine(m)
  PROVE  Fields(m)
BY DEF IsMachine, Fields

LEMMA StepFields == ASSUME NEW m, NEW e, NEW reg, NEW flg, NEW ip, Step(m, e, reg, flg, ip)
                    PROVE  Fields(e)
BY DEF Step

LEMMA FlagsSet ==
  ASSUME NEW m, NEW e, NEW reg, NEW flg, NEW ip, Step(m, e, reg, flg, ip), NEW f
  PROVE  Step(m, [e EXCEPT !.flg = f], reg, f, ip)
BY DEF Step, Fields

LEMMA RegsSet ==
  ASSUME NEW m, NEW e, NEW reg, NEW flg, NEW ip, Step(m, e, reg, flg, ip), NEW r
  PROVE  Step(m, [e EXCEPT !.reg = r], r, flg, ip)
BY DEF Step, Fields

LEMMA IpSet ==
  ASSUME NEW m, NEW e, NEW reg, NEW flg, NEW ip, Step(m, e, reg, flg, ip), NEW p
  PROVE  Step(m, [e EXCEPT !.ip = p], reg, flg, p)
BY DEF Step, Fields

LEMMA ModeSet ==
  ASSUME NEW m, NEW e, NEW reg, NEW flg, NEW ip, Step(m, e, reg, flg, ip), NEW p
  PROVE  Step(m, [e EXCEPT !.mode = p], reg, flg, ip)
BY DEF Step, Fields

LEMMA JunkSet ==
  ASSUME NEW m, NEW e, NEW reg, NEW flg, NEW ip, Step(m, e, reg, flg, ip), NEW p
  PROVE  Step(m, [e EXCEPT !.junk = p], reg, flg, ip)
BY DEF Step, Fields

LEMMA Steps ==
  ASSUME NEW m, NEW e, NEW reg, NEW flg, NEW ip, Step(m, e, reg, flg, ip), ip \in Int
  PROVE  /\ Step(m, Clear(e), reg, flg, ip)
         /\ \A k \in Nat : Step(m, Skip(e, k), reg, flg, (ip + k) % Word)
         /\ \A p : Step(m, Goto(e, p), reg, flg, p % Word)
<1>1. Step(m, Clear(e), reg, flg, ip)
  BY ModeSet DEF Clear
<1>2. ASSUME NEW k \in Nat PROVE Step(m, Skip(e, k), reg, flg, (ip + k) % Word)
  <2>1. e.ip = ip /\ Skip(e, k) = [e EXCEPT !.ip = (e.ip + k) % Word]
    BY DEF Step, Skip
  <2>2. \A p : Step(m, [e EXCEPT !.ip = p], reg, flg, p)
    BY IpSet, Zenon
  <2>. QED BY <2>1, <2>2
<1>3. ASSUME NEW p PROVE Step(m, Goto(e, p), reg, flg, p % Word)
  BY IpSet, Zenon DEF Goto
<1>. QED BY <1>1, <1>2, <1>3

(* An operand in a register is decoded, read and replaced without memory.  *)
LEMMA InRegister ==
  ASSUME NEW m, NEW e, NEW reg, NEW flg, NEW ip, Step(m, e, reg, flg, ip), ip \in Int,
         NEW i, i.mod = 3
  PROVE  /\ Step(m, Decode(e, i), reg, flg, (ip + 1) % Word)
         /\ Read(e, i) = e /\ RM(e, i) = Reg(e, i.w, i.rl)
         /\ \A v : Put(e, i, v) = SetReg(e, i.w, i.rl, v)
<1>1. Displacement(i) = 0 /\ 1 + Displacement(i) = 1 /\ ~OnStack(i)
  BY DEF Displacement, OnStack
<1>2. Step(m, Skip(e, 1), reg, flg, (ip + 1) % Word)
  BY Steps
<1>3. Decode(e, i) = [Skip(e, 1) EXCEPT !.mode = @]
  BY <1>1 DEF Decode
<1>4. Step(m, Decode(e, i), reg, flg, (ip + 1) % Word)
  BY <1>2, <1>3, ModeSet
<1>. QED BY <1>4 DEF Read, RM, Put

(* What surrounds every handler.                                           *)
Fetch(m, j) == [m EXCEPT !.ip = (@ + 1) % Word, !.junk = j]

Finish(m) == [Checks(m) EXCEPT !.junk = 0]

Stepped(m, i, j) == [X86EMU_exec(m, i, j) EXCEPT !.junk = 0]

LEMMA Around ==
  ASSUME NEW m, NEW i, NEW j
  PROVE  Stepped(m, i, j) = Finish(Handled(Fetch(m, j), i))
BY DEF Stepped, X86EMU_exec, Finish, Fetch

LEMMA Fetching ==
  ASSUME NEW m, Fields(m), NEW j
  PROVE  Step(m, Fetch(m, j), m.reg, m.flg, (m.ip + 1) % Word)
<1>1. Step(m, m, m.reg, m.flg, m.ip)
  BY DEF Step
<1>2. Step(m, [m EXCEPT !.ip = (m.ip + 1) % Word], m.reg, m.flg, (m.ip + 1) % Word)
  BY <1>1, IpSet, Zenon
<1>3. Fetch(m, j) = [[m EXCEPT !.ip = (m.ip + 1) % Word] EXCEPT !.junk = j]
  BY DEF Fetch
<1>4. \A e : Step(m, e, m.reg, m.flg, (m.ip + 1) % Word)
               => Step(m, [e EXCEPT !.junk = j], m.reg, m.flg, (m.ip + 1) % Word)
  BY JunkSet, Zenon
<1>. QED BY <1>2, <1>3, <1>4

(* The checks after a handler may stop the program, and change no register. *)
LEMMA Finishing ==
  ASSUME NEW m, NEW e, NEW reg, NEW flg, NEW ip, Step(m, e, reg, flg, ip)
  PROVE  /\ Fields(Finish(e))
         /\ Finish(e).reg = reg /\ Finish(e).flg = flg /\ Finish(e).ip = ip
         /\ m.intr = {} => Step(m, Finish(e), reg, flg, ip)
<1>1. \/ Checks(e) = e
      \/ /\ m.intr # {}
         /\ Checks(e) = [[e EXCEPT !.stop = TRUE] EXCEPT !.intr = {}]
  BY DEF Checks, SystemHalted, Step
<1>2. Step(m, Finish(e), reg, flg, ip) \/ m.intr # {}
  BY <1>1, JunkSet, Zenon DEF Finish
<1>3. /\ Fields(Checks(e)) /\ Checks(e).reg = reg /\ Checks(e).flg = flg /\ Checks(e).ip = ip
  BY <1>1 DEF Step, Fields
<1>4. /\ Fields(Finish(e)) /\ Finish(e).reg = reg /\ Finish(e).flg = flg /\ Finish(e).ip = ip
  BY <1>3 DEF Finish, Fields
<1>. QED BY <1>2, <1>4

-----------------------------------------------------------------------------
(* Registers and their halves.                                             *)

(* The halves of a word.                                                    *)
LEMMA Halves ==
  ASSUME NEW x \in Words
  PROVE  /\ Lo(x) \in 0..(Byte - 1) /\ Hi(x) \in 0..(Byte - 1)
         /\ x = Byte * Hi(x) + Lo(x)
<1>1. PICK b \in Nat \ {0} : b = Byte /\ Word = b * b
  BY HalfByte
<1>2. x \in Int /\ 0 <= x /\ x < b * b
  BY <1>1 DEF Words
<1>3. PICK q \in Int, l \in 0..(b - 1) : q = x \div b /\ l = x % b /\ x = b * q + l
  BY <1>2, Division
<1>4. q \in 0..(b - 1)
  <2>1. CASE q < 0
    <3>1. b * q <= b * (-1)
      BY <2>1
    <3>. QED BY <1>2, <1>3, <3>1
  <2>2. CASE q >= b
    <3>1. b * q >= b * b
      BY <2>2
    <3>. QED BY <1>2, <1>3, <3>1
  <2>. QED BY <2>1, <2>2
<1>. QED BY <1>1, <1>3, <1>4 DEF Lo, Hi

LEMMA Joined ==
  ASSUME NEW h \in 0..(Byte - 1), NEW l \in 0..(Byte - 1)
  PROVE  /\ Byte * h + l \in Words
         /\ Lo(Byte * h + l) = l /\ Hi(Byte * h + l) = h
<1>1. PICK b \in Nat \ {0} : b = Byte /\ Word = b * b
  BY HalfByte
<1>2. b * h <= b * (b - 1) /\ b * h >= 0
  BY <1>1
<1>3. b * h + l \in 0..(b * b - 1)
  BY <1>1, <1>2
<1>4. (b * h + l) \div b = h /\ (b * h + l) % b = l
  BY <1>1, <1>3, DivisionUnique
<1>. QED BY <1>1, <1>3, <1>4 DEF Words, Lo, Hi

LEMMA WithHalf ==
  ASSUME NEW x \in Words, NEW v \in 0..(Byte - 1)
  PROVE  /\ WithLo(x, v) \in Words /\ Lo(WithLo(x, v)) = v /\ Hi(WithLo(x, v)) = Hi(x)
         /\ WithHi(x, v) \in Words /\ Hi(WithHi(x, v)) = v /\ Lo(WithHi(x, v)) = Lo(x)
BY Halves, Joined, Zenon DEF WithLo, WithHi

(* The registers.                                                           *)
Names == {"AX", "CX", "DX", "BX", "SP", "BP", "SI", "DI"}

LEMMA RegNames ==
  /\ \A k \in 0..7 : GeneralRegs[k + 1] \in Names
  /\ \A k, l \in 0..7 : GeneralRegs[k + 1] = GeneralRegs[l + 1] => k = l
  /\ GeneralRegs[1] = "AX" /\ GeneralRegs[2] = "CX" /\ GeneralRegs[3] = "DX"
BY DEF GeneralRegs, Names

LEMMA BitsWidth ==
  ASSUME NEW w \in {1, 2}
  PROVE  /\ Width(Bits(w)) /\ Bits(1) = B /\ Bits(2) = 2 * B
         /\ 2^Bits(1) = Byte /\ 2^Bits(2) = Word
<1>1. Bits(1) = B /\ Bits(2) = 2 * B
  BY PrimOpsAssumption DEF Bits
<1>. QED BY <1>1 DEF Width, Byte, Word

LEMMA RegValue ==
  ASSUME NEW m, m.reg \in [Names -> Words], NEW w \in {1, 2}, NEW k \in 0..7
  PROVE  Reg(m, w, k) \in 0..(2^Bits(w) - 1)
<1>1. CASE w = 2
  BY <1>1, RegNames, BitsWidth DEF Reg, Words
<1>2. CASE w = 1 /\ k < 4
  <2>1. m.reg[GeneralRegs[k + 1]] \in Words
    BY RegNames
  <2>. QED BY <1>2, <2>1, Halves, BitsWidth DEF Reg
<1>3. CASE w = 1 /\ k >= 4
  <2>1. k - 4 \in 0..7 /\ k - 3 = (k - 4) + 1
    BY <1>3
  <2>2. m.reg[GeneralRegs[k - 3]] \in Words
    BY <2>1, RegNames
  <2>. QED BY <1>3, <2>2, Halves, BitsWidth DEF Reg
<1>. QED BY <1>1, <1>2, <1>3

(* The name of the register that number k is, or is a half of.              *)
Whole(w, k) == IF w = 1 /\ k >= 4 THEN GeneralRegs[k - 3] ELSE GeneralRegs[k + 1]

(* The registers after k was replaced by v.                                 *)
Replaced(old, new, w, k, v) ==
  /\ new \in [Names -> Words]
  /\ \A e : e.reg = new => Reg(e, w, k) = v
  /\ \A x \in Names : x # Whole(w, k) => new[x] = old[x]
  /\ w = 1 /\ k < 4 => Hi(new[Whole(w, k)]) = Hi(old[Whole(w, k)])
  /\ w = 1 /\ k >= 4 => Lo(new[Whole(w, k)]) = Lo(old[Whole(w, k)])

LEMMA RegSet ==
  ASSUME NEW m, NEW e, NEW reg, NEW flg, NEW ip, Step(m, e, reg, flg, ip),
         reg \in [Names -> Words], NEW w \in {1, 2}, NEW k \in 0..7, NEW v \in 0..(2^Bits(w) - 1)
  PROVE  \E r : Replaced(reg, r, w, k, v) /\ Step(m, SetReg(e, w, k, v), r, flg, ip)
<1>1. e.reg = reg /\ Whole(w, k) \in Names
  <2>1. CASE w = 1 /\ k >= 4
    <3>1. k - 4 \in 0..7 /\ k - 3 = (k - 4) + 1
      BY <2>1
    <3>. QED BY <2>1, <3>1, RegNames DEF Step, Whole
  <2>2. CASE ~(w = 1 /\ k >= 4)
    BY <2>2, RegNames DEF Step, Whole
  <2>. QED BY <2>1, <2>2
<1> DEFINE x == reg[Whole(w, k)]
           u == IF w = 2 THEN v ELSE IF k < 4 THEN WithLo(x, v) ELSE WithHi(x, v)
           r == [reg EXCEPT ![Whole(w, k)] = u]
<1>2. x \in Words
  BY <1>1
<1>3. /\ u \in Words
      /\ w = 1 /\ k < 4 => Lo(u) = v /\ Hi(u) = Hi(x)
      /\ w = 1 /\ k >= 4 => Hi(u) = v /\ Lo(u) = Lo(x)
      /\ w = 2 => u = v
  <2>1. CASE w = 2
    BY <2>1, BitsWidth DEF Words
  <2>2. CASE w = 1
    <3>1. v \in 0..(Byte - 1)
      BY <2>2, BitsWidth
    <3>. QED BY <2>2, <3>1, <1>2, WithHalf
  <2>. QED BY <2>1, <2>2
<1>4. SetReg(e, w, k, v) = [e EXCEPT !.reg = r]
  <2>1. /\ w = 2 => SetReg(e, w, k, v) = [e EXCEPT !.reg = [reg EXCEPT ![Whole(w, k)] = v]]
        /\ w = 1 /\ k < 4 =>
             SetReg(e, w, k, v) = [e EXCEPT !.reg = [reg EXCEPT ![Whole(w, k)] = WithLo(x, v)]]
        /\ w = 1 /\ k >= 4 =>
             SetReg(e, w, k, v) = [e EXCEPT !.reg = [reg EXCEPT ![Whole(w, k)] = WithHi(x, v)]]
    BY <1>1 DEF SetReg, Whole
  <2>. QED BY <2>1
<1>5. r \in [Names -> Words]
  BY <1>3
<1>6. r[Whole(w, k)] = u /\ \A y \in Names : y # Whole(w, k) => r[y] = reg[y]
  BY <1>1
<1>. HIDE DEF u, r
<1>7. Step(m, SetReg(e, w, k, v), r, flg, ip)
  <2>1. Step(m, [e EXCEPT !.reg = r], r, flg, ip)
    BY RegsSet
  <2>. QED BY <1>4, <2>1
<1>8. SetReg(e, w, k, v).reg = r
  BY <1>7 DEF Step
<1>9. Reg(SetReg(e, w, k, v), w, k) = v
  <2> DEFINE t == SetReg(e, w, k, v)
  <2>1. t.reg[Whole(w, k)] = u
    BY <1>8, <1>6
  <2>. HIDE DEF t
  <2>2. Reg(t, w, k) = v
    BY <2>1, <1>3 DEF Reg, Whole
  <2>. QED BY <2>2 DEF t
<1>10. /\ w = 1 /\ k < 4 => Hi(r[Whole(w, k)]) = Hi(reg[Whole(w, k)])
       /\ w = 1 /\ k >= 4 => Lo(r[Whole(w, k)]) = Lo(reg[Whole(w, k)])
  BY <1>3, <1>6
<1>11. \A y : y.reg = r => Reg(y, w, k) = v
  BY <1>8, <1>9 DEF Reg
<1>12. Replaced(reg, r, w, k, v)
  BY <1>5, <1>6, <1>10, <1>11 DEF Replaced
<1>. QED BY <1>7, <1>12

-----------------------------------------------------------------------------
(* Behaviours: the machine is where the instructions done have led it.     *)

TwoSteps(i, j) == \E k, l : machine = Stepped(Stepped(origin, i, k), j, l)

(* How the machine has come from the one that the program started on.       *)
Came ==
  /\ IsMachine(origin) /\ origin.intr = {} /\ ~origin.stop /\ ~origin.dead
  /\ job \in Jobs
  /\ done \in Seq(Instructions)
  /\ Len(done) = 0 => machine = origin
  /\ Len(done) = 1 => \E j : machine = Stepped(origin, done[1], j)
  /\ Len(done) = 2 => TwoSteps(done[1], done[2])

LEMMA InitCame == Init => Came
<1>. SUFFICES ASSUME Init PROVE Came
  OBVIOUS
<1>1. IsMachine(origin) /\ origin.intr = {} /\ ~origin.stop /\ ~origin.dead /\ job \in Jobs
  BY JobsAssumption, Zenon DEF Init
<1>2. done \in Seq(Instructions) /\ Len(done) = 0 /\ machine = origin
  BY DEF Init
<1>. QED BY <1>1, <1>2 DEF Came

LEMMA NextCame == Came /\ [Next]_vars => Came'
<1>. SUFFICES ASSUME Came, [Next]_vars PROVE Came'
  OBVIOUS
<1>1. CASE Execute
  <2>1. PICK i \in Code(job)[Len(done) + 1], j \in Junk :
          /\ machine' = Stepped(machine, i, j)
          /\ done' = Append(done, i)
    BY <1>1, Zenon DEF Execute, Stepped
  <2>2. Code(job) \in Seq(SUBSET Instructions)
    BY JobsAssumption DEF Came
  <2>3. Len(done) \in Nat /\ Len(done) < Len(Code(job)) /\ done \in Seq(Instructions)
    BY <1>1 DEF Execute, Came
  <2>4. i \in Instructions
    BY <2>1, <2>2, <2>3
  <2>5. /\ done' \in Seq(Instructions) /\ Len(done') = Len(done) + 1
        /\ done'[Len(done) + 1] = i /\ \A k \in 1..Len(done) : done'[k] = done[k]
    BY <2>1, <2>3, <2>4
  <2>11. Len(done) \in Nat /\ Len(done') = Len(done) + 1
    BY <2>3, <2>5
  <2>6. origin' = origin /\ job' = job
    BY <1>1 DEF Execute
  <2>7. (IsMachine(origin) /\ origin.intr = {} /\ ~origin.stop /\ ~origin.dead /\ job \in Jobs)'
    BY <2>6 DEF Came
  <2>8. Len(done') # 0
    BY <2>3, <2>5
  <2>9. ASSUME Len(done') = 1
        PROVE  \E k : machine' = Stepped(origin', done'[1], k)
    <3>1. Len(done) = 0 /\ done'[1] = i
      BY <2>3, <2>5, <2>9
    <3>2. machine = origin
      BY <3>1 DEF Came
    <3>. QED BY <2>1, <2>6, <3>1, <3>2
  <2>10. ASSUME Len(done') = 2
         PROVE  TwoSteps(done[1], done[2])'
    <3> DEFINE a == Len(done)
               b == Len(done')
    <3>0. a \in Nat /\ b = a + 1 /\ b = 2
      BY <2>10, <2>11
    <3>. HIDE DEF a, b
    <3>4. a = 1
      BY <3>0
    <3>1. Len(done) = 1
      BY <3>4 DEF a
    <3>3. done'[2] = i /\ done'[1] = done[1]
      BY <2>5, <3>1
    <3>2. PICK k : machine = Stepped(origin, done[1], k)
      BY <3>1 DEF Came
    <3>. QED BY <2>1, <2>6, <3>3, <3>2 DEF TwoSteps
  <2>. QED BY <2>5, <2>7, <2>8, <2>9, <2>10, Zenon DEF Came
<1>2. CASE UNCHANGED vars
  BY <1>2 DEF vars, Came, TwoSteps
<1>. QED BY <1>1, <1>2 DEF Next

LEMMA SeqElement ==
  ASSUME NEW S, NEW s \in Seq(S)
  PROVE  \A k \in 1..Len(s) : s[k] \in S
OBVIOUS

LEMMA CameInstructions == Came => \A k \in 1..Len(done) : done[k] \in Instructions
BY SeqElement, Zenon DEF Came

LEMMA CameAlways == Spec => []Came
BY InitCame, NextCame, PTL DEF Spec

-----------------------------------------------------------------------------
(* Handlers of an operand in a register.                                   *)

LEMMA Distribute == \A p, q, r \in Int : p * (r - q) = p * r - p * q
OBVIOUS

LEMMA ModSum ==
  ASSUME NEW p \in Nat \ {0}, NEW a \in Int, NEW b \in Int
  PROVE  ((a % p) + b) % p = (a + b) % p
<1>1. \A x \in Int : \E q \in Int, l \in 0..(p - 1) : l = x % p /\ x = p * q + l
  BY Division
<1>2. PICK c \in Int : c = a + b
  OBVIOUS
<1>3. PICK q \in Int, l \in 0..(p - 1) : l = a % p /\ a = p * q + l
  BY <1>1, Zenon
<1>4. PICK r \in Int, t \in 0..(p - 1) : t = c % p /\ c = p * r + t
  BY <1>1, Zenon
<1>5. PICK y \in Int : y = l + b
  OBVIOUS
<1>6. PICK z \in Int : z = r - q
  OBVIOUS
<1>7. p * z = p * r - p * q
  <2>1. p * (r - q) = p * r - p * q
    BY Distribute
  <2>. QED BY <1>6, <2>1
<1>8. y = p * z + t
  <2>1. PICK pr \in Int, pq \in Int, pz \in Int : pr = p * r /\ pq = p * q /\ pz = p * z
    OBVIOUS
  <2>2. pz = pr - pq /\ a = pq + l /\ c = pr + t /\ c = a + b /\ y = l + b
    BY <1>2, <1>3, <1>4, <1>5, <1>7, <2>1, Zenon
  <2>3. y = pz + t
    BY <2>2
  <2>. QED BY <2>1, <2>3, Zenon
<1>9. y % p = t
  BY <1>8, DivisionUnique, Zenon
<1>. QED BY <1>2, <1>3, <1>4, <1>5, <1>9

(* IP after instructions of two bytes, and further on.                      *)
LEMMA IpPlus ==
  ASSUME NEW a \in Words, NEW k \in Int, NEW l \in Int
  PROVE  /\ (((a + k) % Word) + l) % Word = (a + (k + l)) % Word
         /\ (a + k) % Word \in Words
<1>1. PICK W \in Nat \ {0} : W = Word
  BY HalfByte
<1>2. a \in Int /\ a + k \in Int
  BY <1>1 DEF Words
<1>3. (((a + k) % W) + l) % W = (a + k + l) % W
  BY <1>2, ModSum
<1>4. a + k + l = a + (k + l)
  BY <1>2
<1>5. (a + k) % W \in 0..(W - 1)
  BY <1>2
<1>. QED BY <1>1, <1>3, <1>4, <1>5 DEF Words

(* A handler with both operands in registers: the flags and the result are  *)
(* those of the operation on their values.                                  *)
LEMMA FetchedAny ==
  ASSUME NEW m, Fields(m), m.ip \in Words, NEW i, i.mod = 3, NEW j
  PROVE  LET d == Decode(Fetch(m, j), i) IN
         /\ Step(m, d, m.reg, m.flg, (m.ip + 2) % Word)
         /\ \A w, k : Reg(d, w, k) = Reg(m, w, k)
         /\ Read(d, i) = d /\ RM(d, i) = Reg(m, i.w, i.rl)
         /\ \A e, v : Put(e, i, v) = SetReg(e, i.w, i.rl, v)
<1>1. Fields(m) /\ m.ip \in Words /\ (m.ip + 1) % Word \in Int
  <2>1. (m.ip + 1) % Word \in Words
    BY IpPlus
  <2>. QED BY <2>1, HalfByte DEF Words
<1>2. Step(m, Fetch(m, j), m.reg, m.flg, (m.ip + 1) % Word)
  BY <1>1, Fetching
<1>3. Step(m, Decode(Fetch(m, j), i), m.reg, m.flg, (((m.ip + 1) % Word) + 1) % Word)
  BY <1>1, <1>2, InRegister
<1>4. (((m.ip + 1) % Word) + 1) % Word = (m.ip + 2) % Word
  <2>1. 1 + 1 = 2
    OBVIOUS
  <2>. QED BY <1>1, <2>1, IpPlus
<1>5. Step(m, Decode(Fetch(m, j), i), m.reg, m.flg, (m.ip + 2) % Word)
  BY <1>3, <1>4
<1>6. \A w, k : Reg(Decode(Fetch(m, j), i), w, k) = Reg(m, w, k)
  BY <1>5 DEF Reg, Step
<1>7. \A e : Read(e, i) = e /\ RM(e, i) = Reg(e, i.w, i.rl)
  BY DEF Read, RM
<1>8. \A e, v : Put(e, i, v) = SetReg(e, i.w, i.rl, v)
  BY DEF Put
<1>. QED BY <1>5, <1>6, <1>7, <1>8

LEMMA Fetched2 ==
  ASSUME NEW m, IsMachine(m), NEW i \in Instructions, i.mod = 3, NEW j
  PROVE  LET d == Decode(Fetch(m, j), i) IN
         /\ Step(m, d, m.reg, m.flg, (m.ip + 2) % Word)
         /\ \A w, k : Reg(d, w, k) = Reg(m, w, k)
         /\ Read(d, i) = d /\ RM(d, i) = Reg(m, i.w, i.rl)
         /\ \A e, v : Put(e, i, v) = SetReg(e, i.w, i.rl, v)
<1>1. Fields(m) /\ m.ip \in Words
  BY MachineFields DEF IsMachine
<1>. QED BY <1>1, FetchedAny, Zenon

LEMMA Closing ==
  ASSUME NEW m, m.intr = {}, NEW e, NEW reg, NEW flg, NEW ip, Step(m, e, reg, flg, ip), ip \in Int,
         NEW i, NEW j, Handled(Fetch(m, j), i) = Clear(e)
  PROVE  Step(m, Stepped(m, i, j), reg, flg, ip)
<1>1. Step(m, Clear(e), reg, flg, ip)
  BY Steps
<1>2. Step(m, Finish(Clear(e)), reg, flg, ip)
  BY <1>1, Finishing
<1>. QED BY <1>2, Around

LEMMA Combined ==
  ASSUME NEW m, IsMachine(m), m.intr = {}, NEW i \in Instructions, i.mod = 3, NEW j,
         NEW op, op # "cmp", Handled(Fetch(m, j), i) = RM_R(Fetch(m, j), i, op),
         NEW r, r = Alu(op, Bits(i.w), Reg(m, i.w, i.rl), Reg(m, i.w, i.rh), m.flg),
         r.res \in 0..(2^Bits(i.w) - 1)
  PROVE  \E reg : /\ Replaced(m.reg, reg, i.w, i.rl, r.res)
                  /\ Step(m, Stepped(m, i, j), reg, r.f, (m.ip + 2) % Word)
<1> DEFINE d == Decode(Fetch(m, j), i)
<1>1. /\ Step(m, d, m.reg, m.flg, (m.ip + 2) % Word)
      /\ \A w, k : Reg(d, w, k) = Reg(m, w, k)
      /\ Read(d, i) = d /\ RM(d, i) = Reg(m, i.w, i.rl)
      /\ \A e, v : Put(e, i, v) = SetReg(e, i.w, i.rl, v)
  BY Fetched2, Zenon
<1>2. d.flg = m.flg
  BY <1>1 DEF Step
<1>3. RM_R(Fetch(m, j), i, op) = Clear(SetReg([d EXCEPT !.flg = r.f], i.w, i.rl, r.res))
  BY <1>1, <1>2 DEF RM_R, Combine, Stored
<1>. HIDE DEF d
<1>4. Step(m, [d EXCEPT !.flg = r.f], m.reg, r.f, (m.ip + 2) % Word)
  BY <1>1, FlagsSet
<1>5. m.reg \in [Names -> Words] /\ i.w \in {1, 2} /\ i.rl \in 0..7 /\ m.ip \in Words
  BY DEF IsMachine, Instructions, Names
<1>6. PICK reg : /\ Replaced(m.reg, reg, i.w, i.rl, r.res)
                 /\ Step(m, SetReg([d EXCEPT !.flg = r.f], i.w, i.rl, r.res), reg, r.f,
                         (m.ip + 2) % Word)
  <2> DEFINE e == [d EXCEPT !.flg = r.f]
             v == r.res
             w == i.w
             k == i.rl
             flg == r.f
             ip == (m.ip + 2) % Word
             old == m.reg
  <2>1. /\ Step(m, e, old, flg, ip) /\ old \in [Names -> Words]
        /\ w \in {1, 2} /\ k \in 0..7 /\ v \in 0..(2^Bits(w) - 1)
    BY <1>4, <1>5, Zenon
  <2>. HIDE DEF e, v, w, k, flg, ip, old
  <2>2. \E reg : Replaced(old, reg, w, k, v) /\ Step(m, SetReg(e, w, k, v), reg, flg, ip)
    BY <2>1, RegSet
  <2>. QED BY <2>2, Zenon DEF e, v, w, k, flg, ip, old
<1>7. (m.ip + 2) % Word \in Int
  BY <1>5, IpPlus, HalfByte DEF Words
<1>8. Handled(Fetch(m, j), i) = Clear(SetReg([d EXCEPT !.flg = r.f], i.w, i.rl, r.res))
  BY <1>3
<1>9. Step(m, Stepped(m, i, j), reg, r.f, (m.ip + 2) % Word)
  BY <1>6, <1>7, <1>8, Closing
<1>. QED BY <1>6, <1>9, Zenon

-----------------------------------------------------------------------------
(* Comparisons.                                                            *)

(* What the flags of a comparison say of the numbers compared.              *)
LEMMA Relations ==
  ASSUME NEW n, Width(n), NEW d \in 0..(2^n - 1), NEW s \in 0..(2^n - 1), NEW f, NEW low,
         Flagged(f, n, d - s - 0, Signed(n, d) - Signed(n, s) - 0, low),
         "CF" \in f <=> ~Within(n, d - s - 0)
  PROVE  /\ "CF" \in f <=> d < s
         /\ "ZF" \in f <=> d = s
         /\ Less(f) <=> Signed(n, d) < Signed(n, s)
         /\ d = s <=> Signed(n, d) = Signed(n, s)
         /\ Signed(n, d) \in Int /\ Signed(n, s) \in Int
<1>1. PICK p \in Nat \ {0} : 2^n = 2 * p /\ 2^(n - 1) = p
  BY WidthFacts
<1>2. d \in 0..(2 * p - 1) /\ s \in 0..(2 * p - 1)
  BY <1>1
<1>3. PICK bd, ld : Topped(n, p, d, bd, ld)
  BY <1>1, <1>2, TopOf
<1>4. PICK bs, ls : Topped(n, p, s, bs, ls)
  BY <1>1, <1>2, TopOf
<1>5. /\ bd \in 0..1 /\ ld \in 0..(p - 1) /\ d = p * bd + ld /\ Signed(n, d) = ld - p * bd
      /\ bs \in 0..1 /\ ls \in 0..(p - 1) /\ s = p * bs + ls /\ Signed(n, s) = ls - p * bs
  BY <1>3, <1>4 DEF Topped
<1>6. PICK v \in Int, x \in Int : v = d - s /\ x = Signed(n, d) - Signed(n, s)
  BY <1>2, <1>5
<1>7. d - s - 0 = v /\ Signed(n, d) - Signed(n, s) - 0 = x
  BY <1>2, <1>5, <1>6
<1>8. /\ -(2 * p) < x /\ x < 2 * p
      /\ \/ v = x \/ v = x + 2 * p \/ v = x - 2 * p
      /\ x = 0 <=> v = 0
  <2>1. CASE bd = 0 /\ bs = 0
    BY <1>5, <1>6, <2>1
  <2>2. CASE bd = 0 /\ bs = 1
    BY <1>5, <1>6, <2>2
  <2>3. CASE bd = 1 /\ bs = 0
    BY <1>5, <1>6, <2>3
  <2>4. CASE bd = 1 /\ bs = 1
    BY <1>5, <1>6, <2>4
  <2>. QED BY <1>5, <2>1, <2>2, <2>3, <2>4
<1>9. PICK N \in Nat \ {0} : N = 2 * p
  OBVIOUS
<1>10. v % N = IF x >= 0 THEN x ELSE x + N
  <2> DEFINE l == IF x >= 0 THEN x ELSE x + N
  <2>1. l \in 0..(N - 1)
    BY <1>8, <1>9
  <2>2. \E q \in Int : v = N * q + l
    <3>1. v \in {l, l + N, l - N, l - N - N}
      BY <1>8, <1>9
    <3>2. l = N * 0 + l /\ l + N = N * 1 + l /\ l - N = N * (-1) + l /\ l - N - N = N * (-2) + l
      BY <2>1
    <3>3. 0 \in Int /\ 1 \in Int /\ -1 \in Int /\ -2 \in Int
      OBVIOUS
    <3>. HIDE DEF l
    <3>. QED BY <3>1, <3>2, <3>3, Zenon
  <2>. HIDE DEF l
  <2>3. v % N = l
    BY <2>1, <2>2, DivisionUnique
  <2>. QED BY <2>3 DEF l
<1>11. "SF" \in f <=> (v % N) >= p
  <2>1. v % N \in 0..(N - 1)
    BY <1>8, <1>9, <1>10
  <2>2. SignedWithin(n, v % N) <=> v % N < p
    BY <1>1, <2>1 DEF SignedWithin
  <2>3. "SF" \in f <=> ~SignedWithin(n, v % N)
    BY <1>1, <1>7, <1>9, Zenon DEF Flagged
  <2>. QED BY <2>1, <2>2, <2>3
<1>12. "OF" \in f <=> x < -p \/ x >= p
  <2>1. SignedWithin(n, x) <=> -p <= x /\ x < p
    BY <1>1 DEF SignedWithin
  <2>2. "OF" \in f <=> ~SignedWithin(n, x)
    BY <1>7, Zenon DEF Flagged
  <2>. QED BY <2>1, <2>2
<1>13. Less(f) <=> x < 0
  <2>1. ~((v % N >= p) <=> (x < -p \/ x >= p)) <=> x < 0
    BY <1>8, <1>9, <1>10
  <2>. QED BY <1>11, <1>12, <2>1 DEF Less
<1>14. "ZF" \in f <=> v % N = 0
  BY <1>1, <1>7, <1>9, Zenon DEF Flagged
<1>15. "ZF" \in f <=> v = 0
  BY <1>8, <1>9, <1>10, <1>14
<1>16. "CF" \in f <=> v < 0
  <2>1. Within(n, v) <=> 0 <= v /\ v < N
    BY <1>1, <1>9 DEF Within
  <2>2. "CF" \in f <=> ~Within(n, v)
    BY <1>7
  <2>3. v < N
    BY <1>2, <1>6, <1>9
  <2>. QED BY <2>1, <2>2, <2>3
<1>. QED BY <1>2, <1>5, <1>6, <1>8, <1>13, <1>15, <1>16

LEMMA CompareHandled ==
  ASSUME NEW m, NEW i
  PROVE  /\ i.op = "cmp_RM_R" => Handled(m, i) = RM_R(m, i, "cmp")
         /\ i.op = "cmp_R_RM" => Handled(m, i) = R_RM(m, i, "cmp")
<1>1. i.op = "cmp_RM_R" => Handled(m, i) = cmp_RM_R(m, i)
  BY DEF Handled, TwoByte
<1>2. i.op = "cmp_R_RM" => Handled(m, i) = cmp_R_RM(m, i)
  BY DEF Handled, TwoByte
<1>. QED BY <1>1, <1>2 DEF cmp_RM_R, cmp_R_RM

LEMMA CompareAlu ==
  ASSUME NEW n, NEW d, NEW s, NEW f
  PROVE  /\ Alu("cmp", n, d, s, f).f = Difference(n, d, s, 0, f).f
         /\ Alu("cmp", n, d, s, f).res = d
<1>1. Alu("cmp", n, d, s, f) = cmp(n, d, s, f)
  BY DEF Alu
<1>2. Difference(n, d, s, 0, f)
        = [res |-> Difference(n, d, s, 0, f).res, f |-> Difference(n, d, s, 0, f).f]
  BY DEF Difference, Result
<1>. QED BY <1>1, <1>2 DEF cmp

(* The operands of a comparison, in their order.                            *)
First(m, i) == IF i.op = "cmp_RM_R" THEN Reg(m, i.w, i.rl) ELSE Reg(m, i.w, i.rh)
Second(m, i) == IF i.op = "cmp_RM_R" THEN Reg(m, i.w, i.rh) ELSE Reg(m, i.w, i.rl)

LEMMA CompareOnly ==
  ASSUME NEW m, IsMachine(m), m.intr = {}, NEW i \in Instructions, i.mod = 3, NEW j,
         i.op = "cmp_RM_R"
  PROVE  Step(m, Stepped(m, i, j), m.reg,
              Difference(Bits(i.w), First(m, i), Second(m, i), 0, m.flg).f, (m.ip + 2) % Word)
<1> DEFINE d == Decode(Fetch(m, j), i)
           f == Difference(Bits(i.w), First(m, i), Second(m, i), 0, m.flg).f
           ip == (m.ip + 2) % Word
<1>1. /\ Step(m, d, m.reg, m.flg, ip)
      /\ \A w, k : Reg(d, w, k) = Reg(m, w, k)
      /\ Read(d, i) = d /\ RM(d, i) = Reg(m, i.w, i.rl)
      /\ \A e, v : Put(e, i, v) = SetReg(e, i.w, i.rl, v)
  BY Fetched2, Zenon
<1>2. d.flg = m.flg
  BY <1>1 DEF Step
<1>3. ip \in Int
  <2>1. m.ip \in Words
    BY DEF IsMachine
  <2>. QED BY <2>1, IpPlus, HalfByte DEF Words
<1>4. Step(m, [d EXCEPT !.flg = f], m.reg, f, ip)
  BY <1>1, FlagsSet
<1>5. Handled(Fetch(m, j), i)
        = Clear([d EXCEPT !.flg = Alu("cmp", Bits(i.w), Reg(m, i.w, i.rl), Reg(m, i.w, i.rh), m.flg).f])
  BY <1>1, <1>2, CompareHandled DEF RM_R, Combine, Stored
<1>6. Alu("cmp", Bits(i.w), Reg(m, i.w, i.rl), Reg(m, i.w, i.rh), m.flg).f = f
  BY CompareAlu DEF First, Second
<1>. HIDE DEF d, f, ip
<1>7. Handled(Fetch(m, j), i) = Clear([d EXCEPT !.flg = f])
  BY <1>5, <1>6
<1>8. Step(m, Stepped(m, i, j), m.reg, f, ip)
  BY <1>3, <1>4, <1>7, Closing
<1>. QED BY <1>8 DEF f, ip

LEMMA CompareSteps ==
  ASSUME NEW m, IsMachine(m), m.intr = {}, NEW i \in Instructions, i.mod = 3, NEW j,
         i.op \in Compares
  PROVE  \E reg \in [Names -> Words] :
           Step(m, Stepped(m, i, j), reg,
                Difference(Bits(i.w), First(m, i), Second(m, i), 0, m.flg).f, (m.ip + 2) % Word)
<1> DEFINE d == Decode(Fetch(m, j), i)
           f == Difference(Bits(i.w), First(m, i), Second(m, i), 0, m.flg).f
           ip == (m.ip + 2) % Word
<1>1. /\ Step(m, d, m.reg, m.flg, ip)
      /\ \A w, k : Reg(d, w, k) = Reg(m, w, k)
      /\ Read(d, i) = d /\ RM(d, i) = Reg(m, i.w, i.rl)
      /\ \A e, v : Put(e, i, v) = SetReg(e, i.w, i.rl, v)
  BY Fetched2, Zenon
<1>2. d.flg = m.flg
  BY <1>1 DEF Step
<1>3. m.reg \in [Names -> Words] /\ i.w \in {1, 2} /\ i.rh \in 0..7 /\ m.ip \in Words
  BY DEF IsMachine, Instructions, Names
<1>4. ip \in Int
  BY <1>3, IpPlus, HalfByte DEF Words
<1>5. Step(m, [d EXCEPT !.flg = f], m.reg, f, ip)
  BY <1>1, FlagsSet
<1>6. CASE i.op = "cmp_RM_R"
  BY <1>3, <1>6, CompareOnly
<1>7. CASE i.op = "cmp_R_RM"
  <2> DEFINE e == [d EXCEPT !.flg = f]
             v == Reg(m, i.w, i.rh)
  <2>1. Handled(Fetch(m, j), i)
          = Clear(SetReg([d EXCEPT !.flg = Alu("cmp", Bits(i.w), v, Reg(m, i.w, i.rl), m.flg).f],
                         i.w, i.rh, Alu("cmp", Bits(i.w), v, Reg(m, i.w, i.rl), m.flg).res))
    BY <1>1, <1>2, <1>7, CompareHandled DEF R_RM
  <2>2. /\ Alu("cmp", Bits(i.w), v, Reg(m, i.w, i.rl), m.flg).f = f
        /\ Alu("cmp", Bits(i.w), v, Reg(m, i.w, i.rl), m.flg).res = v
    BY <1>7, CompareAlu DEF First, Second
  <2>3. v \in 0..(2^Bits(i.w) - 1)
    BY <1>3, RegValue
  <2>. HIDE DEF d, f, ip
  <2>4. Handled(Fetch(m, j), i) = Clear(SetReg(e, i.w, i.rh, v))
    BY <2>1, <2>2
  <2>. HIDE DEF e, v
  <2>5. Step(m, e, m.reg, f, ip)
    BY <1>5 DEF e
  <2>6. PICK reg : Replaced(m.reg, reg, i.w, i.rh, v) /\ Step(m, SetReg(e, i.w, i.rh, v), reg, f, ip)
    BY <1>3, <2>3, <2>5, RegSet
  <2>7. Step(m, Stepped(m, i, j), reg, f, ip)
    BY <1>4, <2>4, <2>6, Closing
  <2>8. reg \in [Names -> Words]
    BY <2>6 DEF Replaced
  <2>. QED BY <2>7, <2>8 DEF f, ip
<1>. QED BY <1>6, <1>7 DEF Compares

-----------------------------------------------------------------------------
(* Conditional jumps.                                                      *)

LEMMA SignedInt ==
  ASSUME NEW n, Width(n), NEW x \in Int
  PROVE  Signed(n, x) \in Int
<1>1. 2^n \in Int
  BY WidthFacts
<1>. QED BY <1>1 DEF Signed

LEMMA JumpHandled ==
  ASSUME NEW m, NEW i
  PROVE  /\ i.op = "jump_near" => Handled(m, i) = jump_near(m, i)
         /\ i.op = "long_jump" => Handled(m, i) = long_jump(Skip(m, 1), i)
         /\ i.op = "set_byte" => Handled(m, i) = set_byte(Skip(m, 1), i)
<1>1. i.op = "jump_near" => Handled(m, i) = jump_near(m, i)
  BY DEF Handled, TwoByte
<1>2. i.op = "long_jump" => Handled(m, i) = Handled2(Skip(m, 1), i)
  BY DEF Handled, TwoByte
<1>3. i.op = "long_jump" => Handled2(Skip(m, 1), i) = long_jump(Skip(m, 1), i)
  BY DEF Handled2
<1>4. i.op = "set_byte" => Handled(m, i) = Handled2(Skip(m, 1), i)
  BY DEF Handled, TwoByte
<1>5. i.op = "set_byte" => Handled2(Skip(m, 1), i) = set_byte(Skip(m, 1), i)
  BY DEF Handled2
<1>. QED BY <1>1, <1>2, <1>3, <1>4, <1>5

(* Skipping bytes that follow the first one.                                *)
LEMMA Skipping ==
  ASSUME NEW m, Fields(m), m.ip \in Words, NEW j, NEW k \in Nat
  PROVE  /\ Step(m, Skip(Fetch(m, j), k), m.reg, m.flg, (m.ip + (1 + k)) % Word)
         /\ (m.ip + (1 + k)) % Word \in Words
<1>1. Step(m, Fetch(m, j), m.reg, m.flg, (m.ip + 1) % Word)
  BY Fetching
<1>2. (m.ip + 1) % Word \in Int
  BY IpPlus, HalfByte DEF Words
<1>3. Step(m, Skip(Fetch(m, j), k), m.reg, m.flg, (((m.ip + 1) % Word) + k) % Word)
  BY <1>1, <1>2, Steps
<1>4. (((m.ip + 1) % Word) + k) % Word = (m.ip + (1 + k)) % Word
  BY IpPlus
<1>5. (m.ip + (1 + k)) % Word \in Words
  <2>1. 1 + k \in Int
    OBVIOUS
  <2>. QED BY <2>1, IpPlus, Zenon
<1>. QED BY <1>3, <1>4, <1>5

(* A jump of any kind, taken or not.                                        *)
LEMMA Taken ==
  ASSUME NEW m, m.intr = {}, NEW i, NEW j, NEW d, NEW ip, Step(m, d, m.reg, m.flg, ip),
         ip \in Int, NEW p \in Int, Handled(Fetch(m, j), i) = Clear(Goto(d, p))
  PROVE  Stepped(m, i, j).ip = p % Word
<1>1. Step(m, Goto(d, p), m.reg, m.flg, p % Word)
  BY Steps
<1>2. p % Word \in Int
  BY HalfByte
<1>3. Step(m, Stepped(m, i, j), m.reg, m.flg, p % Word)
  BY <1>1, <1>2, Closing
<1>. QED BY <1>3 DEF Step

LEMMA NotTaken ==
  ASSUME NEW m, m.intr = {}, NEW i, NEW j, NEW d, NEW ip, Step(m, d, m.reg, m.flg, ip),
         ip \in Int, Handled(Fetch(m, j), i) = Clear(d)
  PROVE  Stepped(m, i, j).ip = ip
<1>1. Step(m, Stepped(m, i, j), m.reg, m.flg, ip)
  BY Closing
<1>. QED BY <1>1 DEF Step

Cond(i, f) == (Holds(i.cc, f) # i.not)

LEMMA ShortJump ==
  ASSUME NEW m, Fields(m), m.intr = {}, m.ip \in Words, NEW i \in Instructions, i.op = "jump_near",
         i.cc \in {"B", "BE", "Z", "L", "LE"}, NEW j
  PROVE  Stepped(m, i, j).ip = IF Cond(i, m.flg) THEN (((m.ip + 2) % Word) + Signed(B, i.imm)) % Word
                               ELSE (m.ip + 2) % Word
<1> DEFINE d == Skip(Fetch(m, j), 1)
           ip == (m.ip + 2) % Word
           far == Signed(B, i.imm)
           t == Cond(i, m.flg)
<1>1. Step(m, d, m.reg, m.flg, ip) /\ ip \in Int
  <2>1. 1 + 1 = 2 /\ 1 \in Nat
    OBVIOUS
  <2>2. ip \in Words /\ Step(m, d, m.reg, m.flg, ip)
    BY <2>1, Skipping
  <2>. QED BY <2>2, HalfByte DEF Words
<1>2. far \in Int
  <2>1. i.imm \in Int
    BY HalfByte DEF Instructions, Words
  <2>. QED BY <2>1, SignedInt DEF Width
<1>3. t \in BOOLEAN
  BY DEF Cond
<1>4. Fetch(m, j).flg = m.flg
  BY DEF Fetch, Fields
<1>5. Handled(Fetch(m, j), i) = Clear(IF t THEN Goto(d, d.ip + far) ELSE d)
  BY <1>4, JumpHandled DEF jump_near, Short, Cond
<1>. HIDE DEF d, ip, far, t
<1>6. Stepped(m, i, j).ip = IF t THEN (ip + far) % Word ELSE ip
  <2>1. CASE t
    <3> DEFINE p == ip + far
    <3>1. d.ip = ip
      BY <1>1 DEF Step
    <3>2. Handled(Fetch(m, j), i) = Clear(Goto(d, p)) /\ p \in Int
      BY <1>1, <1>2, <1>5, <2>1, <3>1
    <3>. HIDE DEF p
    <3>3. Stepped(m, i, j).ip = p % Word
      BY <1>1, <3>2, Taken
    <3>. QED BY <2>1, <3>3 DEF p
  <2>2. CASE ~t
    <3>1. Handled(Fetch(m, j), i) = Clear(d)
      BY <1>5, <2>2
    <3>2. Stepped(m, i, j).ip = ip
      BY <1>1, <3>1, NotTaken
    <3>. QED BY <2>2, <3>2
  <2>. QED BY <2>1, <2>2
<1>. QED BY <1>6 DEF ip, far, t

LEMMA LongJump ==
  ASSUME NEW m, Fields(m), m.intr = {}, m.ip \in Words, NEW i \in Instructions, i.op = "long_jump",
         i.cc \in {"B", "BE", "Z", "L", "LE"}, ~(i.not /\ i.cc = "L"), NEW j
  PROVE  Stepped(m, i, j).ip = IF Cond(i, m.flg) THEN (((m.ip + 4) % Word) + i.imm) % Word
                               ELSE (m.ip + 4) % Word
<1> DEFINE d == Skip(Skip(Fetch(m, j), 1), 2)
           ip == (m.ip + 4) % Word
           far == i.imm
           t == Cond(i, m.flg)
<1>1. Step(m, d, m.reg, m.flg, ip) /\ ip \in Int
  <2>1. 1 + 1 = 2 /\ 1 \in Nat /\ 2 \in Nat /\ 2 + 2 = 4 /\ 2 \in Int
    OBVIOUS
  <2>2. (m.ip + 2) % Word \in Words /\ Step(m, Skip(Fetch(m, j), 1), m.reg, m.flg, (m.ip + 2) % Word)
    BY <2>1, Skipping
  <2>3. (m.ip + 2) % Word \in Int
    BY <2>2, HalfByte DEF Words
  <2>4. Step(m, d, m.reg, m.flg, (((m.ip + 2) % Word) + 2) % Word)
    BY <2>1, <2>2, <2>3, Steps
  <2>5. (((m.ip + 2) % Word) + 2) % Word = ip /\ (((m.ip + 2) % Word) + 2) % Word \in Words
    BY <2>1, <2>2, IpPlus
  <2>. QED BY <2>4, <2>5, HalfByte DEF Words
<1>2. far \in Int
  BY HalfByte DEF Instructions, Words
<1>3. t \in BOOLEAN
  BY DEF Cond
<1>4. Skip(Fetch(m, j), 1).flg = m.flg
  BY DEF Skip, Fetch, Fields
<1>5. Holds2(i, m.flg) = t
  BY DEF Holds2, Cond, Instructions
<1>6. Handled(Fetch(m, j), i) = Clear(IF t THEN Goto(d, d.ip + far) ELSE d)
  <2>. HIDE DEF t
  <2>. QED BY <1>4, <1>5, JumpHandled DEF long_jump
<1>. HIDE DEF d, ip, far, t
<1>7. Stepped(m, i, j).ip = IF t THEN (ip + far) % Word ELSE ip
  <2>1. CASE t
    <3> DEFINE p == ip + far
    <3>1. d.ip = ip
      BY <1>1 DEF Step
    <3>2. Handled(Fetch(m, j), i) = Clear(Goto(d, p)) /\ p \in Int
      BY <1>1, <1>2, <1>6, <2>1, <3>1
    <3>. HIDE DEF p
    <3>3. Stepped(m, i, j).ip = p % Word
      BY <1>1, <3>2, Taken
    <3>. QED BY <2>1, <3>3 DEF p
  <2>2. CASE ~t
    <3>1. Handled(Fetch(m, j), i) = Clear(d)
      BY <1>6, <2>2
    <3>2. Stepped(m, i, j).ip = ip
      BY <1>1, <3>1, NotTaken
    <3>. QED BY <2>2, <3>2
  <2>. QED BY <2>1, <2>2
<1>. QED BY <1>7 DEF ip, far, t

LEMMA SetByte ==
  ASSUME NEW m, Fields(m), m.intr = {}, m.ip \in Words, m.reg \in [Names -> Words],
         NEW i \in Instructions, i.op = "set_byte", i.mod = 3, i.w = 1,
         i.cc \in {"B", "BE", "Z", "L", "LE"}, ~(i.not /\ i.cc = "L"), NEW j
  PROVE  /\ Stepped(m, i, j).ip = (m.ip + 3) % Word
         /\ Reg(Stepped(m, i, j), 1, i.rl) = IF Cond(i, m.flg) THEN 1 ELSE 0
<1> DEFINE d == Decode(Skip(Fetch(m, j), 1), i)
           ip == (m.ip + 3) % Word
           t == Cond(i, m.flg)
           v == IF t THEN 1 ELSE 0
<1>1. Step(m, d, m.reg, m.flg, ip) /\ ip \in Int
  <2>1. 1 + 1 = 2 /\ 1 \in Nat /\ 2 + 1 = 3 /\ 1 \in Int /\ 2 \in Int
    OBVIOUS
  <2>2. (m.ip + 2) % Word \in Words /\ Step(m, Skip(Fetch(m, j), 1), m.reg, m.flg, (m.ip + 2) % Word)
    BY <2>1, Skipping
  <2>3. (m.ip + 2) % Word \in Int
    BY <2>2, HalfByte DEF Words
  <2>4. Step(m, d, m.reg, m.flg, (((m.ip + 2) % Word) + 1) % Word)
    BY <2>2, <2>3, InRegister
  <2>5. (((m.ip + 2) % Word) + 1) % Word = ip /\ (((m.ip + 2) % Word) + 1) % Word \in Words
    BY <2>1, <2>2, IpPlus
  <2>. QED BY <2>4, <2>5, HalfByte DEF Words
<1>4. Skip(Fetch(m, j), 1).flg = m.flg
  BY DEF Skip, Fetch, Fields
<1>5. Holds2(i, m.flg) = t
  BY DEF Holds2, Cond, Instructions
<1>6. Handled(Fetch(m, j), i) = Clear(SetReg(d, 1, i.rl, v))
  <2>. HIDE DEF t
  <2>. QED BY <1>4, <1>5, JumpHandled DEF set_byte, Put
<1>7. v \in 0..(2^Bits(1) - 1) /\ 1 \in {1, 2} /\ i.rl \in 0..7
  <2>1. i.rl \in 0..7
    BY DEF Instructions
  <2>2. Width(Bits(1))
    BY BitsWidth
  <2>3. 0 \in 0..(2^Bits(1) - 1) /\ 1 \in 0..(2^Bits(1) - 1)
    BY <2>2, OneAndZero
  <2>. QED BY <2>1, <2>3
<1>. HIDE DEF d, ip, t, v
<1>8. PICK reg : Replaced(m.reg, reg, 1, i.rl, v) /\ Step(m, SetReg(d, 1, i.rl, v), reg, m.flg, ip)
  BY <1>1, <1>7, RegSet
<1>9. Step(m, Stepped(m, i, j), reg, m.flg, ip)
  BY <1>1, <1>6, <1>8, Closing
<1>10. Stepped(m, i, j).ip = ip /\ Reg(Stepped(m, i, j), 1, i.rl) = v
  BY <1>8, <1>9 DEF Step, Replaced
<1>. QED BY <1>10 DEF ip, v, t

(* The relation that a condition is named for.                              *)
Related(n, cc, d, s) ==
  CASE cc = "B"  -> d < s
    [] cc = "BE" -> d <= s
    [] cc = "Z"  -> d = s
    [] cc = "L"  -> Signed(n, d) < Signed(n, s)
    [] cc = "LE" -> Signed(n, d) <= Signed(n, s)

LEMMA Holding ==
  ASSUME NEW n, Width(n), NEW d \in 0..(2^n - 1), NEW s \in 0..(2^n - 1), NEW g,
         NEW i \in Instructions, i.cc \in {"B", "BE", "Z", "L", "LE"}
  PROVE  Cond(i, Difference(n, d, s, 0, g).f) <=> (Related(n, i.cc, d, s) # i.not)
<1> DEFINE f == Difference(n, d, s, 0, g).f
<1>1. /\ Flagged(f, n, d - s - 0, Signed(n, d) - Signed(n, s) - 0, (d % Nibble) - (s % Nibble) - 0)
      /\ "CF" \in f <=> ~Within(n, d - s - 0)
  <2>1. 0 \in 0..1
    OBVIOUS
  <2>. QED BY <2>1, DifferenceIs, Zenon
<1>. HIDE DEF f
<1>2. /\ "CF" \in f <=> d < s
      /\ "ZF" \in f <=> d = s
      /\ Less(f) <=> Signed(n, d) < Signed(n, s)
      /\ d = s <=> Signed(n, d) = Signed(n, s)
      /\ Signed(n, d) \in Int /\ Signed(n, s) \in Int
  BY <1>1, Relations
<1>3. d \in Int /\ s \in Int
  BY WidthFacts
<1>5. i.not \in BOOLEAN
  BY DEF Instructions
<1>7. Cond(i, f) <=> (Related(n, i.cc, d, s) # i.not)
  <2>1. CASE i.cc = "B"
    <3>1. Cond(i, f) <=> ~(("CF" \in f) <=> i.not)
      BY <2>1, <1>5 DEF Cond, Holds, Less
    <3>2. (Related(n, i.cc, d, s) # i.not) <=> ~((d < s) <=> i.not)
      BY <2>1, <1>5 DEF Related
    <3>. QED BY <3>1, <3>2, <1>2, <1>3
  <2>2. CASE i.cc = "BE"
    <3>1. Cond(i, f) <=> ~(("CF" \in f \/ "ZF" \in f) <=> i.not)
      BY <2>2, <1>5 DEF Cond, Holds, Less
    <3>2. (Related(n, i.cc, d, s) # i.not) <=> ~((d <= s) <=> i.not)
      BY <2>2, <1>5 DEF Related
    <3>. QED BY <3>1, <3>2, <1>2, <1>3
  <2>3. CASE i.cc = "Z"
    <3>1. Cond(i, f) <=> ~(("ZF" \in f) <=> i.not)
      BY <2>3, <1>5 DEF Cond, Holds, Less
    <3>2. (Related(n, i.cc, d, s) # i.not) <=> ~((d = s) <=> i.not)
      BY <2>3, <1>5 DEF Related
    <3>. QED BY <3>1, <3>2, <1>2, <1>3
  <2>4. CASE i.cc = "L"
    <3>1. Cond(i, f) <=> ~((Less(f)) <=> i.not)
      BY <2>4, <1>5 DEF Cond, Holds, Less
    <3>2. (Related(n, i.cc, d, s) # i.not) <=> ~((Signed(n, d) < Signed(n, s)) <=> i.not)
      BY <2>4, <1>5 DEF Related
    <3>. QED BY <3>1, <3>2, <1>2, <1>3
  <2>5. CASE i.cc = "LE"
    <3>1. Cond(i, f) <=> ~((Less(f) \/ "ZF" \in f) <=> i.not)
      BY <2>5, <1>5 DEF Cond, Holds, Less
    <3>2. (Related(n, i.cc, d, s) # i.not) <=> ~((Signed(n, d) <= Signed(n, s)) <=> i.not)
      BY <2>5, <1>5 DEF Related
    <3>. QED BY <3>1, <3>2, <1>2, <1>3
  <2>. QED BY <2>1, <2>2, <2>3, <2>4, <2>5
<1>. QED BY <1>7 DEF f

(* What JumpsAsCompared says, of the two instructions.                      *)
Length(j) == CASE j.op = "jump_near" -> 2 [] j.op = "long_jump" -> 4 [] j.op = "set_byte" -> 3

LEMMA JumpInv == Came => JumpsAsCompared
<1>. SUFFICES ASSUME Came, Ended, Len(done) = 2, done[1].op \in Compares, done[1].mod = 3,
                     Conditional(done[2])
              PROVE  JumpsAsCompared
  BY Zenon DEF JumpsAsCompared
<1> DEFINE i == done[1]
           j == done[2]
           n == Bits(i.w)
           d == First(origin, i)
           s == Second(origin, i)
           f == Difference(n, d, s, 0, origin.flg).f
           ip == (origin.ip + 2) % Word
<1>1. IsMachine(origin) /\ origin.intr = {}
  BY DEF Came
<1>2. i \in Instructions /\ j \in Instructions
  <2>1. \A k \in 1..Len(done) : done[k] \in Instructions
    BY CameInstructions, Zenon
  <2>2. 1 \in 1..2 /\ 2 \in 1..2
    OBVIOUS
  <2>. QED BY <2>1, <2>2
<1>3. PICK k, l : machine = Stepped(Stepped(origin, i, k), j, l)
  <2>1. TwoSteps(done[1], done[2])
    BY DEF Came
  <2>. QED BY <2>1, Zenon DEF TwoSteps
<1> DEFINE m == Stepped(origin, i, k)
<1>4. PICK reg \in [Names -> Words] : Step(origin, m, reg, f, ip)
  BY <1>1, <1>2, CompareSteps
<1>5. /\ Fields(m) /\ m.intr = {} /\ m.ip = ip /\ m.reg \in [Names -> Words] /\ m.flg = f
  BY <1>1, <1>4 DEF Step
<1>6. origin.ip \in Words /\ origin.reg \in [Names -> Words] /\ ip \in Words
  <2>1. origin.ip \in Words /\ origin.reg \in [Names -> Words]
    BY <1>1 DEF IsMachine, Names
  <2>2. 2 \in Int
    OBVIOUS
  <2>3. ip \in Words
    BY <2>1, <2>2, IpPlus, Zenon
  <2>. QED BY <2>1, <2>3, Zenon
<1>7. Width(n) /\ d \in 0..(2^n - 1) /\ s \in 0..(2^n - 1)
  <2>1. i.w \in {1, 2} /\ i.rl \in 0..7 /\ i.rh \in 0..7
    BY <1>2 DEF Instructions
  <2>2. Reg(origin, i.w, i.rl) \in 0..(2^n - 1) /\ Reg(origin, i.w, i.rh) \in 0..(2^n - 1)
    BY <1>6, <2>1, RegValue
  <2>. QED BY <2>1, <2>2, BitsWidth DEF First, Second
<1>8. j.cc \in {"B", "BE", "Z", "L", "LE"}
  BY DEF Conditional
<1> DEFINE related == Related(n, j.cc, d, s)
<1>9. Cond(j, m.flg) <=> (related # j.not)
  BY <1>2, <1>5, <1>7, <1>8, Holding
<1>. HIDE DEF m, ip, f, d, s
<1>10. \A x \in Int : ((ip + x) % Word) = (origin.ip + 2 + x) % Word
  <2>1. 2 \in Int /\ origin.ip \in Int /\ \A x \in Int : origin.ip + (2 + x) = origin.ip + 2 + x
    BY <1>6, HalfByte DEF Words
  <2>2. \A x \in Int : ((((origin.ip + 2) % Word) + x) % Word) = (origin.ip + (2 + x)) % Word
    BY <1>6, <2>1, IpPlus, Zenon
  <2>. QED BY <2>1, <2>2 DEF ip
<1>11. ASSUME j.op = "jump_near"
       PROVE  machine.ip = (IF related # j.not
                            THEN (((origin.ip + 2 + 2) % Word) + Signed(B, j.imm)) % Word
                            ELSE (origin.ip + 2 + 2) % Word)
  <2>1. Stepped(m, j, l).ip = (IF Cond(j, m.flg) THEN (((m.ip + 2) % Word) + Signed(B, j.imm)) % Word
                                ELSE (m.ip + 2) % Word)
    BY <1>2, <1>5, <1>6, <1>8, <1>11, ShortJump
  <2>2. (m.ip + 2) % Word = (origin.ip + 2 + 2) % Word
    BY <1>5, <1>10
  <2>. HIDE DEF related, j
  <2>. QED BY <1>3, <1>9, <2>1, <2>2 DEF m
<1>12. ASSUME j.op = "long_jump"
       PROVE  machine.ip = (IF related # j.not
                            THEN (((origin.ip + 2 + 4) % Word) + j.imm) % Word
                            ELSE (origin.ip + 2 + 4) % Word)
  <2>0. ~(j.not /\ j.cc = "L")
    BY <1>12 DEF Conditional
  <2>1. Stepped(m, j, l).ip = (IF Cond(j, m.flg) THEN (((m.ip + 4) % Word) + j.imm) % Word
                                ELSE (m.ip + 4) % Word)
    BY <1>2, <1>5, <1>6, <1>8, <1>12, <2>0, LongJump
  <2>2. (m.ip + 4) % Word = (origin.ip + 2 + 4) % Word
    BY <1>5, <1>10
  <2>. HIDE DEF related, j
  <2>. QED BY <1>3, <1>9, <2>1, <2>2 DEF m
<1>13. ASSUME j.op = "set_byte"
       PROVE  /\ Reg(machine, 1, j.rl) = (IF related # j.not THEN 1 ELSE 0)
              /\ machine.ip = (origin.ip + 2 + 3) % Word
  <2>0. ~(j.not /\ j.cc = "L") /\ j.mod = 3 /\ j.w = 1
    BY <1>13 DEF Conditional
  <2>1. /\ Stepped(m, j, l).ip = (m.ip + 3) % Word
        /\ Reg(Stepped(m, j, l), 1, j.rl) = (IF Cond(j, m.flg) THEN 1 ELSE 0)
    BY <1>2, <1>5, <1>6, <1>8, <1>13, <2>0, SetByte
  <2>2. (m.ip + 3) % Word = (origin.ip + 2 + 3) % Word
    BY <1>5, <1>10
  <2>. HIDE DEF related, j
  <2>. QED BY <1>3, <1>9, <2>1, <2>2 DEF m
<1>14. j.op \in {"jump_near", "long_jump", "set_byte"}
  BY DEF Conditional
<1>15. /\ d = (IF i.op = "cmp_RM_R" THEN Before(i.w, i.rl) ELSE Before(i.w, i.rh))
       /\ s = (IF i.op = "cmp_RM_R" THEN Before(i.w, i.rh) ELSE Before(i.w, i.rl))
  BY DEF d, s, First, Second, Before
<1>. QED BY <1>11, <1>12, <1>13, <1>14, <1>15 DEF JumpsAsCompared, Related, Value

(* A jump after cmp, and a byte set, follow the relation of the numbers    *)
(* compared, unsigned or signed (ops.cpp:4863-5182, ops2.cpp:81-260).      *)
THEOREM JumpsCompare == Spec => []JumpsAsCompared
<1>1. Came => JumpsAsCompared
  BY JumpInv
<1>. QED BY <1>1, CameAlways, PTL

-----------------------------------------------------------------------------
(* Sums and differences.                                                   *)

LEMMA FlagsShown ==
  ASSUME NEW n, NEW value, NEW signed, NEW low, Flagged(machine.flg, n, value, signed, low)
  PROVE  SumFlags(n, value, signed, low)
BY DEF Flagged, SumFlags, Flag

LEMMA SumHandled ==
  ASSUME NEW m, NEW i
  PROVE  /\ i.op = "add_RM_R" => Handled(m, i) = RM_R(m, i, "add")
         /\ i.op = "adc_RM_R" => Handled(m, i) = RM_R(m, i, "adc")
         /\ i.op = "sub_RM_R" => Handled(m, i) = RM_R(m, i, "sub")
         /\ i.op = "sbb_RM_R" => Handled(m, i) = RM_R(m, i, "sbb")
<1>1. i.op = "add_RM_R" => Handled(m, i) = add_RM_R(m, i)
  BY DEF Handled, TwoByte
<1>2. i.op = "adc_RM_R" => Handled(m, i) = adc_RM_R(m, i)
  BY DEF Handled, TwoByte
<1>3. i.op = "sub_RM_R" => Handled(m, i) = sub_RM_R(m, i)
  BY DEF Handled, TwoByte
<1>4. i.op = "sbb_RM_R" => Handled(m, i) = sbb_RM_R(m, i)
  BY DEF Handled, TwoByte
<1>. QED BY <1>1, <1>2, <1>3, <1>4 DEF add_RM_R, adc_RM_R, sub_RM_R, sbb_RM_R

LEMMA SumAlu ==
  ASSUME NEW n, NEW d, NEW s, NEW f
  PROVE  /\ Alu("add", n, d, s, f) = Addition(n, d, s, 0, f)
         /\ Alu("adc", n, d, s, f) = Addition(n, d, s, Carry(f), f)
         /\ Alu("sub", n, d, s, f) = Difference(n, d, s, 0, f)
         /\ Alu("sbb", n, d, s, f) = Difference(n, d, s, Carry(f), f)
<1>1. Alu("add", n, d, s, f) = add(n, d, s, f)
  BY DEF Alu
<1>2. Alu("adc", n, d, s, f) = adc(n, d, s, f)
  BY DEF Alu
<1>3. Alu("sub", n, d, s, f) = sub(n, d, s, f)
  BY DEF Alu
<1>4. Alu("sbb", n, d, s, f) = sbb(n, d, s, f)
  BY DEF Alu
<1>. QED BY <1>1, <1>2, <1>3, <1>4 DEF add, adc, sub, sbb

(* The value that the operation of a sum computes, of what it does with its *)
(* operands and the carry.                                                  *)
SumOps == [add_RM_R |-> "add", adc_RM_R |-> "adc", sub_RM_R |-> "sub", sbb_RM_R |-> "sbb"]

Total(op, f, x, y) ==
  CASE op = "add_RM_R" -> x + y + 0
    [] op = "adc_RM_R" -> x + y + Carry(f)
    [] op \in {"sub_RM_R", "cmp_RM_R"} -> x - y - 0
    [] op = "sbb_RM_R" -> x - y - Carry(f)

LEMMA CarryIs == ASSUME NEW f PROVE Carry(f) \in 0..1
BY DEF Carry

LEMMA WeighedTotal ==
  ASSUME NEW op \in DOMAIN Weights, NEW f, NEW x \in Int, NEW y \in Int
  PROVE  /\ Total(op, f, x, y) = x + Weights[op][1] * Carry(f) + Weights[op][2] * y
         /\ Total(op, f, x, y) \in Int
<1>1. PICK c \in Int : c = Carry(f)
  BY CarryIs
<1>2. DOMAIN Weights = {"add_RM_R", "adc_RM_R", "sub_RM_R", "cmp_RM_R", "sbb_RM_R"}
  BY DEF Weights
<1>3. CASE op = "add_RM_R"
  BY <1>1, <1>3 DEF Total, Weights
<1>4. CASE op = "adc_RM_R"
  BY <1>1, <1>4 DEF Total, Weights
<1>5. CASE op \in {"sub_RM_R", "cmp_RM_R"}
  BY <1>1, <1>5 DEF Total, Weights
<1>6. CASE op = "sbb_RM_R"
  BY <1>1, <1>6 DEF Total, Weights
<1>. QED BY <1>2, <1>3, <1>4, <1>5, <1>6

(* What the operation returns.                                              *)
LEMMA TotalResult ==
  ASSUME NEW n, Width(n), NEW d \in 0..(2^n - 1), NEW s \in 0..(2^n - 1), NEW f,
         NEW op \in DOMAIN SumOps, NEW r, r = Alu(SumOps[op], n, d, s, f)
  PROVE  /\ r.res = Total(op, f, d, s) % 2^n
         /\ Flagged(r.f, n, Total(op, f, d, s), Total(op, f, Signed(n, d), Signed(n, s)),
                    Total(op, f, d % Nibble, s % Nibble))
         /\ "CF" \in r.f <=> ~Within(n, Total(op, f, d, s))
<1>1. 0 \in 0..1 /\ Carry(f) \in 0..1
  BY CarryIs
<1>2. DOMAIN SumOps = {"add_RM_R", "adc_RM_R", "sub_RM_R", "sbb_RM_R"}
  BY DEF SumOps
<1>3. CASE op = "add_RM_R"
  <2>1. r = Addition(n, d, s, 0, f)
    BY <1>3, SumAlu DEF SumOps
  <2>2. \A x, y : Total(op, f, x, y) = x + y + 0
    BY <1>3 DEF Total
  <2>3. /\ Addition(n, d, s, 0, f).res = (d + s + 0) % 2^n
        /\ Flagged(Addition(n, d, s, 0, f).f, n, d + s + 0, Signed(n, d) + Signed(n, s) + 0, (d % Nibble) + (s % Nibble) + 0)
        /\ "CF" \in Addition(n, d, s, 0, f).f <=> ~Within(n, d + s + 0)
    BY <1>1, SumIs, Zenon
  <2>4. /\ r.res = (d + s + 0) % 2^n
        /\ Flagged(r.f, n, d + s + 0, Signed(n, d) + Signed(n, s) + 0, (d % Nibble) + (s % Nibble) + 0)
        /\ "CF" \in r.f <=> ~Within(n, d + s + 0)
    BY <2>1, <2>3, Zenon
  <2>. QED BY <2>2, <2>4, Zenon
<1>4. CASE op = "adc_RM_R"
  <2>1. r = Addition(n, d, s, Carry(f), f)
    BY <1>4, SumAlu DEF SumOps
  <2>2. \A x, y : Total(op, f, x, y) = x + y + Carry(f)
    BY <1>4 DEF Total
  <2>3. LET c == Carry(f) IN
        /\ Addition(n, d, s, Carry(f), f).res = (d + s + c) % 2^n
        /\ Flagged(Addition(n, d, s, Carry(f), f).f, n, d + s + c, Signed(n, d) + Signed(n, s) + c, (d % Nibble) + (s % Nibble) + c)
        /\ "CF" \in Addition(n, d, s, Carry(f), f).f <=> ~Within(n, d + s + c)
    BY <1>1, SumIs, Zenon
  <2>4. LET c == Carry(f) IN
        /\ r.res = (d + s + c) % 2^n
        /\ Flagged(r.f, n, d + s + c, Signed(n, d) + Signed(n, s) + c, (d % Nibble) + (s % Nibble) + c)
        /\ "CF" \in r.f <=> ~Within(n, d + s + c)
    BY <2>1, <2>3, Zenon
  <2>. QED BY <2>2, <2>4, Zenon
<1>5. CASE op = "sub_RM_R"
  <2>1. r = Difference(n, d, s, 0, f)
    BY <1>5, SumAlu DEF SumOps
  <2>2. \A x, y : Total(op, f, x, y) = x - y - 0
    BY <1>5 DEF Total
  <2>3. /\ Difference(n, d, s, 0, f).res = (d - s - 0) % 2^n
        /\ Flagged(Difference(n, d, s, 0, f).f, n, d - s - 0, Signed(n, d) - Signed(n, s) - 0, (d % Nibble) - (s % Nibble) - 0)
        /\ "CF" \in Difference(n, d, s, 0, f).f <=> ~Within(n, d - s - 0)
    BY <1>1, DifferenceIs, Zenon
  <2>4. /\ r.res = (d - s - 0) % 2^n
        /\ Flagged(r.f, n, d - s - 0, Signed(n, d) - Signed(n, s) - 0, (d % Nibble) - (s % Nibble) - 0)
        /\ "CF" \in r.f <=> ~Within(n, d - s - 0)
    BY <2>1, <2>3, Zenon
  <2>. QED BY <2>2, <2>4, Zenon
<1>6. CASE op = "sbb_RM_R"
  <2>1. r = Difference(n, d, s, Carry(f), f)
    BY <1>6, SumAlu DEF SumOps
  <2>2. \A x, y : Total(op, f, x, y) = x - y - Carry(f)
    BY <1>6 DEF Total
  <2>3. LET c == Carry(f) IN
        /\ Difference(n, d, s, Carry(f), f).res = (d - s - c) % 2^n
        /\ Flagged(Difference(n, d, s, Carry(f), f).f, n, d - s - c, Signed(n, d) - Signed(n, s) - c, (d % Nibble) - (s % Nibble) - c)
        /\ "CF" \in Difference(n, d, s, Carry(f), f).f <=> ~Within(n, d - s - c)
    BY <1>1, DifferenceIs, Zenon
  <2>4. LET c == Carry(f) IN
        /\ r.res = (d - s - c) % 2^n
        /\ Flagged(r.f, n, d - s - c, Signed(n, d) - Signed(n, s) - c, (d % Nibble) - (s % Nibble) - c)
        /\ "CF" \in r.f <=> ~Within(n, d - s - c)
    BY <2>1, <2>3, Zenon
  <2>. QED BY <2>2, <2>4, Zenon
<1>. QED BY <1>2, <1>3, <1>4, <1>5, <1>6

(* A sum, or a difference that is not only compared.                        *)
LEMMA SumSteps ==
  ASSUME NEW m, IsMachine(m), m.intr = {}, NEW i \in Instructions, i.mod = 3, NEW j,
         i.op \in DOMAIN SumOps,
         NEW n, n = Bits(i.w), NEW d, d = Reg(m, i.w, i.rl), NEW s, s = Reg(m, i.w, i.rh)
  PROVE  \E reg, f : /\ Replaced(m.reg, reg, i.w, i.rl, Total(i.op, m.flg, d, s) % 2^n)
                     /\ Step(m, Stepped(m, i, j), reg, f, (m.ip + 2) % Word)
                     /\ Flagged(f, n, Total(i.op, m.flg, d, s),
                                Total(i.op, m.flg, Signed(n, d), Signed(n, s)),
                                Total(i.op, m.flg, d % Nibble, s % Nibble))
                     /\ "CF" \in f <=> ~Within(n, Total(i.op, m.flg, d, s))
<1> DEFINE op == SumOps[i.op]
           r == Alu(op, n, d, s, m.flg)
<1>1. m.reg \in [Names -> Words] /\ i.w \in {1, 2} /\ i.rl \in 0..7 /\ i.rh \in 0..7
  BY DEF IsMachine, Instructions, Names
<1>2. Width(n) /\ d \in 0..(2^n - 1) /\ s \in 0..(2^n - 1)
  BY <1>1, RegValue, BitsWidth
<1>3. /\ r.res = Total(i.op, m.flg, d, s) % 2^n
      /\ Flagged(r.f, n, Total(i.op, m.flg, d, s),
                 Total(i.op, m.flg, Signed(n, d), Signed(n, s)),
                 Total(i.op, m.flg, d % Nibble, s % Nibble))
      /\ "CF" \in r.f <=> ~Within(n, Total(i.op, m.flg, d, s))
  <2> DEFINE o == i.op
             g == m.flg
  <2>1. o \in DOMAIN SumOps /\ r = Alu(SumOps[o], n, d, s, g)
    BY Zenon
  <2>. HIDE DEF r, o, g
  <2>2. /\ r.res = Total(o, g, d, s) % 2^n
        /\ Flagged(r.f, n, Total(o, g, d, s), Total(o, g, Signed(n, d), Signed(n, s)),
                   Total(o, g, d % Nibble, s % Nibble))
        /\ "CF" \in r.f <=> ~Within(n, Total(o, g, d, s))
    BY <1>2, <2>1, TotalResult
  <2>. QED BY <2>2, Zenon DEF o, g
<1>4. op # "cmp" /\ Handled(Fetch(m, j), i) = RM_R(Fetch(m, j), i, op)
  BY SumHandled DEF SumOps
<1>5. r.res \in 0..(2^n - 1)
  <2>1. d \in Int /\ s \in Int /\ 2^n \in Nat \ {0}
    BY <1>2, WidthFacts
  <2>2. i.op \in DOMAIN Weights
    BY DEF Weights, SumOps
  <2>3. Total(i.op, m.flg, d, s) \in Int
    BY <2>1, <2>2, WeighedTotal
  <2>. QED BY <1>3, <2>1, <2>3
<1>. HIDE DEF op
<1>6. r = Alu(op, Bits(i.w), Reg(m, i.w, i.rl), Reg(m, i.w, i.rh), m.flg)
  OBVIOUS
<1>. HIDE DEF r
<1>7. \E reg : /\ Replaced(m.reg, reg, i.w, i.rl, r.res)
               /\ Step(m, Stepped(m, i, j), reg, r.f, (m.ip + 2) % Word)
  <2>1. r.res \in 0..(2^Bits(i.w) - 1)
    BY <1>5
  <2>. QED BY <1>4, <1>6, <2>1, Combined
<1>. QED BY <1>3, <1>7, Zenon

LEMMA SumInv == Came /\ Len(done) = 1 => SumExact(done[1])
<1>. SUFFICES ASSUME Came, Len(done) = 1, done[1].op \in DOMAIN Weights, done[1].mod = 3
              PROVE  SumExact(done[1])
  BY Zenon DEF SumExact
<1> DEFINE i == done[1]
           n == Bits(i.w)
           d == Before(i.w, i.rl)
           s == Before(i.w, i.rh)
           t(x, y) == Total(i.op, origin.flg, x, y)
<1>1. IsMachine(origin) /\ origin.intr = {}
  BY DEF Came
<1>2. i \in Instructions
  <2>1. \A k \in 1..Len(done) : done[k] \in Instructions
    BY CameInstructions, Zenon
  <2>2. 1 \in 1..1
    OBVIOUS
  <2>. QED BY <2>1, <2>2
<1>3. PICK k : machine = Stepped(origin, i, k)
  BY Zenon DEF Came
<1>4. /\ d = Reg(origin, i.w, i.rl) /\ s = Reg(origin, i.w, i.rh)
      /\ Width(n) /\ d \in 0..(2^n - 1) /\ s \in 0..(2^n - 1)
  <2>1. i.w \in {1, 2} /\ i.rl \in 0..7 /\ i.rh \in 0..7 /\ origin.reg \in [Names -> Words]
    BY <1>1, <1>2 DEF Instructions, IsMachine, Names
  <2>2. Reg(origin, i.w, i.rl) \in 0..(2^n - 1) /\ Reg(origin, i.w, i.rh) \in 0..(2^n - 1)
    BY <2>1, RegValue
  <2>. QED BY <2>1, <2>2, BitsWidth DEF Before
<1>5. DOMAIN Weights = {"cmp_RM_R"} \cup DOMAIN SumOps
  BY DEF Weights, SumOps
<1>. HIDE DEF n, d, s
<1>6. /\ SumFlags(n, t(d, s), t(Signed(n, d), Signed(n, s)), t(d % Nibble, s % Nibble))
      /\ Flag("CF") <=> ~Within(n, t(d, s))
      /\ Value(i.w, i.rl) = IF i.op = "cmp_RM_R" THEN d ELSE t(d, s) % 2^n
  <2>1. CASE i.op = "cmp_RM_R"
    <3> DEFINE f == Difference(n, d, s, 0, origin.flg).f
    <3>1. First(origin, i) = d /\ Second(origin, i) = s
      BY <1>4, <2>1 DEF First, Second
    <3>2. \A x, y : t(x, y) = x - y - 0
      BY <2>1 DEF Total
    <3>3. /\ Flagged(f, n, t(d, s), t(Signed(n, d), Signed(n, s)), t(d % Nibble, s % Nibble))
          /\ "CF" \in f <=> ~Within(n, t(d, s))
      <4>1. /\ Flagged(f, n, d - s - 0, Signed(n, d) - Signed(n, s) - 0, (d % Nibble) - (s % Nibble) - 0)
            /\ "CF" \in f <=> ~Within(n, d - s - 0)
        <5>1. 0 \in 0..1
          OBVIOUS
        <5>. QED BY <1>4, <5>1, DifferenceIs, Zenon
      <4>. QED BY <3>2, <4>1, Zenon
    <3>4. machine.flg = f /\ machine.reg = origin.reg
      <4>1. Step(origin, machine, origin.reg, Difference(Bits(i.w), First(origin, i), Second(origin, i), 0, origin.flg).f,
                 (origin.ip + 2) % Word)
        BY <1>1, <1>2, <1>3, <2>1, CompareOnly
      <4>. QED BY <3>1, <4>1 DEF n, Step
    <3>5. Value(i.w, i.rl) = d
      BY <3>4 DEF Value, Before, d, Reg
    <3>. HIDE DEF f, t, i
    <3>. QED BY <2>1, <3>3, <3>4, <3>5, FlagsShown DEF Flag
  <2>2. CASE i.op \in DOMAIN SumOps
    <3>1. PICK reg, f : /\ Replaced(origin.reg, reg, i.w, i.rl, t(d, s) % 2^n)
                        /\ Step(origin, machine, reg, f, (origin.ip + 2) % Word)
                        /\ Flagged(f, n, t(d, s), t(Signed(n, d), Signed(n, s)),
                                   t(d % Nibble, s % Nibble))
                        /\ "CF" \in f <=> ~Within(n, t(d, s))
      <4>1. n = Bits(i.w) /\ d = Reg(origin, i.w, i.rl) /\ s = Reg(origin, i.w, i.rh)
        BY <1>4 DEF n
      <4>. QED BY <1>1, <1>2, <1>3, <2>2, <4>1, SumSteps
    <3>2. machine.flg = f /\ Value(i.w, i.rl) = t(d, s) % 2^n
      BY <3>1 DEF Step, Replaced, Value
    <3>3. i.op # "cmp_RM_R"
      BY <2>2 DEF SumOps
    <3>. HIDE DEF t, i
    <3>. QED BY <3>1, <3>2, <3>3, FlagsShown DEF Flag
  <2>. QED BY <1>5, <2>1, <2>2
<1>7. \A x, y \in Int : t(x, y) = x + Weights[i.op][1] * Carry(origin.flg) + Weights[i.op][2] * y
  BY WeighedTotal, ZenonT(60)
<1>8. d \in Int /\ s \in Int /\ Signed(n, d) \in Int /\ Signed(n, s) \in Int /\ d % Nibble \in Int
      /\ s % Nibble \in Int
  <2>1. d \in Int /\ s \in Int
    BY <1>4, WidthFacts
  <2>. QED BY <1>4, <2>1, SignedInt, HalfByte
<1>. HIDE DEF t
<1>. QED BY <1>6, <1>7, <1>8, Zenon DEF SumExact, n, d, s

-----------------------------------------------------------------------------
(* inc, dec and neg.                                                       *)

(* A handler that changes the flags and replaces its operand.               *)
LEMMA OneRegister ==
  ASSUME NEW m, IsMachine(m), m.intr = {}, NEW i \in Instructions, i.mod = 3, NEW j, NEW f,
         NEW v \in 0..(2^Bits(i.w) - 1),
         Handled(Fetch(m, j), i) = Clear(SetReg([Decode(Fetch(m, j), i) EXCEPT !.flg = f], i.w, i.rl, v))
  PROVE  \E reg : /\ Replaced(m.reg, reg, i.w, i.rl, v)
                  /\ Step(m, Stepped(m, i, j), reg, f, (m.ip + 2) % Word)
<1> DEFINE d == Decode(Fetch(m, j), i)
           e == [d EXCEPT !.flg = f]
           w == i.w
           k == i.rl
           ip == (m.ip + 2) % Word
           old == m.reg
<1>1. Step(m, d, old, m.flg, ip)
  BY Fetched2, Zenon
<1>2. Step(m, e, old, f, ip)
  BY <1>1, FlagsSet
<1>3. old \in [Names -> Words] /\ w \in {1, 2} /\ k \in 0..7 /\ v \in 0..(2^Bits(w) - 1)
  BY DEF IsMachine, Instructions, Names
<1>4. ip \in Int
  BY IpPlus, HalfByte DEF Words, IsMachine
<1>5. Handled(Fetch(m, j), i) = Clear(SetReg(e, w, k, v))
  BY Zenon
<1>. HIDE DEF d, e, w, k, ip, old
<1>6. PICK reg : Replaced(old, reg, w, k, v) /\ Step(m, SetReg(e, w, k, v), reg, f, ip)
  BY <1>2, <1>3, RegSet
<1> DEFINE g == SetReg(e, w, k, v)
<1>7. Step(m, g, reg, f, ip) /\ Handled(Fetch(m, j), i) = Clear(g)
  BY <1>5, <1>6, Zenon
<1>. HIDE DEF g
<1>8. Step(m, Stepped(m, i, j), reg, f, ip)
  BY <1>4, <1>7, Closing
<1>. QED BY <1>6, <1>8, Zenon DEF w, k, ip, old

LEMMA CountNamed ==
  ASSUME NEW m, NEW i
  PROVE  /\ i.op = "opcFE_RM" => Handled(m, i) = opcFE_RM(m, i)
         /\ i.op = "opcF6_RM" => Handled(m, i) = Group(m, i)
         /\ i.op = "opcF7_RM" => Handled(m, i) = Group(m, i)
<1>1. i.op = "opcFE_RM" => Handled(m, i) = opcFE_RM(m, i)
  BY DEF Handled, TwoByte
<1>2. i.op = "opcF6_RM" => Handled(m, i) = opcF6_RM(m, i)
  BY DEF Handled, TwoByte
<1>3. i.op = "opcF7_RM" => Handled(m, i) = opcF7_RM(m, i)
  BY DEF Handled, TwoByte
<1>. QED BY <1>1, <1>2, <1>3 DEF opcF6_RM, opcF7_RM

LEMMA CountHandled ==
  ASSUME NEW m, IsMachine(m), NEW i \in Instructions, i.mod = 3, NEW j,
         NEW n, n = Bits(i.w), NEW x, x = Reg(m, i.w, i.rl)
  PROVE  LET d == Decode(Fetch(m, j), i) IN
         /\ i.op = "opcFE_RM" /\ i.rh = 0 =>
              Handled(Fetch(m, j), i)
                = Clear(SetReg([d EXCEPT !.flg = inc(n, x, m.flg).f], i.w, i.rl, inc(n, x, m.flg).res))
         /\ i.op = "opcFE_RM" /\ i.rh = 1 =>
              Handled(Fetch(m, j), i)
                = Clear(SetReg([d EXCEPT !.flg = dec(n, x, m.flg).f], i.w, i.rl, dec(n, x, m.flg).res))
         /\ i.op \in {"opcF6_RM", "opcF7_RM"} /\ i.rh = 3 =>
              Handled(Fetch(m, j), i)
                = Clear(SetReg([d EXCEPT !.flg = neg(n, x, m.flg).f], i.w, i.rl, neg(n, x, m.flg).res))
<1> DEFINE d == Decode(Fetch(m, j), i)
<1>1. /\ Read(d, i) = d /\ RM(d, i) = x
      /\ \A e, v : Put(e, i, v) = SetReg(e, i.w, i.rl, v)
      /\ d.flg = m.flg
  <2>1. /\ Step(m, d, m.reg, m.flg, (m.ip + 2) % Word)
        /\ Read(d, i) = d /\ RM(d, i) = Reg(m, i.w, i.rl)
        /\ \A e, v : Put(e, i, v) = SetReg(e, i.w, i.rl, v)
    BY Fetched2, Zenon
  <2>. QED BY <2>1 DEF Step
<1>2. i.op = "opcFE_RM" => Handled(Fetch(m, j), i) = opcFE_RM(Fetch(m, j), i)
  BY CountNamed
<1>3. i.op \in {"opcF6_RM", "opcF7_RM"} => Handled(Fetch(m, j), i) = Group(Fetch(m, j), i)
  BY CountNamed
<1>4. ASSUME i.rh = 3
      PROVE  Group(Fetch(m, j), i)
               = Clear(SetReg([d EXCEPT !.flg = neg(n, x, m.flg).f], i.w, i.rl, neg(n, x, m.flg).res))
  <2>1. Group(Fetch(m, j), i) = Clear(Unary(d, i, x))
    BY <1>1, <1>4 DEF Group
  <2>2. Unary(d, i, x) = Put([d EXCEPT !.flg = neg(n, x, d.flg).f], i, neg(n, x, d.flg).res)
    BY <1>4 DEF Unary
  <2>. QED BY <1>1, <2>1, <2>2
<1>5. i.rh = 0 => opcFE_RM(Fetch(m, j), i) = Clear(SetReg([d EXCEPT !.flg = inc(n, x, m.flg).f], i.w, i.rl, inc(n, x, m.flg).res))
  BY <1>1 DEF opcFE_RM, Counted
<1>6. i.rh = 1 => opcFE_RM(Fetch(m, j), i) = Clear(SetReg([d EXCEPT !.flg = dec(n, x, m.flg).f], i.w, i.rl, dec(n, x, m.flg).res))
  BY <1>1 DEF opcFE_RM, Counted
<1>. QED BY <1>2, <1>3, <1>4, <1>5, <1>6

LEMMA Counting ==
  ASSUME NEW i, NEW n, n = Bits(i.w), NEW r, NEW reg, NEW x, NEW value, NEW signed, NEW low,
         Replaced(origin.reg, reg, i.w, i.rl, r.res), machine.reg = reg, machine.flg = r.f,
         r.res = value % 2^n, Flagged(r.f, n, value, signed, low)
  PROVE  SumFlags(n, value, signed, low) /\ Value(i.w, i.rl) = value % 2^n
<1>1. Value(i.w, i.rl) = value % 2^n
  BY DEF Replaced, Value
<1>. QED BY <1>1, FlagsShown

LEMMA CountInv == Came /\ Len(done) = 1 => CountExact(done[1])
<1>. SUFFICES ASSUME Came, Len(done) = 1 PROVE CountExact(done[1])
  OBVIOUS
<1> DEFINE i == done[1]
           n == Bits(i.w)
           d == Before(i.w, i.rl)
           by == IF i.rh = 0 THEN 1 ELSE -1
<1>1. IsMachine(origin) /\ origin.intr = {}
  BY DEF Came
<1>2. i \in Instructions
  <2>1. \A k \in 1..Len(done) : done[k] \in Instructions
    BY CameInstructions, Zenon
  <2>2. 1 \in 1..1
    OBVIOUS
  <2>. QED BY <2>1, <2>2
<1>3. PICK k : machine = Stepped(origin, i, k)
  BY Zenon DEF Came
<1>4. /\ d = Reg(origin, i.w, i.rl) /\ n = Bits(i.w)
      /\ Width(n) /\ d \in 0..(2^n - 1)
  <2>1. i.w \in {1, 2} /\ i.rl \in 0..7 /\ origin.reg \in [Names -> Words]
    BY <1>1, <1>2 DEF Instructions, IsMachine, Names
  <2>2. Reg(origin, i.w, i.rl) \in 0..(2^n - 1)
    BY <2>1, RegValue
  <2>. QED BY <2>1, <2>2, BitsWidth DEF Before
<1>5. d \in Int /\ 2^n \in Nat \ {0}
  BY <1>4, WidthFacts, PowerPositive
<1>. HIDE DEF i, n, d
<1>11. ASSUME i.mod = 3 PROVE
         /\ i.op = "opcFE_RM" /\ i.rh = 0 =>
              Handled(Fetch(origin, k), i)
                = Clear(SetReg([Decode(Fetch(origin, k), i) EXCEPT !.flg = inc(n, d, origin.flg).f], i.w, i.rl, inc(n, d, origin.flg).res))
         /\ i.op = "opcFE_RM" /\ i.rh = 1 =>
              Handled(Fetch(origin, k), i)
                = Clear(SetReg([Decode(Fetch(origin, k), i) EXCEPT !.flg = dec(n, d, origin.flg).f], i.w, i.rl, dec(n, d, origin.flg).res))
         /\ i.op \in {"opcF6_RM", "opcF7_RM"} /\ i.rh = 3 =>
              Handled(Fetch(origin, k), i)
                = Clear(SetReg([Decode(Fetch(origin, k), i) EXCEPT !.flg = neg(n, d, origin.flg).f], i.w, i.rl, neg(n, d, origin.flg).res))
  BY <1>1, <1>2, <1>4, <1>11, CountHandled
<1>6. ASSUME NEW r, i.mod = 3, r.res \in 0..(2^n - 1), NEW value, NEW signed, NEW low,
             r.res = value % 2^n, Flagged(r.f, n, value, signed, low),
             Handled(Fetch(origin, k), i)
               = Clear(SetReg([Decode(Fetch(origin, k), i) EXCEPT !.flg = r.f], i.w, i.rl, r.res))
      PROVE  /\ SumFlags(n, value, signed, low)
             /\ Value(i.w, i.rl) = value % 2^n
             /\ machine.flg = r.f
  <2> DEFINE f == r.f
             v == r.res
  <2>1. /\ v \in 0..(2^Bits(i.w) - 1)
        /\ Handled(Fetch(origin, k), i)
             = Clear(SetReg([Decode(Fetch(origin, k), i) EXCEPT !.flg = f], i.w, i.rl, v))
    BY <1>4, <1>6, Zenon
  <2>. HIDE DEF f, v
  <2>2. PICK reg : /\ Replaced(origin.reg, reg, i.w, i.rl, v)
                   /\ Step(origin, machine, reg, f, (origin.ip + 2) % Word)
    BY <1>1, <1>2, <1>3, <1>6, <2>1, OneRegister
  <2>3. machine.reg = reg /\ machine.flg = f
    BY <2>2 DEF Step
  <2>. QED BY <1>4, <1>6, <2>2, <2>3, Counting, Zenon DEF f, v
<1>7. ASSUME i.op = "opcFE_RM", i.mod = 3, i.rh = 0
      PROVE  /\ SumFlags(n, d + 1, Signed(n, d) + 1, (d % Nibble) + 1)
             /\ Flag("CF") <=> ("CF" \in origin.flg)
             /\ Value(i.w, i.rl) = (d + 1) % 2^n
  <2> DEFINE r == inc(n, d, origin.flg)
  <2>1. /\ r.res = (d + 1) % 2^n
        /\ Flagged(r.f, n, d + 1, Signed(n, d) + 1, (d % Nibble) + 1)
        /\ "CF" \in r.f <=> "CF" \in origin.flg
    BY <1>4, IncIs, Zenon
  <2>2. Handled(Fetch(origin, k), i)
          = Clear(SetReg([Decode(Fetch(origin, k), i) EXCEPT !.flg = r.f], i.w, i.rl, r.res))
    BY <1>7, <1>11, Zenon
  <2>. HIDE DEF r
  <2>3. r.res \in 0..(2^n - 1)
    BY <1>5, <2>1
  <2>4. /\ SumFlags(n, d + 1, Signed(n, d) + 1, (d % Nibble) + 1)
        /\ Value(i.w, i.rl) = (d + 1) % 2^n
        /\ machine.flg = r.f
    BY <1>6, <1>7, <2>1, <2>2, <2>3, Zenon
  <2>. QED BY <2>1, <2>4, Zenon DEF Flag
<1>8. ASSUME i.op = "opcFE_RM", i.mod = 3, i.rh = 1
      PROVE  /\ SumFlags(n, d - 1, Signed(n, d) - 1, (d % Nibble) - 1)
             /\ Flag("CF") <=> ("CF" \in origin.flg)
             /\ Value(i.w, i.rl) = (d - 1) % 2^n
  <2> DEFINE r == dec(n, d, origin.flg)
  <2>1. /\ r.res = (d - 1) % 2^n
        /\ Flagged(r.f, n, d - 1, Signed(n, d) - 1, (d % Nibble) - 1)
        /\ "CF" \in r.f <=> "CF" \in origin.flg
    BY <1>4, DecIs, Zenon
  <2>2. Handled(Fetch(origin, k), i)
          = Clear(SetReg([Decode(Fetch(origin, k), i) EXCEPT !.flg = r.f], i.w, i.rl, r.res))
    BY <1>8, <1>11, Zenon
  <2>. HIDE DEF r
  <2>3. r.res \in 0..(2^n - 1)
    BY <1>5, <2>1
  <2>4. /\ SumFlags(n, d - 1, Signed(n, d) - 1, (d % Nibble) - 1)
        /\ Value(i.w, i.rl) = (d - 1) % 2^n
        /\ machine.flg = r.f
    BY <1>6, <1>8, <2>1, <2>2, <2>3, Zenon
  <2>. QED BY <2>1, <2>4, Zenon DEF Flag
<1>9. ASSUME i.op \in {"opcF6_RM", "opcF7_RM"}, i.mod = 3, i.rh = 3
      PROVE  /\ SumFlags(n, -d, -Signed(n, d), -(d % Nibble))
             /\ Flag("CF") <=> (d # 0)
             /\ Value(i.w, i.rl) = (-d) % 2^n
  <2> DEFINE r == neg(n, d, origin.flg)
  <2>1. /\ r.res = (-d) % 2^n
        /\ Flagged(r.f, n, -d, -Signed(n, d), -(d % Nibble))
        /\ "CF" \in r.f <=> d # 0
    BY <1>4, NegIs, Zenon
  <2>2. Handled(Fetch(origin, k), i)
          = Clear(SetReg([Decode(Fetch(origin, k), i) EXCEPT !.flg = r.f], i.w, i.rl, r.res))
    BY <1>9, <1>11, Zenon
  <2>. HIDE DEF r
  <2>3. r.res \in 0..(2^n - 1)
    BY <1>5, <2>1
  <2>4. /\ SumFlags(n, -d, -Signed(n, d), -(d % Nibble))
        /\ Value(i.w, i.rl) = (-d) % 2^n
        /\ machine.flg = r.f
    BY <1>6, <1>9, <2>1, <2>2, <2>3, Zenon
  <2>. QED BY <2>1, <2>4, Zenon DEF Flag
<1>10. ASSUME i.op = "opcFE_RM", i.mod = 3, i.rh \in {0, 1}
       PROVE  /\ SumFlags(n, d + by, Signed(n, d) + by, (d % Nibble) + by)
              /\ Flag("CF") <=> ("CF" \in origin.flg)
              /\ Value(i.w, i.rl) = (d + by) % 2^n
  <2>1. Signed(n, d) \in Int /\ d % Nibble \in Int
    BY <1>4, <1>5, SignedInt, HalfByte
  <2>2. CASE i.rh = 0
    <3>1. by = 1
      BY <2>2
    <3>. QED BY <1>7, <1>10, <2>2, <3>1, Zenon
  <2>3. CASE i.rh = 1
    <3>1. d + by = d - 1 /\ Signed(n, d) + by = Signed(n, d) - 1 /\ (d % Nibble) + by = (d % Nibble) - 1
      BY <1>5, <2>1, <2>3
    <3>. QED BY <1>8, <1>10, <2>3, <3>1, Zenon
  <2>. QED BY <1>10, <2>2, <2>3, Zenon
<1>. HIDE DEF by
<1>. QED BY <1>9, <1>10, Zenon DEF CountExact, i, n, d, by

(* add, adc, sub, sbb and cmp, and inc, dec and neg, give the sum, modulo  *)
(* the width, and flags that say what it is, signed and unsigned           *)
(* (prim_ops.cpp).                                                         *)
THEOREM SumsExact == Spec => [](Len(done) = 1 => SumExact(done[1]) /\ CountExact(done[1]))
<1>1. Came => (Len(done) = 1 => SumExact(done[1]) /\ CountExact(done[1]))
  BY SumInv, CountInv
<1>. QED BY <1>1, CameAlways, PTL

-----------------------------------------------------------------------------
(* Numbers of two decimal digits.                                          *)

(* Numbers of two digits to the base N, compared by their high digits.      *)
LEMMA HighFirst ==
  ASSUME NEW N \in Nat \ {0}, NEW h \in Int, NEW l \in 0..(N - 1), NEW q \in Int
  PROVE  N * h + l > N * q - 1 <=> h >= q
<1>1. CASE h >= q
  <2>1. N * h >= N * q
    BY <1>1
  <2>. QED BY <1>1, <2>1
<1>2. CASE h < q
  <2>1. h + 1 <= q
    BY <1>2
  <2>2. N * (h + 1) <= N * q
    BY <2>1
  <2>3. N * (h + 1) = N * h + N
    OBVIOUS
  <2>. QED BY <1>2, <2>2, <2>3
<1>. QED BY <1>1, <1>2

(* A digit and what it leaves for the next one.                             *)
LEMMA DigitUp ==
  ASSUME NEW T \in Nat \ {0}, NEW u \in 0..(2 * T - 1)
  PROVE  \E k \in 0..1, l \in 0..(T - 1) : u = l + T * k /\ (u >= T <=> k = 1)
<1>1. CASE u >= T
  <2>1. u - T \in 0..(T - 1) /\ u = (u - T) + T * 1
    BY <1>1
  <2>2. 1 \in 0..1
    OBVIOUS
  <2>. QED BY <1>1, <2>1, <2>2
<1>2. CASE u < T
  <2>1. u \in 0..(T - 1) /\ u = u + T * 0
    BY <1>2
  <2>2. 0 \in 0..1
    OBVIOUS
  <2>. QED BY <1>2, <2>1, <2>2
<1>. QED BY <1>1, <1>2

LEMMA DivisionOf ==
  \A p \in Nat \ {0} : \A x, q \in Int : \A l \in 0..(p - 1) :
    x = p * q + l => x \div p = q /\ x % p = l
BY DivisionUnique, Zenon

LEMMA LowDigit == \A N \in Nat \ {0} : \A y, u \in Int : (N * y + u) % N = u % N
<1>. SUFFICES ASSUME NEW N \in Nat \ {0}, NEW y \in Int, NEW u \in Int, NEW a, a = N * y + u
              PROVE  a % N = u % N
  BY Zenon
<1>1. PICK e \in Int, t \in 0..(N - 1) : u = N * e + t /\ t = u % N
  BY Division
<1>2. a = N * (y + e) + t
  BY <1>1
<1>3. y + e \in Int /\ a \in Int
  BY <1>1
<1>4. a % N = t
  BY <1>1, <1>2, <1>3, DivisionOf, Zenon
<1>. QED BY <1>1, <1>4, Zenon

LEMMA LowOfTwo ==
  \A N \in Nat \ {0} : \A y, u \in Int : ((N * y + u) % (N * N)) % N = u % N
<1>. SUFFICES ASSUME NEW N \in Nat \ {0}, NEW y \in Int, NEW u \in Int, NEW x, x = N * y + u
              PROVE  (x % (N * N)) % N = u % N
  BY ZenonT(60)
<1>1. N * N \in Nat \ {0} /\ x \in Int
  OBVIOUS
<1>2. PICK q \in Int, a \in Int : x = N * N * q + a /\ a = x % (N * N)
  BY <1>1, Division
<1>3. a = N * (y - N * q) + u
  <2>1. N * (y - N * q) = N * y - N * N * q
    OBVIOUS
  <2>. QED BY <1>2, <2>1
<1>4. y - N * q \in Int
  OBVIOUS
<1>5. a % N = u % N
  BY <1>3, <1>4, LowDigit, Zenon
<1>. QED BY <1>2, <1>5, Zenon

LEMMA PastDigit ==
  \A N, T \in Nat : T <= N =>
    \A u \in 0..(2 * T - 1) : \A v : (u < N => v = u) => (v > T - 1 \/ u >= N <=> u >= T)
OBVIOUS

(* A sum p of high digits and u of low ones, adjusted as daa does: x is what *)
(* was added up, a the byte it left.                                        *)
SumAdjusting(N, T, u, x, a, low, res) ==
  /\ a = x % (N * N)
  /\ low = IF a % N > T - 1 \/ u >= N THEN a + N - T ELSE a
  /\ res = IF low > T * N - 1 \/ x >= N * N THEN low + (N - T) * N ELSE low

SumAdjusted(N, T, p, u, x, low, res) ==
  \E k \in 0..1, h \in 0..(T - 1), l \in 0..(T - 1) :
    /\ low > T * N - 1 \/ x >= N * N <=> k = 1
    /\ res % (N * N) = N * h + l
    /\ h + T * k = p + (IF u >= T THEN 1 ELSE 0)
    /\ l + T * (IF u >= T THEN 1 ELSE 0) = u

LEMMA PackedSum ==
  ASSUME NEW N \in Nat, NEW T \in Nat, 2 <= T, T <= N,
         NEW p \in 0..(2 * T - 2), NEW u \in 0..(2 * T - 1), NEW x \in Int, x = N * p + u,
         NEW a, NEW low, NEW res, SumAdjusting(N, T, u, x, a, low, res)
  PROVE  SumAdjusted(N, T, p, u, x, low, res)
<1>0. /\ a = x % (N * N)
      /\ low = IF a % N > T - 1 \/ u >= N THEN a + N - T ELSE a
      /\ res = IF low > T * N - 1 \/ x >= N * N THEN low + (N - T) * N ELSE low
  BY Zenon DEF SumAdjusting
<1>1. N \in Nat \ {0} /\ N * N \in Nat \ {0}
  OBVIOUS
<1>3. PICK i \in 0..1, l \in 0..(T - 1) : u = l + T * i /\ (u >= T <=> i = 1)
  BY DigitUp
<1>4. PICK g \in 0..(2 * T - 1) : g = p + i
  OBVIOUS
<1>5. PICK k \in 0..1, h \in 0..(T - 1) : g = h + T * k /\ (g >= T <=> k = 1)
  BY DigitUp
<1>6. PICK M \in Nat \ {0} : M = N * N
  BY <1>1
<1>7. PICK Ng \in Int, Nh \in Int, NT \in Int, Ns \in Int :
        Ng = N * g /\ Nh = N * h /\ NT = N * T /\ Ns = N * p
  OBVIOUS
<1>8. Ng = Nh + NT * k /\ Ng = Ns + N * i /\ T * N = NT /\ (N - T) * N = M - NT
  <2>1. N * (h + T * k) = N * h + N * T * k
    OBVIOUS
  <2>2. N * (p + i) = N * p + N * i
    OBVIOUS
  <2>3. T * N = N * T /\ (N - T) * N = N * N - N * T
    OBVIOUS
  <2>. QED BY <1>4, <1>5, <1>6, <1>7, <2>1, <2>2, <2>3
<1>9. x = Ns + u /\ a \in 0..(M - 1)
  BY <1>0, <1>6, <1>7
<1>10. PICK q \in Int : x = M * q + a
  BY <1>0, <1>6, Division
<1>11. a % N > T - 1 \/ u >= N <=> i = 1
  <2>1. a % N = u % N
    <3>1. p \in Int /\ u \in Int
      OBVIOUS
    <3>2. ((N * p + u) % (N * N)) % N = u % N
      BY <1>1, <3>1, LowOfTwo, Zenon
    <3>. QED BY <1>0, <3>2, Zenon
  <2>2. u < N => u % N = u
    <3>1. u < N => u \in 0..(N - 1)
      OBVIOUS
    <3>. QED BY <1>1, <3>1, Small, Zenon
  <2>3. u < N => a % N = u
    BY <2>1, <2>2, Zenon
  <2>4. a % N > T - 1 \/ u >= N <=> u >= T
    BY <2>3, PastDigit, Zenon
  <2>. QED BY <1>3, <2>4, Zenon
<1>12. low = a + N * i - T * i
  BY <1>0, <1>9, <1>11
<1>13. x + N * i - T * i = Ng + l
  BY <1>3, <1>8, <1>9
<1>14. low > T * N - 1 \/ x >= M <=> k = 1
  <2>1. Ng + l > NT - 1 <=> g >= T
    BY <1>1, <1>7, HighFirst
  <2>2. Ng + l > M - 1 => g >= N
    BY <1>1, <1>6, <1>7, HighFirst
  <2>3. CASE x >= M
    <3>1. Ng + l > M - 1
      BY <1>1, <1>13, <2>3, <1>9
    <3>. QED BY <1>5, <2>2, <2>3, <3>1
  <2>4. CASE x < M
    <3>1. x \in 0..(M - 1)
      BY <1>7, <1>9, <2>4
    <3>2. a = x
      BY <1>0, <1>6, <3>1, Small, Zenon
    <3>3. low = Ng + l
      BY <1>12, <1>13, <3>2
    <3>. QED BY <1>5, <1>8, <2>1, <2>4, <3>3
  <2>. QED BY <1>9, <2>3, <2>4
<1>15. res = low + M * k - NT * k
  BY <1>0, <1>6, <1>8, <1>9, <1>12, <1>14
<1>16. res = M * (k - q) + (Nh + l)
  <2>1. M * (k - q) = M * k - M * q
    OBVIOUS
  <2>. QED BY <1>8, <1>9, <1>10, <1>12, <1>13, <1>15, <2>1
<1>17. Nh + l \in 0..(M - 1)
  <2>1. N * h <= N * (N - 1) /\ N * h >= 0
    OBVIOUS
  <2>. QED BY <1>6, <1>7, <2>1
<1>18. res % M = Nh + l
  <2>1. PICK y \in Int, v \in 0..(M - 1) : y = k - q /\ v = Nh + l
    BY <1>17
  <2>2. res = M * y + v /\ res \in Int
    BY <1>16, <2>1
  <2>. QED BY <2>1, <2>2, DivisionUnique
<1>19. (IF u >= T THEN 1 ELSE 0) = i
  BY <1>3
<1>. QED BY <1>3, <1>4, <1>5, <1>6, <1>7, <1>14, <1>18, <1>19 DEF SumAdjusted

LEMMA DigitDown ==
  ASSUME NEW T \in Nat \ {0}, NEW u \in (-T)..(T - 1)
  PROVE  \E k \in 0..1, l \in 0..(T - 1) : u = l - T * k /\ (u < 0 <=> k = 1)
<1>1. CASE u < 0
  <2>1. u + T \in 0..(T - 1) /\ u = (u + T) - T * 1
    BY <1>1
  <2>2. 1 \in 0..1
    OBVIOUS
  <2>. QED BY <1>1, <2>1, <2>2
<1>2. CASE u >= 0
  <2>1. u \in 0..(T - 1) /\ u = u - T * 0
    BY <1>2
  <2>2. 0 \in 0..1
    OBVIOUS
  <2>. QED BY <1>2, <2>1, <2>2
<1>. QED BY <1>1, <1>2

LEMMA BelowDigit ==
  \A N, T \in Nat : T <= N =>
    \A u \in (-T)..(T - 1) : \A v : (u >= 0 => v = u) => (v > T - 1 \/ u < 0 <=> u < 0)
OBVIOUS

(* The remainder of a number that is not far from the range.                *)
LEMMA WrappedBy ==
  \A M \in Nat \ {0} : \A x, y, q \in Int : y - x = M * q => x % M = y % M
<1>. SUFFICES ASSUME NEW M \in Nat \ {0}, NEW x \in Int, NEW y \in Int, NEW q \in Int, y - x = M * q
              PROVE  x % M = y % M
  BY Zenon
<1>1. y = M * q + x
  OBVIOUS
<1>. QED BY <1>1, LowDigit, Zenon

(* And a difference, adjusted as das does.                                  *)
DifferenceAdjusting(N, T, u, x, a, low, res) ==
  /\ a = x % (N * N)
  /\ low = IF a % N > T - 1 \/ u < 0 THEN (a - (N - T)) % (N * N) ELSE a
  /\ res = IF low > T * N - 1 \/ x < 0 THEN low - (N - T) * N ELSE low

DifferenceAdjusted(N, T, p, u, x, low, res) ==
  \E k \in 0..1, h \in 0..(T - 1), l \in 0..(T - 1) :
    /\ low > T * N - 1 \/ x < 0 <=> k = 1
    /\ res % (N * N) = N * h + l
    /\ h - T * k = p - (IF u < 0 THEN 1 ELSE 0)
    /\ l - T * (IF u < 0 THEN 1 ELSE 0) = u

LEMMA PackedDifference ==
  ASSUME NEW N \in Nat, NEW T \in Nat, 2 <= T, T <= N,
         NEW p \in (1 - T)..(T - 1), NEW u \in (-T)..(T - 1), NEW x \in Int, x = N * p + u,
         NEW a, NEW low, NEW res, DifferenceAdjusting(N, T, u, x, a, low, res)
  PROVE  DifferenceAdjusted(N, T, p, u, x, low, res)
<1>0. /\ a = x % (N * N)
      /\ low = IF a % N > T - 1 \/ u < 0 THEN (a - (N - T)) % (N * N) ELSE a
      /\ res = IF low > T * N - 1 \/ x < 0 THEN low - (N - T) * N ELSE low
  BY Zenon DEF DifferenceAdjusting
<1>1. N \in Nat \ {0} /\ N * N \in Nat \ {0} /\ T \in Nat \ {0}
  OBVIOUS
<1>3. PICK i \in 0..1, l \in 0..(T - 1) : u = l - T * i /\ (u < 0 <=> i = 1)
  BY <1>1, DigitDown
<1>4. PICK g \in (-T)..(T - 1) : g = p - i
  OBVIOUS
<1>5. PICK k \in 0..1, h \in 0..(T - 1) : g = h - T * k /\ (g < 0 <=> k = 1)
  BY <1>1, DigitDown
<1>6. PICK M \in Nat \ {0} : M = N * N
  BY <1>1
<1>7. PICK Ng \in Int, Nh \in Int, NT \in Int, Ns \in Int :
        Ng = N * g /\ Nh = N * h /\ NT = N * T /\ Ns = N * p
  OBVIOUS
<1>8. Ng = Nh - NT * k /\ Ng = Ns - N * i /\ T * N = NT /\ (N - T) * N = M - NT
  <2>1. N * (h - T * k) = N * h - N * T * k
    OBVIOUS
  <2>2. N * (p - i) = N * p - N * i
    OBVIOUS
  <2>3. T * N = N * T /\ (N - T) * N = N * N - N * T
    OBVIOUS
  <2>. QED BY <1>4, <1>5, <1>6, <1>7, <2>1, <2>2, <2>3
<1>9. x = Ns + u /\ a \in 0..(M - 1)
  BY <1>0, <1>6, <1>7
<1>10. PICK q \in Int : x = M * q + a
  BY <1>0, <1>6, Division
<1>11. a % N > T - 1 \/ u < 0 <=> i = 1
  <2>1. a % N = u % N
    <3>1. p \in Int /\ u \in Int
      OBVIOUS
    <3>2. ((N * p + u) % (N * N)) % N = u % N
      BY <1>1, <3>1, LowOfTwo, Zenon
    <3>. QED BY <1>0, <3>2, Zenon
  <2>2. u >= 0 => u % N = u
    <3>1. u >= 0 => u \in 0..(N - 1)
      OBVIOUS
    <3>. QED BY <1>1, <3>1, Small, Zenon
  <2>3. u >= 0 => a % N = u
    BY <2>1, <2>2, Zenon
  <2>4. a % N > T - 1 \/ u < 0 <=> u < 0
    BY <2>3, BelowDigit, Zenon
  <2>. QED BY <1>3, <2>4, Zenon
<1>12. x - N * i + T * i = Ng + l
  BY <1>3, <1>8, <1>9
<1>13. low = (Ng + l) % M
  <2>1. CASE i = 0
    <3>1. low = a
      BY <1>0, <1>11, <2>1
    <3>2. x = Ng + l
      BY <1>12, <2>1
    <3>. QED BY <1>0, <1>6, <3>1, <3>2, Zenon
  <2>2. CASE i = 1
    <3>1. low = (a - (N - T)) % M
      BY <1>0, <1>6, <1>11, <2>2
    <3>2. PICK y \in Int, z \in Int : y = Ng + l /\ z = a - (N - T)
      BY <1>9
    <3>3. y - z = M * q
      BY <1>9, <1>10, <1>12, <2>2, <3>2
    <3>4. z % M = y % M
      BY <3>3, WrappedBy, Zenon
    <3>. QED BY <3>1, <3>2, <3>4, Zenon
  <2>. QED BY <2>1, <2>2
<1>14. x < 0 <=> g < 0
  <2>1. x = Ng + (l + N * i - T * i)
    BY <1>12, <1>9
  <2>2. l + N * i - T * i \in 0..(N - 1)
    <3>1. CASE i = 0
      BY <3>1
    <3>2. CASE i = 1
      BY <3>2
    <3>. QED BY <3>1, <3>2
  <2>3. N * g + (l + N * i - T * i) > N * 0 - 1 <=> g >= 0
    <3>1. 0 \in Int /\ g \in Int
      OBVIOUS
    <3>. QED BY <1>1, <2>2, <3>1, HighFirst, Zenon
  <2>. QED BY <1>7, <2>1, <2>3
<1>15. low = Ng + l + M * k
  <2>1. PICK y \in Int : y = g + N * k
    OBVIOUS
  <2>2. y \in 0..(N - 1)
    <3>1. CASE k = 0
      BY <1>5, <2>1, <3>1
    <3>2. CASE k = 1
      BY <1>5, <2>1, <3>2
    <3>. QED BY <3>1, <3>2
  <2>3. N * y = Ng + M * k
    <3>1. N * (g + N * k) = N * g + N * N * k
      OBVIOUS
    <3>. QED BY <1>6, <1>7, <2>1, <3>1
  <2>4. N * y + l \in 0..(M - 1)
    <3>1. N * y <= N * (N - 1) /\ N * y >= 0
      BY <2>2
    <3>. QED BY <1>6, <3>1
  <2>5. PICK v \in 0..(M - 1), w \in Int : v = N * y + l /\ w = Ng + l
    BY <2>4
  <2>6. v - w = M * k /\ v \in Int /\ k \in Int
    BY <2>3, <2>5
  <2>7. w % M = v % M
    BY <2>6, WrappedBy, Zenon
  <2>8. v % M = v
    BY <1>6, <2>5, Small, Zenon
  <2>9. low = v
    BY <1>13, <2>5, <2>7, <2>8, Zenon
  <2>. QED BY <2>5, <2>6, <2>9
<1>16. low > T * N - 1 \/ x < 0 <=> k = 1
  <2>1. N * g + l > N * T - 1 <=> g >= T
    BY <1>1, HighFirst
  <2>2. CASE k = 0
    BY <1>5, <1>7, <1>8, <1>14, <1>15, <2>1, <2>2
  <2>3. CASE k = 1
    BY <1>5, <1>14, <2>3
  <2>. QED BY <2>2, <2>3
<1>17. res = low - M * k + NT * k
  BY <1>0, <1>6, <1>8, <1>15, <1>16
<1>18. res = Nh + l
  <2>1. PICK Mk \in Int, NTk \in Int : Mk = M * k /\ NTk = NT * k
    BY <1>6, <1>7
  <2>2. Ng = Nh - NTk /\ low = Ng + l + Mk /\ res = low - Mk + NTk
    BY <1>8, <1>15, <1>17, <2>1, Zenon
  <2>. QED BY <2>2
<1>19. Nh + l \in 0..(M - 1)
  <2>1. N * h <= N * (N - 1) /\ N * h >= 0
    OBVIOUS
  <2>. QED BY <1>6, <1>7, <2>1
<1>20. res % M = Nh + l
  BY <1>6, <1>18, <1>19, Small, Zenon
<1>21. (IF u < 0 THEN 1 ELSE 0) = i
  BY <1>3
<1>. QED BY <1>3, <1>4, <1>5, <1>6, <1>7, <1>16, <1>20, <1>21 DEF DifferenceAdjusted

(* A digit that is kept in a byte of its own, above it another byte.        *)
DigitsAdded(N, T, d, s, c) ==
  LET u == d + s + c
      v == u % (N * N)
  IN  /\ v = u
      /\ v % N > T - 1 \/ (d % N) + (s % N) + c >= N <=> u >= T
      /\ u >= T => u + N - T \in 0..(N * N - 1) /\ (u + N - T) % N = u - T
      /\ u < T => u % N = u

LEMMA DigitSum ==
  ASSUME NEW N \in Nat, NEW T \in Nat, 2 <= T, T <= N,
         NEW d \in 0..(T - 1), NEW s \in 0..(T - 1), NEW c \in 0..1
  PROVE  DigitsAdded(N, T, d, s, c)
<1>1. PICK u \in 0..(2 * T - 1) : u = d + s + c
  OBVIOUS
<1>2. N \in Nat \ {0} /\ N * N \in Nat \ {0} /\ 2 * N <= N * N
  <2>1. 2 * N <= N * N
    OBVIOUS
  <2>. QED BY <2>1
<1>3. u \in 0..(N * N - 1) /\ d \in 0..(N - 1) /\ s \in 0..(N - 1)
  BY <1>2
<1>4. u % (N * N) = u
  BY <1>2, <1>3, Small, Zenon
<1>5. d % N = d /\ s % N = s
  BY <1>2, <1>3, Small, Zenon
<1>6. u < N => u % N = u
  <2>1. u < N => u \in 0..(N - 1)
    OBVIOUS
  <2>. QED BY <1>2, <2>1, Small, Zenon
<1>7. u % N > T - 1 \/ u >= N <=> u >= T
  BY <1>6, PastDigit, Zenon
<1>8. ASSUME u >= T PROVE u + N - T \in 0..(N * N - 1) /\ (u + N - T) % N = u - T
  <2>1. u - T \in 0..(N - 1) /\ u - T \in Int
    BY <1>8
  <2>2. u + N - T \in 0..(N * N - 1)
    BY <1>2, <2>1
  <2>3. u + N - T = N * 1 + (u - T) /\ 1 \in Int
    OBVIOUS
  <2>4. (N * 1 + (u - T)) % N = (u - T) % N
    BY <1>2, <2>1, <2>3, LowDigit, Zenon
  <2>5. (u - T) % N = u - T
    BY <1>2, <2>1, Small, Zenon
  <2>. QED BY <2>2, <2>3, <2>4, <2>5, Zenon
<1>9. u < T => u % N = u
  BY <1>6
<1>. QED BY <1>1, <1>4, <1>5, <1>7, <1>8, <1>9, Zenon DEF DigitsAdded

DigitsTaken(N, T, d, s, c) ==
  LET u == d - s - c
      v == u % (N * N)
  IN  /\ v % N > T - 1 \/ (d % N) - (s % N) - c < 0 <=> u < 0
      /\ u < 0 => v - N + T \in 0..(N * N - 1) /\ (v - N + T) % N = u + T
      /\ u >= 0 => v = u /\ v % N = u

LEMMA DigitDifference ==
  ASSUME NEW N \in Nat, NEW T \in Nat, 2 <= T, T <= N,
         NEW d \in 0..(T - 1), NEW s \in 0..(T - 1), NEW c \in 0..1
  PROVE  DigitsTaken(N, T, d, s, c)
<1>1. PICK u \in (-T)..(T - 1) : u = d - s - c
  OBVIOUS
<1>2. N \in Nat \ {0} /\ N * N \in Nat \ {0} /\ N <= N * N
  <2>1. N <= N * N
    OBVIOUS
  <2>. QED BY <2>1
<1>3. d \in 0..(N - 1) /\ s \in 0..(N - 1)
  BY <1>2
<1>4. d % N = d /\ s % N = s
  BY <1>2, <1>3, Small, Zenon
<1>5. ASSUME u >= 0 PROVE u % (N * N) = u /\ u % N = u
  <2>1. u \in 0..(N - 1) /\ u \in 0..(N * N - 1)
    BY <1>2, <1>5
  <2>. QED BY <1>2, <2>1, Small, Zenon
<1>6. (u % (N * N)) % N > T - 1 \/ u < 0 <=> u < 0
  <2>1. u >= 0 => (u % (N * N)) % N = u
    BY <1>5, Zenon
  <2>. QED BY <2>1, BelowDigit, Zenon
<1>7. ASSUME u < 0
      PROVE  /\ (u % (N * N)) - N + T \in 0..(N * N - 1)
             /\ ((u % (N * N)) - N + T) % N = u + T
  <2>1. PICK M \in Nat \ {0} : M = N * N
    BY <1>2
  <2>2. u + M \in 0..(M - 1)
    BY <1>2, <1>7, <2>1
  <2>3. u % M = u + M
    <3>1. u + M \in Int /\ u \in Int /\ 1 \in Int /\ (u + M) - u = M * 1
      BY <2>1
    <3>2. u % M = (u + M) % M
      BY <3>1, WrappedBy, Zenon
    <3>3. (u + M) % M = u + M
      BY <2>2, Small, Zenon
    <3>. QED BY <3>2, <3>3, Zenon
  <2>4. u + T \in 0..(N - 1) /\ u + T \in Int
    BY <1>7
  <2>5. u + M - N + T = N * (N - 1) + (u + T)
    <3>1. N * (N - 1) = N * N - N
      OBVIOUS
    <3>. QED BY <2>1, <3>1
  <2>6. (N * (N - 1) + (u + T)) % N = u + T
    <3>1. N - 1 \in Int
      OBVIOUS
    <3>2. (N * (N - 1) + (u + T)) % N = (u + T) % N
      BY <1>2, <2>4, <3>1, LowDigit, Zenon
    <3>. QED BY <1>2, <2>4, <3>2, Small, Zenon
  <2>7. u + M - N + T \in 0..(M - 1)
    BY <1>2, <2>1, <2>4
  <2>8. (u + M - N + T) % N = u + T
    BY <2>5, <2>6, Zenon
  <2> DEFINE v == u % (N * N)
  <2>9. v = u + M /\ N * N = M
    BY <2>1, <2>3, Zenon
  <2>. HIDE DEF v
  <2>10. PICK z \in Int : z = v - N + T /\ z = u + M - N + T
    BY <2>9
  <2>11. z \in 0..(N * N - 1) /\ z % N = u + T
    BY <2>7, <2>8, <2>9, <2>10, Zenon
  <2>12. v - N + T \in 0..(N * N - 1) /\ (v - N + T) % N = u + T
    BY <2>10, <2>11, Zenon
  <2>. QED BY <2>12, Zenon DEF v
<1>. QED BY <1>1, <1>4, <1>5, <1>6, <1>7, Zenon DEF DigitsTaken

-----------------------------------------------------------------------------
(* daa, das, aaa and aas.                                                  *)

LEMMA TenIs == Ten \in Nat \ {0} /\ 2 <= Ten /\ Ten <= Nibble /\ 2^(B \div 2) = Nibble /\ 2^B = Nibble * Nibble
BY PrimOpsAssumption, HalfByte DEF Nibble, Byte

LEMMA TwoDigits ==
  ASSUME NEW x \in 0..(Byte - 1), IsDecimal(x)
  PROVE  \E h, l \in 0..(Ten - 1) : x = Nibble * h + l /\ x \div Nibble = h /\ x % Nibble = l
                                    /\ Decimal(x) = Ten * h + l
<1>1. PICK N \in Nat \ {0} : N = Nibble
  BY HalfByte
<1>2. PICK h \in Int, l \in 0..(N - 1) : x = N * h + l /\ h = x \div N /\ l = x % N
  <2>1. x \in Int
    BY HalfByte
  <2>. QED BY <1>1, <2>1, Division
<1>3. h >= 0
  <2>1. CASE h < 0
    <3>1. N * h <= N * (-1)
      BY <2>1
    <3>. QED BY <1>2, <3>1
  <2>. QED BY <2>1
<1>4. h < Ten /\ l < Ten
  BY <1>1, <1>2, Zenon DEF IsDecimal
<1>5. h \in 0..(Ten - 1) /\ l \in 0..(Ten - 1)
  BY <1>3, <1>4, TenIs
<1>. QED BY <1>1, <1>2, <1>5, Zenon DEF Decimal

LEMMA DigitsTwo ==
  ASSUME NEW h \in 0..(Ten - 1), NEW l \in 0..(Ten - 1)
  PROVE  /\ IsDecimal(Nibble * h + l) /\ Decimal(Nibble * h + l) = Ten * h + l
         /\ Nibble * h + l \in 0..(Byte - 1)
<1>1. PICK N \in Nat \ {0} : N = Nibble /\ Ten <= N /\ Byte = N * N
  BY HalfByte, TenIs
<1>2. (N * h + l) \div N = h /\ (N * h + l) % N = l
  <2>1. h \in Int /\ l \in 0..(N - 1) /\ N * h + l \in Int
    BY <1>1, TenIs
  <2>. QED BY <2>1, DivisionOf, Zenon
<1>3. h < Ten /\ l < Ten
  BY TenIs
<1>4. N * h + l \in 0..(N * N - 1)
  <2>1. h \in 0..(N - 1) /\ l \in 0..(N - 1)
    BY <1>1, TenIs
  <2>2. N * h <= N * (N - 1) /\ N * h >= 0
    BY <2>1
  <2>. QED BY <2>1, <2>2
<1>. QED BY <1>1, <1>2, <1>3, <1>4, Zenon DEF IsDecimal, Decimal

(* What a number adjusted by daa or das leaves.                             *)
LEMMA AdjustedParts ==
  ASSUME NEW res, NEW g
  PROVE  LET r == Result(B, res, g, Sign(B, res)) IN
         r.res = res % Byte /\ ("CF" \in r.f <=> "CF" \in g)
<1>1. DOMAIN Sign(B, res) = {"SF", "ZF", "PF"}
  BY DEF Sign
<1>2. "CF" \in Change(g, Sign(B, res)) <=> "CF" \in g
  BY <1>1, Changed
<1>. QED BY <1>2, ResultParts, Zenon DEF Result, Byte

LEMMA SumOfDigits ==
  ASSUME NEW T \in Int, NEW dh \in Int, NEW dl \in Int, NEW sh \in Int, NEW sl \in Int,
         NEW c \in Int, NEW i \in Int, NEW k \in Int, NEW h \in Int, NEW l \in Int,
         h + T * k = dh + sh + i, l + T * i = dl + sl + c
  PROVE  (T * h + l) + k * T * T = (T * dh + dl) + c + (T * sh + sl)
<1>1. T * (h + T * k) = T * h + k * T * T
  OBVIOUS
<1>2. T * (dh + sh + i) = T * dh + T * sh + T * i
  OBVIOUS
<1>3. T * h + k * T * T = T * dh + T * sh + T * i
  BY <1>1, <1>2
<1>. QED BY <1>3

LEMMA DifferenceOfDigits ==
  ASSUME NEW T \in Int, NEW dh \in Int, NEW dl \in Int, NEW sh \in Int, NEW sl \in Int,
         NEW c \in Int, NEW i \in Int, NEW k \in Int, NEW h \in Int, NEW l \in Int,
         h - T * k = dh - sh - i, l - T * i = dl - sl - c
  PROVE  (T * h + l) - k * T * T = (T * dh + dl) - c - (T * sh + sl)
<1>1. T * (h - T * k) = T * h - k * T * T
  OBVIOUS
<1>2. T * (dh - sh - i) = T * dh - T * sh - T * i
  OBVIOUS
<1>3. T * h - k * T * T = T * dh - T * sh - T * i
  BY <1>1, <1>2
<1>. QED BY <1>3

DaaLeft(d, s, c, f) ==
  LET r == daa((d + s + c) % Byte, f) IN
  /\ r.res \in 0..(Byte - 1) /\ IsDecimal(r.res)
  /\ Decimal(r.res) + Carry(r.f) * Ten * Ten = Decimal(d) + c + Decimal(s)

LEMMA DaaIs ==
  ASSUME NEW d \in 0..(Byte - 1), NEW s \in 0..(Byte - 1), IsDecimal(d), IsDecimal(s),
         NEW c \in 0..1, NEW f,
         "AF" \in f <=> ~Within(B \div 2, (d % Nibble) + (s % Nibble) + c),
         "CF" \in f <=> ~Within(B, d + s + c)
  PROVE  DaaLeft(d, s, c, f)
<1>1. PICK dh \in 0..(Ten - 1), dl \in 0..(Ten - 1) :
        d = Nibble * dh + dl /\ d % Nibble = dl /\ Decimal(d) = Ten * dh + dl
  BY TwoDigits
<1>2. PICK sh \in 0..(Ten - 1), sl \in 0..(Ten - 1) :
        s = Nibble * sh + sl /\ s % Nibble = sl /\ Decimal(s) = Ten * sh + sl
  BY TwoDigits
<1>3. PICK N \in Nat, T \in Nat \ {0} : N = Nibble /\ T = Ten /\ 2 <= T /\ T <= N /\ Byte = N * N
  BY TenIs, HalfByte
<1>4. PICK x \in Int : x = d + s + c /\ x = N * (dh + sh) + (dl + sl + c) /\ x >= 0
  <2>1. N * (dh + sh) = N * dh + N * sh
    BY <1>3
  <2>. QED BY <1>1, <1>2, <1>3, <2>1, HalfByte
<1> DEFINE a == x % (N * N)
           first == a % N > T - 1 \/ dl + sl + c >= N
           low == IF first THEN a + N - T ELSE a
           high == low > T * N - 1 \/ x >= N * N
           res == IF high THEN low + (N - T) * N ELSE low
<1>15. /\ SumAdjusting(N, T, dl + sl + c, x, a, low, res)
       /\ high <=> low > T * N - 1 \/ x >= N * N
  BY Zenon DEF SumAdjusting
<1>. HIDE DEF a, first, low, high, res
<1>16. SumAdjusted(N, T, dh + sh, dl + sl + c, x, low, res)
  <2>1. /\ 2 <= T /\ T <= N /\ N \in Nat /\ T \in Nat /\ x \in Int
        /\ dh + sh \in 0..(2 * T - 2) /\ dl + sl + c \in 0..(2 * T - 1)
        /\ x = N * (dh + sh) + (dl + sl + c)
    BY <1>3, <1>4
  <2>. QED BY <1>15, <2>1, PackedSum, Zenon
<1>5. PICK k \in 0..1, h \in 0..(T - 1), l \in 0..(T - 1) :
           /\ high <=> k = 1
           /\ res % (N * N) = N * h + l
           /\ h + T * k = dh + sh + (IF dl + sl + c >= T THEN 1 ELSE 0)
           /\ l + T * (IF dl + sl + c >= T THEN 1 ELSE 0) = dl + sl + c
  BY <1>15, <1>16, Zenon DEF SumAdjusted
<1>6. "AF" \in f <=> dl + sl + c >= N
  <2>1. Within(B \div 2, dl + sl + c) <=> dl + sl + c < N
    BY <1>3, TenIs DEF Within
  <2>2. dl + sl + c >= N <=> ~(dl + sl + c < N)
    BY <1>3
  <2>. QED BY <1>1, <1>2, <2>1, <2>2, Zenon
<1>7. "CF" \in f <=> x >= N * N
  <2>1. Within(B, x) <=> x < N * N
    BY <1>3, <1>4, TenIs DEF Within
  <2>2. x >= N * N <=> ~(x < N * N)
    BY <1>3
  <2>. QED BY <1>4, <2>1, <2>2, Zenon
<1>8. Unadjusted(a, f) <=> first
  BY <1>3, <1>6, Zenon DEF Unadjusted, first
<1>9. daa(a, f) = Result(B, res, Raised(Unadjusted(a, f), high, f), Sign(B, res))
  <2>1. (IF Unadjusted(a, f) THEN a + N - T ELSE a) = low
    BY <1>8, Zenon DEF low
  <2>2. low > T * N - 1 \/ "CF" \in f <=> high
    BY <1>7, Zenon DEF high
  <2>. QED BY <1>3, <2>1, <2>2 DEF daa, res
<1>10. /\ daa(a, f).res = res % Byte
       /\ "CF" \in daa(a, f).f <=> high
  <2>1. "CF" \in f => high
    BY <1>7, Zenon DEF high
  <2>2. "CF" \in Raised(Unadjusted(a, f), high, f) <=> high
    BY <2>1, FlagNames DEF Raised
  <2>. QED BY <1>9, <2>2, AdjustedParts, Zenon
<1>11. daa(a, f).res = N * h + l /\ Carry(daa(a, f).f) = k
  <2>1. k = 1 \/ k = 0
    OBVIOUS
  <2>2. Carry(daa(a, f).f) = k
    BY <1>5, <1>10, <2>1 DEF Carry
  <2>. QED BY <1>3, <1>5, <1>10, <2>2, Zenon
<1>12. /\ IsDecimal(N * h + l) /\ Decimal(N * h + l) = T * h + l
       /\ N * h + l \in 0..(Byte - 1)
  BY <1>3, DigitsTwo, Zenon
<1>13. (T * h + l) + k * T * T = (T * dh + dl) + c + (T * sh + sl)
  <2>1. PICK i \in Int : i = IF dl + sl + c >= T THEN 1 ELSE 0
    OBVIOUS
  <2>2. /\ T \in Int /\ dh \in Int /\ dl \in Int /\ sh \in Int /\ sl \in Int /\ c \in Int
        /\ k \in Int /\ h \in Int /\ l \in Int
    BY <1>3
  <2>3. h + T * k = dh + sh + i /\ l + T * i = dl + sl + c
    BY <1>5, <2>1, Zenon
  <2>. QED BY <2>1, <2>2, <2>3, SumOfDigits
<1>14. (d + s + c) % Byte = a
  BY <1>3, <1>4, Zenon DEF a
<1>. QED BY <1>1, <1>2, <1>3, <1>11, <1>12, <1>13, <1>14, Zenon DEF DaaLeft

DasLeft(d, s, c, f) ==
  LET r == das((d - s - c) % Byte, f) IN
  /\ r.res \in 0..(Byte - 1) /\ IsDecimal(r.res)
  /\ Decimal(r.res) - Carry(r.f) * Ten * Ten = Decimal(d) - c - Decimal(s)

LEMMA DasIs ==
  ASSUME NEW d \in 0..(Byte - 1), NEW s \in 0..(Byte - 1), IsDecimal(d), IsDecimal(s),
         NEW c \in 0..1, NEW f,
         "AF" \in f <=> ~Within(B \div 2, (d % Nibble) - (s % Nibble) - c),
         "CF" \in f <=> ~Within(B, d - s - c)
  PROVE  DasLeft(d, s, c, f)
<1>1. PICK dh \in 0..(Ten - 1), dl \in 0..(Ten - 1) :
        d = Nibble * dh + dl /\ d % Nibble = dl /\ Decimal(d) = Ten * dh + dl
  BY TwoDigits
<1>2. PICK sh \in 0..(Ten - 1), sl \in 0..(Ten - 1) :
        s = Nibble * sh + sl /\ s % Nibble = sl /\ Decimal(s) = Ten * sh + sl
  BY TwoDigits
<1>3. PICK N \in Nat, T \in Nat \ {0} : N = Nibble /\ T = Ten /\ 2 <= T /\ T <= N /\ Byte = N * N
  BY TenIs, HalfByte
<1>4. PICK x \in Int : x = d - s - c /\ x = N * (dh - sh) + (dl - sl - c)
  <2>1. N * (dh - sh) = N * dh - N * sh
    BY <1>3
  <2>. QED BY <1>1, <1>2, <1>3, <2>1, HalfByte
<1> DEFINE a == x % (N * N)
           first == a % N > T - 1 \/ dl - sl - c < 0
           low == IF first THEN (a - (N - T)) % (N * N) ELSE a
           high == low > T * N - 1 \/ x < 0
           res == IF high THEN low - (N - T) * N ELSE low
<1>15. /\ DifferenceAdjusting(N, T, dl - sl - c, x, a, low, res)
       /\ high <=> low > T * N - 1 \/ x < 0
  BY Zenon DEF DifferenceAdjusting
<1>. HIDE DEF a, first, low, high, res
<1>16. DifferenceAdjusted(N, T, dh - sh, dl - sl - c, x, low, res)
  <2>1. /\ 2 <= T /\ T <= N /\ N \in Nat /\ T \in Nat /\ x \in Int
        /\ dh - sh \in (1 - T)..(T - 1) /\ dl - sl - c \in (-T)..(T - 1)
        /\ x = N * (dh - sh) + (dl - sl - c)
    BY <1>3, <1>4
  <2>. QED BY <1>15, <2>1, PackedDifference, Zenon
<1>5. PICK k \in 0..1, h \in 0..(T - 1), l \in 0..(T - 1) :
           /\ high <=> k = 1
           /\ res % (N * N) = N * h + l
           /\ h - T * k = dh - sh - (IF dl - sl - c < 0 THEN 1 ELSE 0)
           /\ l - T * (IF dl - sl - c < 0 THEN 1 ELSE 0) = dl - sl - c
  BY <1>15, <1>16, Zenon DEF DifferenceAdjusted
<1>6. "AF" \in f <=> dl - sl - c < 0
  <2>1. ~Within(B \div 2, dl - sl - c) <=> dl - sl - c < 0
    BY <1>3, TenIs DEF Within
  <2>. QED BY <1>1, <1>2, <2>1, Zenon
<1>7. "CF" \in f <=> x < 0
  <2>1. x < N * N
    BY <1>3, <1>4, HalfByte
  <2>2. ~Within(B, x) <=> x < 0
    BY <1>3, <1>4, <2>1, TenIs DEF Within
  <2>. QED BY <1>4, <2>2, Zenon
<1>8. Unadjusted(a, f) <=> first
  BY <1>3, <1>6, Zenon DEF Unadjusted, first
<1>9. das(a, f) = Result(B, res, Raised(Unadjusted(a, f), high, f), Sign(B, res))
  <2>1. (IF Unadjusted(a, f) THEN (a - (N - T)) % (N * N) ELSE a) = low
    BY <1>8, Zenon DEF low
  <2>2. low > T * N - 1 \/ "CF" \in f <=> high
    BY <1>7, Zenon DEF high
  <2>. QED BY <1>3, <2>1, <2>2 DEF das, res
<1>10. /\ das(a, f).res = res % Byte
       /\ "CF" \in das(a, f).f <=> high
  <2>1. "CF" \in f => high
    BY <1>7, Zenon DEF high
  <2>2. "CF" \in Raised(Unadjusted(a, f), high, f) <=> high
    BY <2>1, FlagNames DEF Raised
  <2>. QED BY <1>9, <2>2, AdjustedParts, Zenon
<1>11. das(a, f).res = N * h + l /\ Carry(das(a, f).f) = k
  <2>1. k = 1 \/ k = 0
    OBVIOUS
  <2>2. Carry(das(a, f).f) = k
    BY <1>5, <1>10, <2>1 DEF Carry
  <2>. QED BY <1>3, <1>5, <1>10, <2>2, Zenon
<1>12. /\ IsDecimal(N * h + l) /\ Decimal(N * h + l) = T * h + l
       /\ N * h + l \in 0..(Byte - 1)
  BY <1>3, DigitsTwo, Zenon
<1>13. (T * h + l) - k * T * T = (T * dh + dl) - c - (T * sh + sl)
  <2>1. PICK i \in Int : i = IF dl - sl - c < 0 THEN 1 ELSE 0
    OBVIOUS
  <2>2. /\ T \in Int /\ dh \in Int /\ dl \in Int /\ sh \in Int /\ sl \in Int /\ c \in Int
        /\ k \in Int /\ h \in Int /\ l \in Int
    BY <1>3
  <2>3. h - T * k = dh - sh - i /\ l - T * i = dl - sl - c
    BY <1>5, <2>1, Zenon
  <2>. QED BY <2>1, <2>2, <2>3, DifferenceOfDigits
<1>14. (d - s - c) % Byte = a
  BY <1>3, <1>4, Zenon DEF a
<1>. QED BY <1>1, <1>2, <1>3, <1>11, <1>12, <1>13, <1>14, Zenon DEF DasLeft

(* What aaa and aas leave, from the byte and the low one that they unpack.  *)
LEMMA AsciiAdjusted ==
  ASSUME NEW x, NEW by, NEW f, NEW y \in Int, y = IF Unadjusted(x, f) THEN x + by ELSE x,
         NEW h \in Int, NEW v \in 0..(Byte - 1), y = Byte * h + v
  PROVE  LET r == AsciiAdjust(x, by, f) IN
         /\ r.res \in Words /\ Lo(r.res) = v % Nibble /\ Hi(r.res) = h % Byte
         /\ "CF" \in r.f <=> Unadjusted(x, f)
<1>1. PICK N \in Nat \ {0}, M \in Nat \ {0} : N = Nibble /\ M = Byte /\ M = N * N /\ N <= M
  <2>1. Nibble <= Nibble * Nibble
    BY HalfByte
  <2>. QED BY <2>1, HalfByte
<1>2. y \div Byte = h
  BY <1>1, DivisionOf, Zenon
<1>3. y % Nibble = v % Nibble
  <2>1. y = N * (N * h) + v /\ N * h \in Int /\ v \in Int
    BY <1>1
  <2>2. (N * (N * h) + v) % N = v % N
    BY <2>1, LowDigit, Zenon
  <2>. QED BY <1>1, <2>1, <2>2, Zenon
<1>4. v % Nibble \in 0..(Byte - 1) /\ h % Byte \in 0..(Byte - 1)
  <2>1. v % N \in 0..(N - 1) /\ h % M \in 0..(M - 1)
    BY <1>1
  <2>. QED BY <1>1, <2>1
<1> DEFINE res == Byte * (h % Byte) + (v % Nibble)
<1>5. res \in Words /\ Lo(res) = v % Nibble /\ Hi(res) = h % Byte
  BY <1>4, Joined, Zenon
<1>6. Unpacked(IF Unadjusted(x, f) THEN x + by ELSE x) = res
  BY <1>2, <1>3, Zenon DEF Unpacked
<1>. HIDE DEF res
<1>7. res % 2^(2 * B) = res
  BY <1>5, Small, HalfByte DEF Word, Words
<1> DEFINE on == [SF |-> FALSE, ZF |-> res = 0, PF |-> Parity(res),
                  AF |-> Unadjusted(x, f), CF |-> Unadjusted(x, f)]
<1>8. AsciiAdjust(x, by, f) = [res |-> res, f |-> Change(f, on)]
  BY <1>6, <1>7, Zenon DEF AsciiAdjust, Result
<1>9. "CF" \in Change(f, on) <=> Unadjusted(x, f)
  <2>1. "CF" \in DOMAIN on /\ (on["CF"] <=> Unadjusted(x, f))
    OBVIOUS
  <2>. HIDE DEF on
  <2>. QED BY <2>1, FlagNames, Changed
<1>. HIDE DEF on
<1>. QED BY <1>5, <1>8, <1>9, ResultParts, Zenon

LEMMA DigitsAre ==
  \A N, T \in Nat : 2 <= T /\ T <= N => \A d, s \in 0..(T - 1) : \A c \in 0..1 :
    DigitsAdded(N, T, d, s, c) /\ DigitsTaken(N, T, d, s, c)
BY DigitSum, DigitDifference, Zenon

AaaLeft(x, d, s, c, f) ==
  LET r == aaa(x, f) IN
  /\ r.res \in Words /\ Lo(r.res) \in 0..(Ten - 1)
  /\ Lo(r.res) + Carry(r.f) * Ten = d + s + c
  /\ Hi(r.res) = (Hi(x) + Carry(r.f)) % Byte

LEMMA AaaIs ==
  ASSUME NEW x \in Words, NEW d \in 0..(Ten - 1), NEW s \in 0..(Ten - 1), NEW c \in 0..1, NEW f,
         Lo(x) = (d + s + c) % Byte,
         "AF" \in f <=> ~Within(B \div 2, (d % Nibble) + (s % Nibble) + c)
  PROVE  AaaLeft(x, d, s, c, f)
<1>1. PICK N \in Nat \ {0}, T \in Nat \ {0} :
        N = Nibble /\ T = Ten /\ 2 <= T /\ T <= N /\ Byte = N * N
  BY TenIs, HalfByte
<1>2. PICK u \in 0..(2 * T - 1) : u = d + s + c
  BY <1>1
<1>3. /\ (u % (N * N)) = u
      /\ u % N > T - 1 \/ (d % N) + (s % N) + c >= N <=> u >= T
      /\ u >= T => u + N - T \in 0..(N * N - 1) /\ (u + N - T) % N = u - T
      /\ u < T => u % N = u
  <2>1. N \in Nat /\ T \in Nat /\ d \in 0..(T - 1) /\ s \in 0..(T - 1) /\ c \in 0..1
    BY <1>1
  <2>2. DigitsAdded(N, T, d, s, c)
    BY <1>1, <2>1, DigitsAre, Zenon
  <2>. QED BY <1>2, <2>2, Zenon DEF DigitsAdded
<1>4. Lo(x) = u
  BY <1>1, <1>2, <1>3, Zenon
<1>5. PICK h \in Int : h = Hi(x) /\ x = Byte * h + u
  BY <1>4, Halves, HalfByte
<1>6. x % Nibble = u % Nibble
  <2>1. x = N * (N * h) + u /\ N * h \in Int /\ u \in Int
    BY <1>1, <1>5
  <2>. QED BY <1>1, <2>1, LowDigit, Zenon
<1>7. Unadjusted(x, f) <=> u >= T
  <2>1. PICK t \in Int : t = (d % N) + (s % N) + c /\ t >= 0
    BY <1>1
  <2>2. ~Within(B \div 2, t) <=> t >= N
    BY <1>1, <2>1, TenIs DEF Within
  <2>. QED BY <1>1, <1>3, <1>6, <2>1, <2>2, Zenon DEF Unadjusted
<1>8. x \in Int /\ Byte \in Int
  BY <1>5, HalfByte
<1>9. CASE u >= T
  <2>1. PICK v \in Int : v = u + N - T /\ v \in 0..(N * N - 1) /\ v % N = u - T
    BY <1>1, <1>2, <1>3, <1>9
  <2>2. PICK y \in Int : y = x + (Nibble - Ten + Byte) /\ y = Byte * (h + 1) + v /\ h + 1 \in Int
    <3>1. PICK M \in Int, Mh \in Int : M = Byte /\ Mh = Byte * h /\ Byte * (h + 1) = Mh + M
      BY <1>8
    <3>2. x = Mh + u /\ Nibble - Ten + Byte = N - T + M /\ Nibble - Ten + Byte \in Int
      BY <1>1, <1>5, <3>1
    <3>3. x + (Nibble - Ten + Byte) = Byte * (h + 1) + v
      BY <2>1, <3>1, <3>2
    <3>. QED BY <1>8, <3>2, <3>3
  <2>3. v \in 0..(Byte - 1)
    BY <1>1, <2>1, Zenon
  <2>4. LET r == AsciiAdjust(x, Nibble - Ten + Byte, f) IN
        /\ r.res \in Words /\ Lo(r.res) = v % Nibble /\ Hi(r.res) = (h + 1) % Byte
        /\ "CF" \in r.f <=> Unadjusted(x, f)
    <3> DEFINE by == Nibble - Ten + Byte
               g == h + 1
    <3>1. y = (IF Unadjusted(x, f) THEN x + by ELSE x) /\ y = Byte * g + v /\ g \in Int
      BY <1>7, <1>9, <2>2, Zenon
    <3>. HIDE DEF by, g
    <3>2. LET r == AsciiAdjust(x, by, f) IN
          /\ r.res \in Words /\ Lo(r.res) = v % Nibble /\ Hi(r.res) = g % Byte
          /\ "CF" \in r.f <=> Unadjusted(x, f)
      BY <2>3, <3>1, AsciiAdjusted
    <3>. QED BY <3>2, Zenon DEF by, g
  <2> DEFINE r == aaa(x, f)
  <2>5. r.res \in Words /\ Lo(r.res) = u - T /\ Hi(r.res) = (h + 1) % Byte /\ "CF" \in r.f
    BY <1>1, <1>7, <1>9, <2>1, <2>4, Zenon DEF aaa
  <2>. HIDE DEF r
  <2>6. Carry(r.f) = 1
    BY <2>5 DEF Carry
  <2>7. Lo(r.res) \in 0..(Ten - 1) /\ Lo(r.res) + 1 * Ten = d + s + c
    BY <1>1, <1>2, <1>9, <2>5
  <2>. QED BY <1>5, <2>5, <2>6, <2>7, Zenon DEF r, AaaLeft
<1>10. CASE u < T
  <2>1. u \in Int /\ u \in 0..(Byte - 1) /\ u \in 0..(Ten - 1)
    <3>1. T <= N * N
      BY <1>1
    <3>. QED BY <1>1, <1>2, <1>10, <3>1
  <2>2. LET r == AsciiAdjust(x, Nibble - Ten + Byte, f) IN
        /\ r.res \in Words /\ Lo(r.res) = u % Nibble /\ Hi(r.res) = h % Byte
        /\ "CF" \in r.f <=> Unadjusted(x, f)
    <3> DEFINE by == Nibble - Ten + Byte
    <3>1. ~(u >= T)
      BY <1>1, <1>2, <1>10
    <3>2. x = (IF Unadjusted(x, f) THEN x + by ELSE x)
      BY <1>7, <3>1, Zenon
    <3>. HIDE DEF by
    <3>3. LET r == AsciiAdjust(x, by, f) IN
          /\ r.res \in Words /\ Lo(r.res) = u % Nibble /\ Hi(r.res) = h % Byte
          /\ "CF" \in r.f <=> Unadjusted(x, f)
      BY <1>5, <1>8, <2>1, <3>2, AsciiAdjusted
    <3>. QED BY <3>3, Zenon DEF by
  <2> DEFINE r == aaa(x, f)
  <2>3. r.res \in Words /\ Lo(r.res) = u /\ Hi(r.res) = h % Byte /\ "CF" \notin r.f
    <3>1. ~(u >= T)
      BY <1>1, <1>2, <1>10
    <3>. QED BY <1>1, <1>3, <1>7, <1>10, <2>2, <3>1, Zenon DEF aaa
  <2>. HIDE DEF r
  <2>4. Carry(r.f) = 0
    BY <2>3 DEF Carry
  <2>5. u + 0 * Ten = d + s + c /\ h + 0 = h
    BY <1>1, <1>2
  <2>. QED BY <1>5, <2>1, <2>3, <2>4, <2>5, Zenon DEF r, AaaLeft
<1>. QED BY <1>1, <1>2, <1>9, <1>10
AasLeft(x, d, s, c, f) ==
  LET r == aas(x, f) IN
  /\ r.res \in Words /\ Lo(r.res) \in 0..(Ten - 1)
  /\ Lo(r.res) - Carry(r.f) * Ten = d - s - c
  /\ Hi(r.res) = (Hi(x) - Carry(r.f)) % Byte

LEMMA AasIs ==
  ASSUME NEW x \in Words, NEW d \in 0..(Ten - 1), NEW s \in 0..(Ten - 1), NEW c \in 0..1, NEW f,
         Lo(x) = (d - s - c) % Byte,
         "AF" \in f <=> ~Within(B \div 2, (d % Nibble) - (s % Nibble) - c)
  PROVE  AasLeft(x, d, s, c, f)
<1>1. PICK N \in Nat \ {0}, T \in Nat \ {0} :
        N = Nibble /\ T = Ten /\ 2 <= T /\ T <= N /\ Byte = N * N
  BY TenIs, HalfByte
<1>2. PICK u \in (-T)..(T - 1) : u = d - s - c
  BY <1>1
<1>a. PICK v \in 0..(Byte - 1) : v = u % (N * N) /\ Lo(x) = v
  <2>1. Lo(x) = u % (N * N)
    BY <1>1, <1>2, Zenon
  <2>. QED BY <2>1, Halves
<1>3. /\ v % N > T - 1 \/ (d % N) - (s % N) - c < 0 <=> u < 0
      /\ u < 0 => v - N + T \in 0..(N * N - 1) /\ (v - N + T) % N = u + T
      /\ u >= 0 => v = u /\ v % N = u
  <2>1. N \in Nat /\ T \in Nat /\ d \in 0..(T - 1) /\ s \in 0..(T - 1) /\ c \in 0..1
    BY <1>1
  <2>2. DigitsTaken(N, T, d, s, c)
    BY <1>1, <2>1, DigitsAre, Zenon
  <2>. QED BY <1>2, <1>a, <2>2, Zenon DEF DigitsTaken
<1>5. PICK h \in Int : h = Hi(x) /\ x = Byte * h + v
  BY <1>a, Halves, HalfByte
<1>6. x % Nibble = v % Nibble
  <2>1. x = N * (N * h) + v /\ N * h \in Int /\ v \in Int
    BY <1>1, <1>5
  <2>. QED BY <1>1, <2>1, LowDigit, Zenon
<1>7. Unadjusted(x, f) <=> u < 0
  <2>1. PICK t \in Int : t = (d % N) - (s % N) - c /\ t < N
    <3>1. d % N \in 0..(N - 1) /\ s % N \in 0..(N - 1)
      BY <1>1
    <3>. QED BY <1>1, <3>1
  <2>2. ~Within(B \div 2, t) <=> t < 0
    BY <1>1, <2>1, TenIs DEF Within
  <2>. QED BY <1>1, <1>3, <1>6, <2>1, <2>2, Zenon DEF Unadjusted
<1>8. x \in Int /\ Byte \in Int
  BY <1>5, HalfByte
<1>9. CASE u < 0
  <2>1. PICK z \in Int : z = v - N + T /\ z \in 0..(N * N - 1) /\ z % N = u + T
    BY <1>1, <1>2, <1>3, <1>9
  <2>2. PICK y \in Int : y = x + (-(Nibble - Ten + Byte)) /\ y = Byte * (h - 1) + z /\ h - 1 \in Int
    <3>1. PICK M \in Int, Mh \in Int : M = Byte /\ Mh = Byte * h /\ Byte * (h - 1) = Mh - M
      BY <1>8
    <3>2. x = Mh + v /\ -(Nibble - Ten + Byte) = T - N - M /\ -(Nibble - Ten + Byte) \in Int
      BY <1>1, <1>5, <3>1
    <3>3. x + (-(Nibble - Ten + Byte)) = Byte * (h - 1) + z
      BY <2>1, <3>1, <3>2
    <3>. QED BY <1>8, <3>2, <3>3
  <2>3. z \in 0..(Byte - 1)
    BY <1>1, <2>1, Zenon
  <2>4. LET r == AsciiAdjust(x, -(Nibble - Ten + Byte), f) IN
        /\ r.res \in Words /\ Lo(r.res) = z % Nibble /\ Hi(r.res) = (h - 1) % Byte
        /\ "CF" \in r.f <=> Unadjusted(x, f)
    <3> DEFINE by == -(Nibble - Ten + Byte)
               g == h - 1
    <3>1. y = (IF Unadjusted(x, f) THEN x + by ELSE x) /\ y = Byte * g + z /\ g \in Int
      BY <1>7, <1>9, <2>2, Zenon
    <3>. HIDE DEF by, g
    <3>2. LET r == AsciiAdjust(x, by, f) IN
          /\ r.res \in Words /\ Lo(r.res) = z % Nibble /\ Hi(r.res) = g % Byte
          /\ "CF" \in r.f <=> Unadjusted(x, f)
      BY <2>3, <3>1, AsciiAdjusted
    <3>. QED BY <3>2, Zenon DEF by, g
  <2> DEFINE r == aas(x, f)
  <2>5. r.res \in Words /\ Lo(r.res) = u + T /\ Hi(r.res) = (h - 1) % Byte /\ "CF" \in r.f
    BY <1>1, <1>7, <1>9, <2>1, <2>4, Zenon DEF aas
  <2>. HIDE DEF r
  <2>6. Carry(r.f) = 1
    BY <2>5 DEF Carry
  <2>7. Lo(r.res) \in 0..(Ten - 1) /\ Lo(r.res) - 1 * Ten = d - s - c
    BY <1>1, <1>2, <1>9, <2>5
  <2>. QED BY <1>5, <2>5, <2>6, <2>7, Zenon DEF r, AasLeft
<1>10. CASE u >= 0
  <2>1. v = u /\ v \in 0..(Ten - 1)
    BY <1>1, <1>2, <1>3, <1>10
  <2>2. LET r == AsciiAdjust(x, -(Nibble - Ten + Byte), f) IN
        /\ r.res \in Words /\ Lo(r.res) = v % Nibble /\ Hi(r.res) = h % Byte
        /\ "CF" \in r.f <=> Unadjusted(x, f)
    <3> DEFINE by == -(Nibble - Ten + Byte)
    <3>1. ~(u < 0)
      BY <1>1, <1>2, <1>10
    <3>2. x = (IF Unadjusted(x, f) THEN x + by ELSE x)
      BY <1>7, <3>1, Zenon
    <3>. HIDE DEF by
    <3>3. LET r == AsciiAdjust(x, by, f) IN
          /\ r.res \in Words /\ Lo(r.res) = v % Nibble /\ Hi(r.res) = h % Byte
          /\ "CF" \in r.f <=> Unadjusted(x, f)
      BY <1>5, <1>8, <3>2, AsciiAdjusted
    <3>. QED BY <3>3, Zenon DEF by
  <2> DEFINE r == aas(x, f)
  <2>3. r.res \in Words /\ Lo(r.res) = v /\ Hi(r.res) = h % Byte /\ "CF" \notin r.f
    <3>1. ~(u < 0)
      BY <1>1, <1>2, <1>10
    <3>. QED BY <1>1, <1>3, <1>7, <1>10, <2>1, <2>2, <3>1, Zenon DEF aas
  <2>. HIDE DEF r
  <2>4. Carry(r.f) = 0
    BY <2>3 DEF Carry
  <2>5. v - 0 * Ten = d - s - c /\ h - 0 = h
    BY <1>1, <1>2, <2>1
  <2>. QED BY <1>5, <2>1, <2>3, <2>4, <2>5, Zenon DEF r, AasLeft
<1>. QED BY <1>1, <1>2, <1>9, <1>10

-----------------------------------------------------------------------------
(* The instructions that adjust.                                           *)

(* A machine on which the next instruction may be executed.                 *)
Ready(m) == Fields(m) /\ m.ip \in Words /\ m.reg \in [Names -> Words]

(* What an adjustment does: AL or AX replaced by the result r, and its flags. *)
Becomes(m, t, w, r) == Replaced(m.reg, t.reg, w, AX, r.res) /\ t.flg = r.f

LEMMA Adjusting ==
  ASSUME NEW m, m.reg \in [Names -> Words], NEW e, Fields(e), e.reg = m.reg, e.ip \in Int,
         NEW w \in {1, 2}, NEW r, r.res \in 0..(2^Bits(w) - 1),
         NEW i, NEW j, Handled(Fetch(m, j), i) = Adjusted(e, w, r)
  PROVE  Becomes(m, Stepped(m, i, j), w, r)
<1> DEFINE g == [e EXCEPT !.flg = r.f]
           v == r.res
           h == SetReg(g, w, AX, v)
<1>1. Step(e, e, m.reg, e.flg, e.ip)
  BY DEF Step
<1>2. Step(e, g, m.reg, r.f, e.ip)
  BY <1>1, FlagsSet
<1>3. Handled(Fetch(m, j), i) = Clear(h)
  BY Zenon DEF Adjusted
<1>4. v \in 0..(2^Bits(w) - 1) /\ AX \in 0..7
  BY DEF AX
<1>. HIDE DEF g, v
<1>5. PICK reg : Replaced(m.reg, reg, w, AX, v) /\ Step(e, h, reg, r.f, e.ip)
  BY <1>2, <1>4, RegSet
<1>. HIDE DEF h
<1>6. Step(e, Clear(h), reg, r.f, e.ip)
  BY <1>5, Steps
<1>7. Finish(Clear(h)).reg = reg /\ Finish(Clear(h)).flg = r.f
  BY <1>6, Finishing
<1>8. Stepped(m, i, j) = Finish(Clear(h))
  BY <1>3, Around, Zenon
<1>. QED BY <1>5, <1>7, <1>8, Zenon DEF Becomes, v

LEMMA AdjustNamed ==
  ASSUME NEW m, NEW i
  PROVE  /\ i.op = "daa" => Handled(m, i) = daa_AL(m, i)
         /\ i.op = "das" => Handled(m, i) = das_AL(m, i)
         /\ i.op = "aaa" => Handled(m, i) = aaa_AX(m, i)
         /\ i.op = "aas" => Handled(m, i) = aas_AX(m, i)
         /\ i.op = "aad" => Handled(m, i) = aad_AX(m, i)
         /\ i.op = "aam" => Handled(m, i) = aam_AX(m, i)
<1>1. i.op = "daa" => Handled(m, i) = daa_AL(m, i)
  BY DEF Handled, TwoByte
<1>2. i.op = "das" => Handled(m, i) = das_AL(m, i)
  BY DEF Handled, TwoByte
<1>3. i.op = "aaa" => Handled(m, i) = aaa_AX(m, i)
  BY DEF Handled, TwoByte
<1>4. i.op = "aas" => Handled(m, i) = aas_AX(m, i)
  BY DEF Handled, TwoByte
<1>5. i.op = "aad" => Handled(m, i) = aad_AX(m, i)
  BY DEF Handled, TwoByte
<1>6. i.op = "aam" => Handled(m, i) = aam_AX(m, i)
  BY DEF Handled, TwoByte
<1>. QED BY <1>1, <1>2, <1>3, <1>4, <1>5, <1>6

LEMMA IntrSet ==
  ASSUME NEW e, Fields(e), NEW p
  PROVE  LET h == [e EXCEPT !.intr = p]
         IN  Fields(h) /\ h.reg = e.reg /\ h.flg = e.flg /\ h.ip = e.ip
BY DEF Fields

LEMMA FetchReady ==
  ASSUME NEW m, Ready(m), NEW j
  PROVE  LET e == Fetch(m, j)
             g == Skip(e, 1)
             h == HALT_SYS(g)
         IN  /\ Fields(e) /\ e.reg = m.reg /\ e.flg = m.flg /\ e.ip \in Int
             /\ Fields(g) /\ g.reg = m.reg /\ g.flg = m.flg /\ g.ip \in Int
             /\ Fields(h) /\ h.reg = m.reg /\ h.flg = m.flg /\ h.ip \in Int
<1>1. Fields(m) /\ m.ip \in Int /\ Word \in Nat \ {0}
  BY HalfByte DEF Ready, Words
<1>2. \A x \in Int : x % Word \in Int
  BY <1>1
<1>3. (m.ip + 1) % Word \in Int /\ (((m.ip + 1) % Word) + 1) % Word \in Int
  BY <1>1, <1>2
<1> DEFINE e == Fetch(m, j)
           g == Skip(e, 1)
           h == HALT_SYS(g)
<1>4. Step(m, e, m.reg, m.flg, (m.ip + 1) % Word)
  BY <1>1, Fetching
<1>. HIDE DEF e
<1>5. 1 \in Nat
  OBVIOUS
<1>6. Step(m, g, m.reg, m.flg, (((m.ip + 1) % Word) + 1) % Word)
  BY <1>3, <1>4, <1>5, Steps
<1>. HIDE DEF g
<1>7. Fields(h) /\ h.reg = g.reg /\ h.flg = g.flg /\ h.ip = g.ip
  <2>1. Fields(g) /\ h = [g EXCEPT !.intr = g.intr \union {"HALTED"}]
    BY <1>6 DEF Step, HALT_SYS
  <2>. HIDE DEF h
  <2>. QED BY <2>1, IntrSet
<1>. HIDE DEF h
<1>8. /\ Fields(e) /\ e.reg = m.reg /\ e.flg = m.flg /\ e.ip \in Int
      /\ Fields(g) /\ g.reg = m.reg /\ g.flg = m.flg /\ g.ip \in Int
      /\ Fields(h) /\ h.reg = m.reg /\ h.flg = m.flg /\ h.ip \in Int
  BY <1>3, <1>4, <1>6, <1>7 DEF Step
<1>. QED BY <1>8, Zenon DEF e, g, h

(* The instructions that adjust, each by its primitive.                     *)
LEMMA AdjustSteps ==
  ASSUME NEW m, Ready(m), NEW i, NEW j, NEW r
  PROVE  LET t == Stepped(m, i, j) IN
         /\ i.op = "daa" /\ r = daa(Lo(m.reg.AX), m.flg) /\ r.res \in 0..(Byte - 1) => Becomes(m, t, 1, r)
         /\ i.op = "das" /\ r = das(Lo(m.reg.AX), m.flg) /\ r.res \in 0..(Byte - 1) => Becomes(m, t, 1, r)
         /\ i.op = "aaa" /\ r = aaa(m.reg.AX, m.flg) /\ r.res \in Words => Becomes(m, t, 2, r)
         /\ i.op = "aas" /\ r = aas(m.reg.AX, m.flg) /\ r.res \in Words => Becomes(m, t, 2, r)
         /\ i.op = "aad" /\ r = aad(m.reg.AX, m.flg) /\ r.res \in Words => Becomes(m, t, 2, r)
         /\ i.op = "aam" /\ r = aam(Lo(m.reg.AX), m.flg) /\ r.res \in Words => Becomes(m, t, 2, r)
<1> DEFINE e == Fetch(m, j)
           g == Skip(e, 1)
           h == HALT_SYS(g)
<1>1. /\ Fields(e) /\ e.reg = m.reg /\ e.flg = m.flg /\ e.ip \in Int
      /\ Fields(g) /\ g.reg = m.reg /\ g.flg = m.flg /\ g.ip \in Int
      /\ Fields(h) /\ h.reg = m.reg /\ h.flg = m.flg /\ h.ip \in Int
  BY FetchReady, Zenon
<1>2. /\ 1 \in {1, 2} /\ 2 \in {1, 2} /\ m.reg \in [Names -> Words]
      /\ r.res \in 0..(Byte - 1) => r.res \in 0..(2^Bits(1) - 1)
      /\ r.res \in Words => r.res \in 0..(2^Bits(2) - 1)
  BY BitsWidth DEF Words, Ready
<1>3. \A w \in {1, 2} : \A x : Fields(x) /\ x.reg = m.reg /\ x.ip \in Int
        /\ r.res \in 0..(2^Bits(w) - 1) /\ Handled(Fetch(m, j), i) = Adjusted(x, w, r)
        => Becomes(m, Stepped(m, i, j), w, r)
  BY <1>2, Adjusting, Zenon
<1>4. i.op = "daa" /\ r = daa(Lo(m.reg.AX), m.flg) => Handled(Fetch(m, j), i) = Adjusted(e, 1, r)
  BY <1>1, AdjustNamed, Zenon DEF daa_AL
<1>5. i.op = "das" /\ r = das(Lo(m.reg.AX), m.flg) => Handled(Fetch(m, j), i) = Adjusted(e, 1, r)
  BY <1>1, AdjustNamed, Zenon DEF das_AL
<1>6. i.op = "aaa" /\ r = aaa(m.reg.AX, m.flg) => Handled(Fetch(m, j), i) = Adjusted(e, 2, r)
  BY <1>1, AdjustNamed, Zenon DEF aaa_AX
<1>7. i.op = "aas" /\ r = aas(m.reg.AX, m.flg) => Handled(Fetch(m, j), i) = Adjusted(e, 2, r)
  BY <1>1, AdjustNamed, Zenon DEF aas_AX
<1>8. i.op = "aad" /\ r = aad(m.reg.AX, m.flg) => Handled(Fetch(m, j), i) = Adjusted(g, 2, r)
  BY <1>1, AdjustNamed, Zenon DEF aad_AX
<1>9. i.op = "aam" /\ r = aam(Lo(m.reg.AX), m.flg) =>
        \/ Handled(Fetch(m, j), i) = Adjusted(g, 2, r)
        \/ Handled(Fetch(m, j), i) = Adjusted(h, 2, r)
  <2>1. i.op = "aam" => Handled(Fetch(m, j), i) = aam_AX(Fetch(m, j), i)
    BY AdjustNamed, Zenon
  <2>2. aam_AX(e, i) = Adjusted(IF i.imm = Ten THEN g ELSE h, 2, aam(Lo(e.reg.AX), e.flg))
    BY Zenon DEF aam_AX
  <2>. QED BY <1>1, <2>1, <2>2, Zenon
<1>. HIDE DEF e, g, h
<1>. QED BY <1>1, <1>2, <1>3, <1>4, <1>5, <1>6, <1>7, <1>8, <1>9, Zenon

-----------------------------------------------------------------------------
(* Additions and subtractions before them.                                 *)

(* A machine that has just added or subtracted: the byte v in AL, and AF    *)
(* and CF as the sums of the low digits and of the bytes want them.         *)
Summed(o, m, v, low, all) ==
  /\ Ready(m)
  /\ m.reg.AX \in Words /\ Lo(m.reg.AX) = v /\ Hi(m.reg.AX) = Hi(o.reg.AX)
  /\ "AF" \in m.flg <=> ~Within(B \div 2, low)
  /\ "CF" \in m.flg <=> ~Within(B, all)

LEMMA Operands ==
  ASSUME NEW o, IsMachine(o), NEW i \in Instructions
  PROVE  /\ o.reg \in [Names -> Words] /\ o.ip \in Words
         /\ Reg(o, 1, AX) = Lo(o.reg.AX) /\ Reg(o, 1, AH) = Hi(o.reg.AX)
         /\ o.reg.AX \in Words
         /\ Reg(o, 1, AX) \in 0..(Byte - 1) /\ Reg(o, 1, AH) \in 0..(Byte - 1)
         /\ Reg(o, 1, i.rl) \in 0..(Byte - 1) /\ Reg(o, 1, i.rh) \in 0..(Byte - 1)
<1>1. o.reg \in [Names -> Words] /\ o.ip \in Words
  BY DEF IsMachine, Names
<1>2. i.rl \in 0..7 /\ i.rh \in 0..7 /\ 1 \in {1, 2} /\ AX \in 0..7 /\ AH \in 0..7
  BY DEF Instructions, AX, AH
<1>3. \A k \in 0..7 : Reg(o, 1, k) \in 0..(Byte - 1)
  BY <1>1, <1>2, RegValue, BitsWidth
<1>4. Reg(o, 1, AX) = Lo(o.reg.AX) /\ Reg(o, 1, AH) = Hi(o.reg.AX)
  BY DEF Reg, AX, AH, GeneralRegs
<1>5. o.reg.AX \in Words
  BY <1>1 DEF Names
<1>. QED BY <1>1, <1>2, <1>3, <1>4, <1>5, Zenon

LEMMA SumSummed ==
  ASSUME NEW o, IsMachine(o), o.intr = {}, NEW i \in Instructions, i.mod = 3, i.w = 1, i.rl = AX,
         i.op \in DOMAIN SumOps, NEW k,
         NEW d, d = Reg(o, 1, AX), NEW s, s = Reg(o, 1, i.rh)
  PROVE  Summed(o, Stepped(o, i, k), Total(i.op, o.flg, d, s) % Byte,
                Total(i.op, o.flg, d % Nibble, s % Nibble), Total(i.op, o.flg, d, s))
<1> DEFINE m == Stepped(o, i, k)
           all == Total(i.op, o.flg, d, s)
           low == Total(i.op, o.flg, d % Nibble, s % Nibble)
           sig == Total(i.op, o.flg, Signed(B, d), Signed(B, s))
           n == Bits(i.w)
<1>1. n = B /\ 2^n = Byte /\ d = Reg(o, i.w, i.rl) /\ s = Reg(o, i.w, i.rh)
  BY BitsWidth DEF Byte
<1>2. \E reg, f : /\ Replaced(o.reg, reg, i.w, i.rl, Total(i.op, o.flg, d, s) % 2^n)
                  /\ Step(o, Stepped(o, i, k), reg, f, (o.ip + 2) % Word)
                  /\ Flagged(f, n, Total(i.op, o.flg, d, s),
                             Total(i.op, o.flg, Signed(n, d), Signed(n, s)),
                             Total(i.op, o.flg, d % Nibble, s % Nibble))
                  /\ "CF" \in f <=> ~Within(n, Total(i.op, o.flg, d, s))
  <2>. HIDE DEF n
  <2>1. n = Bits(i.w)
    BY DEF n
  <2>. QED BY <1>1, <2>1, SumSteps
<1>. HIDE DEF n
<1>3. PICK reg, f : /\ Replaced(o.reg, reg, 1, AX, all % Byte)
                    /\ Step(o, m, reg, f, (o.ip + 2) % Word)
                    /\ Flagged(f, B, all, sig, low)
                    /\ "CF" \in f <=> ~Within(B, all)
  BY <1>1, <1>2, Zenon
<1>. HIDE DEF m, all, low, sig
<1>4. m.reg = reg /\ m.flg = f /\ Ready(m)
  <2>1. (o.ip + 2) % Word \in Words
    <3>1. o.ip \in Words /\ 2 \in Int
      BY DEF IsMachine
    <3>. QED BY <3>1, IpPlus
  <2>. QED BY <1>3, <2>1, Zenon DEF Step, Ready, Replaced
<1>5. Reg(m, 1, AX) = all % Byte
  BY <1>3, <1>4, Zenon DEF Replaced
<1>6. Reg(m, 1, AX) = Lo(m.reg.AX) /\ Whole(1, AX) = "AX"
  BY DEF Reg, AX, GeneralRegs, Whole
<1>7. Hi(m.reg.AX) = Hi(o.reg.AX)
  <2>1. 1 = 1 /\ AX < 4
    BY DEF AX
  <2>. QED BY <1>3, <1>4, <1>6, <2>1, Zenon DEF Replaced
<1>8. m.reg.AX \in Words
  BY <1>4 DEF Ready, Names
<1>9. "AF" \in m.flg <=> ~Within(B \div 2, low)
  BY <1>3, <1>4, Zenon DEF Flagged
<1>10. "CF" \in m.flg <=> ~Within(B, all)
  BY <1>3, <1>4, Zenon
<1>11. Summed(o, m, all % Byte, low, all)
  BY <1>4, <1>5, <1>6, <1>7, <1>8, <1>9, <1>10, Zenon DEF Summed
<1>. QED BY <1>11, Zenon DEF m, all, low

(* The four operations that may be adjusted, with the carry that counts.    *)
Adds(op, f) ==
  \E c \in 0..1 : /\ c = Weights[op][1] * Carry(f) /\ Weights[op][2] = 1
                 /\ \A x, y : Total(op, f, x, y) = x + y + c

LEMMA Adding ==
  ASSUME NEW op \in {"add_RM_R", "adc_RM_R"}, NEW f
  PROVE  Adds(op, f)
<1>1. CASE op = "add_RM_R"
  <2>1. Weights[op] = <<0, 1>>
    BY <1>1 DEF Weights
  <2>2. 0 \in 0..1 /\ 0 = Weights[op][1] * Carry(f) /\ Weights[op][2] = 1
    BY <2>1, CarryIs
  <2>3. \A x, y : Total(op, f, x, y) = x + y + 0
    BY <1>1, Zenon DEF Total
  <2>. QED BY <2>2, <2>3, Zenon DEF Adds
<1>2. CASE op = "adc_RM_R"
  <2>1. Weights[op] = <<1, 1>>
    BY <1>2 DEF Weights
  <2>2. Carry(f) \in 0..1 /\ Carry(f) = Weights[op][1] * Carry(f) /\ Weights[op][2] = 1
    BY <2>1, CarryIs
  <2>3. \A x, y : Total(op, f, x, y) = x + y + Carry(f)
    BY <1>2 DEF Total
  <2>. QED BY <2>2, <2>3, Zenon DEF Adds
<1>. QED BY <1>1, <1>2

Subtracts(op, f) ==
  \E c \in 0..1 : /\ -c = Weights[op][1] * Carry(f) /\ Weights[op][2] = -1
                 /\ \A x, y : Total(op, f, x, y) = x - y - c

LEMMA Subtracting ==
  ASSUME NEW op \in {"sub_RM_R", "sbb_RM_R"}, NEW f
  PROVE  Subtracts(op, f)
<1>1. CASE op = "sub_RM_R"
  <2>1. Weights[op] = <<0, -1>>
    BY <1>1 DEF Weights
  <2>2. 0 \in 0..1 /\ -0 = Weights[op][1] * Carry(f) /\ Weights[op][2] = -1
    BY <2>1, CarryIs
  <2>3. \A x, y : Total(op, f, x, y) = x - y - 0
    BY <1>1 DEF Total
  <2>. QED BY <2>2, <2>3, Zenon DEF Subtracts
<1>2. CASE op = "sbb_RM_R"
  <2>1. Weights[op] = <<-1, -1>>
    BY <1>2 DEF Weights
  <2>2. Carry(f) \in 0..1 /\ -Carry(f) = Weights[op][1] * Carry(f) /\ Weights[op][2] = -1
    BY <2>1, CarryIs
  <2>3. \A x, y : Total(op, f, x, y) = x - y - Carry(f)
    BY <1>2 DEF Total
  <2>. QED BY <2>2, <2>3, Zenon DEF Subtracts
<1>. QED BY <1>1, <1>2

-----------------------------------------------------------------------------
(* The two together.                                                       *)

LEMMA DecimalInt == \A x \in Int : Decimal(x) \in Int
<1>1. Nibble \in Nat \ {0} /\ Ten \in Nat
  BY TenIs, HalfByte
<1>. QED BY <1>1, Division DEF Decimal

(* What an adjustment leaves in AL, in AH and in the flags.                 *)
LEMMA Became ==
  ASSUME NEW m, NEW r, NEW w \in {1, 2}, Becomes(m, machine, w, r)
  PROVE  /\ machine.flg = r.f
         /\ w = 1 => Value(1, AX) = r.res
         /\ w = 2 => Value(1, AX) = Lo(r.res) /\ Value(1, AH) = Hi(r.res)
<1>1. machine.flg = r.f /\ Replaced(m.reg, machine.reg, w, AX, r.res)
  BY DEF Becomes
<1>2. Reg(machine, w, AX) = r.res
  BY <1>1, Zenon DEF Replaced
<1>3. w = 2 => machine.reg.AX = r.res
  BY <1>2 DEF Reg, AX, GeneralRegs
<1>4. Reg(machine, 1, AX) = Lo(machine.reg.AX) /\ Reg(machine, 1, AH) = Hi(machine.reg.AX)
  BY DEF Reg, AX, AH, GeneralRegs
<1>. QED BY <1>1, <1>2, <1>3, <1>4, Zenon DEF Value

LEMMA PackedAdded ==
  ASSUME IsMachine(origin), origin.intr = {}, NEW i \in Instructions, i.mod = 3, i.w = 1, i.rl = AX,
         i.op \in {"add_RM_R", "adc_RM_R"}, NEW j, j.op = "daa", NEW k, NEW l,
         machine = Stepped(Stepped(origin, i, k), j, l)
  PROVE  PackedExact(i, j)
<1> DEFINE d == Before(1, AX)
           s == Before(1, i.rh)
           m == Stepped(origin, i, k)
           w1 == Weights[i.op][1]
           w2 == Weights[i.op][2]
<1>. SUFFICES ASSUME IsDecimal(d), IsDecimal(s)
              PROVE  /\ IsDecimal(Value(1, AX))
                     /\ Decimal(Value(1, AX)) + w2 * Carry(machine.flg) * Ten * Ten
                          = Decimal(d) + w1 * Carry(origin.flg) + w2 * Decimal(s)
  BY Zenon DEF PackedExact
<1>1. d = Reg(origin, 1, AX) /\ s = Reg(origin, 1, i.rh) /\ d \in 0..(Byte - 1) /\ s \in 0..(Byte - 1)
  BY Operands, Zenon DEF Before
<1>2. PICK c \in 0..1 : /\ c = w1 * Carry(origin.flg) /\ w2 = 1
                        /\ \A x, y : Total(i.op, origin.flg, x, y) = x + y + c
  <2>1. PICK op, g : op = i.op /\ g = origin.flg
    OBVIOUS
  <2>2. Adds(op, g)
    <3>1. op \in {"add_RM_R", "adc_RM_R"}
      BY <2>1
    <3>. QED BY <3>1, Adding, Zenon
  <2>. QED BY <2>1, <2>2, Zenon DEF Adds
<1>3. Summed(origin, m, (d + s + c) % Byte, (d % Nibble) + (s % Nibble) + c, d + s + c)
  <2>1. i.op \in DOMAIN SumOps
    BY DEF SumOps
  <2>2. Summed(origin, m, Total(i.op, origin.flg, d, s) % Byte,
               Total(i.op, origin.flg, d % Nibble, s % Nibble), Total(i.op, origin.flg, d, s))
    <3>. HIDE DEF d, s
    <3>. QED BY <1>1, <2>1, SumSummed
  <2>. QED BY <1>2, <2>2, Zenon
<1>4. machine = Stepped(m, j, l)
  OBVIOUS
<1>. HIDE DEF d, s, m, w1, w2
<1>5. /\ Ready(m) /\ Lo(m.reg.AX) = (d + s + c) % Byte
      /\ "AF" \in m.flg <=> ~Within(B \div 2, (d % Nibble) + (s % Nibble) + c)
      /\ "CF" \in m.flg <=> ~Within(B, d + s + c)
  BY <1>3, Zenon DEF Summed
<1>6. PICK f : f = m.flg
  OBVIOUS
<1>a. /\ "AF" \in f <=> ~Within(B \div 2, (d % Nibble) + (s % Nibble) + c)
      /\ "CF" \in f <=> ~Within(B, d + s + c)
  BY <1>5, <1>6, Zenon
<1>7. DaaLeft(d, s, c, f)
  BY <1>1, <1>a, DaaIs, Zenon
<1> DEFINE r == daa((d + s + c) % Byte, f)
<1>8. Becomes(m, machine, 1, r)
  <2>1. r = daa(Lo(m.reg.AX), m.flg) /\ r.res \in 0..(Byte - 1)
    BY <1>5, <1>6, <1>7, Zenon DEF DaaLeft
  <2>. HIDE DEF r
  <2>. QED BY <1>4, <1>5, <2>1, AdjustSteps, Zenon
<1>9. r.res \in 0..(Byte - 1) /\ IsDecimal(r.res)
      /\ Decimal(r.res) + Carry(r.f) * Ten * Ten = Decimal(d) + c + Decimal(s)
  BY <1>7, Zenon DEF DaaLeft
<1>. HIDE DEF r
<1>10. machine.flg = r.f /\ Value(1, AX) = r.res
  BY <1>8, Became
<1>11. PICK D \in Int, S \in Int, R \in Int : D = Decimal(d) /\ S = Decimal(s) /\ R = Decimal(r.res)
  <2>1. d \in Int /\ s \in Int /\ r.res \in Int
    BY <1>1, <1>9
  <2>. QED BY <2>1, DecimalInt
<1>12. PICK T \in Int, C \in 0..1 : T = Ten * Ten /\ C = Carry(r.f) /\ C * Ten * Ten = C * T /\ Ten \in Int
  BY TenIs, CarryIs
<1>13. w2 * C * Ten * Ten = C * T
  BY <1>2, <1>12
<1>14. w2 * S = S
  BY <1>2
<1>15. R + w2 * C * Ten * Ten = D + w1 * Carry(origin.flg) + w2 * S
  <2>1. R + C * T = D + c + S
    BY <1>9, <1>11, <1>12
  <2>2. PICK CT \in Int : CT = C * T
    OBVIOUS
  <2>3. R + CT = D + c + S
    BY <2>1, <2>2
  <2>4. w2 * C * Ten * Ten = CT /\ w1 * Carry(origin.flg) = c
    BY <1>2, <1>13, <2>2
  <2>. QED BY <1>14, <2>3, <2>4
<1>. QED BY <1>9, <1>10, <1>11, <1>12, <1>15, Zenon

LEMMA PackedSubtracted ==
  ASSUME IsMachine(origin), origin.intr = {}, NEW i \in Instructions, i.mod = 3, i.w = 1, i.rl = AX,
         i.op \in {"sub_RM_R", "sbb_RM_R"}, NEW j, j.op = "das", NEW k, NEW l,
         machine = Stepped(Stepped(origin, i, k), j, l)
  PROVE  PackedExact(i, j)
<1> DEFINE d == Before(1, AX)
           s == Before(1, i.rh)
           m == Stepped(origin, i, k)
           w1 == Weights[i.op][1]
           w2 == Weights[i.op][2]
<1>. SUFFICES ASSUME IsDecimal(d), IsDecimal(s)
              PROVE  /\ IsDecimal(Value(1, AX))
                     /\ Decimal(Value(1, AX)) + w2 * Carry(machine.flg) * Ten * Ten
                          = Decimal(d) + w1 * Carry(origin.flg) + w2 * Decimal(s)
  BY Zenon DEF PackedExact
<1>1. d = Reg(origin, 1, AX) /\ s = Reg(origin, 1, i.rh) /\ d \in 0..(Byte - 1) /\ s \in 0..(Byte - 1)
  BY Operands, Zenon DEF Before
<1>2. PICK c \in 0..1 : /\ -c = w1 * Carry(origin.flg) /\ w2 = -1
                        /\ \A x, y : Total(i.op, origin.flg, x, y) = x - y - c
  <2>1. PICK op, g : op = i.op /\ g = origin.flg
    OBVIOUS
  <2>2. Subtracts(op, g)
    <3>1. op \in {"sub_RM_R", "sbb_RM_R"}
      BY <2>1
    <3>. QED BY <3>1, Subtracting, Zenon
  <2>. QED BY <2>1, <2>2, Zenon DEF Subtracts
<1>3. Summed(origin, m, (d - s - c) % Byte, (d % Nibble) - (s % Nibble) - c, d - s - c)
  <2>1. i.op \in DOMAIN SumOps
    BY DEF SumOps
  <2>2. Summed(origin, m, Total(i.op, origin.flg, d, s) % Byte,
               Total(i.op, origin.flg, d % Nibble, s % Nibble), Total(i.op, origin.flg, d, s))
    <3>. HIDE DEF d, s
    <3>. QED BY <1>1, <2>1, SumSummed
  <2>. QED BY <1>2, <2>2, Zenon
<1>4. machine = Stepped(m, j, l)
  OBVIOUS
<1>. HIDE DEF d, s, m, w1, w2
<1>5. /\ Ready(m) /\ Lo(m.reg.AX) = (d - s - c) % Byte
      /\ "AF" \in m.flg <=> ~Within(B \div 2, (d % Nibble) - (s % Nibble) - c)
      /\ "CF" \in m.flg <=> ~Within(B, d - s - c)
  BY <1>3, Zenon DEF Summed
<1>6. PICK f : f = m.flg
  OBVIOUS
<1>a. /\ "AF" \in f <=> ~Within(B \div 2, (d % Nibble) - (s % Nibble) - c)
      /\ "CF" \in f <=> ~Within(B, d - s - c)
  BY <1>5, <1>6, Zenon
<1>7. DasLeft(d, s, c, f)
  BY <1>1, <1>a, DasIs, Zenon
<1> DEFINE r == das((d - s - c) % Byte, f)
<1>8. Becomes(m, machine, 1, r)
  <2>1. r = das(Lo(m.reg.AX), m.flg) /\ r.res \in 0..(Byte - 1)
    BY <1>5, <1>6, <1>7, Zenon DEF DasLeft
  <2>. HIDE DEF r
  <2>. QED BY <1>4, <1>5, <2>1, AdjustSteps, Zenon
<1>9. r.res \in 0..(Byte - 1) /\ IsDecimal(r.res)
      /\ Decimal(r.res) - Carry(r.f) * Ten * Ten = Decimal(d) - c - Decimal(s)
  BY <1>7, Zenon DEF DasLeft
<1>. HIDE DEF r
<1>10. machine.flg = r.f /\ Value(1, AX) = r.res
  BY <1>8, Became
<1>11. PICK D \in Int, S \in Int, R \in Int : D = Decimal(d) /\ S = Decimal(s) /\ R = Decimal(r.res)
  <2>1. d \in Int /\ s \in Int /\ r.res \in Int
    BY <1>1, <1>9
  <2>. QED BY <2>1, DecimalInt
<1>12. PICK T \in Int, C \in 0..1 : T = Ten * Ten /\ C = Carry(r.f) /\ C * Ten * Ten = C * T /\ Ten \in Int
  BY TenIs, CarryIs
<1>13. w2 * C * Ten * Ten = -(C * T)
  BY <1>2, <1>12
<1>14. w2 * S = -S
  BY <1>2
<1>15. R + w2 * C * Ten * Ten = D + w1 * Carry(origin.flg) + w2 * S
  <2>1. R - C * T = D - c - S
    BY <1>9, <1>11, <1>12
  <2>2. PICK CT \in Int : CT = C * T
    OBVIOUS
  <2>3. R - CT = D - c - S
    BY <2>1, <2>2
  <2>4. w2 * C * Ten * Ten = -CT /\ w1 * Carry(origin.flg) = -c
    BY <1>2, <1>13, <2>2
  <2>. QED BY <1>14, <2>3, <2>4
<1>. QED BY <1>9, <1>10, <1>11, <1>12, <1>15, Zenon

LEMMA DigitAdded ==
  ASSUME IsMachine(origin), origin.intr = {}, NEW i \in Instructions, i.mod = 3, i.w = 1, i.rl = AX,
         i.op \in {"add_RM_R", "adc_RM_R"}, NEW j, j.op = "aaa", NEW k, NEW l,
         machine = Stepped(Stepped(origin, i, k), j, l)
  PROVE  DigitExact(i, j)
<1> DEFINE d == Before(1, AX)
           s == Before(1, i.rh)
           m == Stepped(origin, i, k)
           w1 == Weights[i.op][1]
           w2 == Weights[i.op][2]
           c2 == w2 * Carry(machine.flg)
<1>. SUFFICES ASSUME d < Ten, s < Ten
              PROVE  /\ Value(1, AX) < Ten
                     /\ Value(1, AX) + c2 * Ten = d + w1 * Carry(origin.flg) + w2 * s
                     /\ Value(1, AH) = (Before(1, AH) + c2) % Byte
  BY Zenon DEF DigitExact
<1>1. /\ d = Reg(origin, 1, AX) /\ s = Reg(origin, 1, i.rh)
      /\ d \in 0..(Byte - 1) /\ s \in 0..(Byte - 1) /\ d \in 0..(Ten - 1) /\ s \in 0..(Ten - 1)
      /\ Before(1, AH) = Hi(origin.reg.AX) /\ Hi(origin.reg.AX) \in 0..(Byte - 1)
  <2>1. /\ d = Reg(origin, 1, AX) /\ s = Reg(origin, 1, i.rh)
        /\ d \in 0..(Byte - 1) /\ s \in 0..(Byte - 1)
        /\ Before(1, AH) = Hi(origin.reg.AX) /\ Hi(origin.reg.AX) \in 0..(Byte - 1)
    BY Operands, Zenon DEF Before
  <2>. HIDE DEF d, s
  <2>2. d \in 0..(Ten - 1) /\ s \in 0..(Ten - 1)
    BY <2>1, TenIs, HalfByte
  <2>. QED BY <2>1, <2>2
<1>2. PICK c \in 0..1 : /\ c = w1 * Carry(origin.flg) /\ w2 = 1
                        /\ \A x, y : Total(i.op, origin.flg, x, y) = x + y + c
  <2>1. PICK op, g : op = i.op /\ g = origin.flg
    OBVIOUS
  <2>2. Adds(op, g)
    <3>1. op \in {"add_RM_R", "adc_RM_R"}
      BY <2>1
    <3>. QED BY <3>1, Adding, Zenon
  <2>. QED BY <2>1, <2>2, Zenon DEF Adds
<1>3. Summed(origin, m, (d + s + c) % Byte, (d % Nibble) + (s % Nibble) + c, d + s + c)
  <2>1. i.op \in DOMAIN SumOps
    BY DEF SumOps
  <2>2. Summed(origin, m, Total(i.op, origin.flg, d, s) % Byte,
               Total(i.op, origin.flg, d % Nibble, s % Nibble), Total(i.op, origin.flg, d, s))
    <3>. HIDE DEF d, s
    <3>. QED BY <1>1, <2>1, SumSummed
  <2>. QED BY <1>2, <2>2, Zenon
<1>4. machine = Stepped(m, j, l)
  OBVIOUS
<1>. HIDE DEF d, s, m, w1, w2, c2
<1>5. /\ Ready(m) /\ Lo(m.reg.AX) = (d + s + c) % Byte
      /\ m.reg.AX \in Words /\ Hi(m.reg.AX) = Hi(origin.reg.AX)
      /\ "AF" \in m.flg <=> ~Within(B \div 2, (d % Nibble) + (s % Nibble) + c)
  BY <1>3, Zenon DEF Summed
<1>6. PICK f, x : f = m.flg /\ x = m.reg.AX
  OBVIOUS
<1>a. /\ x \in Words /\ Lo(x) = (d + s + c) % Byte
      /\ "AF" \in f <=> ~Within(B \div 2, (d % Nibble) + (s % Nibble) + c)
  BY <1>5, <1>6, Zenon
<1>7. AaaLeft(x, d, s, c, f)
  BY <1>1, <1>a, AaaIs, Zenon
<1> DEFINE r == aaa(x, f)
<1>8. Becomes(m, machine, 2, r)
  <2>1. r = aaa(m.reg.AX, m.flg) /\ r.res \in Words
    BY <1>6, <1>7, Zenon DEF AaaLeft
  <2>. HIDE DEF r
  <2>. QED BY <1>4, <1>5, <2>1, AdjustSteps, Zenon
<1>9. /\ Lo(r.res) \in 0..(Ten - 1)
      /\ Lo(r.res) + Carry(r.f) * Ten = d + s + c
      /\ Hi(r.res) = (Hi(x) + Carry(r.f)) % Byte
  BY <1>7, Zenon DEF AaaLeft
<1>. HIDE DEF r
<1>10. machine.flg = r.f /\ Value(1, AX) = Lo(r.res) /\ Value(1, AH) = Hi(r.res)
  BY <1>8, Became
<1>11. PICK C \in 0..1 : C = Carry(r.f)
  BY CarryIs
<1>12. c2 = C /\ c2 \in Int
  BY <1>2, <1>10, <1>11 DEF c2
<1>13. Lo(r.res) + c2 * Ten = d + w1 * Carry(origin.flg) + w2 * s
  <2>1. PICK R \in Int, CT \in Int : R = Lo(r.res) /\ CT = C * Ten /\ c2 * Ten = CT
    BY <1>9, <1>11, <1>12, TenIs
  <2>2. R + CT = d + s + c
    BY <1>9, <1>11, <2>1
  <2>3. w1 * Carry(origin.flg) = c /\ w2 * s = s
    BY <1>1, <1>2
  <2>. QED BY <1>1, <2>1, <2>2, <2>3
<1>14. Hi(r.res) = (Before(1, AH) + c2) % Byte
  <2>1. PICK H \in Int : H = Before(1, AH) /\ H = Hi(x)
    BY <1>1, <1>5, <1>6
  <2>2. H + C = H + c2
    BY <1>12
  <2>. QED BY <1>9, <1>11, <2>1, <2>2, Zenon
<1>15. Lo(r.res) < Ten
  BY <1>9, TenIs
<1>. QED BY <1>10, <1>13, <1>14, <1>15, Zenon

LEMMA DigitSubtracted ==
  ASSUME IsMachine(origin), origin.intr = {}, NEW i \in Instructions, i.mod = 3, i.w = 1, i.rl = AX,
         i.op \in {"sub_RM_R", "sbb_RM_R"}, NEW j, j.op = "aas", NEW k, NEW l,
         machine = Stepped(Stepped(origin, i, k), j, l)
  PROVE  DigitExact(i, j)
<1> DEFINE d == Before(1, AX)
           s == Before(1, i.rh)
           m == Stepped(origin, i, k)
           w1 == Weights[i.op][1]
           w2 == Weights[i.op][2]
           c2 == w2 * Carry(machine.flg)
<1>. SUFFICES ASSUME d < Ten, s < Ten
              PROVE  /\ Value(1, AX) < Ten
                     /\ Value(1, AX) + c2 * Ten = d + w1 * Carry(origin.flg) + w2 * s
                     /\ Value(1, AH) = (Before(1, AH) + c2) % Byte
  BY Zenon DEF DigitExact
<1>1. /\ d = Reg(origin, 1, AX) /\ s = Reg(origin, 1, i.rh)
      /\ d \in 0..(Byte - 1) /\ s \in 0..(Byte - 1) /\ d \in 0..(Ten - 1) /\ s \in 0..(Ten - 1)
      /\ Before(1, AH) = Hi(origin.reg.AX) /\ Hi(origin.reg.AX) \in 0..(Byte - 1)
  <2>1. /\ d = Reg(origin, 1, AX) /\ s = Reg(origin, 1, i.rh)
        /\ d \in 0..(Byte - 1) /\ s \in 0..(Byte - 1)
        /\ Before(1, AH) = Hi(origin.reg.AX) /\ Hi(origin.reg.AX) \in 0..(Byte - 1)
    BY Operands, Zenon DEF Before
  <2>. HIDE DEF d, s
  <2>2. d \in 0..(Ten - 1) /\ s \in 0..(Ten - 1)
    BY <2>1, TenIs, HalfByte
  <2>. QED BY <2>1, <2>2
<1>2. PICK c \in 0..1 : /\ -c = w1 * Carry(origin.flg) /\ w2 = -1
                        /\ \A x, y : Total(i.op, origin.flg, x, y) = x - y - c
  <2>1. PICK op, g : op = i.op /\ g = origin.flg
    OBVIOUS
  <2>2. Subtracts(op, g)
    <3>1. op \in {"sub_RM_R", "sbb_RM_R"}
      BY <2>1
    <3>. QED BY <3>1, Subtracting, Zenon
  <2>. QED BY <2>1, <2>2, Zenon DEF Subtracts
<1>3. Summed(origin, m, (d - s - c) % Byte, (d % Nibble) - (s % Nibble) - c, d - s - c)
  <2>1. i.op \in DOMAIN SumOps
    BY DEF SumOps
  <2>2. Summed(origin, m, Total(i.op, origin.flg, d, s) % Byte,
               Total(i.op, origin.flg, d % Nibble, s % Nibble), Total(i.op, origin.flg, d, s))
    <3>. HIDE DEF d, s
    <3>. QED BY <1>1, <2>1, SumSummed
  <2>. QED BY <1>2, <2>2, Zenon
<1>4. machine = Stepped(m, j, l)
  OBVIOUS
<1>. HIDE DEF d, s, m, w1, w2, c2
<1>5. /\ Ready(m) /\ Lo(m.reg.AX) = (d - s - c) % Byte
      /\ m.reg.AX \in Words /\ Hi(m.reg.AX) = Hi(origin.reg.AX)
      /\ "AF" \in m.flg <=> ~Within(B \div 2, (d % Nibble) - (s % Nibble) - c)
  BY <1>3, Zenon DEF Summed
<1>6. PICK f, x : f = m.flg /\ x = m.reg.AX
  OBVIOUS
<1>a. /\ x \in Words /\ Lo(x) = (d - s - c) % Byte
      /\ "AF" \in f <=> ~Within(B \div 2, (d % Nibble) - (s % Nibble) - c)
  BY <1>5, <1>6, Zenon
<1>7. AasLeft(x, d, s, c, f)
  BY <1>1, <1>a, AasIs, Zenon
<1> DEFINE r == aas(x, f)
<1>8. Becomes(m, machine, 2, r)
  <2>1. r = aas(m.reg.AX, m.flg) /\ r.res \in Words
    BY <1>6, <1>7, Zenon DEF AasLeft
  <2>. HIDE DEF r
  <2>. QED BY <1>4, <1>5, <2>1, AdjustSteps, Zenon
<1>9. /\ Lo(r.res) \in 0..(Ten - 1)
      /\ Lo(r.res) - Carry(r.f) * Ten = d - s - c
      /\ Hi(r.res) = (Hi(x) - Carry(r.f)) % Byte
  BY <1>7, Zenon DEF AasLeft
<1>. HIDE DEF r
<1>10. machine.flg = r.f /\ Value(1, AX) = Lo(r.res) /\ Value(1, AH) = Hi(r.res)
  BY <1>8, Became
<1>11. PICK C \in 0..1 : C = Carry(r.f)
  BY CarryIs
<1>12. c2 = -C /\ c2 \in Int
  BY <1>2, <1>10, <1>11 DEF c2
<1>13. Lo(r.res) + c2 * Ten = d + w1 * Carry(origin.flg) + w2 * s
  <2>1. PICK R \in Int, CT \in Int : R = Lo(r.res) /\ CT = C * Ten /\ c2 * Ten = -CT
    BY <1>9, <1>11, <1>12, TenIs
  <2>2. R - CT = d - s - c
    BY <1>9, <1>11, <2>1
  <2>3. w1 * Carry(origin.flg) = -c /\ w2 * s = -s
    BY <1>1, <1>2
  <2>. QED BY <1>1, <2>1, <2>2, <2>3
<1>14. Hi(r.res) = (Before(1, AH) + c2) % Byte
  <2>1. PICK H \in Int : H = Before(1, AH) /\ H = Hi(x)
    BY <1>1, <1>5, <1>6
  <2>2. H - C = H + c2
    BY <1>12
  <2>. QED BY <1>9, <1>11, <2>1, <2>2, Zenon
<1>15. Lo(r.res) < Ten
  BY <1>9, TenIs
<1>. QED BY <1>10, <1>13, <1>14, <1>15, Zenon

-----------------------------------------------------------------------------
(* Products and quotients.                                                 *)

(* The number of the register that takes the high half of a product.        *)
HighPart(w) == IF w = 1 THEN AH ELSE DX

(* Both halves of AX, or DX and AX, are replaced.                           *)
Halved(reg, w, low, high) ==
  /\ reg \in [Names -> Words]
  /\ \A x : x.reg = reg => /\ Reg(x, w, AX) = low /\ Reg(x, w, HighPart(w)) = high
                           /\ Wide(x, w) = 2^Bits(w) * high + low

WideStep(m, e, flg, ip, w, low, high) ==
  \E r : Halved(r, w, low, high) /\ Step(m, PutWide(e, w, low, high), r, flg, ip)

LEMMA WideSet ==
  ASSUME NEW m, NEW e, NEW reg, NEW flg, NEW ip, Step(m, e, reg, flg, ip),
         reg \in [Names -> Words], NEW w \in {1, 2},
         NEW low \in 0..(2^Bits(w) - 1), NEW high \in 0..(2^Bits(w) - 1)
  PROVE  WideStep(m, e, flg, ip, w, low, high)
<1> DEFINE k == HighPart(w)
           g == SetReg(e, w, 0, low)
<1>1. k \in 0..7 /\ 0 \in 0..7 /\ (w = 1 => k = 4) /\ (w = 2 => k = 2)
  BY DEF HighPart, AH, DX
<1>2. PutWide(e, w, low, high) = SetReg(g, w, k, high)
  BY <1>1 DEF PutWide
<1>3. PICK r1 : Replaced(reg, r1, w, 0, low) /\ Step(m, g, r1, flg, ip)
  BY <1>1, RegSet
<1>. HIDE DEF g, k
<1>4. r1 \in [Names -> Words]
  BY <1>3, Zenon DEF Replaced
<1>5. PICK r : Replaced(r1, r, w, k, high) /\ Step(m, SetReg(g, w, k, high), r, flg, ip)
  BY <1>1, <1>3, <1>4, RegSet
<1>6. r \in [Names -> Words]
  BY <1>5, Zenon DEF Replaced
<1>7. ASSUME w = 1 PROVE Lo(r.AX) = low /\ Hi(r.AX) = high
  <2>1. Whole(1, 0) = "AX" /\ Whole(1, 4) = "AX"
    BY DEF Whole, GeneralRegs
  <2>2. Lo(r1.AX) = low
    <3>1. \A x : x.reg = r1 => Reg(x, 1, 0) = low
      BY <1>3, <1>7, Zenon DEF Replaced
    <3>2. [reg |-> r1].reg = r1
      OBVIOUS
    <3>3. Reg([reg |-> r1], 1, 0) = low
      BY <3>1, <3>2, Zenon
    <3>. QED BY <3>3 DEF Reg, GeneralRegs
  <2>3. Hi(r.AX) = high
    <3>1. \A x : x.reg = r => Reg(x, 1, 4) = high
      BY <1>1, <1>5, <1>7, Zenon DEF Replaced
    <3>2. [reg |-> r].reg = r
      OBVIOUS
    <3>3. Reg([reg |-> r], 1, 4) = high
      BY <3>1, <3>2, Zenon
    <3>. QED BY <3>3 DEF Reg, GeneralRegs
  <2>4. Lo(r.AX) = Lo(r1.AX)
    <3>1. k >= 4
      BY <1>1, <1>7
    <3>2. Lo(r[Whole(w, k)]) = Lo(r1[Whole(w, k)])
      BY <1>5, <1>7, <3>1, Zenon DEF Replaced
    <3>. QED BY <1>1, <1>7, <2>1, <3>2, Zenon
  <2>. QED BY <2>2, <2>3, <2>4, Zenon
<1>8. ASSUME w = 2 PROVE r.AX = low /\ r.DX = high
  <2>1. Whole(2, 0) = "AX" /\ Whole(2, 2) = "DX"
    BY DEF Whole, GeneralRegs
  <2>2. r1.AX = low
    <3>1. \A x : x.reg = r1 => Reg(x, 2, 0) = low
      BY <1>3, <1>8, Zenon DEF Replaced
    <3>2. [reg |-> r1].reg = r1
      OBVIOUS
    <3>3. Reg([reg |-> r1], 2, 0) = low
      BY <3>1, <3>2, Zenon
    <3>. QED BY <3>3 DEF Reg, GeneralRegs
  <2>3. r.DX = high
    <3>1. \A x : x.reg = r => Reg(x, 2, 2) = high
      BY <1>1, <1>5, <1>8, Zenon DEF Replaced
    <3>2. [reg |-> r].reg = r
      OBVIOUS
    <3>3. Reg([reg |-> r], 2, 2) = high
      BY <3>1, <3>2, Zenon
    <3>. QED BY <3>3 DEF Reg, GeneralRegs
  <2>4. r["AX"] = r1["AX"]
    <3>1. "AX" \in Names /\ "AX" # Whole(w, k)
      BY <1>1, <1>8, <2>1 DEF Names
    <3>. QED BY <1>5, <3>1, Zenon DEF Replaced
  <2>. QED BY <2>2, <2>3, <2>4
<1>9. ASSUME NEW x, x.reg = r
      PROVE  /\ Reg(x, w, AX) = low /\ Reg(x, w, k) = high
             /\ Wide(x, w) = 2^Bits(w) * high + low
  <2>1. CASE w = 1
    <3>1. Reg(x, 1, AX) = Lo(r.AX) /\ Reg(x, 1, 4) = Hi(r.AX) /\ Wide(x, 1) = r.AX
      BY <1>9 DEF Reg, AX, GeneralRegs, Wide
    <3>2. r.AX \in Words
      BY <1>6 DEF Names
    <3>3. r.AX = Byte * Hi(r.AX) + Lo(r.AX) /\ 2^Bits(1) = Byte
      BY <3>2, Halves, BitsWidth
    <3>. QED BY <1>1, <1>7, <2>1, <3>1, <3>3, Zenon
  <2>2. CASE w = 2
    <3>1. Reg(x, 2, AX) = r.AX /\ Reg(x, 2, 2) = r.DX /\ Wide(x, 2) = Word * r.DX + r.AX
      BY <1>9 DEF Reg, AX, GeneralRegs, Wide
    <3>2. 2^Bits(2) = Word
      BY BitsWidth
    <3>. QED BY <1>1, <1>8, <2>2, <3>1, <3>2, Zenon
  <2>. QED BY <2>1, <2>2
<1>10. Halved(r, w, low, high)
  BY <1>6, <1>9, Zenon DEF Halved, k
<1>. QED BY <1>2, <1>5, <1>10, Zenon DEF WideStep

(* Both halves and the flags are replaced, and nothing else of the machine. *)
Both(m, t, w, low, high, f, ip) ==
  \E reg : Halved(reg, w, low, high) /\ Step(m, t, reg, f, ip)

LEMMA PutBoth ==
  ASSUME NEW m, m.reg \in [Names -> Words], m.intr = {},
         NEW ip \in Int, NEW d, Step(m, d, m.reg, m.flg, ip), NEW w \in {1, 2},
         NEW low \in 0..(2^Bits(w) - 1), NEW high \in 0..(2^Bits(w) - 1), NEW f,
         NEW i, NEW j,
         Handled(Fetch(m, j), i) = Clear(PutWide([d EXCEPT !.flg = f], w, low, high))
  PROVE  Both(m, Stepped(m, i, j), w, low, high, f, ip)
<1> DEFINE e == [d EXCEPT !.flg = f]
           g == PutWide(e, w, low, high)
<1>1. PICK old : old = m.reg /\ Step(m, e, old, f, ip) /\ old \in [Names -> Words]
  BY FlagsSet
<1>2. Handled(Fetch(m, j), i) = Clear(g)
  BY Zenon
<1>. HIDE DEF e
<1>3. WideStep(m, e, f, ip, w, low, high)
  BY <1>1, WideSet
<1>4. PICK reg : Halved(reg, w, low, high) /\ Step(m, g, reg, f, ip)
  BY <1>3, Zenon DEF WideStep
<1>. HIDE DEF g
<1>5. Step(m, Stepped(m, i, j), reg, f, ip)
  BY <1>2, <1>4, Closing
<1>. QED BY <1>4, <1>5, Zenon DEF Both

(* A handler of the group opcF6, opcF7.                                     *)
LEMMA GroupHandled ==
  ASSUME NEW m, Fields(m), m.ip \in Words, NEW i, i.mod = 3, NEW j,
         i.op \in {"opcF6_RM", "opcF7_RM"}, i.rh # 1,
         NEW d, d = Decode(Fetch(m, j), i), NEW v, v = Reg(m, i.w, i.rl)
  PROVE  /\ Step(m, d, m.reg, m.flg, (m.ip + 2) % Word)
         /\ \A w, k : Reg(d, w, k) = Reg(m, w, k)
         /\ Handled(Fetch(m, j), i) = Clear(Unary(d, i, v))
<1>1. /\ Step(m, d, m.reg, m.flg, (m.ip + 2) % Word)
      /\ \A w, k : Reg(d, w, k) = Reg(m, w, k)
      /\ Read(d, i) = d /\ RM(d, i) = v
  <2> DEFINE e == Decode(Fetch(m, j), i)
  <2>1. /\ Step(m, e, m.reg, m.flg, (m.ip + 2) % Word)
        /\ \A w, k : Reg(e, w, k) = Reg(m, w, k)
        /\ Read(e, i) = e /\ RM(e, i) = Reg(m, i.w, i.rl)
    BY FetchedAny, Zenon
  <2>2. d = e
    OBVIOUS
  <2>. HIDE DEF e
  <2>. QED BY <2>1, <2>2, Zenon
<1>2. Handled(Fetch(m, j), i) = Group(Fetch(m, j), i)
  BY CountNamed
<1>3. Group(Fetch(m, j), i) = Clear(Unary(d, i, v))
  BY <1>1 DEF Group
<1>. QED BY <1>1, <1>2, <1>3, Zenon

(* A product r, in two halves.                                              *)
ProductIs(m, i, r, low, high) ==
  LET n   == Bits(i.w)
      v   == Reg(m, i.w, i.rl)
      acc == Reg(m, i.w, AX)
  IN  /\ r = IF i.rh = 4 THEN mul(n, acc, v, m.flg) ELSE imul(n, acc, v, m.flg)
      /\ low = r.res % 2^n /\ high = r.res \div 2^n
      /\ low \in 0..(2^n - 1) /\ high \in 0..(2^n - 1)

LEMMA Multiplying ==
  ASSUME NEW m, Ready(m), m.intr = {}, NEW i, i.w \in {1, 2}, i.mod = 3, NEW j,
         i.op \in {"opcF6_RM", "opcF7_RM"}, i.rh \in {4, 5},
         NEW r, NEW low, NEW high, ProductIs(m, i, r, low, high)
  PROVE  Both(m, Stepped(m, i, j), i.w, low, high, r.f, (m.ip + 2) % Word)
<1> DEFINE d == Decode(Fetch(m, j), i)
           ip == (m.ip + 2) % Word
           n == Bits(i.w)
           v == Reg(m, i.w, i.rl)
           acc == Reg(m, i.w, AX)
<1>0. /\ r = IF i.rh = 4 THEN mul(n, acc, v, m.flg) ELSE imul(n, acc, v, m.flg)
      /\ low = r.res % 2^n /\ high = r.res \div 2^n
      /\ low \in 0..(2^n - 1) /\ high \in 0..(2^n - 1)
  BY Zenon DEF ProductIs
<1>1. /\ Step(m, d, m.reg, m.flg, ip)
      /\ \A w, k : Reg(d, w, k) = Reg(m, w, k)
      /\ Handled(Fetch(m, j), i) = Clear(Unary(d, i, v))
  <2>1. Fields(m) /\ m.ip \in Words /\ i.rh # 1
    BY DEF Ready
  <2>. HIDE DEF ip
  <2>2. PICK dd, vv : dd = Decode(Fetch(m, j), i) /\ vv = Reg(m, i.w, i.rl)
    OBVIOUS
  <2>3. /\ Step(m, dd, m.reg, m.flg, (m.ip + 2) % Word)
        /\ \A w, k : Reg(dd, w, k) = Reg(m, w, k)
        /\ Handled(Fetch(m, j), i) = Clear(Unary(dd, i, vv))
    BY <2>1, <2>2, GroupHandled
  <2>. QED BY <2>2, <2>3, Zenon DEF ip
<1>2. d.flg = m.flg
  BY <1>1 DEF Step
<1>. HIDE DEF d
<1>3. Unary(d, i, v) = Multiplied(d, i.w, r)
  <2>1. i.rh = 4 => Unary(d, i, v) = Multiplied(d, i.w, mul(n, acc, v, d.flg))
    BY <1>1 DEF Unary
  <2>2. i.rh = 5 => Unary(d, i, v) = Multiplied(d, i.w, imul(n, acc, v, d.flg))
    BY <1>1 DEF Unary
  <2>. QED BY <1>0, <1>2, <2>1, <2>2
<1>4. Multiplied(d, i.w, r) = PutWide([d EXCEPT !.flg = r.f], i.w, low, high)
  BY <1>0, Zenon DEF Multiplied
<1>5. m.reg \in [Names -> Words] /\ i.w \in {1, 2} /\ ip \in Int
  <2>1. 2 \in Int /\ m.ip \in Words /\ m.reg \in [Names -> Words]
    BY DEF Ready
  <2>2. (m.ip + 2) % Word \in Words
    BY <2>1, IpPlus, Zenon
  <2>. QED BY <2>1, <2>2, HalfByte DEF Words
<1>6. PICK w, f : w = i.w /\ f = r.f
  OBVIOUS
<1>7. /\ Handled(Fetch(m, j), i) = Clear(PutWide([d EXCEPT !.flg = f], w, low, high))
      /\ w \in {1, 2} /\ low \in 0..(2^Bits(w) - 1) /\ high \in 0..(2^Bits(w) - 1)
  BY <1>0, <1>1, <1>3, <1>4, <1>5, <1>6, Zenon
<1>. HIDE DEF ip
<1>8. Both(m, Stepped(m, i, j), w, low, high, f, ip)
  BY <1>1, <1>5, <1>7, PutBoth
<1>. QED BY <1>6, <1>8, Zenon DEF ip

(* A quotient r and its remainder, for which the dividend is not too large. *)
QuotientIs(m, i, r) ==
  LET n == Bits(i.w)
      v == Reg(m, i.w, i.rl)
      x == Wide(m, i.w)
  IN  /\ i.rh = 6 => DivFits(n, x, v) /\ r = div(n, x, v, m.flg)
      /\ i.rh = 7 => ~IdivTraps(n, x, v) /\ IdivFits(n, x, v) /\ r = idiv(n, x, v, m.flg)
      /\ r.quo \in 0..(2^n - 1) /\ r.rem \in 0..(2^n - 1)

LEMMA Dividing ==
  ASSUME NEW m, Ready(m), m.intr = {}, NEW i, i.w \in {1, 2}, i.mod = 3, NEW j,
         i.op \in {"opcF6_RM", "opcF7_RM"}, i.rh \in {6, 7},
         NEW r, QuotientIs(m, i, r)
  PROVE  Both(m, Stepped(m, i, j), i.w, r.quo, r.rem, r.f, (m.ip + 2) % Word)
<1> DEFINE d == Decode(Fetch(m, j), i)
           ip == (m.ip + 2) % Word
           n == Bits(i.w)
           v == Reg(m, i.w, i.rl)
           x == Wide(m, i.w)
<1>0. /\ i.rh = 6 => DivFits(n, x, v) /\ r = div(n, x, v, m.flg)
      /\ i.rh = 7 => ~IdivTraps(n, x, v) /\ IdivFits(n, x, v) /\ r = idiv(n, x, v, m.flg)
      /\ r.quo \in 0..(2^n - 1) /\ r.rem \in 0..(2^n - 1)
  BY Zenon DEF QuotientIs
<1>1. /\ Step(m, d, m.reg, m.flg, ip)
      /\ \A w, k : Reg(d, w, k) = Reg(m, w, k)
      /\ Handled(Fetch(m, j), i) = Clear(Unary(d, i, v))
  <2>1. Fields(m) /\ m.ip \in Words /\ i.rh # 1
    BY DEF Ready
  <2>. HIDE DEF ip
  <2>2. PICK dd, vv : dd = Decode(Fetch(m, j), i) /\ vv = Reg(m, i.w, i.rl)
    OBVIOUS
  <2>3. /\ Step(m, dd, m.reg, m.flg, (m.ip + 2) % Word)
        /\ \A w, k : Reg(dd, w, k) = Reg(m, w, k)
        /\ Handled(Fetch(m, j), i) = Clear(Unary(dd, i, vv))
    BY <2>1, <2>2, GroupHandled
  <2>. QED BY <2>2, <2>3, Zenon DEF ip
<1>2. d.flg = m.flg /\ Wide(d, i.w) = x
  BY <1>1 DEF Step, Wide
<1>. HIDE DEF d
<1>3. Unary(d, i, v) = PutWide([d EXCEPT !.flg = r.f], i.w, r.quo, r.rem)
  <2>1. ASSUME i.rh = 6 PROVE Unary(d, i, v) = Divide(d, i.w, DivFits(n, x, v), r)
    <3>1. Unary(d, i, v) = Divide(d, i.w, DivFits(n, Wide(d, i.w), v), div(n, Wide(d, i.w), v, d.flg))
      BY <2>1 DEF Unary
    <3>. QED BY <1>0, <1>2, <2>1, <3>1, Zenon
  <2>2. ASSUME i.rh = 7 PROVE Unary(d, i, v) = Divide(d, i.w, IdivFits(n, x, v), r)
    <3>1. Unary(d, i, v) = IF IdivTraps(n, Wide(d, i.w), v) THEN [d EXCEPT !.dead = TRUE]
                           ELSE Divide(d, i.w, IdivFits(n, Wide(d, i.w), v), idiv(n, Wide(d, i.w), v, d.flg))
      BY <2>2 DEF Unary
    <3>. QED BY <1>0, <1>2, <2>2, <3>1, Zenon
  <2>3. Divide(d, i.w, TRUE, r) = PutWide([d EXCEPT !.flg = r.f], i.w, r.quo, r.rem)
    BY Zenon DEF Divide
  <2>4. i.rh = 6 => DivFits(n, x, v)
    BY <1>0, Zenon
  <2>5. i.rh = 7 => IdivFits(n, x, v)
    BY <1>0, Zenon
  <2>6. \A fits : fits => Divide(d, i.w, fits, r) = PutWide([d EXCEPT !.flg = r.f], i.w, r.quo, r.rem)
    BY Zenon DEF Divide
  <2>. QED BY <2>1, <2>2, <2>4, <2>5, <2>6, Zenon
<1>5. m.reg \in [Names -> Words] /\ i.w \in {1, 2} /\ ip \in Int
  <2>1. 2 \in Int /\ m.ip \in Words /\ m.reg \in [Names -> Words]
    BY DEF Ready
  <2>2. (m.ip + 2) % Word \in Words
    BY <2>1, IpPlus, Zenon
  <2>. QED BY <2>1, <2>2, HalfByte DEF Words
<1>6. PICK w, f, quo, rem : w = i.w /\ f = r.f /\ quo = r.quo /\ rem = r.rem
  OBVIOUS
<1>7. /\ Handled(Fetch(m, j), i) = Clear(PutWide([d EXCEPT !.flg = f], w, quo, rem))
      /\ w \in {1, 2} /\ quo \in 0..(2^Bits(w) - 1) /\ rem \in 0..(2^Bits(w) - 1)
  BY <1>0, <1>1, <1>3, <1>5, <1>6, Zenon
<1>. HIDE DEF ip
<1>8. Both(m, Stepped(m, i, j), w, quo, rem, f, ip)
  BY <1>1, <1>5, <1>7, PutBoth
<1>. QED BY <1>6, <1>8, Zenon DEF ip

(* A number of two digits, whole or split.                                  *)
LEMMA SplitParts ==
  ASSUME NEW P \in Nat \ {0}, NEW y \in 0..(P * P - 1)
  PROVE  y % P \in 0..(P - 1) /\ y \div P \in 0..(P - 1) /\ y = P * (y \div P) + (y % P)
<1>1. PICK q \in Int, l \in 0..(P - 1) : y = P * q + l /\ q = y \div P /\ l = y % P
  BY Division
<1>2. q >= 0
  <2>1. CASE q < 0
    <3>1. P * q <= P * (-1)
      BY <2>1
    <3>. QED BY <1>1, <3>1
  <2>. QED BY <2>1
<1>3. q < P
  <2>1. CASE q >= P
    <3>1. P * q >= P * P
      BY <2>1
    <3>. QED BY <1>1, <3>1
  <2>. QED BY <2>1
<1>4. q \in 0..(P - 1)
  BY <1>2, <1>3
<1>. QED BY <1>1, <1>4, Zenon

LEMMA Squared ==
  ASSUME NEW n, Width(n)
  PROVE  2^(2 * n) = 2^n * 2^n /\ 2^n \in Nat \ {0} /\ n \in Nat
<1>1. n \in Nat /\ 2 * n = n + n
  BY WidthFacts
<1>. QED BY <1>1, PowerSum, PowerPositive

(* What aam and aad leave.                                                  *)
LEMMA AamIs ==
  ASSUME NEW y \in 0..(Byte - 1), NEW f
  PROVE  /\ aam(y, f).res \in Words
         /\ Lo(aam(y, f).res) = y % Ten /\ Hi(aam(y, f).res) = y \div Ten
<1>1. PICK T \in Nat \ {0}, M \in Nat \ {0} : T = Ten /\ M = Byte /\ T <= M
  <2>1. Nibble <= Nibble * Nibble
    BY HalfByte
  <2>. QED BY <2>1, TenIs, HalfByte
<1>2. PICK q \in Int, l \in 0..(T - 1) : y = T * q + l /\ q = y \div T /\ l = y % T
  BY <1>1, Division
<1>3. q \in 0..(M - 1) /\ l \in 0..(M - 1)
  <2>1. CASE q < 0
    <3>1. T * q <= T * (-1)
      BY <2>1
    <3>. QED BY <1>2, <3>1
  <2>2. CASE q >= 0
    <3>1. T * q >= q
      BY <2>2
    <3>. QED BY <1>1, <1>2, <2>2, <3>1
  <2>. QED BY <2>1, <2>2
<1>4. Byte * q + l \in Words /\ Lo(Byte * q + l) = l /\ Hi(Byte * q + l) = q
  BY <1>1, <1>3, Joined
<1> DEFINE res == Byte * (y \div Ten) + (y % Ten)
<1>5. res \in Words /\ Lo(res) = y % Ten /\ Hi(res) = y \div Ten
  BY <1>1, <1>2, <1>4, Zenon
<1>. HIDE DEF res
<1>6. res % 2^(2 * B) = res
  BY <1>5, Small, HalfByte DEF Word, Words
<1>7. aam(y, f).res = res
  <2>1. aam(y, f) = Result(2 * B, res, f, AsciiFlags(res))
    BY Zenon DEF aam, res
  <2>2. Result(2 * B, res, f, AsciiFlags(res)).res = res % 2^(2 * B)
    BY ResultParts, Zenon DEF Result
  <2>. QED BY <1>6, <2>1, <2>2, Zenon
<1>. QED BY <1>5, <1>7, Zenon

LEMMA AadIs ==
  ASSUME NEW x \in Words, NEW f, NEW h \in 0..(Ten - 1), NEW l \in 0..(Ten - 1), Hi(x) = h, Lo(x) = l
  PROVE  aad(x, f).res = Ten * h + l /\ Ten * h + l \in 0..(Byte - 1) /\ Ten * h + l \in Words
<1>1. PICK T \in Nat \ {0}, M \in Nat \ {0} : T = Ten /\ M = Byte /\ T * T <= M
  <2>1. Ten * Ten <= Nibble * Nibble
    BY TenIs, HalfByte
  <2>. QED BY <2>1, TenIs, HalfByte
<1>2. PICK y \in Int : y = T * h + l
  BY <1>1
<1>3. y \in 0..(M - 1)
  <2>1. T * h >= 0 /\ T * h <= T * (T - 1) /\ T * (T - 1) = T * T - T
    BY <1>1
  <2>. QED BY <1>1, <1>2, <2>1
<1>4. y % Byte = y
  BY <1>1, <1>3, Small, Zenon
<1>5. y \in Words /\ y % 2^(2 * B) = y
  <2>1. Byte <= Word /\ Word \in Nat \ {0}
    <3>1. M <= M * M
      OBVIOUS
    <3>. QED BY <1>1, <3>1, HalfByte
  <2>2. y \in 0..(Word - 1)
    BY <1>1, <1>3, <2>1
  <2>. QED BY <2>1, <2>2, Small DEF Words, Word
<1>6. (x % Byte) + Ten * (x \div Byte) = y
  <2>1. x % Byte = l /\ x \div Byte = h
    BY DEF Lo, Hi
  <2>. QED BY <1>1, <1>2, <2>1
<1>7. aad(x, f).res = y
  <2>1. aad(x, f) = Result(2 * B, y, f, AsciiFlags(y))
    BY <1>4, <1>6, Zenon DEF aad
  <2>2. Result(2 * B, y, f, AsciiFlags(y)).res = y % 2^(2 * B)
    BY ResultParts, Zenon DEF Result
  <2>. QED BY <1>5, <2>1, <2>2, Zenon
<1>. QED BY <1>1, <1>2, <1>3, <1>5, <1>7

-----------------------------------------------------------------------------
(* Products and quotients of decimal digits.                               *)

LEMMA DigitProduct ==
  ASSUME NEW d \in 0..(Ten - 1), NEW s \in 0..(Ten - 1)
  PROVE  /\ d * s \in 0..(Byte - 1) /\ (d * s) % Byte = d * s /\ (d * s) \div Byte = 0
         /\ (d * s) % 2^(2 * B) = d * s
<1>1. PICK T \in Nat \ {0}, M \in Nat \ {0} : T = Ten /\ M = Byte /\ T * T <= M
  <2>1. Ten * Ten <= Nibble * Nibble
    BY TenIs, HalfByte
  <2>. QED BY <2>1, TenIs, HalfByte
<1>2. PICK y \in Nat : y = d * s /\ y < T * T
  <2>1. d \in Nat /\ s \in Nat /\ d <= T - 1 /\ s <= T - 1
    BY <1>1
  <2>2. d * s <= (T - 1) * s /\ (T - 1) * s <= (T - 1) * (T - 1) /\ (T - 1) * (T - 1) < T * T
    BY <1>1, <2>1
  <2>. QED BY <2>1, <2>2
<1>3. y \in 0..(M - 1) /\ y \in 0..(M * M - 1)
  <2>1. M <= M * M
    BY <1>1
  <2>. QED BY <1>1, <1>2, <2>1
<1>4. M * M \in Nat \ {0} /\ M * M = 2^(2 * B)
  BY <1>1, HalfByte DEF Word
<1>5. y % M = y /\ y \div M = 0
  BY <1>3, Small
<1>6. y % 2^(2 * B) = y
  BY <1>3, <1>4, Small, Zenon
<1>. QED BY <1>1, <1>2, <1>3, <1>5, <1>6, Zenon

LEMMA DigitSplit ==
  ASSUME NEW y \in Int
  PROVE  y % Ten < Ten /\ Ten * (y \div Ten) + (y % Ten) = y
<1>1. PICK T \in Nat \ {0} : T = Ten
  BY TenIs, HalfByte
<1>2. PICK p \in Int, g \in 0..(T - 1) : y = T * p + g /\ p = y \div T /\ g = y % T
  BY Division
<1>. QED BY <1>1, <1>2

(* A quotient is not larger than its dividend.                              *)
LEMMA Quotients ==
  ASSUME NEW M \in Nat \ {0}, NEW z \in 1..(M - 1), NEW y \in 0..(M - 1)
  PROVE  /\ y \div z \in 0..(M - 1) /\ y % z \in 0..(z - 1) /\ y % z \in 0..(M - 1)
         /\ y = z * (y \div z) + (y % z)
<1>1. PICK p \in Int, g \in 0..(z - 1) : y = z * p + g /\ p = y \div z /\ g = y % z
  BY Division
<1>2. p >= 0
  <2>1. CASE p < 0
    <3>1. z * p <= z * (-1)
      BY <2>1
    <3>. QED BY <1>1, <3>1
  <2>. QED BY <2>1
<1>3. p <= z * p
  BY <1>2
<1>4. p \in 0..(M - 1) /\ g \in 0..(M - 1)
  BY <1>1, <1>2, <1>3
<1>. QED BY <1>1, <1>4

(* mul, then aam.                                                           *)
LEMMA Multiplied2 ==
  ASSUME IsMachine(origin), origin.intr = {}, NEW i \in Instructions, i.mod = 3, i.w = 1, i.rh = 4,
         i.op = "opcF6_RM", NEW j, j.op = "aam", NEW k, NEW l,
         machine = Stepped(Stepped(origin, i, k), j, l)
  PROVE  DigitsMultiplied(Before(1, i.rl))
<1> DEFINE d == Before(1, AX)
           s == Before(1, i.rl)
           m == Stepped(origin, i, k)
           r == mul(B, d, s, origin.flg)
           y == d * s
<1>. SUFFICES ASSUME d < Ten, s < Ten
              PROVE  Value(1, AX) < Ten /\ Ten * Value(1, AH) + Value(1, AX) = y
  BY Zenon DEF DigitsMultiplied
<1>1. /\ d = Reg(origin, 1, AX) /\ s = Reg(origin, 1, i.rl)
      /\ d \in 0..(Ten - 1) /\ s \in 0..(Ten - 1) /\ Ready(origin)
  <2>1. /\ d = Reg(origin, 1, AX) /\ s = Reg(origin, 1, i.rl)
        /\ d \in 0..(Byte - 1) /\ s \in 0..(Byte - 1)
        /\ origin.reg \in [Names -> Words] /\ origin.ip \in Words
    BY Operands, Zenon DEF Before
  <2>. HIDE DEF d, s
  <2>2. d \in 0..(Ten - 1) /\ s \in 0..(Ten - 1)
    BY <2>1, TenIs, HalfByte
  <2>3. Fields(origin)
    BY MachineFields
  <2>. QED BY <2>1, <2>2, <2>3, Zenon DEF Ready
<1>2. y \in 0..(Byte - 1) /\ y % Byte = y /\ y \div Byte = 0 /\ y % 2^(2 * B) = y
  <2>. HIDE DEF d, s
  <2>. QED BY <1>1, DigitProduct, Zenon
<1>3. machine = Stepped(m, j, l)
  OBVIOUS
<1>. HIDE DEF y, m
<1>4. r.res = y
  BY <1>2, ResultParts, Zenon DEF mul, Product, Result, y
<1>5. Bits(i.w) = B /\ 2^B = Byte /\ 0 \in 0..(Byte - 1)
  BY BitsWidth, HalfByte DEF Byte
<1>6. ProductIs(origin, i, r, y, 0)
  <2>1. r = IF i.rh = 4 THEN mul(B, d, s, origin.flg) ELSE imul(B, d, s, origin.flg)
    OBVIOUS
  <2>. HIDE DEF r, d, s
  <2>2. i.w = 1
    OBVIOUS
  <2>. QED BY <1>1, <1>2, <1>4, <1>5, <2>1, <2>2, Zenon DEF ProductIs
<1>. HIDE DEF r, d, s
<1>7. Both(origin, m, 1, y, 0, r.f, (origin.ip + 2) % Word)
  <2>1. i.w \in {1, 2} /\ i.op \in {"opcF6_RM", "opcF7_RM"} /\ i.rh \in {4, 5} /\ i.w = 1
    OBVIOUS
  <2>2. PICK ip : ip = (origin.ip + 2) % Word
    OBVIOUS
  <2>3. Both(origin, Stepped(origin, i, k), i.w, y, 0, r.f, (origin.ip + 2) % Word)
    BY <1>1, <1>6, <2>1, Multiplying
  <2>. QED BY <2>1, <2>2, <2>3 DEF m
<1>8. Ready(m) /\ Lo(m.reg.AX) = y
  <2>1. PICK reg : Halved(reg, 1, y, 0) /\ Step(origin, m, reg, r.f, (origin.ip + 2) % Word)
    BY <1>7, Zenon DEF Both
  <2>2. (origin.ip + 2) % Word \in Words
    <3>1. origin.ip \in Words /\ 2 \in Int
      BY <1>1 DEF Ready
    <3>. QED BY <3>1, IpPlus
  <2>3. Ready(m)
    BY <2>1, <2>2, Zenon DEF Ready, Step, Halved
  <2>4. m.reg = reg /\ Reg(m, 1, AX) = y
    BY <2>1, Zenon DEF Step, Halved
  <2>5. Reg(m, 1, AX) = Lo(m.reg.AX)
    BY DEF Reg, AX, GeneralRegs
  <2>. QED BY <2>3, <2>4, <2>5, Zenon
<1> DEFINE q == aam(y, m.flg)
<1>9. q.res \in Words /\ Lo(q.res) = y % Ten /\ Hi(q.res) = y \div Ten
  BY <1>2, AamIs, Zenon
<1>10. Becomes(m, machine, 2, q)
  <2>1. q = aam(Lo(m.reg.AX), m.flg)
    BY <1>8, Zenon
  <2>. HIDE DEF q
  <2>. QED BY <1>3, <1>8, <1>9, <2>1, AdjustSteps, Zenon
<1>. HIDE DEF q
<1>11. Value(1, AX) = y % Ten /\ Value(1, AH) = y \div Ten
  <2>1. Value(1, AX) = Lo(q.res) /\ Value(1, AH) = Hi(q.res)
    BY <1>10, Became
  <2>. QED BY <1>9, <2>1, Zenon
<1>12. y % Ten < Ten /\ Ten * (y \div Ten) + (y % Ten) = y
  <2>1. y \in Int
    BY <1>2
  <2>. QED BY <2>1, DigitSplit, Zenon
<1>. QED BY <1>11, <1>12, Zenon DEF y, d, s

LEMMA AadSteps ==
  ASSUME NEW m, Ready(m), m.intr = {}, NEW i, i.op = "aad", NEW j,
         NEW r, r = aad(m.reg.AX, m.flg), r.res \in Words
  PROVE  /\ Ready(Stepped(m, i, j)) /\ Stepped(m, i, j).intr = {}
         /\ Becomes(m, Stepped(m, i, j), 2, r)
<1> DEFINE e == Fetch(m, j)
           g == Skip(e, 1)
           x == [g EXCEPT !.flg = r.f]
           v == r.res
           h == SetReg(x, 2, AX, v)
           ip == (((m.ip + 1) % Word) + 1) % Word
<1>1. Step(m, g, m.reg, m.flg, ip) /\ ip \in Words /\ ip \in Int
  <2>1. Fields(m) /\ m.ip \in Words /\ 1 \in Nat /\ 1 \in Int
    BY DEF Ready
  <2>2. (m.ip + 1) % Word \in Words
    BY <2>1, IpPlus, Zenon
  <2>3. ip \in Words
    BY <2>1, <2>2, IpPlus, Zenon
  <2>4. (m.ip + 1) % Word \in Int /\ ip \in Int
    BY <2>2, <2>3, HalfByte DEF Words
  <2>5. Step(m, e, m.reg, m.flg, (m.ip + 1) % Word)
    BY <2>1, Fetching, Zenon
  <2>. HIDE DEF e
  <2>6. Step(m, g, m.reg, m.flg, ip)
    BY <2>1, <2>4, <2>5, Steps
  <2>. QED BY <2>3, <2>4, <2>6
<1>2. Handled(Fetch(m, j), i) = Clear(h)
  <2>1. Handled(e, i) = Adjusted(g, 2, aad(g.reg.AX, g.flg))
    <3>1. Handled(e, i) = aad_AX(e, i)
      BY AdjustNamed, Zenon
    <3>2. e.reg = m.reg /\ e.flg = m.flg
      BY FetchReady, Zenon
    <3>3. g.reg = m.reg /\ g.flg = m.flg
      BY FetchReady, Zenon
    <3>. QED BY <3>1, <3>2, <3>3, Zenon DEF aad_AX
  <2>2. g.reg = m.reg /\ g.flg = m.flg
    BY FetchReady, Zenon
  <2>. HIDE DEF g
  <2>3. Handled(e, i) = Adjusted(g, 2, r)
    BY <2>1, <2>2
  <2>. QED BY <2>3, Zenon DEF Adjusted
<1>. HIDE DEF g, ip
<1>3. Step(m, x, m.reg, r.f, ip)
  BY <1>1, FlagsSet
<1>4. v \in 0..(2^Bits(2) - 1) /\ AX \in 0..7 /\ 2 \in {1, 2} /\ m.reg \in [Names -> Words]
  BY BitsWidth DEF AX, Words, Ready
<1>. HIDE DEF x, v
<1>5. PICK old : old = m.reg
  OBVIOUS
<1>6. PICK reg : Replaced(old, reg, 2, AX, v) /\ Step(m, h, reg, r.f, ip)
  BY <1>3, <1>4, <1>5, RegSet
<1>. HIDE DEF h
<1>7. Step(m, Stepped(m, i, j), reg, r.f, ip)
  BY <1>1, <1>2, <1>6, Closing
<1>8. reg \in [Names -> Words]
  BY <1>6, Zenon DEF Replaced
<1>. QED BY <1>1, <1>5, <1>6, <1>7, <1>8, Zenon DEF Ready, Becomes, Step, v

(* aad, then div.                                                           *)
LEMMA Divided2 ==
  ASSUME IsMachine(origin), origin.intr = {}, NEW i \in Instructions, i.op = "aad",
         NEW j \in Instructions, j.op = "opcF6_RM", j.mod = 3, j.w = 1, j.rh = 6, j.rl \notin {AX, AH},
         NEW k, NEW l, machine = Stepped(Stepped(origin, i, k), j, l)
  PROVE  DigitsDivided(Before(1, j.rl))
<1> DEFINE s == Before(1, j.rl)
           m == Stepped(origin, i, k)
           x == origin.reg.AX
           q == aad(x, origin.flg)
           y == Ten * Before(1, AH) + Before(1, AX)
<1>. SUFFICES ASSUME Before(1, AX) < Ten, Before(1, AH) < Ten, s # 0
              PROVE  Value(1, AX) * s + Value(1, AH) = y /\ Value(1, AH) < s
  BY Zenon DEF DigitsDivided
<1>1. /\ s = Reg(origin, 1, j.rl) /\ s \in 0..(Byte - 1) /\ Ready(origin) /\ x \in Words
      /\ Before(1, AX) = Lo(x) /\ Before(1, AH) = Hi(x)
      /\ Lo(x) \in 0..(Ten - 1) /\ Hi(x) \in 0..(Ten - 1)
  <2>1. /\ s = Reg(origin, 1, j.rl) /\ s \in 0..(Byte - 1) /\ x \in Words
        /\ Before(1, AX) = Lo(x) /\ Before(1, AH) = Hi(x)
        /\ Lo(x) \in 0..(Byte - 1) /\ Hi(x) \in 0..(Byte - 1)
        /\ origin.reg \in [Names -> Words] /\ origin.ip \in Words
    BY Operands, Zenon DEF Before
  <2>. HIDE DEF s, x
  <2>2. Lo(x) \in 0..(Ten - 1) /\ Hi(x) \in 0..(Ten - 1)
    BY <2>1, TenIs, HalfByte
  <2>3. Fields(origin)
    BY MachineFields
  <2>. QED BY <2>1, <2>2, <2>3, Zenon DEF Ready
<1>2. q.res = y /\ y \in 0..(Byte - 1) /\ y \in Words
  <2>. HIDE DEF x
  <2>1. PICK h \in 0..(Ten - 1), g \in 0..(Ten - 1) : h = Hi(x) /\ g = Lo(x)
    BY <1>1
  <2>2. aad(x, origin.flg).res = Ten * h + g /\ Ten * h + g \in 0..(Byte - 1) /\ Ten * h + g \in Words
    BY <1>1, <2>1, AadIs, ZenonT(60)
  <2>. QED BY <1>1, <2>1, <2>2, Zenon
<1>3. Ready(m) /\ m.intr = {} /\ Becomes(origin, m, 2, q)
  BY <1>1, <1>2, AadSteps, Zenon
<1>. HIDE DEF q, y, x
<1>4. Replaced(origin.reg, m.reg, 2, AX, y)
  BY <1>2, <1>3, Zenon DEF Becomes
<1>5. m.reg.AX = y
  <2>1. Reg(m, 2, AX) = y
    BY <1>4, Zenon DEF Replaced
  <2>. QED BY <2>1 DEF Reg, AX, GeneralRegs
<1>6. Reg(m, 1, j.rl) = s
  <2>1. j.rl \in 0..7 /\ j.rl # 0 /\ j.rl # 4
    BY DEF Instructions, AX, AH
  <2>2. Whole(1, j.rl) \in Names /\ Whole(1, j.rl) # "AX" /\ Whole(2, AX) = "AX"
    BY <2>1 DEF Whole, GeneralRegs, Names, AX
  <2>3. m.reg[Whole(1, j.rl)] = origin.reg[Whole(1, j.rl)]
    BY <1>4, <2>2, Zenon DEF Replaced
  <2>4. Reg(m, 1, j.rl) = Reg(origin, 1, j.rl)
    BY <2>1, <2>3 DEF Reg, Whole
  <2>. QED BY <1>1, <2>4
<1>7. machine = Stepped(m, j, l)
  OBVIOUS
<1>. HIDE DEF m, s
<1> DEFINE t == div(B, y, s, m.flg)
           u == y \div s
           v == y % s
<1>8. u \in 0..(Byte - 1) /\ v \in 0..(s - 1) /\ v \in 0..(Byte - 1) /\ y = s * u + v
  <2>1. s \in 1..(Byte - 1) /\ Byte \in Nat \ {0}
    BY <1>1, HalfByte
  <2>. QED BY <1>2, <2>1, Quotients, Zenon
<1>9. Bits(j.w) = B /\ 2^B = Byte
  BY BitsWidth, HalfByte DEF Byte
<1>. HIDE DEF u, v
<1>10. t.quo = u /\ t.rem = v
  <2>1. u % Byte = u /\ v % Byte = v
    BY <1>8, Small, HalfByte
  <2>2. t = Divided(B, u, v, m.flg)
    BY Zenon DEF div, u, v
  <2>. HIDE DEF t
  <2>3. t.quo = u % 2^B /\ t.rem = v % 2^B
    BY <2>2 DEF Divided
  <2>. QED BY <1>9, <2>1, <2>3
<1>11. QuotientIs(m, j, t)
  <2>1. Wide(m, j.w) = y
    BY <1>5 DEF Wide
  <2>2. DivFits(B, y, s)
    <3>1. u < 2^B
      BY <1>8, <1>9, HalfByte
    <3>. QED BY <3>1, Zenon DEF DivFits, u
  <2>3. j.w = 1 /\ j.rh = 6 /\ ~(j.rh = 7)
    OBVIOUS
  <2>. QED BY <1>6, <1>8, <1>9, <1>10, <2>1, <2>2, <2>3, Zenon DEF QuotientIs, t
<1>. HIDE DEF t
<1>12. Both(m, machine, j.w, u, v, t.f, (m.ip + 2) % Word)
  <2>1. j.w \in {1, 2} /\ j.op \in {"opcF6_RM", "opcF7_RM"} /\ j.rh \in {6, 7}
    OBVIOUS
  <2>2. PICK n : n = m /\ Ready(n) /\ n.intr = {} /\ QuotientIs(n, j, t)
    BY <1>3, <1>11, Zenon
  <2>3. Both(n, Stepped(n, j, l), j.w, t.quo, t.rem, t.f, (n.ip + 2) % Word)
    BY <2>1, <2>2, Dividing
  <2>. QED BY <1>7, <1>10, <2>2, <2>3, Zenon
<1>13. Value(1, AX) = u /\ Value(1, AH) = v
  <2>1. PICK reg : Halved(reg, j.w, u, v) /\ machine.reg = reg
    BY <1>12, Zenon DEF Both, Step
  <2>2. j.w = 1
    OBVIOUS
  <2>3. Reg(machine, 1, AX) = u /\ Reg(machine, 1, HighPart(1)) = v
    BY <2>1, <2>2, Zenon DEF Halved
  <2>. QED BY <2>3, Zenon DEF HighPart, Value
<1>14. u * s + v = y /\ v < s
  BY <1>1, <1>2, <1>8, HalfByte
<1>. QED BY <1>13, <1>14, Zenon DEF y

LEMMA DecimalInv == Came => DecimalExact
<1> DEFINE i == done[1]
           j == done[2]
<1>. SUFFICES ASSUME Came, Ended, Len(done) = 2
              PROVE  /\ i.w = 1 /\ i.mod = 3 => AdjustExact(i, j)
                     /\ i.op = "aad" /\ j.op = "opcF6_RM" /\ j.w = 1 /\ j.mod = 3 /\ j.rh = 6
                        /\ j.rl \notin {AX, AH} => DigitsDivided(Before(1, j.rl))
  BY Zenon DEF DecimalExact
<1>1. IsMachine(origin) /\ origin.intr = {}
  BY DEF Came
<1>2. i \in Instructions /\ j \in Instructions
  <2>1. \A k \in 1..Len(done) : done[k] \in Instructions
    BY CameInstructions, Zenon
  <2>2. 1 \in 1..2 /\ 2 \in 1..2
    OBVIOUS
  <2>. QED BY <2>1, <2>2
<1>3. PICK k, l : machine = Stepped(Stepped(origin, i, k), j, l)
  <2>1. TwoSteps(done[1], done[2])
    BY DEF Came
  <2>. QED BY <2>1, Zenon DEF TwoSteps
<1>. HIDE DEF i, j
<1>4. ASSUME i.w = 1, i.mod = 3 PROVE AdjustExact(i, j)
  <2>1. ASSUME i.op \in {"add_RM_R", "adc_RM_R"}, i.rl = AX
        PROVE  (j.op = "daa" => PackedExact(i, j)) /\ (j.op = "aaa" => DigitExact(i, j))
    BY <1>1, <1>2, <1>3, <1>4, <2>1, PackedAdded, DigitAdded
  <2>2. ASSUME i.op \in {"sub_RM_R", "sbb_RM_R"}, i.rl = AX
        PROVE  (j.op = "das" => PackedExact(i, j)) /\ (j.op = "aas" => DigitExact(i, j))
    BY <1>1, <1>2, <1>3, <1>4, <2>2, PackedSubtracted, DigitSubtracted
  <2>3. ASSUME i.op = "opcF6_RM", i.rh = 4, j.op = "aam"
        PROVE  DigitsMultiplied(Before(1, i.rl))
    BY <1>1, <1>2, <1>3, <1>4, <2>3, Multiplied2
  <2>. QED BY <2>1, <2>2, <2>3, Zenon DEF AdjustExact
<1>5. ASSUME i.op = "aad", j.op = "opcF6_RM", j.w = 1, j.mod = 3, j.rh = 6, j.rl \notin {AX, AH}
      PROVE  DigitsDivided(Before(1, j.rl))
  BY <1>1, <1>2, <1>3, <1>5, Divided2
<1>. QED BY <1>4, <1>5, Zenon

(* Decimal numbers are added, subtracted, multiplied and divided exactly,  *)
(* in binary and with the adjustments of prim_ops.cpp (daa to aam).        *)
THEOREM DecimalsExact == Spec => []DecimalExact
<1>1. Came => DecimalExact
  BY DecimalInv
<1>. QED BY <1>1, CameAlways, PTL
=============================================================================
