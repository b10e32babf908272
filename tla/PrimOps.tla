------------------------------ MODULE PrimOps ------------------------------
(***************************************************************************)
(* The arithmetic of prim_ops.cpp: what each primitive returns and what it *)
(* does to the flags.  An operator is written once for bytes and words; n  *)
(* is the width of its operands in bits.  A set of flags f is the flags    *)
(* register, a result the record [res, f].  As in the source, overflow and *)
(* auxiliary carry are read off the chain of carries (or borrows) that the *)
(* operands and the result determine, bit by bit.                          *)
(***************************************************************************)
EXTENDS Integers, FiniteSets, FiniteSetsExt

CONSTANTS
  B,        \* bits of a byte, even; a nibble is half of it, a word twice (8)
  Ten,      \* the base of the decimal instructions (10)
  FlagBit   \* the position of each flag in the flags register (regs.h)

ASSUME PrimOpsAssumption ==
  /\ B \in Nat /\ B > 1 /\ B % 2 = 0
  /\ Ten \in 2..2^(B \div 2)
  /\ {"CF", "PF", "AF", "ZF", "SF", "OF"} \subseteq DOMAIN FlagBit
  /\ \A x, y \in DOMAIN FlagBit : FlagBit[x] = FlagBit[y] => x = y
  /\ \A x \in DOMAIN FlagBit : FlagBit[x] \in 0..(2 * B - 1)

Nibble == 2^(B \div 2)
Byte == 2^B
Word == 2^(2 * B)
Flags == DOMAIN FlagBit

-----------------------------------------------------------------------------
(* Bits.  Bit(x, k) is also right for a negative x, in two's complement.   *)

Bit(x, k) == (x \div 2^k) % 2 = 1

Ones(n, x) == {k \in 0..(n - 1) : Bit(x, k)}

Number(S) == MapThenSumSet(LAMBDA k : 2^k, S)

Signed(n, x) == IF Bit(x, n - 1) THEN x - 2^n ELSE x

Parity(x) == Cardinality(Ones(B, x)) % 2 = 0

-----------------------------------------------------------------------------
(* Flags                                                                   *)

\* Sets or clears the flags that `on' is defined for and no other.
Change(f, on) ==
  {x \in f : x \notin DOMAIN on} \union {x \in DOMAIN on \intersect Flags : on[x]}

\* What f says of some flags and g of others.
f ++ g == [x \in DOMAIN f \union DOMAIN g |-> IF x \in DOMAIN f THEN f[x] ELSE g[x]]

Sign(n, res) ==
  [SF |-> Bit(res, n - 1), ZF |-> res % 2^n = 0, PF |-> Parity(res)]

\* cc = (s & d) | (~res & (s | d)), and bc = (res & (~d | s)) | (~d & s).
Carries(d, s, res) ==
  [k \in 0..(2 * B - 1) |->
     (Bit(s, k) /\ Bit(d, k)) \/ (~Bit(res, k) /\ (Bit(s, k) \/ Bit(d, k)))]

Borrows(d, s, res) ==
  [k \in 0..(2 * B - 1) |->
     (Bit(res, k) /\ (~Bit(d, k) \/ Bit(s, k))) \/ (~Bit(d, k) /\ Bit(s, k))]

\* As FromChain, with the auxiliary carry of the bit above.
FromChain_Carry(n, chain) ==
  [OF |-> chain[n - 1] # chain[n - 2], AF |-> chain[B \div 2]]

\* XOR2 of the two top bits of a chain, and the bit that leaves the nibble.
FromChain(n, chain) ==
  [OF |-> chain[n - 1] # chain[n - 2], AF |-> chain[B \div 2 - 1]]

Result(n, res, f, on) == [res |-> res % 2^n, f |-> Change(f, on)]

-----------------------------------------------------------------------------
(* Addition and subtraction                                                *)

Addition(n, d, s, c, f) ==
  LET res == d + s + c
  IN  Result(n, res, f, Sign(n, res) ++ FromChain(n, Carries(d, s, res))
                          ++ [CF |-> Bit(res, n)])

Carry(f) == IF "CF" \in f THEN 1 ELSE 0

add(n, d, s, f) == Addition(n, d, s, 0, f)

adc(n, d, s, f) == Addition(n, d, s, Carry(f), f)

inc(n, d, f) ==
  LET res == d + 1
  IN  Result(n, res, f, Sign(n, res) ++ FromChain(n, Carries(d, 1, res)))

Difference(n, d, s, c, f) ==
  LET res   == d - s - c
      chain == Borrows(d, s, res)
  IN  Result(n, res, f, Sign(n, res) ++ FromChain(n, chain) ++ [CF |-> chain[n - 1]])

sub(n, d, s, f) == Difference(n, d, s, 0, f)

sbb(n, d, s, f) == Difference(n, d, s, Carry(f), f)

cmp(n, d, s, f) == [Difference(n, d, s, 0, f) EXCEPT !.res = d]

dec(n, d, f) ==
  LET res == d - 1
  IN  Result(n, res, f, Sign(n, res) ++ FromChain(n, Borrows(d, 1, res)))

neg(n, s, f) ==
  Result(n, -s, f, Sign(n, -s) ++ FromChain(n, Borrows(0, s, -s)) ++ [CF |-> s # 0])

-----------------------------------------------------------------------------
(* Logic                                                                   *)

Logic(n, res, f) ==
  Result(n, res, f, Sign(n, res) ++ [CF |-> FALSE, OF |-> FALSE, AF |-> FALSE])

and(n, d, s, f) == Logic(n, Number(Ones(n, d) \intersect Ones(n, s)), f)

or(n, d, s, f) == Logic(n, Number(Ones(n, d) \union Ones(n, s)), f)

xor(n, d, s, f) ==
  Logic(n, Number({k \in 0..(n - 1) : Bit(d, k) # Bit(s, k)}), f)

not(n, s) == 2^n - 1 - s

\* test leaves AF as it is.
test(n, d, s, f) ==
  LET res == Number(Ones(n, d) \intersect Ones(n, s))
  IN  Change(f, Sign(n, res) ++ [CF |-> FALSE, OF |-> FALSE])

-----------------------------------------------------------------------------
(* Shifts and rotations of d by s places                                   *)

\* The host shifts its words of four bytes by a count modulo their width.
HostShift(s) == (s - 1) % (4 * B)

rcl(n, d, s, f) ==
  LET cnt == s % (n + 1)
      cf  == Bit(d, n - cnt)
      res == ((d * 2^cnt) % 2^n) + ((d \div 2^(n + 1 - cnt)) % 2^(cnt - 1))
               + Carry(f) * 2^(cnt - 1)
  IN  IF cnt = 0 THEN [res |-> d, f |-> f]
      ELSE Result(n, res, f, [CF |-> cf, OF |-> cnt = 1 /\ cf # Bit(res, n - 1)])

rcr(n, d, s, f) ==
  LET cnt == s % (n + 1)
      res == (d \div 2^cnt) + ((d * 2^(n + 1 - cnt)) % 2^n) + Carry(f) * 2^(n - cnt)
      of  == IF cnt = 1 THEN [OF |-> ("CF" \in f) # Bit(d, n - 1)] ELSE << >>
  IN  IF cnt = 0 THEN [res |-> d, f |-> f]
      ELSE Result(n, res, f, [CF |-> Bit(d, cnt - 1)] ++ of)

rol(n, d, s, f) ==
  LET cnt == s % n
      res == ((d * 2^cnt) % 2^n) + (d \div 2^(n - cnt))
      cf  == [CF |-> Bit(res, 0)]
  IN  IF s = 0 THEN [res |-> d, f |-> f]
      ELSE IF cnt = 0 THEN [res |-> d, f |-> Change(f, [CF |-> Bit(d, 0)])]
      ELSE Result(n, res, f, cf ++ [OF |-> s = 1 /\ Bit(res, 0) # Bit(res, n - 1)])

ror(n, d, s, f) ==
  LET cnt == s % n
      res == ((d * 2^(n - cnt)) % 2^n) + (d \div 2^cnt)
      cf  == [CF |-> Bit(res, n - 1)]
  IN  IF s = 0 THEN [res |-> d, f |-> f]
      ELSE IF cnt = 0 THEN [res |-> d, f |-> Change(f, [CF |-> Bit(d, n - 1)])]
      ELSE Result(n, res, f, cf ++ [OF |-> s = 1 /\ Bit(res, n - 1) # Bit(res, n - 2)])

shl(n, d, s, f) ==
  LET res == (d * 2^s) % 2^n
      cf  == Bit(d, n - s)
  IN  IF s = 0 THEN [res |-> d, f |-> f \ {"OF"}]
      ELSE IF s < n
      THEN Result(n, res, f, Sign(n, res)
             ++ [CF |-> cf, OF |-> s = 1 /\ Bit(res, n - 1) # cf])
      ELSE Result(n, 0, f, Sign(n, 0)
             ++ [CF |-> Bit(d * 2^HostShift(s), n - 1), OF |-> FALSE])

\* Past the width, a byte and a word are treated differently.
shr(n, d, s, f) ==
  LET res == d \div 2^s
  IN  IF s = 0 THEN [res |-> d, f |-> f \ {"OF"}]
      ELSE IF s < n
      THEN Result(n, res, f, Sign(n, res)
             ++ [CF |-> Bit(d, s - 1),
                 OF |-> s = 1 /\ Bit(res, n - 1) # Bit(res, n - 2)])
      ELSE Result(n, 0, f, [SF |-> FALSE, ZF |-> TRUE, OF |-> FALSE, PF |-> n = B,
                            CF |-> n = B /\ Bit(d, HostShift(s))])

sar(n, d, s, f) ==
  LET cnt == s % n
      res == (d \div 2^cnt) + (IF Bit(d, n - 1) THEN 2^n - 2^(n - cnt) ELSE 0)
  IN  IF cnt = 0 THEN [res |-> d, f |-> f]
      ELSE Result(n, res, f, Sign(n, res) ++ [CF |-> Bit(d, cnt - 1)])

-----------------------------------------------------------------------------
(* Decimal adjustment.  aaa and aas work on the word AX and give flags of  *)
(* the low byte but ZF; no other than aad and aam clears OF.               *)

\* As Unadjusted, not looking at a carry out of the digit.
Unadjusted_Digit(d, f) == d % Nibble > Ten - 1

Unadjusted(d, f) == d % Nibble > Ten - 1 \/ "AF" \in f

\* AF and CF are set and never cleared.
Raised(low, high, f) ==
  f \union {x \in {"AF", "CF"} \intersect Flags : IF x = "AF" THEN low ELSE high}

daa(d, f) ==
  LET low  == IF Unadjusted(d, f) THEN d + Nibble - Ten ELSE d
      high == low > Ten * Nibble - 1 \/ "CF" \in f
      res  == IF high THEN low + (Nibble - Ten) * Nibble ELSE low
  IN  Result(B, res, Raised(Unadjusted(d, f), high, f), Sign(B, res))

das(d, f) ==
  LET low  == IF Unadjusted(d, f) THEN (d - (Nibble - Ten)) % Byte ELSE d
      high == low > Ten * Nibble - 1 \/ "CF" \in f
      res  == IF high THEN low - (Nibble - Ten) * Nibble ELSE low
  IN  Result(B, res, Raised(Unadjusted(d, f), high, f), Sign(B, res))

\* Keeps the high byte of a word and the low nibble of its low byte.
Unpacked(d) == Byte * ((d \div Byte) % Byte) + (d % Nibble)

AsciiAdjust(d, by, f) ==
  LET res == Unpacked(IF Unadjusted(d, f) THEN d + by ELSE d)
  IN  Result(2 * B, res, f,
        [SF |-> FALSE, ZF |-> res = 0, PF |-> Parity(res),
         AF |-> Unadjusted(d, f), CF |-> Unadjusted(d, f)])

aaa(d, f) == AsciiAdjust(d, Nibble - Ten + Byte, f)

aas(d, f) == AsciiAdjust(d, -(Nibble - Ten + Byte), f)

AsciiFlags(res) ==
  [CF |-> FALSE, AF |-> FALSE, OF |-> FALSE,
   SF |-> Bit(res, B - 1), ZF |-> res = 0, PF |-> Parity(res)]

aad(d, f) ==
  LET res == ((d % Byte) + Ten * (d \div Byte)) % Byte
  IN  Result(2 * B, res, f, AsciiFlags(res))

aam(d, f) ==
  LET res == Byte * (d \div Ten) + (d % Ten)
  IN  Result(2 * B, res, f, AsciiFlags(res))

-----------------------------------------------------------------------------
(* Multiplication and division.  The product has twice the width; the      *)
(* dividend x, too.  A quotient is the record [quo, rem, f]; where the     *)
(* divisor is 0 or the quotient does not fit there is none.                *)

Product(n, res, f, on) == Result(2 * n, res, f, [CF |-> on, OF |-> on])

mul(n, d, s, f) == Product(n, d * s, f, d * s >= 2^n)

\* A word's product is negative and fits if DX is 0xFF, says the source.
imul(n, d, s, f) ==
  LET res  == (Signed(n, d) * Signed(n, s)) % 2^(2 * n)
      high == res \div 2^n
  IN  Product(n, res, f,
        high # (IF Bit(res, n - 1) THEN Byte - 1 ELSE 0))

\* C's division, which truncates.
Magnitude(x) == IF x < 0 THEN -x ELSE x
Quotient(x, y) ==
  LET q == Magnitude(x) \div Magnitude(y) IN IF (x < 0) # (y < 0) THEN -q ELSE q
Remainder(x, y) == x - y * Quotient(x, y)

\* A word's division sets flags and a byte's does not.
Divided(n, quo, rem, f) ==
  [quo |-> quo % 2^n, rem |-> rem % 2^n,
   f   |-> IF n = B THEN f
           ELSE Change(f, [CF |-> FALSE, SF |-> FALSE, ZF |-> quo = 0, PF |-> Parity(rem)])]

DivFits(n, x, s) == s # 0 /\ x \div s < 2^n

div(n, x, s, f) == Divided(n, x \div s, x % s, f)

\* The host's abs, which leaves its least integer as it is.
HostAbs(q) == IF q = -2^(4 * B - 1) THEN q ELSE Magnitude(q)

IdivFits(n, x, s) ==
  s # 0 /\ HostAbs(Quotient(Signed(2 * n, x), Signed(n, s))) < 2^(n - 1)

idiv(n, x, s, f) ==
  Divided(n, Quotient(Signed(2 * n, x), Signed(n, s)),
             Remainder(Signed(2 * n, x), Signed(n, s)), f)

\* The one quotient that the host's own word cannot hold: dividing a word
\* then ends the simulator with an arithmetic exception.
IdivTraps(n, x, s) == n = 2 * B /\ Signed(2 * n, x) = -2^(4 * B - 1) /\ Signed(n, s) = -1

-----------------------------------------------------------------------------
(* The tables opc80_byte_operation and opcD0_byte_operation of ops.cpp,    *)
(* and their forms for words.                                              *)

Alu(op, n, d, s, f) ==
  CASE op = "add" -> add(n, d, s, f)
    [] op = "or"  -> or(n, d, s, f)
    [] op = "adc" -> adc(n, d, s, f)
    [] op = "sbb" -> sbb(n, d, s, f)
    [] op = "and" -> and(n, d, s, f)
    [] op = "sub" -> sub(n, d, s, f)
    [] op = "xor" -> xor(n, d, s, f)
    [] op = "cmp" -> cmp(n, d, s, f)

AluOps == <<"add", "or", "adc", "sbb", "and", "sub", "xor", "cmp">>

Shift(op, n, d, s, f) ==
  CASE op = "rol" -> rol(n, d, s, f)
    [] op = "ror" -> ror(n, d, s, f)
    [] op = "rcl" -> rcl(n, d, s, f)
    [] op = "rcr" -> rcr(n, d, s, f)
    [] op = "shl" -> shl(n, d, s, f)
    [] op = "shr" -> shr(n, d, s, f)
    [] op = "sar" -> sar(n, d, s, f)

ShiftOps == <<"rol", "ror", "rcl", "rcr", "shl", "shr", "shl", "sar">>
=============================================================================
