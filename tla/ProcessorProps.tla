--------------------------- MODULE ProcessorProps ---------------------------
(***************************************************************************)
(* What the instructions promise, said in integers, blocks of memory and   *)
(* stacks rather than in carries, loops and registers.                     *)
(***************************************************************************)
EXTENDS Processor

Ended == Len(done) = Len(Code(job))

Flag(x) == x \in machine.flg
Value(w, k) == Reg(machine, w, k)   \* of a register, in the end ...
Before(w, k) == Reg(origin, w, k)   \* ... and at the start

-----------------------------------------------------------------------------
(* One instruction, its operands in registers: rl is the first one's       *)
(* number, rh the other one's or the operation's.                          *)

Within(n, x) == 0 <= x /\ x < 2^n
SignedWithin(n, x) == -(2^(n - 1)) <= x /\ x < 2^(n - 1)

\* The flags of a sum or a difference, from its value on unsigned numbers,
\* on signed ones and on the low nibbles.
SumFlags(n, value, signed, low) ==
  /\ Flag("ZF") <=> (value % 2^n = 0)
  /\ Flag("SF") <=> ~SignedWithin(n, value % 2^n)
  /\ Flag("PF") <=> (Cardinality({k \in 0..(B - 1) : Bit(value, k)}) % 2 = 0)
  /\ Flag("OF") <=> ~SignedWithin(n, signed)
  /\ Flag("AF") <=> ~Within(B \div 2, low)

\* Each operation as a weight of the carry and of the operand.
Weights ==
  [add_RM_R |-> <<0, 1>>, adc_RM_R |-> <<1, 1>>,
   sub_RM_R |-> <<0, -1>>, cmp_RM_R |-> <<0, -1>>, sbb_RM_R |-> <<-1, -1>>]

SumExact(i) ==
  i.op \in DOMAIN Weights /\ i.mod = 3 =>
    LET n == Bits(i.w)
        d == Before(i.w, i.rl)
        s == Before(i.w, i.rh)
        total(x, y) ==
          x + Weights[i.op][1] * Carry(origin.flg) + Weights[i.op][2] * y
    IN  /\ SumFlags(n, total(d, s), total(Signed(n, d), Signed(n, s)),
                    total(d % Nibble, s % Nibble))
        /\ Flag("CF") <=> ~Within(n, total(d, s))
        /\ Value(i.w, i.rl) = IF i.op = "cmp_RM_R" THEN d ELSE total(d, s) % 2^n

\* inc, dec and neg; inc and dec leave the carry alone.
CountExact(i) ==
  LET n == Bits(i.w)
      d == Before(i.w, i.rl)
      by == IF i.rh = 0 THEN 1 ELSE -1
  IN /\ i.op = "opcFE_RM" /\ i.mod = 3 /\ i.rh \in {0, 1} =>
          /\ SumFlags(n, d + by, Signed(n, d) + by, (d % Nibble) + by)
          /\ Flag("CF") <=> ("CF" \in origin.flg)
          /\ Value(i.w, i.rl) = (d + by) % 2^n
     /\ i.op \in {"opcF6_RM", "opcF7_RM"} /\ i.mod = 3 /\ i.rh = 3 =>
          /\ SumFlags(n, -d, -Signed(n, d), -(d % Nibble))
          /\ Flag("CF") <=> (d # 0)
          /\ Value(i.w, i.rl) = (-d) % 2^n

\* A product is whole, and CF and OF say whether it needs its high half; not
\* so for a signed product of words that is negative or whose high half is
\* 0xFF, with which the code compares it.
ProductExact(i) ==
  i.op \in {"opcF6_RM", "opcF7_RM"} /\ i.mod = 3 /\ i.rh \in {4, 5} =>
    LET n == Bits(i.w)
        number(x) == IF i.rh = 4 THEN x ELSE Signed(n, x)
        product == number(Before(i.w, AX)) * number(Before(i.w, i.rl))
        fits == IF i.rh = 4 THEN Within(n, product) ELSE SignedWithin(n, product)
    IN  /\ Wide(machine, i.w) = product % 2^(2 * n)
        /\ n = B \/ i.rh = 4 \/ (product >= 0 /\ product \div 2^n # Byte - 1) =>
             (Flag("CF") <=> ~fits)
        /\ Flag("OF") <=> Flag("CF")

\* A quotient is exact, with a remainder on the dividend's side of zero; if
\* there is none the program stops with the dividend untouched.  A signed
\* quotient's range is symmetric.  Not so for the one overflow that the code
\* does not see, abs of the quotient being negative: the program goes on
\* with zeros.
Unseen(n, x, s) == n = 2 * B /\ x = -2^(4 * B - 1) /\ s = 1

QuotientExact(i) ==
  i.op \in {"opcF6_RM", "opcF7_RM"} /\ i.mod = 3 /\ i.rh \in {6, 7} /\ ~machine.dead =>
    LET n == Bits(i.w)
        number(k, x) == IF i.rh = 6 THEN x ELSE Signed(k, x)
        x == number(2 * n, Wide(origin, i.w))
        s == number(n, Before(i.w, i.rl))
        q == number(n, Value(i.w, AX))
        r == number(n, IF i.w = 1 THEN Value(1, 4) ELSE Value(2, DX))
        largest == IF i.rh = 6 THEN 2^n - 1 ELSE 2^(n - 1) - 1
    IN  IF Unseen(n, x, s)
        THEN ~machine.stop /\ q = 0 /\ r = 0
        ELSE IF machine.stop
        THEN /\ machine.reg = origin.reg
             /\ s # 0 => Magnitude(x) >= Magnitude(s) * (largest + 1)
        ELSE /\ x = q * s + r /\ Magnitude(r) < Magnitude(s)
             /\ r # 0 => (r < 0) = (x < 0)
             /\ Magnitude(q) <= largest

\* A shift or a rotation by CL places is as many by one place.  Not so for
\* a shift past the width, and sar takes its count modulo the width.
Place(op, n, p) ==
  LET top == p.x \div 2^(n - 1)
      out == IF op \in {"shl", "rol", "rcl"} THEN top ELSE p.x % 2
  IN [c |-> out,
      x |-> CASE op = "shl" -> (2 * p.x) % 2^n
              [] op = "rol" -> ((2 * p.x) % 2^n) + out
              [] op = "rcl" -> ((2 * p.x) % 2^n) + p.c
              [] op = "shr" -> p.x \div 2
              [] op = "sar" -> (p.x \div 2) + top * 2^(n - 1)
              [] op = "ror" -> (p.x \div 2) + out * 2^(n - 1)
              [] op = "rcr" -> (p.x \div 2) + p.c * 2^(n - 1)]

PlacesExact(i) ==
  i.op \in {"opcD2_RM_CL", "opcD3_RM_CL"} /\ i.mod = 3 =>
    LET n   == Bits(i.w)
        op  == ShiftOps[i.rh + 1]
        cnt == Before(1, CX)
        after[k \in 0..cnt] ==
          IF k = 0 THEN [c |-> Carry(origin.flg), x |-> Before(i.w, i.rl)]
          ELSE Place(op, n, after[k - 1])
    IN  (op \in {"shl", "shr", "sar"} => cnt < n) =>
          /\ Value(i.w, i.rl) = after[cnt].x
          /\ Carry(machine.flg) = after[cnt].c

\* Two-byte instructions.  imul is right about overflow for a product that
\* is not negative, bsf and bsr for an operand in another register.
DoubleShiftExact(i) ==
  LET n   == 2 * B
      cnt == Before(1, CX)
      d   == Before(2, i.rl)
      s   == Before(2, i.rh)
      is  == Value(2, i.rl)
  IN  /\ i.op = "shld_CL" /\ cnt < n =>
           /\ is = (((2^n * d + s) * 2^cnt) \div 2^n) % 2^n
           /\ cnt > 0 => Carry(machine.flg) = (d \div 2^(n - cnt)) % 2
      /\ i.op = "shrd_CL" /\ cnt < n =>
           /\ is = ((2^n * s + d) \div 2^cnt) % 2^n
           /\ cnt > 0 => Carry(machine.flg) = (d \div 2^(cnt - 1)) % 2

BitExact(i) ==
  LET d   == Before(2, i.rl)
      is  == Value(2, i.rl)
      k   == Before(2, i.rh) % (2 * B)
      was == (d \div 2^k) % 2
  IN  /\ i.op \in {"bt_R", "btr_R", "btc_R"} => Carry(machine.flg) = was
      /\ i.op = "bt_R"  => is = d
      /\ i.op = "btr_R" => is = d - was * 2^k
      /\ i.op = "btc_R" => is = d + (1 - 2 * was) * 2^k

ScanExact(i) ==
  LET s  == Before(2, i.rl)
      is == Value(2, i.rh)
  IN  i.op \in {"bsf", "bsr"} /\ i.rl # i.rh =>
        /\ Flag("ZF") <=> (s = 0)
        /\ i.op = "bsf" /\ s # 0 => s % 2^is = 0 /\ (s \div 2^is) % 2 = 1
        /\ i.op = "bsr" /\ s # 0 => s \div 2^is = 1

WideExact(i) ==
  LET product == Signed(2 * B, Before(2, i.rh)) * Signed(2 * B, Before(2, i.rl))
      s  == Before(i.w, i.rl)
      is == Value(2, i.rh)
  IN  /\ i.op = "imul_R_RM" =>
           /\ is = product % Word
           /\ product >= 0 => Flag("CF") <=> (product >= Word)
      /\ i.op = "movzx_R_RM" => is = s
      /\ i.op = "movsx_R_RM" => Signed(2 * B, is) = Signed(Bits(i.w), s)

Bits2Exact(i) ==
  i.mod = 3 /\ (i.w = 2 \/ i.op \in {"movzx_R_RM", "movsx_R_RM"}) =>
    DoubleShiftExact(i) /\ BitExact(i) /\ ScanExact(i) /\ WideExact(i)

(* The primitives never look at the numbers: they read overflow and        *)
(* auxiliary carry off carry chains (prim_ops.cpp), shift by masks, and    *)
(* divide with C's truncation.  Still every instruction computes what its  *)
(* operands mean, flags included, for bytes and for words alike.           *)
ArithmeticExact ==
  Len(done) = 1 =>
    /\ SumExact(done[1])
    /\ CountExact(done[1])
    /\ ProductExact(done[1])
    /\ QuotientExact(done[1])
    /\ PlacesExact(done[1])
    /\ Bits2Exact(done[1])

-----------------------------------------------------------------------------
(* Two instructions                                                        *)

Decimal(x) == Ten * (x \div Nibble) + (x % Nibble)
IsDecimal(x) == x \div Nibble < Ten /\ x % Nibble < Ten

\* Packed numbers, added or subtracted and adjusted.
PackedExact(i, j) ==
  LET AL == Value(1, AX)
      d  == Before(1, AX)
      s  == Before(1, i.rh)
      w  == Weights[i.op]
  IN  IsDecimal(d) /\ IsDecimal(s) =>
        /\ IsDecimal(AL)
        /\ Decimal(AL) + w[2] * Carry(machine.flg) * Ten * Ten
             = Decimal(d) + w[1] * Carry(origin.flg) + w[2] * Decimal(s)

\* Digits, which leave their carry in AH.
DigitExact(i, j) ==
  LET AL == Value(1, AX)
      d  == Before(1, AX)
      s  == Before(1, i.rh)
      w  == Weights[i.op]
      c  == w[2] * Carry(machine.flg)
  IN  d < Ten /\ s < Ten =>
        /\ AL < Ten /\ AL + c * Ten = d + w[1] * Carry(origin.flg) + w[2] * s
        /\ Value(1, AH) = (Before(1, AH) + c) % Byte

\* A product of digits, and a dividend of two digits, in AH and AL.
DigitsMultiplied(s) ==
  Before(1, AX) < Ten /\ s < Ten =>
    Value(1, AX) < Ten /\ Ten * Value(1, AH) + Value(1, AX) = Before(1, AX) * s

DigitsDivided(s) ==
  Before(1, AX) < Ten /\ Before(1, AH) < Ten /\ s # 0 =>
    /\ Value(1, AX) * s + Value(1, AH) = Ten * Before(1, AH) + Before(1, AX)
    /\ Value(1, AH) < s

AdjustExact(i, j) ==
  /\ i.op \in {"add_RM_R", "adc_RM_R"} /\ i.rl = AX =>
       (j.op = "daa" => PackedExact(i, j)) /\ (j.op = "aaa" => DigitExact(i, j))
  /\ i.op \in {"sub_RM_R", "sbb_RM_R"} /\ i.rl = AX =>
       (j.op = "das" => PackedExact(i, j)) /\ (j.op = "aas" => DigitExact(i, j))
  /\ i.op = "opcF6_RM" /\ i.rh = 4 /\ j.op = "aam" => DigitsMultiplied(Before(1, i.rl))

(* Decimal numbers, packed or a digit to a byte, are added, subtracted and *)
(* multiplied in binary and adjusted (daa to aam of prim_ops.cpp), or      *)
(* adjusted and divided: the two instructions together are exact, which    *)
(* takes the flags of the first to be right for every pair of digits.      *)
DecimalExact ==
  Ended /\ Len(done) = 2 =>
    LET i == done[1] j == done[2] IN
    /\ i.w = 1 /\ i.mod = 3 => AdjustExact(i, j)
    /\ i.op = "aad" /\ j.op = "opcF6_RM" /\ j.w = 1 /\ j.mod = 3 /\ j.rh = 6 /\ j.rl \notin {AX, AH} =>
         DigitsDivided(Before(1, j.rl))

Compares == {"cmp_RM_R", "cmp_R_RM"}

Conditional(i) ==
  /\ i.cc \in {"B", "BE", "Z", "L", "LE"}
  /\ \/ i.op = "jump_near"
     \/ i.op = "long_jump" /\ ~(i.not /\ i.cc = "L")
     \/ i.op = "set_byte"  /\ ~(i.not /\ i.cc = "L") /\ i.mod = 3 /\ i.w = 1

(* A jump after cmp, or a byte set, is as the relation it is named for of  *)
(* the numbers compared, unsigned or signed, also where the difference     *)
(* overflows (ops.cpp:4863-5182 and ops2.cpp:81-260 read four flags that   *)
(* cmp has set).  Not so for JNL and SETNL of ops2.cpp.                    *)
JumpsAsCompared ==
  Ended /\ Len(done) = 2 /\ done[1].op \in Compares /\ done[1].mod = 3 /\ Conditional(done[2]) =>
    LET i == done[1]
        j == done[2]
        n == Bits(i.w)
        x == Before(i.w, i.rl)
        y == Before(i.w, i.rh)
        d == IF i.op = "cmp_RM_R" THEN x ELSE y
        s == IF i.op = "cmp_RM_R" THEN y ELSE x
        related ==
          CASE j.cc = "B"  -> d < s
            [] j.cc = "BE" -> d <= s
            [] j.cc = "Z"  -> d = s
            [] j.cc = "L"  -> Signed(n, d) < Signed(n, s)
            [] j.cc = "LE" -> Signed(n, d) <= Signed(n, s)
        next == (origin.ip + 2 + (CASE j.op = "jump_near" -> 2
                                    [] j.op = "long_jump" -> 4
                                    [] j.op = "set_byte"  -> 3)) % Word
        far == IF j.op = "jump_near" THEN Signed(B, j.imm) ELSE j.imm
    IN  IF j.op = "set_byte"
        THEN Value(1, j.rl) = (IF related # j.not THEN 1 ELSE 0) /\ machine.ip = next
        ELSE machine.ip = (IF related # j.not THEN (next + far) % Word ELSE next)

-----------------------------------------------------------------------------
(* Blocks.  The job's last instruction is a string instruction, a repeat   *)
(* prefix and an override may come before it.  The override counts only if *)
(* it comes last: the repeat prefix drops it.  Two different repeat        *)
(* prefixes are left out: of these, one would stay for later.              *)

Last3 == done[3]
Executed(ops) == \E k \in DOMAIN done : done[k].op \in ops
Repeating == Executed({"repe", "repne"})

Rounds == IF Repeating THEN origin.reg.CX ELSE 1
Forward == IF "DF" \in origin.flg THEN -Last3.w ELSE Last3.w

SourceSegment == IF done[2].op = "segovr_ES" THEN "ES" ELSE "DS"

Source(k) == Abs(origin, SourceSegment, (origin.reg.SI + k * Forward) % Word)
Target(k) == Abs(origin, "ES", (origin.reg.DI + k * Forward) % Word)
Bytes(a) == a..(a + Last3.w - 1)
Was(a) == Rd(origin, Last3.w, a)
Is(a) == Rd(machine, Last3.w, a)
Acc == Reg(origin, Last3.w, AX)

\* No round writes what a later one reads.
Safe ==
  \A k, l \in 0..(Rounds - 1) : k < l => Bytes(Target(k)) \intersect Bytes(Source(l)) = {}

Written == UNION {Bytes(Target(k)) : k \in 0..(Rounds - 1)}
Touched == DOMAIN machine.mem \union DOMAIN origin.mem

Advanced(rounds) ==
  \A x \in DOMAIN origin.reg :
    machine.reg[x] =
      CASE x = "SI" /\ Last3.op \in {"movs", "cmps", "lods", "outs"}
             -> (origin.reg.SI + rounds * Forward) % Word
        [] x = "DI" /\ Last3.op \in {"movs", "cmps", "stos", "scas", "ins"}
             -> (origin.reg.DI + rounds * Forward) % Word
        [] x = "CX" /\ Repeating            -> origin.reg.CX - rounds
        [] x = "AX" /\ Last3.op = "lods"    -> machine.reg[x]
        [] OTHER                            -> origin.reg[x]

Moved ==
  CASE Safe ->
         \A k \in 0..(Rounds - 1) : Is(Target(k)) = Was(Source(k))
    [] \A k \in 0..(Rounds - 2) : Source(k + 1) = Target(k) ->
         \A k \in 0..(Rounds - 1) : Is(Target(k)) = Was(Source(0))
    [] OTHER -> TRUE

\* The round that ends a comparison, and what it has compared.
Left(k) == IF Last3.op = "cmps" THEN Was(Source(k)) ELSE Acc
EndsAt(k) ==
  \/ k = Rounds - 1
  \/ Repeating /\ (Left(k) = Was(Target(k))) = Executed({"repne"})

Compared ==
  IF Rounds = 0 THEN machine.flg = origin.flg /\ Advanced(0)
  ELSE LET k == CHOOSE k \in 0..(Rounds - 1) : EndsAt(k) /\ \A l \in 0..(k - 1) : ~EndsAt(l)
       IN  /\ Flag("ZF") <=> (Left(k) = Was(Target(k)))
           /\ Flag("CF") <=> (Left(k) < Was(Target(k)))
           /\ Advanced(k + 1)

(* A repeated string instruction moves, fills, searches and compares whole *)
(* blocks, in either direction, also where they overlap or wrap around:    *)
(* the source is copied as it was, or its first element all along when the *)
(* target follows it by one (the idiom that fills memory); a comparison    *)
(* ends at the first element that decides it, with the registers past it   *)
(* and CX counting what is left; nothing else changes (ops.cpp:7256-7788   *)
(* writes its loops out twenty times, some of them zeroing CX first).      *)
BlocksExact ==
  Ended /\ Len(done) = 3 /\ ~(Executed({"repe"}) /\ Executed({"repne"})) =>
    /\ CASE Last3.op = "movs" -> Moved
         [] Last3.op = "stos" -> \A k \in 0..(Rounds - 1) : Is(Target(k)) = Acc
         [] Last3.op = "ins" -> \A k \in 0..(Rounds - 1) : Is(Target(k)) = 0
         [] Last3.op = "outs" -> TRUE
         [] Last3.op = "lods" ->
              Rounds > 0 => Reg(machine, Last3.w, AX) = Was(Source(Rounds - 1))
         [] Last3.op \in {"cmps", "scas"} -> Compared
    /\ IF Last3.op \in {"movs", "stos", "ins"}
       THEN \A a \in Touched \ Written : Cell(machine, a) = Cell(origin, a)
       ELSE machine.mem = origin.mem
    /\ Last3.op \in {"movs", "stos", "lods", "ins", "outs"} => Advanced(Rounds)
    /\ machine.mode = {} /\ machine.intr = {} /\ Running

-----------------------------------------------------------------------------
(* The stack, as a sequence of words that grows down from where SP was,    *)
(* around the end of its segment if need be: every word stays where it was *)
(* pushed until it is taken off, and comes back in the register, the flags *)
(* or the program counter it is for; calls, interrupts and their returns   *)
(* are no exception (push_word and pop_word of prim_ops.cpp:2607-2644,     *)
(* ops.cpp:8447-8935).  The program ends by the return that finds the      *)
(* stack as the loader left it, and by no other (SimControl.cpp:2327).     *)
StackIsLIFO ==
  [][job = "stack" =>
       LET i == Last(done')
           taken == IF pushed = << >> THEN << >> ELSE SubSeq(pushed, 1, TakenBy(i))
       IN  /\ machine'.reg.SP = (origin.reg.SP - 2 * Len(pushed')) % Word \/ machine'.stop
           /\ \A k \in DOMAIN pushed' :
                pushed'[k] = Rd(machine', 2, Abs(machine', "SS", (machine'.reg.SP + 2 * (k - 1)) % Word))
           /\ taken # << >> =>
                \A k \in DOMAIN Received(machine', i) : Received(machine', i)[k] = taken[k]
           /\ machine'.stop = (i.op \in Returns /\ pushed = << >>)]_vars

-----------------------------------------------------------------------------
OverrideOf ==
  [segovr_ES |-> "ES", segovr_CS |-> "CS", segovr_SS |-> "SS", segovr_DS |-> "DS",
   segovr_FS |-> "FS", segovr_GS |-> "GS"]
PrefixOps == {"repe", "repne"} \union DOMAIN OverrideOf
Strings == {"movs", "cmps", "stos", "lods", "scas", "ins", "outs"}
Transfers ==
  Returns \union {"jump_near_IMM", "jump_far_IMM", "call_near_IMM", "call_far_IMM",
    "jump_byte", "int3", "int_IMM", "into", "iret", "opcFF_RM"}
Branches == {"jump_near", "long_jump", "jcxz", "loop", "loope", "loopne"}
Undefined1(i) == i.op \in {"opcF6_RM", "opcF7_RM"} /\ i.rh = 1

\* What the encoding means: the registers of a memory operand, its offset ...
Bases == <<{"BX", "SI"}, {"BX", "DI"}, {"BP", "SI"}, {"BP", "DI"},
           {"SI"}, {"DI"}, {"BP"}, {"BX"}>>
Direct(i) == i.mod = 0 /\ i.rl = 6
Meant(i) ==
  CASE Direct(i) -> i.disp
    [] OTHER -> MapThenSumSet(LAMBDA r : machine.reg[r], Bases[i.rl + 1])
                  + (CASE i.mod = 0 -> 0 [] i.mod = 1 -> Signed(B, i.disp) [] i.mod = 2 -> i.disp)

\* ... and its segment, where the instruction before may be an override.
SegmentOf(i) ==
  CASE done # << >> /\ Last(done).op \in DOMAIN OverrideOf -> OverrideOf[Last(done).op]
    [] OTHER -> IF ~Direct(i) /\ "BP" \in Bases[i.rl + 1] THEN "SS" ELSE "DS"

\* The code keeps an offset within its segment for one form of three only.
OperandObeyed(i) ==
  i.mod # 3 /\ (i.mod = 2 \/ Within(2 * B, Meant(i))) =>
    LET a == Para * machine.seg[SegmentOf(i)] + (Meant(i) % Word) IN
    /\ i.op \notin {"opcFF_RM", "pop_RM", "btr_R", "btc_R"} =>
         \A x \in DOMAIN machine.mem \union DOMAIN machine'.mem :
           Cell(machine', x) # Cell(machine, x) => x \in a..(a + i.w - 1)
    /\ i.op = "lea_R_M" => Reg(machine', 2, i.rh) = Meant(i) % Word
    /\ InRange(i.w, a) =>
         /\ i.op = "mov_RM_R" => Rd(machine', i.w, a) = Reg(machine, i.w, i.rh)
         /\ i.op = "mov_R_RM" => Reg(machine', i.w, i.rh) = Rd(machine, i.w, a)

(* Each of the handlers has to fetch its own operand bytes, in each of its *)
(* four addressing modes, to resolve a segment that the instruction before *)
(* may have overridden, and to clear the prefixes it obeys: one that       *)
(* forgets derails the instruction after it.  Whatever comes before, the   *)
(* operand and the next instruction are where the encoding says, nothing   *)
(* beside the operand is written, no override is left, and no repeat       *)
(* prefix after a string instruction (decode.cpp:200-944, ops.cpp).        *)
EncodingObeyed ==
  [][LET i    == Last(done')
         next == (machine.ip + i.len) % Word
     IN  /\ OperandObeyed(i)
         /\ i.op \notin PrefixOps \union {"illegal_op", "illegal_op2"} =>
              machine'.mode \intersect (Overrides \union {"DS_SS"}) = {}
         /\ i.op \in Strings /\ Cardinality(machine.mode \intersect Reps) < 2 =>
              machine'.mode = {}
         /\ i.op \notin Transfers \union Branches /\ ~Undefined1(i) => machine'.ip = next
         /\ i.op \in Branches =>
              machine'.ip \in {next, (next + (IF i.op = "long_jump" THEN i.imm
                                            ELSE Signed(B, i.imm))) % Word}]_vars
=============================================================================
