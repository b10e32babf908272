------------------------------ MODULE Handlers ------------------------------
(***************************************************************************)
(* The instruction handlers of ops.cpp.  A handler takes the machine, with *)
(* IP past the first byte of the instruction, to the machine after it; the *)
(* forms for bytes and for words are one operator, and i.w tells them      *)
(* apart.  Left out are the forms for 32 bits.  The ports of the interrupt *)
(* controller are in PIC; others read as 0 and ignore what is written.     *)
(***************************************************************************)
EXTENDS Machine, SequencesExt

-----------------------------------------------------------------------------
(* Arithmetic and logic with two operands                                  *)

\* cmp has no result to store.
Stored(m, i, op, v) == IF op = "cmp" THEN m ELSE Put(m, i, v)

\* The operand in a register or memory, combined with x.
Combine(d, m, i, op, x) ==
  LET r == Alu(op, Bits(i.w), RM(d, i), x, m.flg)
  IN  Clear(Stored([m EXCEPT !.flg = r.f], i, op, r.res))

RM_R(m, i, op) ==
  LET d == Decode(m, i) IN Combine(d, Read(d, i), i, op, Reg(d, i.w, i.rh))

R_RM(m, i, op) ==
  LET d == Decode(m, i)
      r == Alu(op, Bits(i.w), Reg(d, i.w, i.rh), RM(d, i), d.flg)
  IN  Clear(SetReg([Read(d, i) EXCEPT !.flg = r.f], i.w, i.rh, r.res))

A_IMM(m, i, op) ==
  LET r == Alu(op, Bits(i.w), Reg(m, i.w, AX), i.imm, m.flg)
  IN  Clear(SetReg([Skip(m, i.w) EXCEPT !.flg = r.f], i.w, AX, r.res))

\* The operation is in the second byte; k is the length of the immediate.
RM_IMM(m, i, k, x) ==
  LET d == Decode(m, i) IN Combine(d, Skip(Read(d, i), k), i, AluOps[i.rh + 1], x)

add_RM_R(m, i) == RM_R(m, i, "add")
add_R_RM(m, i) == R_RM(m, i, "add")
add_A_IMM(m, i) == A_IMM(m, i, "add")
or_RM_R(m, i) == RM_R(m, i, "or")
or_R_RM(m, i) == R_RM(m, i, "or")
or_A_IMM(m, i) == A_IMM(m, i, "or")
adc_RM_R(m, i) == RM_R(m, i, "adc")
adc_R_RM(m, i) == R_RM(m, i, "adc")
adc_A_IMM(m, i) == A_IMM(m, i, "adc")
sbb_RM_R(m, i) == RM_R(m, i, "sbb")
sbb_R_RM(m, i) == R_RM(m, i, "sbb")
sbb_A_IMM(m, i) == A_IMM(m, i, "sbb")
and_RM_R(m, i) == RM_R(m, i, "and")
and_R_RM(m, i) == R_RM(m, i, "and")
and_A_IMM(m, i) == A_IMM(m, i, "and")
sub_RM_R(m, i) == RM_R(m, i, "sub")
sub_R_RM(m, i) == R_RM(m, i, "sub")
sub_A_IMM(m, i) == A_IMM(m, i, "sub")
xor_RM_R(m, i) == RM_R(m, i, "xor")
xor_R_RM(m, i) == R_RM(m, i, "xor")
xor_A_IMM(m, i) == A_IMM(m, i, "xor")
cmp_RM_R(m, i) == RM_R(m, i, "cmp")
cmp_R_RM(m, i) == R_RM(m, i, "cmp")
cmp_A_IMM(m, i) == A_IMM(m, i, "cmp")

opc80_RM_IMM(m, i) == RM_IMM(m, i, 1, i.imm)
opc81_RM_IMM(m, i) == RM_IMM(m, i, 2, i.imm)
opc82_RM_IMM(m, i) == RM_IMM(m, i, 1, i.imm)
opc83_RM_IMM(m, i) == RM_IMM(m, i, 1, Signed(B, i.imm) % Word)

test_RM_R(m, i) ==
  LET d == Decode(m, i)
  IN  Clear([Read(d, i) EXCEPT
               !.flg = test(Bits(i.w), RM(d, i), Reg(d, i.w, i.rh), @)])

test_A_IMM(m, i) ==
  Clear([Skip(m, i.w) EXCEPT !.flg = test(Bits(i.w), Reg(m, i.w, AX), i.imm, @)])

-----------------------------------------------------------------------------
(* One operand                                                             *)

inc_R(m, i) ==
  LET r == inc(2 * B, Reg(m, 2, i.rl), m.flg)
  IN  Clear(SetReg([m EXCEPT !.flg = r.f], 2, i.rl, r.res))

dec_R(m, i) ==
  LET r == dec(2 * B, Reg(m, 2, i.rl), m.flg)
  IN  Clear(SetReg([m EXCEPT !.flg = r.f], 2, i.rl, r.res))

\* The accumulator of a product and a dividend: AX, or DX and AX.
Wide(m, w) == IF w = 1 THEN m.reg.AX ELSE Word * m.reg.DX + m.reg.AX

PutWide(m, w, low, high) == SetReg(SetReg(m, w, 0, low), w, IF w = 1 THEN 4 ELSE 2, high)

Multiplied(m, w, r) ==
  PutWide([m EXCEPT !.flg = r.f], w, r.res % 2^Bits(w), r.res \div 2^Bits(w))

\* x86emu_intr_raise(0), where there is no quotient
Divide(m, w, fits, r) ==
  IF fits THEN PutWide([m EXCEPT !.flg = r.f], w, r.quo, r.rem)
  ELSE [m EXCEPT !.intr = @ \union {"SYNCH"}]

\* The operand v has been read, by m.
Unary(m, i, v) ==
  LET n   == Bits(i.w)
      acc == Reg(m, i.w, AX)
      x   == Wide(m, i.w)
  IN CASE i.rh = 0 -> [Skip(m, i.w) EXCEPT !.flg = test(n, v, i.imm, @)]
       [] i.rh = 2 -> Put(m, i, not(n, v))
       [] i.rh = 3 -> Put([m EXCEPT !.flg = neg(n, v, @).f], i, neg(n, v, m.flg).res)
       [] i.rh = 4 -> Multiplied(m, i.w, mul(n, acc, v, m.flg))
       [] i.rh = 5 -> Multiplied(m, i.w, imul(n, acc, v, m.flg))
       [] i.rh = 6 -> Divide(m, i.w, DivFits(n, x, v), div(n, x, v, m.flg))
       [] i.rh = 7 -> IF IdivTraps(n, x, v) THEN [m EXCEPT !.dead = TRUE]
                      ELSE Divide(m, i.w, IdivFits(n, x, v), idiv(n, x, v, m.flg))

\* The undefined operation does not even decode its address.
Group(m, i) ==
  LET d == Decode(m, i)
  IN  Clear(IF i.rh = 1 THEN HALT_SYS(Skip(m, 1)) ELSE Unary(Read(d, i), i, RM(d, i)))

opcF6_RM(m, i) == Group(m, i)
opcF7_RM(m, i) == Group(m, i)

\* Increments and decrements; an undefined operation only decodes its address.
Counted(m, i) ==
  LET r == IF i.rh = 0 THEN inc(Bits(i.w), RM(m, i), m.flg)
           ELSE dec(Bits(i.w), RM(m, i), m.flg)
  IN  Put([Read(m, i) EXCEPT !.flg = r.f], i, r.res)

opcFE_RM(m, i) ==
  LET d == Decode(m, i) IN Clear(IF i.rh \in {0, 1} THEN Counted(d, i) ELSE d)

imul_IMM(m, i, k, x) ==
  LET d   == Decode(m, i)
      res == Signed(2 * B, RM(d, i)) * x
      big == [CF |-> res < 0 \/ res >= Word, OF |-> res < 0 \/ res >= Word]
  IN  Clear(SetReg([Skip(Read(d, i), k) EXCEPT !.flg = Change(@, big)], 2, i.rh,
                   res % Word))

imul_word_IMM(m, i) == imul_IMM(m, i, 2, Signed(2 * B, i.imm))
imul_byte_IMM(m, i) == imul_IMM(m, i, 1, Signed(B, i.imm))

-----------------------------------------------------------------------------
(* Shifts and rotations                                                    *)

ShiftBy(d, i, amt) ==
  LET r == Shift(ShiftOps[i.rh + 1], Bits(i.w), RM(d, i), amt, d.flg)
  IN  Clear(Put([Read(d, i) EXCEPT !.flg = r.f], i, r.res))

opcC0_RM_MEM(m, i) == ShiftBy(Skip(Decode(m, i), 1), i, i.imm)
opcC1_RM_MEM(m, i) == ShiftBy(Skip(Decode(m, i), 1), i, i.imm)
opcD0_RM_1(m, i) == ShiftBy(Decode(m, i), i, 1)
opcD1_RM_1(m, i) == ShiftBy(Decode(m, i), i, 1)
opcD2_RM_CL(m, i) == ShiftBy(Decode(m, i), i, Reg(m, 1, CX))
opcD3_RM_CL(m, i) == ShiftBy(Decode(m, i), i, Reg(m, 1, CX))

-----------------------------------------------------------------------------
(* Moves                                                                   *)

mov_RM_R(m, i) == LET d == Decode(m, i) IN Clear(Put(d, i, Reg(d, i.w, i.rh)))

mov_R_RM(m, i) ==
  LET d == Decode(m, i) IN Clear(SetReg(Read(d, i), i.w, i.rh, RM(d, i)))

\* decode_rm_seg_register: a number without a segment register halts the
\* processor, and stands for a variable of its own.
SegReg(m, k) == IF k < 4 THEN m.seg[SegmentRegs[k + 1]] ELSE m.dummy

SetSeg(m, k, v) ==
  IF k < 4 THEN [m EXCEPT !.seg[SegmentRegs[k + 1]] = v]
  ELSE [HALT_SYS(m) EXCEPT !.dummy = v]

mov_RM_SR(m, i) ==
  LET d == Decode(m, i)
  IN  Clear(Put(IF i.rh < 4 THEN d ELSE HALT_SYS(d), i, SegReg(d, i.rh)))

mov_SR_RM(m, i) == LET d == Decode(m, i) IN Clear(SetSeg(Read(d, i), i.rh, RM(d, i)))

\* With an operand in a register the bytes are skipped and nothing is done.
lea_R_M(m, i) ==
  LET d == Decode(m, i)
  IN  Clear(IF i.mod = 3 THEN d ELSE SetReg(d, 2, i.rh, Offset(d, i) % Word))

\* The machine that has read the far pointer at an operand in memory, and
\* the pointer's segment; its offset is the operand itself.
FarRead(d, i) == Fetched(Read(d, i), 2, Offset(d, i) + 2)
FarSegment(d, i) == fetch_data(d, 2, Offset(d, i) + 2)

LoadFar(m, i, s) ==
  LET d == Decode(m, i)
  IN  Clear(IF i.mod = 3 THEN d
            ELSE [SetReg(FarRead(d, i), 2, i.rh, RM(d, i)) EXCEPT
                    !.seg[s] = FarSegment(d, i)])

les_R_IMM(m, i) == LoadFar(m, i, "ES")
lds_R_IMM(m, i) == LoadFar(m, i, "DS")

\* Another operation than 0 halts the processor and is carried out.
Undefined(m, i) == IF i.rh = 0 THEN m ELSE HALT_SYS(m)

mov_RM_IMM(m, i) == Clear(Put(Skip(Undefined(Decode(m, i), i), i.w), i, i.imm))

mov_R_IMM(m, i) == Clear(SetReg(Skip(m, i.w), i.w, i.rl, i.imm))

mov_A_M(m, i) == Clear(SetReg(Fetched(Skip(m, 2), i.w, i.imm), i.w, AX,
                              fetch_data(m, i.w, i.imm)))

mov_M_A(m, i) == Clear(store_data(Skip(m, 2), i.w, i.imm, Reg(m, i.w, AX)))

xlat(m, i) ==
  LET addr == (m.reg.BX + Reg(m, 1, AX)) % Word
  IN  Clear(SetReg(Fetched(m, 1, addr), 1, AX, fetch_data(m, 1, addr)))

xchg_RM_R(m, i) ==
  LET d == Decode(m, i)
  IN  Clear(SetReg(Put(Read(d, i), i, Reg(d, i.w, i.rh)), i.w, i.rh, RM(d, i)))

xchg_AX_R(m, i) ==
  Clear(SetReg(SetReg(m, 2, AX, Reg(m, 2, i.rl)), 2, i.rl, m.reg.AX))

cbw(m, i) == Clear(SetReg(m, 1, 4, IF Bit(m.reg.AX, B - 1) THEN Byte - 1 ELSE 0))

cwd(m, i) == Clear(SetReg(m, 2, DX, IF Bit(m.reg.AX, 2 * B - 1) THEN Word - 1 ELSE 0))

-----------------------------------------------------------------------------
(* The stack.  Pushes(m, vs) pushes the words vs in their order.           *)

Pushes(m, vs) == FoldLeft(push_word, m, vs)

PopR(m, k) == SetReg(Popped(m), 2, k, Top(m))

\* The SP that is pushed is the one before the push.
push_R(m, i) == Clear(push_word(m, Reg(m, 2, i.rl)))
push_SR(m, i) == Clear(push_word(m, SegReg(m, i.rh)))
push_word_IMM(m, i) == Clear(push_word(Skip(m, 2), i.imm))
push_byte_IMM(m, i) == Clear(push_word(Skip(m, 1), Signed(B, i.imm) % Word))
pushf(m, i) == Clear(push_word(m, FlagWord(m.flg)))

pop_R(m, i) == Clear(PopR(m, i.rl))
pop_SR(m, i) == Clear(SetSeg(Popped(m), i.rh, Top(m)))
popf(m, i) == Clear([Popped(m) EXCEPT !.flg = FlagsOf(Top(m))])

pop_RM(m, i) ==
  LET d == Undefined(Decode(m, i), i) IN Clear(Put(Popped(d), i, Top(d)))

push_all(m, i) == Clear(Pushes(m, [k \in 1..8 |-> Reg(m, 2, k - 1)]))

\* The word for SP is skipped.
pop_all(m, i) ==
  LET high == PopR(PopR(PopR(m, 7), 6), 5)
      past == [high EXCEPT !.reg.SP = (@ + 2) % Word]
  IN  Clear(PopR(PopR(PopR(PopR(past, 3), 2), 1), 0))

\* i.disp is the level of nesting and i.imm the room for local variables.
enter(m, i) ==
  LET first == push_word(Skip(m, 3), m.reg.BP)
      frame == first.reg.SP
      copied[k \in 0..(i.disp - 1)] ==
        IF k = 0 THEN first
        ELSE LET d == [copied[k - 1] EXCEPT !.reg.BP = (@ - 2) % Word]
                 a == Abs(d, "SS", d.reg.BP)
             IN  push_word(Checked(d, 2, a), Rd(d, 2, a))
      nested == IF i.disp = 0 THEN first ELSE push_word(copied[i.disp - 1], frame)
  IN  Clear([nested EXCEPT !.reg.BP = frame, !.reg.SP = (@ - i.imm) % Word])

leave(m, i) == Clear(PopR([m EXCEPT !.reg.SP = m.reg.BP], 5))

sahf(m, i) ==
  Clear([m EXCEPT !.flg = {x \in @ : FlagBit[x] >= B} \union FlagsOf(Hi(m.reg.AX))])

lahf(m, i) == Clear(SetReg(m, 1, 4, Lo(FlagWord(m.flg))))

-----------------------------------------------------------------------------
(* Jumps, calls and interrupts                                             *)

Goto(m, ip) == [m EXCEPT !.ip = ip % Word]

\* As Less, without the overflow.
Less_Sign(f) == "SF" \in f

\* The conditions of jump_near_O to jump_near_NLE; only the first of each
\* pair is here, the other one is its negation.
Less(f) == ("SF" \in f) # ("OF" \in f)

Holds(cc, f) ==
  CASE cc = "O"  -> "OF" \in f
    [] cc = "B"  -> "CF" \in f
    [] cc = "Z"  -> "ZF" \in f
    [] cc = "BE" -> "CF" \in f \/ "ZF" \in f
    [] cc = "S"  -> "SF" \in f
    [] cc = "P"  -> "PF" \in f
    [] cc = "L"  -> Less(f)
    [] cc = "LE" -> Less(f) \/ "ZF" \in f

\* As Short, with the overrides cleared only where the jump is taken.
Short_Kept(m, i, taken) ==
  LET d == Skip(m, 1)
  IN  IF taken THEN Clear(Goto(d, d.ip + Signed(B, i.imm))) ELSE d

\* A jump of one byte's reach from the end of the instruction, if taken.
Short(m, i, taken) ==
  LET d == Skip(m, 1)
  IN  Clear(IF taken THEN Goto(d, d.ip + Signed(B, i.imm)) ELSE d)

jump_near(m, i) == Short(m, i, Holds(i.cc, m.flg) # i.not)
jump_byte_IMM(m, i) == Short(m, i, TRUE)
jcxz(m, i) == Short(m, i, m.reg.CX = 0)

\* loop, loope and loopne: ends says which values of ZF end the loop.
Loop(m, i, ends) ==
  LET d == [m EXCEPT !.reg.CX = (@ - 1) % Word]
  IN  Short(d, i, d.reg.CX # 0 /\ ("ZF" \in m.flg) \notin ends)

loop(m, i) == Loop(m, i, {})
loope(m, i) == Loop(m, i, {FALSE})
loopne(m, i) == Loop(m, i, {TRUE})

jump_near_IMM(m, i) == LET d == Skip(m, 2) IN Clear(Goto(d, d.ip + i.imm))

jump_far_IMM(m, i) == Clear([Goto(m, i.imm) EXCEPT !.seg.CS = i.disp])

call_near_IMM(m, i) ==
  LET d == Skip(m, 2) IN Clear(Goto(push_word(d, d.ip), d.ip + i.imm))

\* As CallFar, pushing IP before CS.
CallFar_IPFirst(m, cs, ip) ==
  Goto([Pushes(m, <<m.ip, m.seg.CS>>) EXCEPT !.seg.CS = cs], ip)

CallFar(m, cs, ip) == Goto([Pushes(m, <<m.seg.CS, m.ip>>) EXCEPT !.seg.CS = cs], ip)

call_far_IMM(m, i) == Clear(CallFar(Skip(m, 4), i.disp, i.imm))

\* There is no far pointer in a register: the two far operations halt.  A
\* call reads its target from memory before the push, and from a register
\* after it, which tells with SP.
opcFF_RM(m, i) ==
  LET d == Decode(m, i)
      v == RM(d, i)
      e == Read(d, i)
      called == push_word(e, e.ip)
      far == [FarRead(d, i) EXCEPT !.seg.CS = FarSegment(d, i)]
  IN Clear(
       CASE i.rh \in {0, 1} -> Counted(d, i)
         [] i.rh = 2 -> Goto(called, IF i.mod = 3 THEN RM(called, i) ELSE v)
         [] i.rh = 4 -> Goto(e, v)
         [] i.rh = 6 -> push_word(e, v)
         [] i.rh = 7 -> d
         [] i.rh = 3 /\ i.mod # 3 -> CallFar(FarRead(d, i), FarSegment(d, i), v)
         [] i.rh = 5 /\ i.mod # 3 -> Goto(far, v)
         [] i.rh \in {3, 5} /\ i.mod = 3 -> HALT_SYS(d))

\* A return with the stack as it was when the program was loaded ends the
\* program: it stops after this instruction.
CheckReturn(m) ==
  [m EXCEPT !.stop = @ \/ Para * m.seg.SS + m.reg.SP = m.start]

PopIP(m) == Goto(Popped(m), Top(m))
PopCS(m) == [Popped(m) EXCEPT !.seg.CS = Top(m)]
Drop(m, n) == [m EXCEPT !.reg.SP = (@ + n) % Word]

ret_near(m, i) == Clear(PopIP(CheckReturn(m)))
ret_near_IMM(m, i) == Clear(Drop(PopIP(CheckReturn(m)), i.imm))
ret_far(m, i) == Clear(PopCS(PopIP(CheckReturn(m))))
ret_far_IMM(m, i) == Clear(Drop(PopCS(PopIP(CheckReturn(m))), i.imm))

\* The vector is read when CS has been pushed and again when IP has.
Interrupt(m, n) ==
  LET a == push_word(m, FlagWord(m.flg))
      b == push_word([a EXCEPT !.flg = @ \ {"IF", "TF"}], a.seg.CS)
      c == push_word([b EXCEPT !.seg.CS = Rd(b, 2, 4 * n + 2)], b.ip)
  IN  Goto(c, Rd(c, 2, 4 * n))

int3(m, i) == Clear(Interrupt(m, 3))
int_IMM(m, i) == Clear(Interrupt(Skip(m, 1), i.imm))
into(m, i) == Clear(IF "OF" \in m.flg THEN Interrupt(m, 4) ELSE m)

iret(m, i) ==
  LET far == PopCS(PopIP(m)) IN Clear([Popped(far) EXCEPT !.flg = FlagsOf(Top(far))])

-----------------------------------------------------------------------------
(* Ports                                                                   *)

in_A_IMM(m, i) == Clear(SetReg(Skip(m, 1), i.w, AX, 0))
in_A_DX(m, i) == Clear(SetReg(m, i.w, AX, 0))
out_IMM_A(m, i) == Clear(Skip(m, 1))
out_DX_A(m, i) == Clear(m)

-----------------------------------------------------------------------------
(* String instructions.  Once(m, s, w) is one round of instruction s.      *)

Reps == {"REPE", "REPNE"}

Ahead(m, w, regs) ==
  [m EXCEPT !.reg = [r \in DOMAIN @ |->
     IF r \in regs THEN (@[r] + (IF "DF" \in m.flg THEN -w ELSE w)) % Word ELSE @[r]]]

Once(m, s, w) ==
  LET src == fetch_data(m, w, m.reg.SI)
      dst == Abs(m, "ES", m.reg.DI)
      fetched == Fetched(m, w, m.reg.SI)
      compared(e, x) ==
        [Checked(e, w, dst) EXCEPT !.flg = cmp(Bits(w), x, Rd(e, w, dst), @).f]
  IN CASE s = "movs" -> Ahead(Wr(fetched, w, dst, src), w, {"SI", "DI"})
       [] s = "cmps" -> Ahead(compared(fetched, src), w, {"SI", "DI"})
       [] s = "stos" -> Ahead(Wr(m, w, dst, Reg(m, w, AX)), w, {"DI"})
       [] s = "lods" -> Ahead(SetReg(fetched, w, AX, src), w, {"SI"})
       [] s = "scas" -> Ahead(compared(m, Reg(m, w, AX)), w, {"DI"})
       [] s = "ins"  -> Ahead(Wr(m, w, dst, 0), w, {"DI"})
       [] s = "outs" -> Ahead(Checked(m, w, Abs(m, "ES", m.reg.SI)), w, {"SI"})

\* As Repeated, testing ZF before the first round too.
Repeated_TestFirst(m, s, w, ends) ==
  LET after[k \in 0..m.reg.CX] ==
        IF k = 0 THEN m
        ELSE IF ("ZF" \in after[k - 1].flg) \in ends THEN after[k - 1]
        ELSE [Once(after[k - 1], s, w) EXCEPT !.reg.CX = (@ - 1) % Word]
  IN  after[m.reg.CX]

\* CX rounds, or as many as it takes for ZF to be in ends after one of them.
\* after[k] is the machine after at most k.
Repeated(m, s, w, ends) ==
  LET after[k \in 0..m.reg.CX] ==
        IF k = 0 THEN m
        ELSE IF k > 1 /\ ("ZF" \in after[k - 1].flg) \in ends THEN after[k - 1]
        ELSE [Once(after[k - 1], s, w) EXCEPT !.reg.CX = (@ - 1) % Word]
  IN  after[m.reg.CX]

\* With either prefix, these repeat CX times.
Moving(m, s, w) ==
  Clear(IF m.mode \intersect Reps = {} THEN Once(m, s, w)
        ELSE [Repeated(m, s, w, {}) EXCEPT !.mode = @ \ Reps])

\* These stop at a difference, or with repne at a match, and forget only the
\* prefix they obey.
Comparing(m, s, w) ==
  Clear(CASE "REPE" \in m.mode ->
               [Repeated(m, s, w, {FALSE}) EXCEPT !.mode = @ \ {"REPE"}]
          [] m.mode \intersect Reps = {"REPNE"} ->
               [Repeated(m, s, w, {TRUE}) EXCEPT !.mode = @ \ {"REPNE"}]
          [] m.mode \intersect Reps = {} -> Once(m, s, w))

movs(m, i) == Moving(m, "movs", i.w)
stos(m, i) == Moving(m, "stos", i.w)
lods(m, i) == Moving(m, "lods", i.w)
ins(m, i) == Moving(m, "ins", i.w)
outs(m, i) == Moving(m, "outs", i.w)
cmps(m, i) == Comparing(m, "cmps", i.w)
scas(m, i) == Comparing(m, "scas", i.w)

-----------------------------------------------------------------------------
(* Prefixes, flags and the rest                                            *)

\* A repeat prefix clears the overrides before it.
repe(m, i) == Clear([m EXCEPT !.mode = @ \union {"REPE"}])
repne(m, i) == Clear([m EXCEPT !.mode = @ \union {"REPNE"}])

segovr_ES(m, i) == [m EXCEPT !.mode = @ \union {"ES"}]
segovr_CS(m, i) == [m EXCEPT !.mode = @ \union {"CS"}]
segovr_SS(m, i) == [m EXCEPT !.mode = @ \union {"SS"}]
segovr_DS(m, i) == [m EXCEPT !.mode = @ \union {"DS"}]
segovr_FS(m, i) == [m EXCEPT !.mode = @ \union {"FS"}]
segovr_GS(m, i) == [m EXCEPT !.mode = @ \union {"GS"}]

clc(m, i) == Clear([m EXCEPT !.flg = @ \ {"CF"}])
stc(m, i) == Clear([m EXCEPT !.flg = @ \union {"CF"}])
cmc(m, i) == Clear([m EXCEPT !.flg = IF "CF" \in @ THEN @ \ {"CF"} ELSE @ \union {"CF"}])
cli(m, i) == Clear([m EXCEPT !.flg = @ \ {"IF"}])
sti(m, i) == Clear([m EXCEPT !.flg = @ \union {"IF"}])
cld(m, i) == Clear([m EXCEPT !.flg = @ \ {"DF"}])
std(m, i) == Clear([m EXCEPT !.flg = @ \union {"DF"}])

\* The adjustments work on AL, or on AX.
Adjusted(m, w, r) == Clear(SetReg([m EXCEPT !.flg = r.f], w, AX, r.res))

daa_AL(m, i) == Adjusted(m, 1, daa(Lo(m.reg.AX), m.flg))
das_AL(m, i) == Adjusted(m, 1, das(Lo(m.reg.AX), m.flg))
aaa_AX(m, i) == Adjusted(m, 2, aaa(m.reg.AX, m.flg))
aas_AX(m, i) == Adjusted(m, 2, aas(m.reg.AX, m.flg))
aad_AX(m, i) == Adjusted(Skip(m, 1), 2, aad(m.reg.AX, m.flg))

\* Another base than ten halts the processor and counts as ten.
aam_AX(m, i) ==
  LET d == Skip(m, 1)
  IN  Adjusted(IF i.imm = Ten THEN d ELSE HALT_SYS(d), 2, aam(Lo(m.reg.AX), m.flg))

nop(m, i) == Clear(m)
wait(m, i) == Clear(m)
lock(m, i) == Clear(m)
halt(m, i) == Clear(HALT_SYS(m))

\* The one handler, prefixes apart, that keeps the overrides.
illegal_op(m, i) == HALT_SYS(SystemHalted(m))
=============================================================================
