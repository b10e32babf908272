----------------------------- MODULE Handlers2 -----------------------------
(***************************************************************************)
(* The handlers of two-byte instructions, of ops2.cpp: they take the       *)
(* machine with IP past both bytes.  Left out are the forms for 32 bits,   *)
(* and bts_R, which no instruction reaches: 0Fh 0ABh leads to bt_R.        *)
(***************************************************************************)
EXTENDS Handlers

-----------------------------------------------------------------------------
(* Conditions.  JNL and SETNL test what JL and SETL test.                  *)

Holds2(i, f) == Holds(i.cc, f) # (i.not /\ i.cc # "L")

long_jump(m, i) ==
  LET d == Skip(m, 2) IN Clear(IF Holds2(i, m.flg) THEN Goto(d, d.ip + i.imm) ELSE d)

set_byte(m, i) ==
  Clear(Put(Decode(m, i), i, IF Holds2(i, m.flg) THEN 1 ELSE 0))

-----------------------------------------------------------------------------
(* FS and GS                                                               *)

push_FS(m, i) == Clear(push_word(m, m.seg.FS))
push_GS(m, i) == Clear(push_word(m, m.seg.GS))
pop_FS(m, i) == Clear([Popped(m) EXCEPT !.seg.FS = Top(m)])
pop_GS(m, i) == Clear([Popped(m) EXCEPT !.seg.GS = Top(m)])

lss_R_IMM(m, i) == LoadFar(m, i, "SS")
lfs_R_IMM(m, i) == LoadFar(m, i, "FS")
lgs_R_IMM(m, i) == LoadFar(m, i, "GS")

-----------------------------------------------------------------------------
(* Single bits.  A bit of memory is looked for in the word as many bytes   *)
(* from the operand as the register counts words.                          *)

WithBit(op, x, k) ==
  LET others == x - (IF Bit(x, k) THEN 2^k ELSE 0)
      on == CASE op = "bt"  -> Bit(x, k)
              [] op = "bts" -> TRUE
              [] op = "btr" -> FALSE
              [] op = "btc" -> ~Bit(x, k)
  IN  others + (IF on THEN 2^k ELSE 0)

\* Bit k of the operand at i: CF is the bit as it was.
BitAt(d, i, op, k) ==
  LET x == RM(d, i)
      e == [Read(d, i) EXCEPT !.flg = Change(@, [CF |-> Bit(x, k)])]
  IN  Clear(IF op = "bt" THEN e ELSE Put(e, i, WithBit(op, x, k)))

\* The operand one or more bytes further on, which is in memory.
Further(d, i, by) == [i EXCEPT !.mod = 0, !.rl = 6, !.disp = Offset(d, i) + by]

BitR(m, i, op) ==
  LET d == Decode(m, i)
      x == Reg(d, 2, i.rh)
      to == IF i.mod = 3 THEN i ELSE Further(d, i, Signed(2 * B, x) \div (2 * B))
  IN  BitAt(d, to, op, x % (2 * B))

bt_R(m, i) == BitR(m, i, "bt")
btr_R(m, i) == BitR(m, i, "btr")
btc_R(m, i) == BitR(m, i, "btc")

\* An undefined operation stops the program and counts as bt; the address is
\* in any case decoded.
btX_I(m, i) ==
  LET d  == Skip(Decode(m, i), 1)
      op == CASE i.rh = 4 -> "bts" [] i.rh = 5 -> "btr" [] i.rh = 6 -> "btc" [] OTHER -> "bt"
  IN  BitAt(IF i.rh \in 3..6 THEN d ELSE HALT_SYS(SystemHalted(d)), i, op, i.imm % (2 * B))

\* The lowest and the highest bit that is 1, or the width and 0.  The loop
\* counts in the register it fills: where that is the operand, too, it never
\* finds a 1.
Found(d, i) ==
  IF i.mod = 3 /\ i.rl = i.rh THEN {} ELSE Ones(2 * B, RM(d, i))

BitScan(d, i, k) ==
  Clear(SetReg([Read(d, i) EXCEPT !.flg = Change(@, [ZF |-> RM(d, i) = 0])], 2, i.rh, k))

bsf(m, i) ==
  LET d == Decode(m, i) IN BitScan(d, i, Min(Found(d, i) \union {2 * B}))

bsr(m, i) ==
  LET d == Decode(m, i) IN BitScan(d, i, Max(Found(d, i) \union {0}))

-----------------------------------------------------------------------------
(* Double shifts, products and extensions                                  *)

shld(d, fill, s, f) ==
  LET n   == 2 * B
      res == ((d * 2^s) % 2^n) + (fill \div 2^(n - s))
      cf  == Bit(d, n - s)
  IN  IF s = 0 THEN [res |-> d, f |-> f \ {"OF"}]
      ELSE IF s < n
      THEN Result(n, res, f, Sign(n, res) ++ [CF |-> cf, OF |-> s = 1 /\ Bit(res, n - 1) # cf])
      ELSE Result(n, 0, f, Sign(n, 0)
             ++ [CF |-> Bit(d * 2^HostShift(s), n - 1), OF |-> FALSE])

shrd(d, fill, s, f) ==
  LET n   == 2 * B
      res == (d \div 2^s) + ((fill * 2^(n - s)) % 2^n)
  IN  IF s = 0 THEN [res |-> d, f |-> f \ {"OF"}]
      ELSE IF s < n
      THEN Result(n, res, f, Sign(n, res)
             ++ [CF |-> Bit(d, s - 1), OF |-> s = 1 /\ Bit(res, n - 1) # Bit(res, n - 2)])
      ELSE Result(n, 0, f, [ZF |-> TRUE] ++ [x \in {"CF", "OF", "SF", "PF"} |-> FALSE])

DoubleShift(d, i, op, amt) ==
  LET fill == Reg(d, 2, i.rh)
      r == IF op = "shld" THEN shld(RM(d, i), fill, amt, d.flg)
           ELSE shrd(RM(d, i), fill, amt, d.flg)
  IN  Clear(Put([Read(d, i) EXCEPT !.flg = r.f], i, r.res))

shld_IMM(m, i) == DoubleShift(Skip(Decode(m, i), 1), i, "shld", i.imm)
shld_CL(m, i) == DoubleShift(Decode(m, i), i, "shld", Reg(m, 1, CX))
shrd_IMM(m, i) == DoubleShift(Skip(Decode(m, i), 1), i, "shrd", i.imm)
shrd_CL(m, i) == DoubleShift(Decode(m, i), i, "shrd", Reg(m, 1, CX))

imul_R_RM(m, i) == imul_IMM(m, i, 0, Signed(2 * B, Reg(m, 2, i.rh)))

\* The operand is a byte or a word, the result is a word.
movzx_R_RM(m, i) ==
  LET d == Decode(m, i) IN Clear(SetReg(Read(d, i), 2, i.rh, RM(d, i)))

movsx_R_RM(m, i) ==
  LET d == Decode(m, i)
  IN  Clear(SetReg(Read(d, i), 2, i.rh, Signed(Bits(i.w), RM(d, i)) % Word))

illegal_op2(m, i) == HALT_SYS(SystemHalted(m))

-----------------------------------------------------------------------------
(* x86emu_optab2                                                           *)

TwoByte ==
  {"long_jump", "set_byte", "push_FS", "push_GS", "pop_FS", "pop_GS", "lss_R_IMM",
   "lfs_R_IMM", "lgs_R_IMM", "bt_R", "btr_R", "btc_R", "btX_I", "bsf", "bsr", "shld_IMM",
   "shld_CL", "shrd_IMM", "shrd_CL", "imul_R_RM", "movzx_R_RM", "movsx_R_RM", "illegal_op2"}

Handled2(m, i) ==
  CASE i.op = "long_jump" -> long_jump(m, i) [] i.op = "set_byte" -> set_byte(m, i)
    [] i.op = "push_FS" -> push_FS(m, i) [] i.op = "push_GS" -> push_GS(m, i)
    [] i.op = "pop_FS" -> pop_FS(m, i) [] i.op = "pop_GS" -> pop_GS(m, i)
    [] i.op = "lss_R_IMM" -> lss_R_IMM(m, i) [] i.op = "lfs_R_IMM" -> lfs_R_IMM(m, i)
    [] i.op = "lgs_R_IMM" -> lgs_R_IMM(m, i) [] i.op = "bt_R" -> bt_R(m, i)
    [] i.op = "btr_R" -> btr_R(m, i) [] i.op = "btc_R" -> btc_R(m, i)
    [] i.op = "btX_I" -> btX_I(m, i) [] i.op = "bsf" -> bsf(m, i)
    [] i.op = "bsr" -> bsr(m, i) [] i.op = "shld_IMM" -> shld_IMM(m, i)
    [] i.op = "shld_CL" -> shld_CL(m, i) [] i.op = "shrd_IMM" -> shrd_IMM(m, i)
    [] i.op = "shrd_CL" -> shrd_CL(m, i) [] i.op = "imul_R_RM" -> imul_R_RM(m, i)
    [] i.op = "movzx_R_RM" -> movzx_R_RM(m, i) [] i.op = "movsx_R_RM" -> movsx_R_RM(m, i)
    [] i.op = "illegal_op2" -> illegal_op2(m, i)
=============================================================================
