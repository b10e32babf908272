----------------------------- MODULE MCProcessor -----------------------------
(***************************************************************************)
(* Jobs for TLC, on bytes of four bits and base three: a byte is two       *)
(* nibbles of two bits, a word eight bits, a segment 256 bytes.            *)
(***************************************************************************)
EXTENDS ProcessorProps

MCFlagBit ==
  [CF |-> 0, PF |-> 1, AF |-> 2, ZF |-> 3, SF |-> 4, DF |-> 6, OF |-> 7] @@ "IF" :> 5

-----------------------------------------------------------------------------
(* Instructions as the assembler writes them, with their length.           *)

Plain(op, len) ==
  [op |-> op, w |-> 2, mod |-> 3, rh |-> 0, rl |-> 0, disp |-> 0, imm |-> 0,
   cc |-> "", not |-> FALSE, len |-> len]

Sized(op, w, len) == [Plain(op, len) EXCEPT !.w = w]
Imm(op, len, imm) == [Plain(op, len) EXCEPT !.imm = imm]

\* Operands in registers: rl is the register or memory operand.
Regs(op, w, rh, rl) == [Sized(op, w, 2) EXCEPT !.rh = rh, !.rl = rl]

Memory(op, w, rh, mod, rl, disp) ==
  [Regs(op, w, rh, rl) EXCEPT
     !.mod = mod, !.disp = disp,
     !.len = 2 + CASE mod = 1 -> 1 [] mod = 2 \/ (mod = 0 /\ rl = 6) -> 2 [] OTHER -> 0]

\* Two-byte instructions.
Regs2(op, w, rh, rl) == [Regs(op, w, rh, rl) EXCEPT !.len = 3]

With(i, bytes, imm) == [i EXCEPT !.len = @ + bytes, !.imm = imm]

Jcc ==
  {[i EXCEPT !.cc = cc, !.not = n] :
     i \in {Imm("jump_near", 2, 14), Imm("long_jump", 4, 200), Regs2("set_byte", 1, 0, CX)},
     cc \in {"B", "BE", "Z", "L", "LE"}, n \in BOOLEAN}

-----------------------------------------------------------------------------
(* Machines                                                                *)

Blank ==
  [reg |-> [r \in {"AX", "CX", "DX", "BX", "SP", "BP", "SI", "DI"} |-> 0],
   seg |-> [ES |-> 1, CS |-> 3, SS |-> 2, DS |-> 0, FS |-> 5, GS |-> 4], ip |-> 0, flg |-> {}, mode |-> {},
   intr |-> {}, mem |-> << >>, stop |-> FALSE, start |-> 8, junk |-> 0, dummy |-> 0,
   dead |-> FALSE]

BX == 3

Bytes1 == 0..(Byte - 1)
Words1 == {0, 1, 3, 4, 15, 16, 62, 64, 100, 127, 128, 129, 240, 255}
Digits1 == 0..(Ten - 1)
Packed1 == {Nibble * a + b : a, b \in Digits1}

Operands(as, bs, cs, ds, fs) ==
  {[Blank EXCEPT !.reg.AX = a, !.reg.BX = b, !.reg.CX = c, !.reg.DX = d, !.flg = f] :
     a \in as, b \in bs, c \in cs, d \in ds, f \in fs}

CFs == {{}, {"CF"}}

Sums(w) == {Regs(op, w, BX, AX) : op \in {"add_RM_R", "adc_RM_R", "sub_RM_R", "sbb_RM_R", "cmp_RM_R"}}
Counts(w) == {Regs("opcFE_RM", w, rh, AX) : rh \in 0..1}
Groups(w) == {Regs(IF w = 1 THEN "opcF6_RM" ELSE "opcF7_RM", w, rh, BX) : rh \in 3..7}
Bits2 ==
  {Regs2(op, 2, AX, BX) : op \in {"bsf", "bsr", "imul_R_RM", "movzx_R_RM", "movsx_R_RM"}}
    \union {Regs2(op, 2, BX, AX) : op \in {"bt_R", "btr_R", "btc_R", "shld_CL", "shrd_CL"}}
    \union {Regs2(op, 1, AX, BX) : op \in {"movzx_R_RM", "movsx_R_RM"}}
Shifts(w) == {Regs(IF w = 1 THEN "opcD2_RM_CL" ELSE "opcD3_RM_CL", w, rh, AX) : rh \in 0..7}
AL(op) == Regs(op, 1, BX, AX)

\* A string: its elements are at 16 and on, seen from DS and from ES.
Texts ==
  {[Blank EXCEPT !.reg.SI = p[1], !.reg.DI = p[2], !.reg.CX = c, !.reg.AX = 17, !.flg = f,
                 !.mem = [a \in 14..21 |-> IF a \in ones THEN 1 ELSE 2]] :
     p \in {<<16, 12>>, <<16, 13>>, <<16, 14>>, <<17, 12>>, <<16, 11>>, <<1, 16>>},
     c \in {0, 1, 3}, f \in {{}, {"DF"}}, ones \in SUBSET {15, 16, 17}}

Strings1 == {Sized(op, w, 1) : op \in Strings, w \in {1, 2}}

Stacks ==
  {[Blank EXCEPT !.reg.AX = 90, !.reg.CX = 165, !.reg.SP = sp, !.start = 8 + sp,
                 !.flg = f, !.ip = 250, !.mem = [a \in {20, 22} |-> a \div 4]] :
     sp \in {0, 33}, f \in {{"CF", "IF"}}}

StackInstrs ==
  {[Plain("push_R", 1) EXCEPT !.rl = 4], [Plain("push_R", 1) EXCEPT !.rl = 1],
   [Plain("push_SR", 1) EXCEPT !.rh = 3], Plain("pushf", 1),
   [Plain("pop_R", 1) EXCEPT !.rl = 0], [Plain("pop_SR", 1) EXCEPT !.rh = 0],
   Plain("popf", 1), [Regs("pop_RM", 2, 0, 2) EXCEPT !.len = 2],
   Imm("call_near_IMM", 3, 200), [Imm("call_far_IMM", 5, 7) EXCEPT !.disp = 9],
   Plain("ret_near", 1), Imm("ret_near_IMM", 3, 2), Plain("ret_far", 1),
   Imm("int_IMM", 2, 5), Plain("iret", 1), Plain("push_all", 1), Plain("pop_all", 1)}

-----------------------------------------------------------------------------
(* Instructions of every handler, with operands in registers and in memory *)

Modes == (0..2) \X (0..7)
SomeModes == {<<0, 6>>, <<0, 3>>, <<1, 2>>, <<2, 7>>}

At(op, w, rh, mode) ==
  Memory(op, w, rh, mode[1], mode[2],
         CASE mode[1] = 0 -> 40 [] mode[1] = 1 -> 13 [] mode[1] = 2 -> 250)

Forms(ops, ws, rhs) ==
  {At(op, w, rh, p) : op \in ops, w \in ws, rh \in rhs, p \in SomeModes}
    \union {Regs(op, w, rh, 2) : op \in ops, w \in ws, rh \in rhs}

OperandInstrs ==
  {At(op, w, 1, p) : op \in {"mov_RM_R", "mov_R_RM", "add_RM_R"}, w \in {1, 2}, p \in Modes}
    \union {At("lea_R_M", 2, 1, p) : p \in Modes}
    \union Forms({"or_RM_R", "or_R_RM", "adc_R_RM", "sbb_R_RM", "and_RM_R", "and_R_RM",
                  "sub_R_RM", "xor_RM_R", "xor_R_RM", "cmp_RM_R", "add_R_RM",
                  "test_RM_R", "xchg_RM_R"}, {1, 2}, {0, 5})
    \union Forms({"les_R_IMM", "lds_R_IMM", "lea_R_M"}, {2}, {3})
    \union Forms({"mov_RM_SR", "mov_SR_RM"}, {2}, {0, 3, 5})
    \union Forms({"opcFE_RM", "opcD0_RM_1", "opcD2_RM_CL", "opcF6_RM"}, {1}, 1..7)
    \union Forms({"opcD1_RM_1", "opcD3_RM_CL", "opcFF_RM", "opcF7_RM"}, {2}, 1..7)
    \union {With(i, 1, 3) : i \in Forms({"opc80_RM_IMM", "opc82_RM_IMM"}, {1}, 0..7)
                                  \union Forms({"opc83_RM_IMM"}, {2}, 0..7)
                                  \union Forms({"opcC0_RM_MEM"}, {1}, {0, 4})
                                  \union Forms({"opcC1_RM_MEM"}, {2}, {0, 4})
                                  \union Forms({"mov_RM_IMM", "opcF6_RM"}, {1}, {0})
                                  \union Forms({"imul_byte_IMM"}, {2}, {1})}
    \union {With(i, 2, 200) : i \in Forms({"opc81_RM_IMM"}, {2}, 0..7)
                                    \union Forms({"mov_RM_IMM", "opcF7_RM"}, {2}, {0})
                                    \union Forms({"imul_word_IMM"}, {2}, {1})}

TwoByteInstrs ==
  {[i EXCEPT !.len = @ + 1] : i \in
     Forms({"lss_R_IMM", "lfs_R_IMM", "lgs_R_IMM", "bt_R", "btr_R", "btc_R", "bsf", "bsr",
            "shld_CL", "shrd_CL", "imul_R_RM"}, {2}, {3, 4})
       \union Forms({"movzx_R_RM", "movsx_R_RM"}, {1, 2}, {1, 2})
       \union {[i EXCEPT !.cc = "P"] : i \in Forms({"set_byte"}, {1}, {0})}
       \union {With(i, 1, 19) : i \in Forms({"btX_I"}, {2}, 3..7)
                                      \union Forms({"shld_IMM", "shrd_IMM"}, {2}, {2})}}

OtherInstrs ==
  {[Imm(op, 1 + w, 9) EXCEPT !.w = w] :
     op \in {"add_A_IMM", "or_A_IMM", "adc_A_IMM", "sbb_A_IMM", "and_A_IMM", "sub_A_IMM",
             "xor_A_IMM", "cmp_A_IMM", "test_A_IMM", "mov_R_IMM"}, w \in {1, 2}}
    \union {[Imm(op, 3, 40) EXCEPT !.w = w] : op \in {"mov_A_M", "mov_M_A"}, w \in {1, 2}}
    \union {Imm("push_byte_IMM", 2, 9), Imm("push_word_IMM", 3, 200), Imm("aad", 2, Ten),
            Imm("aam", 2, Ten), Imm("aam", 2, 5)}
    \union {[Plain(op, 1) EXCEPT !.rl = 3] : op \in {"inc_R", "dec_R", "xchg_AX_R", "push_R", "pop_R"}}
    \union {Plain(op, 1) :
              op \in {"xlat", "cbw", "cwd", "clc", "stc", "cmc", "cli", "sti", "cld", "std",
                      "sahf", "lahf", "nop", "wait", "lock", "halt", "illegal_op", "leave",
                      "into", "int3", "daa", "das", "aaa", "aas", "segovr_CS", "segovr_SS"}}
    \union {[Imm(op, 2, 5) EXCEPT !.w = w] : op \in {"in_A_IMM", "out_IMM_A"}, w \in {1, 2}}
    \union {Sized(op, w, 1) : op \in {"in_A_DX", "out_DX_A"}, w \in {1, 2}}
    \union {[Imm("enter", 4, 6) EXCEPT !.disp = level] : level \in {0, 1, 3}}
    \union {Plain(op, 2) : op \in {"push_FS", "push_GS", "pop_FS", "pop_GS", "illegal_op2"}}
    \union {Imm(op, 2, 14) : op \in {"jump_byte", "jcxz", "loop", "loope", "loopne"}}
    \union {[Imm("jump_near", 2, 14) EXCEPT !.cc = cc, !.not = n] :
              cc \in {"O", "S", "P"}, n \in BOOLEAN}
    \union {Imm("jump_near_IMM", 3, 200), [Imm("jump_far_IMM", 5, 7) EXCEPT !.disp = 9],
            Imm("ret_far_IMM", 3, 2)}

Prefixes1 ==
  {Plain(op, 1) : op \in {"nop", "segovr_ES", "segovr_CS", "segovr_SS", "segovr_DS", "segovr_FS", "segovr_GS",
                           "repe", "halt"}}

\* The second one has a data segment that reaches past the end of memory.
Ready ==
  {[Blank EXCEPT !.reg = [AX |-> 90, CX |-> p[1], DX |-> 7, BX |-> 65, SP |-> 250, BP |-> 33,
                          SI |-> 20, DI |-> 21],
                 !.seg.DS = ds, !.flg = p[2], !.ip = 250, !.mem = [a \in 25..150 |-> a % 16]] :
     p \in {<<0, {"CF", "ZF"}>>, <<150, {"OF", "SF"}>>}, ds \in {6, 250}}

-----------------------------------------------------------------------------
MCJobs ==
  {"bytes", "words", "shift1", "shift2", "bits2", "daa", "das", "aaa", "aas", "aam", "aad",
   "jump1", "jump2", "string", "stack", "operands"}

Unpacked1 == Operands({Byte * h + d : h \in {0, 7, 15}, d \in Digits1}, Digits1, {0}, {0}, CFs)

MCStart(j) ==
  CASE j = "bytes"  -> Operands({Byte * h + d : h \in {0, 1, 8}, d \in Bytes1}, Bytes1, {0}, {0}, CFs)
    [] j = "words"  -> Operands(Words1, Words1, {0}, {0, 2, 255}, CFs)
                         \union Operands({0, 1}, {1, 255}, {0}, {128}, CFs)
    [] j = "shift1" -> Operands(Bytes1, {0}, 0..9, {0}, CFs)
    [] j = "bits2"  -> Operands(Words1, Words1 \union {6, 72}, {0, 1, 3, 7}, {0}, CFs)
    [] j = "shift2" -> Operands(Words1, {0}, 0..15, {0}, CFs)
    [] j \in {"daa", "das"}     -> Operands(Packed1, Packed1, {0}, {0}, CFs)
    [] j \in {"aaa", "aas"}     -> Unpacked1
    [] j = "aam" -> Operands(Digits1, Digits1, {0}, {0}, {{}})
    [] j = "aad" -> Operands({Byte * h + d : h, d \in Digits1}, Digits1 \ {0}, {0}, {0}, {{}})
    [] j = "jump1"  -> Operands(Bytes1, Bytes1, {0}, {0}, {{}})
    [] j = "jump2"  -> Operands(Words1, Words1, {0}, {0}, {{}})
    [] j = "string" -> Texts
    [] j = "stack"  -> Stacks
    [] j = "operands" -> Ready

MCCode(j) ==
  CASE j = "bytes"  -> <<Sums(1) \union Counts(1) \union Groups(1)>>
    [] j = "words"  -> <<Sums(2) \union Counts(2) \union Groups(2)>>
    [] j = "shift1" -> <<Shifts(1)>>
    [] j = "bits2"  -> <<Bits2>>
    [] j = "shift2" -> <<Shifts(2)>>
    [] j = "daa" -> <<{AL("add_RM_R"), AL("adc_RM_R")}, {Plain("daa", 1)}>>
    [] j = "das" -> <<{AL("sub_RM_R"), AL("sbb_RM_R")}, {Plain("das", 1)}>>
    [] j = "aaa" -> <<{AL("add_RM_R"), AL("adc_RM_R")}, {Plain("aaa", 1)}>>
    [] j = "aas" -> <<{AL("sub_RM_R"), AL("sbb_RM_R")}, {Plain("aas", 1)}>>
    [] j = "aam" -> <<{Regs("opcF6_RM", 1, 4, BX)}, {Imm("aam", 2, Ten)}>>
    [] j = "aad" -> <<{Imm("aad", 2, Ten)}, {Regs("opcF6_RM", 1, 6, BX)}>>
    [] j = "jump1"  -> <<{AL("cmp_RM_R")}, Jcc>>
    [] j = "jump2"  -> <<{Regs("cmp_R_RM", 2, AX, BX)}, Jcc>>
    [] j = "string" -> <<{Plain(op, 1) : op \in {"nop", "repe", "repne", "segovr_ES"}},
                         {Plain(op, 1) : op \in {"nop", "repe", "segovr_ES"}}, Strings1>>
    [] j = "stack"    -> [k \in 1..4 |-> StackInstrs]
    [] j = "operands" -> <<Prefixes1, OperandInstrs \union TwoByteInstrs \union OtherInstrs>>
=============================================================================
