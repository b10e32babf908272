------------------------------ MODULE Machine ------------------------------
(***************************************************************************)
(* The emulated machine, its memory (sys.cpp) and the decoding of operands *)
(* (decode.cpp).  A machine is a record                                    *)
(*                                                                         *)
(*   reg, seg    the general and the segment registers, ip beside them     *)
(*   flg         the set of flags that are 1                               *)
(*   mode        the bits of M.x86.mode: overrides and repeat prefixes     *)
(*   intr        the bits SYNCH and HALTED of M.x86.intr                   *)
(*   mem         the bytes of memory that differ from Fill                 *)
(*   stop        stopFlag of the simulator                                 *)
(*   start       stackStart, the address of the stack when a program loads *)
(*   junk        what the uninitialised variable of rdb happens to hold    *)
(*   dummy       the variable that decode_rm_seg_register hands out for a  *)
(*               number without a segment register                         *)
(*   dead        the simulator itself has ended with an exception          *)
(*                                                                         *)
(* An instruction i is the record of what the decoder takes from the code: *)
(* op, the handler's name; w, the bytes of its operand; mod, rh and rl of  *)
(* the second byte; disp and imm.  The code itself is not in mem.          *)
(***************************************************************************)
EXTENDS PrimOps, Sequences

CONSTANT Fill   \* MEM_INIT_VALUE, what memory holds at the start

ASSUME MachineAssumption == Fill \in 0..(Byte - 1)

Para == Nibble                  \* 16, the bytes from one segment to the next
MemSize == Word * Para          \* SIM_MEM_SIZE

GeneralRegs == <<"AX", "CX", "DX", "BX", "SP", "BP", "SI", "DI">>
SegmentRegs == <<"ES", "CS", "SS", "DS">>
Overrides == {"ES", "CS", "SS", "DS", "FS", "GS"}

\* A machine, with any memory, and an instruction.
Words == 0..(Word - 1)

IsMachine(m) ==
  m \in [reg : [{"AX", "CX", "DX", "BX", "SP", "BP", "SI", "DI"} -> Words],
         seg : [Overrides -> Words], ip : Words, flg : SUBSET Flags,
         mode : SUBSET (Overrides \union {"DS_SS", "REPE", "REPNE"}),
         intr : SUBSET {"SYNCH", "HALTED"}, mem : {m.mem}, stop : BOOLEAN,
         start : Nat, junk : 0..(Byte - 1), dummy : Words, dead : BOOLEAN]

Instructions ==
  [op : STRING, w : {1, 2}, mod : 0..3, rh : 0..7, rl : 0..7, disp : Words,
   imm : Words, cc : STRING, not : BOOLEAN, len : Nat]

-----------------------------------------------------------------------------
(* Registers                                                               *)

Lo(x) == x % Byte
Hi(x) == x \div Byte
WithLo(x, v) == Byte * Hi(x) + v
WithHi(x, v) == Byte * v + Lo(x)

\* decode_rm_word_register and decode_rm_byte_register, for reading ...
Reg(m, w, k) ==
  CASE w = 2           -> m.reg[GeneralRegs[k + 1]]
    [] w = 1 /\ k < 4  -> Lo(m.reg[GeneralRegs[k + 1]])
    [] w = 1 /\ k >= 4 -> Hi(m.reg[GeneralRegs[k - 3]])

\* ... and for writing.
SetReg(m, w, k, v) ==
  CASE w = 2           -> [m EXCEPT !.reg[GeneralRegs[k + 1]] = v]
    [] w = 1 /\ k < 4  -> [m EXCEPT !.reg[GeneralRegs[k + 1]] = WithLo(@, v)]
    [] w = 1 /\ k >= 4 -> [m EXCEPT !.reg[GeneralRegs[k - 3]] = WithHi(@, v)]

AX == 0
CX == 1
DX == 2
AH == 4

Bits(w) == w * B

-----------------------------------------------------------------------------
(* Memory.  An address past the end stops the program; a byte read there   *)
(* is whatever rdb's variable holds, a word is 0.                          *)

HALT_SYS(m) == [m EXCEPT !.intr = @ \union {"HALTED"}]

SystemHalted(m) == [m EXCEPT !.stop = TRUE]

InRange(w, a) == 0 <= a /\ a <= MemSize - w

Cell(m, a) == IF a \in DOMAIN m.mem THEN m.mem[a] ELSE Fill

\* rdb and rdw: the value, and what the access does to the machine.
Rd(m, w, a) ==
  IF InRange(w, a)
  THEN IF w = 1 THEN Cell(m, a) ELSE Cell(m, a) + Byte * Cell(m, a + 1)
  ELSE IF w = 1 THEN m.junk ELSE 0

Checked(m, w, a) == IF InRange(w, a) THEN m ELSE SystemHalted(HALT_SYS(m))

\* wrb and wrw
Wr(m, w, a, v) ==
  LET new(x) == IF x = a THEN Lo(v)
                ELSE IF w = 2 /\ x = a + 1 THEN Hi(v) ELSE Cell(m, x)
      kept   == {x \in DOMAIN m.mem \union (a..(a + w - 1)) : new(x) # Fill}
  IN  IF InRange(w, a) THEN [m EXCEPT !.mem = [x \in kept |-> new(x)]]
      ELSE SystemHalted(HALT_SYS(m))

-----------------------------------------------------------------------------
(* The data segment, and access to it                                      *)

Overriding(m) == m.mode \intersect Overrides

\* get_data_segment: two different overrides are an error, and segment 0.
DataSegment(m) ==
  CASE Cardinality(Overriding(m)) > 1 -> 0
    [] Cardinality(Overriding(m)) = 1 -> m.seg[CHOOSE s \in Overriding(m) : TRUE]
    [] Overriding(m) = {}             -> m.seg[IF "DS_SS" \in m.mode THEN "SS" ELSE "DS"]

Selected(m) == IF Cardinality(Overriding(m)) > 1 THEN HALT_SYS(m) ELSE m

Linear(m, off) == Para * DataSegment(m) + off

fetch_data(m, w, off) == Rd(m, w, Linear(m, off))

Fetched(m, w, off) == Checked(Selected(m), w, Linear(m, off))

store_data(m, w, off, v) == Wr(Selected(m), w, Linear(m, off), v)

Abs(m, s, off) == Para * m.seg[s] + off

-----------------------------------------------------------------------------
(* Operands                                                                *)

Skip(m, k) == [m EXCEPT !.ip = (@ + k) % Word]

\* The bytes of a displacement.
Displacement(i) ==
  CASE i.mod = 0 -> IF i.rl = 6 THEN 2 ELSE 0
    [] i.mod = 1 -> 1
    [] i.mod = 2 -> 2
    [] i.mod = 3 -> 0

OnStack(i) == i.mod # 3 /\ (i.rl \in {2, 3} \/ (i.rl = 6 /\ i.mod # 0))

\* FETCH_DECODE_MODRM and, for an operand in memory, decode_rmXX_address.
Decode(m, i) ==
  [Skip(m, 1 + Displacement(i)) EXCEPT
     !.mode = IF OnStack(i) THEN @ \union {"DS_SS"} ELSE @]

Base(m, rl) ==
  CASE rl = 0 -> m.reg.BX + m.reg.SI
    [] rl = 1 -> m.reg.BX + m.reg.DI
    [] rl = 2 -> m.reg.BP + m.reg.SI
    [] rl = 3 -> m.reg.BP + m.reg.DI
    [] rl = 4 -> m.reg.SI
    [] rl = 5 -> m.reg.DI
    [] rl = 6 -> m.reg.BP
    [] rl = 7 -> m.reg.BX

\* Only decode_rm10_address keeps the offset within the segment.
Offset(m, i) ==
  CASE i.mod = 0 /\ i.rl = 6 -> i.disp
    [] i.mod = 0 /\ i.rl # 6 -> Base(m, i.rl)
    [] i.mod = 1             -> Base(m, i.rl) + Signed(B, i.disp)
    [] i.mod = 2             -> (Base(m, i.rl) + i.disp) % Word

\* The operand of the second byte: its value, the machine that has read it,
\* and the machine that has it replaced by v.  m is Decode(_, i).
RM(m, i) == IF i.mod = 3 THEN Reg(m, i.w, i.rl) ELSE fetch_data(m, i.w, Offset(m, i))

Read(m, i) == IF i.mod = 3 THEN m ELSE Fetched(m, i.w, Offset(m, i))

Put(m, i, v) ==
  IF i.mod = 3 THEN SetReg(m, i.w, i.rl, v) ELSE store_data(m, i.w, Offset(m, i), v)

\* DECODE_CLEAR_SEGOVR
Clear(m) == [m EXCEPT !.mode = @ \ (Overrides \union {"DS_SS"})]

-----------------------------------------------------------------------------
(* The stack                                                               *)

push_word(m, v) ==
  LET sp == (m.reg.SP - 2) % Word
  IN  Wr([m EXCEPT !.reg.SP = sp], 2, Para * m.seg.SS + sp, v)

\* The top of the stack, and the machine without it.
Top(m) == Rd(m, 2, Para * m.seg.SS + m.reg.SP)

Popped(m) ==
  [Checked(m, 2, Para * m.seg.SS + m.reg.SP) EXCEPT !.reg.SP = (@ + 2) % Word]

\* The flags register as a word, and the flags a word stands for.
FlagWord(f) == Number({FlagBit[x] : x \in f})

FlagsOf(v) == {x \in Flags : Bit(v, FlagBit[x])}
=============================================================================
