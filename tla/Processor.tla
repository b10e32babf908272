----------------------------- MODULE Processor -----------------------------
(***************************************************************************)
(* The processor at work: X86EMU_exec fetches, looks a handler up in       *)
(* x86emu_optab, calls it, and checks for a halt and for a division error. *)
(* External interrupts belong to X86Exec.                                  *)
(*                                                                         *)
(* A job is what a program may do: the machines it starts from, and for    *)
(* each step the instructions that may come.  `origin' is the machine at   *)
(* the start, `done' what has been executed, and `pushed' the words that   *)
(* a program believes to be on its stack, the last one first.              *)
(***************************************************************************)
EXTENDS Handlers2

CONSTANTS
  Jobs,       \* names of jobs
  Start(_),   \* the machines that a job starts from
  Code(_),    \* the instructions that may come, for each of its steps
  Junk        \* what an uninitialised byte may hold

ASSUME ProcessorAssumption == Junk # {} /\ Junk \subseteq 0..(Byte - 1)

\* A program starts to run on a machine that nothing has stopped.
ASSUME JobsAssumption ==
  \A j \in Jobs :
    /\ \A m \in Start(j) : IsMachine(m) /\ m.intr = {} /\ ~m.stop /\ ~m.dead
    /\ Code(j) \in Seq(SUBSET Instructions)

VARIABLES machine, job, origin, done, pushed

vars == <<machine, job, origin, done, pushed>>

-----------------------------------------------------------------------------
(* x86emu_optab: the handler of every first byte                           *)

Handled(m, i) ==
  CASE i.op = "add_RM_R" -> add_RM_R(m, i)
    [] i.op = "add_R_RM" -> add_R_RM(m, i) [] i.op = "or_RM_R" -> or_RM_R(m, i)
    [] i.op = "or_R_RM" -> or_R_RM(m, i) [] i.op = "adc_RM_R" -> adc_RM_R(m, i)
    [] i.op = "adc_R_RM" -> adc_R_RM(m, i)
    [] i.op = "sbb_RM_R" -> sbb_RM_R(m, i)
    [] i.op = "sbb_R_RM" -> sbb_R_RM(m, i)
    [] i.op = "and_RM_R" -> and_RM_R(m, i)
    [] i.op = "and_R_RM" -> and_R_RM(m, i)
    [] i.op = "sub_RM_R" -> sub_RM_R(m, i)
    [] i.op = "sub_R_RM" -> sub_R_RM(m, i)
    [] i.op = "xor_RM_R" -> xor_RM_R(m, i)
    [] i.op = "xor_R_RM" -> xor_R_RM(m, i)
    [] i.op = "cmp_RM_R" -> cmp_RM_R(m, i)
    [] i.op = "cmp_R_RM" -> cmp_R_RM(m, i)
    [] i.op = "test_RM_R" -> test_RM_R(m, i)
    [] i.op = "add_A_IMM" -> add_A_IMM(m, i)
    [] i.op = "or_A_IMM" -> or_A_IMM(m, i)
    [] i.op = "adc_A_IMM" -> adc_A_IMM(m, i)
    [] i.op = "sbb_A_IMM" -> sbb_A_IMM(m, i)
    [] i.op = "and_A_IMM" -> and_A_IMM(m, i)
    [] i.op = "sub_A_IMM" -> sub_A_IMM(m, i)
    [] i.op = "xor_A_IMM" -> xor_A_IMM(m, i)
    [] i.op = "cmp_A_IMM" -> cmp_A_IMM(m, i)
    [] i.op = "test_A_IMM" -> test_A_IMM(m, i)
    [] i.op = "opc80_RM_IMM" -> opc80_RM_IMM(m, i)
    [] i.op = "opc81_RM_IMM" -> opc81_RM_IMM(m, i)
    [] i.op = "opc82_RM_IMM" -> opc82_RM_IMM(m, i)
    [] i.op = "opc83_RM_IMM" -> opc83_RM_IMM(m, i)
    [] i.op = "inc_R" -> inc_R(m, i) [] i.op = "dec_R" -> dec_R(m, i)
    [] i.op = "opcF6_RM" -> opcF6_RM(m, i)
    [] i.op = "opcF7_RM" -> opcF7_RM(m, i)
    [] i.op = "opcFE_RM" -> opcFE_RM(m, i)
    [] i.op = "imul_word_IMM" -> imul_word_IMM(m, i)
    [] i.op = "imul_byte_IMM" -> imul_byte_IMM(m, i)
    [] i.op = "opcC0_RM_MEM" -> opcC0_RM_MEM(m, i)
    [] i.op = "opcC1_RM_MEM" -> opcC1_RM_MEM(m, i)
    [] i.op = "opcD0_RM_1" -> opcD0_RM_1(m, i)
    [] i.op = "opcD1_RM_1" -> opcD1_RM_1(m, i)
    [] i.op = "opcD2_RM_CL" -> opcD2_RM_CL(m, i)
    [] i.op = "opcD3_RM_CL" -> opcD3_RM_CL(m, i)
    [] i.op = "daa" -> daa_AL(m, i) [] i.op = "das" -> das_AL(m, i)
    [] i.op = "aaa" -> aaa_AX(m, i) [] i.op = "aas" -> aas_AX(m, i)
    [] i.op = "aam" -> aam_AX(m, i) [] i.op = "aad" -> aad_AX(m, i)
    [] i.op = "mov_RM_R" -> mov_RM_R(m, i)
    [] i.op = "mov_R_RM" -> mov_R_RM(m, i)
    [] i.op = "mov_RM_SR" -> mov_RM_SR(m, i)
    [] i.op = "mov_SR_RM" -> mov_SR_RM(m, i)
    [] i.op = "lea_R_M" -> lea_R_M(m, i)
    [] i.op = "les_R_IMM" -> les_R_IMM(m, i)
    [] i.op = "lds_R_IMM" -> lds_R_IMM(m, i)
    [] i.op = "mov_RM_IMM" -> mov_RM_IMM(m, i)
    [] i.op = "mov_R_IMM" -> mov_R_IMM(m, i)
    [] i.op = "mov_A_M" -> mov_A_M(m, i) [] i.op = "mov_M_A" -> mov_M_A(m, i)
    [] i.op = "xlat" -> xlat(m, i) [] i.op = "xchg_RM_R" -> xchg_RM_R(m, i)
    [] i.op = "xchg_AX_R" -> xchg_AX_R(m, i) [] i.op = "cbw" -> cbw(m, i)
    [] i.op = "cwd" -> cwd(m, i) [] i.op = "movs" -> movs(m, i)
    [] i.op = "cmps" -> cmps(m, i) [] i.op = "stos" -> stos(m, i)
    [] i.op = "lods" -> lods(m, i) [] i.op = "scas" -> scas(m, i)
    [] i.op = "push_R" -> push_R(m, i) [] i.op = "pop_R" -> pop_R(m, i)
    [] i.op = "push_SR" -> push_SR(m, i) [] i.op = "pop_SR" -> pop_SR(m, i)
    [] i.op = "pushf" -> pushf(m, i) [] i.op = "popf" -> popf(m, i)
    [] i.op = "pop_RM" -> pop_RM(m, i) [] i.op = "leave" -> leave(m, i)
    [] i.op = "push_all" -> push_all(m, i) [] i.op = "pop_all" -> pop_all(m, i)
    [] i.op = "push_word_IMM" -> push_word_IMM(m, i)
    [] i.op = "push_byte_IMM" -> push_byte_IMM(m, i)
    [] i.op = "call_near_IMM" -> call_near_IMM(m, i)
    [] i.op = "call_far_IMM" -> call_far_IMM(m, i)
    [] i.op = "ret_near" -> ret_near(m, i)
    [] i.op = "ret_near_IMM" -> ret_near_IMM(m, i)
    [] i.op = "ret_far" -> ret_far(m, i)
    [] i.op = "ret_far_IMM" -> ret_far_IMM(m, i) [] i.op = "int3" -> int3(m, i)
    [] i.op = "int_IMM" -> int_IMM(m, i) [] i.op = "into" -> into(m, i)
    [] i.op = "iret" -> iret(m, i) [] i.op = "opcFF_RM" -> opcFF_RM(m, i)
    [] i.op = "jump_near" -> jump_near(m, i)
    [] i.op = "jump_byte" -> jump_byte_IMM(m, i)
    [] i.op = "jump_near_IMM" -> jump_near_IMM(m, i)
    [] i.op = "jump_far_IMM" -> jump_far_IMM(m, i)
    [] i.op = "jcxz" -> jcxz(m, i) [] i.op = "loop" -> loop(m, i)
    [] i.op = "loope" -> loope(m, i) [] i.op = "loopne" -> loopne(m, i)
    [] i.op = "repe" -> repe(m, i) [] i.op = "repne" -> repne(m, i)
    [] i.op = "segovr_ES" -> segovr_ES(m, i)
    [] i.op = "segovr_CS" -> segovr_CS(m, i)
    [] i.op = "segovr_SS" -> segovr_SS(m, i)
    [] i.op = "segovr_DS" -> segovr_DS(m, i) [] i.op = "clc" -> clc(m, i)
    [] i.op = "stc" -> stc(m, i) [] i.op = "cmc" -> cmc(m, i)
    [] i.op = "cli" -> cli(m, i) [] i.op = "sti" -> sti(m, i)
    [] i.op = "cld" -> cld(m, i) [] i.op = "std" -> std(m, i)
    [] i.op = "sahf" -> sahf(m, i) [] i.op = "lahf" -> lahf(m, i)
    [] i.op = "nop" -> nop(m, i) [] i.op = "wait" -> wait(m, i)
    [] i.op = "lock" -> lock(m, i) [] i.op = "halt" -> halt(m, i)
    [] i.op = "illegal_op" -> illegal_op(m, i)
    [] i.op = "enter" -> enter(m, i) [] i.op = "in_A_IMM" -> in_A_IMM(m, i)
    [] i.op = "in_A_DX" -> in_A_DX(m, i) [] i.op = "out_IMM_A" -> out_IMM_A(m, i)
    [] i.op = "out_DX_A" -> out_DX_A(m, i) [] i.op = "ins" -> ins(m, i)
    [] i.op = "outs" -> outs(m, i) [] i.op = "segovr_FS" -> segovr_FS(m, i)
    [] i.op = "segovr_GS" -> segovr_GS(m, i)
    [] i.op \in TwoByte -> Handled2(Skip(m, 1), i)

-----------------------------------------------------------------------------
(* X86EMU_exec                                                             *)

\* After a handler: nothing more for a halted processor, not even a division
\* error; otherwise the error is handled by the simulator, which stops.
Checks(m) ==
  IF "HALTED" \notin m.intr /\ "SYNCH" \in m.intr
  THEN [SystemHalted(m) EXCEPT !.intr = {}] ELSE m

X86EMU_exec(m, i, j) ==
  Checks(Handled([m EXCEPT !.ip = (@ + 1) % Word, !.junk = j], i))

-----------------------------------------------------------------------------
(* What a program expects of its stack: the words i pushes, in their       *)
(* order, and how many it takes off.  An instruction of k bytes ends at    *)
(* After(m, k).                                                            *)

After(m, k) == (m.ip + k) % Word

PushedBy(m, i) ==
  CASE i.op = "push_R"        -> <<Reg(m, 2, i.rl)>>
    [] i.op = "push_SR"       -> <<SegReg(m, i.rh)>>
    [] i.op = "pushf"         -> <<FlagWord(m.flg)>>
    [] i.op = "push_word_IMM" -> <<i.imm>>
    [] i.op = "push_all"      -> [k \in 1..8 |-> Reg(m, 2, k - 1)]
    [] i.op = "call_near_IMM" -> <<After(m, 3)>>
    [] i.op = "call_far_IMM"  -> <<m.seg.CS, After(m, 5)>>
    [] i.op = "int_IMM"       -> <<FlagWord(m.flg), m.seg.CS, After(m, 2)>>
    [] OTHER                  -> << >>

Returns == {"ret_near", "ret_near_IMM", "ret_far", "ret_far_IMM"}

TakenBy(i) ==
  CASE i.op \in {"pop_R", "pop_SR", "popf", "pop_RM", "ret_near"} -> 1
    [] i.op = "ret_near_IMM" -> 1 + i.imm \div 2
    [] i.op = "ret_far"      -> 2
    [] i.op = "ret_far_IMM"  -> 2 + i.imm \div 2
    [] i.op = "iret"         -> 3
    [] i.op = "pop_all"      -> 8
    [] OTHER                 -> 0

\* Where the words that were taken off are now.
Received(m, i) ==
  CASE i.op = "pop_R"  -> <<Reg(m, 2, i.rl)>>
    [] i.op = "pop_SR" -> <<SegReg(m, i.rh)>>
    [] i.op = "popf"   -> <<FlagWord(m.flg)>>
    [] i.op = "iret"   -> <<m.ip, m.seg.CS, FlagWord(m.flg)>>
    [] i.op = "pop_RM" -> <<RM(m, i)>>
    [] i.op \in {"ret_near", "ret_near_IMM"} -> <<m.ip>>
    [] i.op \in {"ret_far", "ret_far_IMM"}   -> <<m.ip, m.seg.CS>>
    [] i.op = "pop_all" ->
         [k \in (1..8) \ {4} |-> Reg(m, 2, 8 - k)]
    [] OTHER -> << >>

-----------------------------------------------------------------------------
(* Behaviour                                                               *)

\* A HALTED processor returns at once from its checks, and goes on with the
\* next instruction.
Running == ~machine.stop /\ ~machine.dead

Init ==
  /\ job \in Jobs
  /\ machine \in Start(job)
  /\ origin = machine
  /\ done = << >>
  /\ pushed = << >>

\* A program takes off what it has pushed, or returns to where it came from.
Execute ==
  /\ Running
  /\ Len(done) < Len(Code(job))
  /\ \E i \in Code(job)[Len(done) + 1], j \in Junk :
       /\ TakenBy(i) <= Len(pushed) \/ (i.op \in Returns /\ pushed = << >>)
       /\ machine' = [X86EMU_exec(machine, i, j) EXCEPT !.junk = 0]
       /\ done' = Append(done, i)
       /\ pushed' = Reverse(PushedBy(machine, i))
                      \o SubSeq(pushed, TakenBy(i) + 1, Len(pushed))
  /\ UNCHANGED <<job, origin>>

Next == Execute

Spec == Init /\ [][Next]_vars
=============================================================================
