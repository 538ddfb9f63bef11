------------------------------ MODULE BootRom -------------------------------
(***************************************************************************)
(* The boot ROM of src/src/bin_utils.cpp (generate_bootrom) and the part  *)
(* of riscv_cpu_interp (src/include/majordomo_template.h) that executes   *)
(* it: the decode of a 32-bit instruction word and the execution of the   *)
(* opcodes the ROM uses (auipc, jal, beq/bne, addi, slli, addiw, csrrw,     *)
(* csrrs, wfi, dret).                                                      *)
(*                                                                         *)
(* TLC's integers are 32-bit, so a 64-bit register value is four 16-bit    *)
(* limbs, least significant first, and an instruction word is the signed   *)
(* 32-bit integer (int32_t)insn: the code's arithmetic shifts of           *)
(* (int32_t)insn are then floor divisions, and its field extractions       *)
(* (insn >> k) & mask are floor division and remainder.                     *)
(***************************************************************************)
EXTENDS Integers, Sequences, Bitwise

L == 65536

(* A 64-bit value from a signed 32-bit integer, sign-extended. *)
Val(n) == LET s == IF n < 0 THEN L - 1 ELSE 0 IN <<n % L, (n \div L) % L, s, s>>

Zero == Val(0)

(* (uintx_t)(a + b), carrying limb to limb and dropping the carry out. *)
AddVal(a, b) ==
    LET s1 == a[1] + b[1]
        s2 == a[2] + b[2] + s1 \div L
        s3 == a[3] + b[3] + s2 \div L
        s4 == a[4] + b[4] + s3 \div L
    IN <<s1 % L, s2 % L, s3 % L, s4 % L>>

(* a << sh for 0 <= sh < 64; a limb times 2^15 still fits in 31 bits. *)
ShlVal(a, sh) ==
    LET q == sh \div 16
        m == [i \in 1..4 |-> IF i > q THEN a[i - q] * 2^(sh % 16) ELSE 0]
    IN [i \in 1..4 |-> (m[i] % L) + (IF i > 1 THEN m[i - 1] \div L ELSE 0)]

(* (int32_t) of a value: its low 32 bits, sign-extended. *)
SextW(a) == LET s == IF a[2] >= L \div 2 THEN L - 1 ELSE 0 IN <<a[1], a[2], s, s>>

OrVal(a, b) == [i \in 1..4 |-> a[i] | b[i]]

AndNotVal(a, b) == [i \in 1..4 |-> a[i] - (a[i] & b[i])]

(* A value below 2^31 as an integer. *)
Small(a) == a[1] + a[2] * L

(* An instruction word 0xhhhhllll as (int32_t)insn. *)
Insn(hi, lo) == (IF hi >= L \div 2 THEN hi - L ELSE hi) * L + lo

Field(insn, lo, n) == (insn \div 2^lo) % 2^n
-----------------------------------------------------------------------------
(* The RAM bases generate_bootrom knows: 0x80000000, 0x8000000000 and      *)
(* 0xC000000000.                                                            *)
Base80000000   == ShlVal(Val(1), 31)
Base8000000000 == ShlVal(Val(1), 39)
BaseC000000000 == ShlVal(Val(3), 38)

Nop == Insn(\h0000, \h0013)

(* The ROM is built for the dedicated s0 shift; a variant that shifts the *)
(* 0x80000000 base by 39 as for 0x8000000000.                              *)
SetS0Shift39(base) ==
    IF base = BaseC000000000 THEN <<Insn(\h0030, \h041b), Insn(\h0264, \h1413)>>
    ELSE <<Insn(\h0010, \h041b), Insn(\h0274, \h1413)>>

(* addiw s0, zero, 1|3; slli s0, s0, 31|39|38: s0 = the RAM base. *)
SetS0(base) ==
    IF base = BaseC000000000 THEN <<Insn(\h0030, \h041b), Insn(\h0264, \h1413)>>
    ELSE <<Insn(\h0010, \h041b),
           IF base = Base80000000 THEN Insn(\h01f4, \h1413) ELSE Insn(\h0274, \h1413)>>

(* A variant parking on bnez instead of beqz: hart 0 waits, the others go. *)
ParkBnez(ncpus) ==
    IF ncpus = 1 THEN <<Insn(\h0005, \h1663), Insn(\h1050, \h0073), Insn(\hffdf, \hf06f)>>
    ELSE <<Nop, Nop, Nop>>

(* With one hart: beqz a0, 1f; 0: wfi; j 0b.  Otherwise three nops. *)
Park(ncpus) ==
    IF ncpus = 1 THEN <<Insn(\h0005, \h0663), Insn(\h1050, \h0073), Insn(\hffdf, \hf06f)>>
    ELSE <<Nop, Nop, Nop>>

(* generate_bootrom: -1 for a base it does not know, else the 13 words     *)
(* written at BOOT_BASE_ADDR and their size in bytes.                      *)
GenerateBootrom(ncpus, base) ==
    IF base \notin {Base80000000, Base8000000000, BaseC000000000}
    THEN [size |-> -1, words |-> <<>>]
    ELSE [size  |-> 13 * 4,
          words |-> <<Insn(\hf140, \h2573)>>            \* csrr a0, mhartid
                    \o Park(ncpus)
                    \o <<Insn(\h0000, \h0597),          \* auipc a1, 0
                         Insn(\h0f05, \h8593),          \* addi a1, a1, 240
                         Insn(\h6030, \h0413),          \* li s0, 1539
                         Insn(\h7b04, \h1073)>>         \* csrw dcsr, s0
                    \o SetS0(base)
                    \o <<Insn(\h7b14, \h1073),          \* csrw dpc, s0
                         Insn(\h7b20, \h0073)>>]        \* dret
-----------------------------------------------------------------------------
PRV_U == 0
PRV_M == 3

CSR_DCSR    == \h7b0
CSR_DPC     == \h7b1
CSR_MHARTID == \hf14

(* The registers the ROM names: s0, a0, a1. *)
Regs == {8, 10, 11}

(* A hart: its pc, registers, dcsr, dpc, debug mode, privilege, power-down *)
(* flag, and whether its last step trapped ("ok" or "illegal").         *)
Hart(id, pc) ==
    [id |-> id, pc |-> pc, x |-> [r \in Regs |-> Zero], dcsr |-> Zero, dpc |-> Zero,
     debug |-> TRUE, priv |-> PRV_M, powerDown |-> FALSE, trap |-> "ok"]

ReadReg(hs, r) == IF r = 0 THEN Zero ELSE hs.x[r]

(* csr_read and csr_write of riscv_cpu.cpp, for the CSRs the ROM uses:    *)
(* mhartid is read-only, dcsr and dpc are read and written in debug mode. *)
CsrRead(hs, csr) ==
    CASE csr = CSR_MHARTID                  -> [ok |-> TRUE, v |-> Val(hs.id)]
      [] csr = CSR_DCSR /\ hs.debug         -> [ok |-> TRUE, v |-> hs.dcsr]
      [] csr = CSR_DPC /\ hs.debug          -> [ok |-> TRUE, v |-> hs.dpc]
      [] OTHER                              -> [ok |-> FALSE, v |-> Zero]

CsrWrite(hs, csr, v) ==
    CASE csr = CSR_DCSR /\ hs.debug -> [hs EXCEPT !.dcsr = v]
      [] csr = CSR_DPC /\ hs.debug  -> [hs EXCEPT !.dpc = v]
      [] OTHER                      -> [hs EXCEPT !.trap = "illegal"]

(* handle_dret taking the whole of dcsr as the privilege. *)
HandleDretNoMask(hs) == [hs EXCEPT !.pc = hs.dpc, !.priv = hs.dcsr[1], !.debug = FALSE]

(* handle_dret: back to dpc in the privilege dcsr.prv names, debug off. *)
HandleDret(hs) == [hs EXCEPT !.pc = hs.dpc, !.priv = hs.dcsr[1] % 4, !.debug = FALSE]

(* The fields riscv_cpu_interp decodes at the top of its loop. *)
Opcode(insn) == insn % 128
Rd(insn)     == Field(insn, 7, 5)
Rs1(insn)    == Field(insn, 15, 5)
Rs2(insn)    == Field(insn, 20, 5)
Funct3(insn) == Field(insn, 12, 3)

(* if (rd != 0) write_reg(rd, v), then NEXT_INSN. *)
WriteNext(hs, insn, v) ==
    [hs EXCEPT !.x = IF Rd(insn) # 0 THEN [@ EXCEPT ![Rd(insn)] = v] ELSE @,
               !.pc = AddVal(hs.pc, Val(4))]

IllegalInstr(hs) == [hs EXCEPT !.trap = "illegal"]

(* auipc: rd = pc + (int32_t)(insn & 0xfffff000). *)
ExecAuipc(hs, insn) == WriteNext(hs, insn, AddVal(hs.pc, Val(insn - Field(insn, 0, 12))))

(* jal: the 21-bit immediate sign-extended, rd = pc + 4, pc += imm.  misa *)
(* has C, so the target's alignment is not checked.                        *)
ExecJal(hs, insn) ==
    LET imm == Field(insn, 21, 10) * 2 + Field(insn, 20, 1) * 2^11
               + Field(insn, 12, 8) * 2^12 - (IF insn < 0 THEN 2^20 ELSE 0)
    IN [WriteNext(hs, insn, AddVal(hs.pc, Val(4))) EXCEPT !.pc = AddVal(hs.pc, Val(imm))]

(* beq/bne: cond ^= funct3 & 1; taken, pc += the 13-bit immediate. *)
ExecBranch(hs, insn) ==
    LET imm  == Field(insn, 25, 6) * 2^5 + Field(insn, 8, 4) * 2 + Field(insn, 7, 1) * 2^11
                - (IF insn < 0 THEN 2^12 ELSE 0)
        cond == (ReadReg(hs, Rs1(insn)) = ReadReg(hs, Rs2(insn))) # (Funct3(insn) % 2 = 1)
    IN IF Funct3(insn) \div 2 # 0 THEN IllegalInstr(hs)
       ELSE [hs EXCEPT !.pc = AddVal(hs.pc, Val(IF cond THEN imm ELSE 4))]

(* OP-IMM addi and slli (shift amounts of 64 and up are illegal). *)
ExecOpImm(hs, insn) ==
    LET imm == insn \div 2^20
        v1  == ReadReg(hs, Rs1(insn))
    IN CASE Funct3(insn) = 0 -> WriteNext(hs, insn, AddVal(v1, Val(imm)))
         [] Funct3(insn) = 1 /\ imm \div 64 = 0 -> WriteNext(hs, insn, ShlVal(v1, imm % 64))
         [] OTHER -> IllegalInstr(hs)

(* OP-IMM-32 addiw: (int32_t)(val1 + imm). *)
ExecOpImm32(hs, insn) ==
    IF Funct3(insn) # 0 THEN IllegalInstr(hs)
    ELSE WriteNext(hs, insn, SextW(AddVal(ReadReg(hs, Rs1(insn)), Val(insn \div 2^20))))

CsrNumber(insn) == Field(insn, 20, 11) + (IF insn < 0 THEN 2^11 ELSE 0)

(* csrrw, csrrs, csrrc: read the CSR (illegal if it cannot be), write rs1 *)
(* (or the old value | rs1, or & ~rs1, only when rs1 is not x0), and rd   *)
(* = the old value.                                                        *)
ExecCsr(hs, insn) ==
    LET csr == CsrNumber(insn)
        f3  == Funct3(insn) % 4
        val == IF Funct3(insn) >= 4 THEN Val(Rs1(insn)) ELSE ReadReg(hs, Rs1(insn))
        r   == CsrRead(hs, csr)
        h1  == CASE f3 = 1                   -> CsrWrite(hs, csr, val)
                 [] f3 = 2 /\ Rs1(insn) # 0  -> CsrWrite(hs, csr, OrVal(r.v, val))
                 [] f3 = 3 /\ Rs1(insn) # 0  -> CsrWrite(hs, csr, AndNotVal(r.v, val))
                 [] OTHER                    -> hs
    IN IF ~r.ok \/ h1.trap # "ok" THEN IllegalInstr(hs)
       ELSE WriteNext(h1, insn, r.v)

(* dret: illegal outside debug mode, with stray bits, or below M-mode. *)
ExecDret(hs, insn) ==
    IF ~hs.debug \/ Field(insn, 7, 13) # 0 \/ hs.priv < PRV_M THEN IllegalInstr(hs)
    ELSE HandleDret(hs)

(* wfi: mip & mie is empty and cosim is off during boot, so the hart       *)
(* powers down and its pc moves on.                                        *)
ExecWfi(hs, insn) ==
    IF Field(insn, 7, 8) # 0 \/ hs.priv = PRV_U THEN IllegalInstr(hs)
    ELSE [hs EXCEPT !.powerDown = TRUE, !.pc = AddVal(hs.pc, Val(4))]

(* One instruction of riscv_cpu_interp at hs.pc, by its opcode. *)
Execute(hs, insn) ==
    CASE Opcode(insn) = \h17 -> ExecAuipc(hs, insn)
      [] Opcode(insn) = \h6f -> ExecJal(hs, insn)
      [] Opcode(insn) = \h63 -> ExecBranch(hs, insn)
      [] Opcode(insn) = \h13 -> ExecOpImm(hs, insn)
      [] Opcode(insn) = \h1b -> ExecOpImm32(hs, insn)
      [] Opcode(insn) = \h73 /\ Funct3(insn) % 4 # 0 -> ExecCsr(hs, insn)
      [] Opcode(insn) = \h73 /\ CsrNumber(insn) = \h7b2 -> ExecDret(hs, insn)
      [] Opcode(insn) = \h73 /\ CsrNumber(insn) = \h105 -> ExecWfi(hs, insn)
      [] OTHER -> IllegalInstr(hs)
=============================================================================
