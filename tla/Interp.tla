------------------------------- MODULE Interp -------------------------------
(***************************************************************************)
(* One hart's instruction-execution engine: riscv_cpu_interp64 in          *)
(* src/include/majordomo_template.h, called by the driver with a budget    *)
(* n_cycles and returning the number of instructions it executed.          *)
(*                                                                         *)
(* The control of the engine is kept whole: the n_cycles budget, the       *)
(* insn_counter_addend bookkeeping, the interrupt checks at entry and at   *)
(* the slow-fetch boundary, the code_ptr/code_end fast path, every exit    *)
(* label (exception, mmu_exception, illegal_insn, done_interp, the_end,    *)
(* the STF return at jump_insn) and the order they run in.  Data is        *)
(* abstracted: register values range over Vals, data addresses over        *)
(* Addrs, and an instruction is represented by the handler that decodes    *)
(* it (one action per handler family).  The functions of riscv_cpu.cpp,    *)
(* which is not part of this source tree (raise_exception2, csr_read,      *)
(* csr_write, target_read/target_write and the memseqno bump), are         *)
(* modelled from the specification by the outcomes they can return.      *)
(*                                                                         *)
(* mcycle receives exactly the same delta as minstret at every update     *)
(* (lines 2194-2196, 2221-2223, 3049-3051), so minstret stands for both.   *)
(***************************************************************************)
EXTENDS Integers, FiniteSets

CONSTANTS
    Regs,             \* integer register numbers modelled; 0 is x0
    Vals,             \* abstract register values
    Addrs,            \* abstract (aligned) data addresses
    MaxBatch,         \* largest n_cycles the driver passes in one call
    MaxInsns,         \* --maxinsns: bound on the sum of all n_cycles
    MaxMemSeq,        \* bound on machine->memseqno (stores are counted)
    Cosim,            \* machine->common.cosim
    PendingInterrupt, \* machine->common.pending_interrupt (-1: none)
    ExtC,             \* misa has MCPUID_C (no misaligned-target traps)
    MstatusTW, MstatusTSR, MstatusTVM, \* mstatus bits TW, TSR, TVM
    FsOn,             \* s->fs != 0: floating point enabled
    IgnoreSbiShutdown,\* s->ignore_sbi_shutdown
    StfTrace,         \* stf_trace set and not in instruction-number mode
    StfExitOnStop     \* stf_exit_on_stop_opc

ASSUME /\ {0, 1} \subseteq Regs /\ Regs \subseteq Nat
       /\ MaxBatch \in Nat \ {0} /\ MaxInsns \in Nat /\ MaxMemSeq \in Nat
       /\ {Cosim, ExtC, MstatusTW, MstatusTSR, MstatusTVM, FsOn,
           IgnoreSbiShutdown, StfTrace, StfExitOnStop} \subseteq BOOLEAN

(* Privilege levels and exception causes, as numbered in the RISC-V      *)
(* privileged specification and used by the code.                        *)
PRV_U == 0
PRV_S == 1
PRV_M == 3
Privs == {PRV_U, PRV_S, PRV_M}

CAUSE_MISALIGNED_FETCH    == 0
CAUSE_ILLEGAL_INSTRUCTION == 2
CAUSE_BREAKPOINT          == 3
CAUSE_MISALIGNED_STORE    == 6
CAUSE_USER_ECALL          == 8
CAUSE_FETCH_PAGE_FAULT    == 12
CAUSE_LOAD_PAGE_FAULT     == 13
CAUSE_STORE_PAGE_FAULT    == 15

(* Causes target_read/target_write and the fetch path can leave in        *)
(* s->pending_exception.  An access fault and a page fault take the same   *)
(* path through this code, so one of each stands for both; a data trigger *)
(* reports CAUSE_BREAKPOINT, which the AMO handler treats apart.           *)
LoadFaults  == {CAUSE_LOAD_PAGE_FAULT, CAUSE_BREAKPOINT}
StoreFaults == {CAUSE_STORE_PAGE_FAULT, CAUSE_BREAKPOINT}
FetchFaults == {CAUSE_FETCH_PAGE_FAULT}
Causes == {CAUSE_MISALIGNED_FETCH, CAUSE_ILLEGAL_INSTRUCTION,
           CAUSE_MISALIGNED_STORE} \cup LoadFaults \cup StoreFaults
          \cup FetchFaults \cup {CAUSE_USER_ECALL + p : p \in Privs}

(* s->load_res after it is cleared: ~0, never an aligned address.        *)
NoRes == "NoRes"

VARIABLES
    phase,            \* "idle" between calls, "fetch" at the loop head,
                      \* "exec" with an instruction fetched
    regs,             \* the integer register file
    val,              \* the local val, live across loop iterations
    nCycles,          \* the local n_cycles
    addend,           \* the local insn_counter_addend
    counterStart,     \* the local insn_counter_start
    executed,         \* the local insn_executed
    codeValid,        \* code_ptr < code_end: the fast path applies
    insnCounter,      \* s->insn_counter
    minstret,         \* s->minstret (and s->mcycle)
    pendingException, \* s->pending_exception
    priv,             \* s->priv
    irq,              \* (s->mip & s->mie) != 0
    powerDown,        \* s->power_down_flag
    terminated,       \* s->terminate_simulation
    loadRes,          \* s->load_res
    loadResSeq,       \* s->load_res_memseqno
    memseqno,         \* s->machine->memseqno
    stfActive,        \* machine->common.stf_macro_tracing_active
    exitPending,      \* machine->common.stf_has_exit_pending
    (* history variables, for the properties *)
    requested,        \* sum of the n_cycles passed so far
    callN,            \* n_cycles of the call in progress
    retired,          \* instructions retired so far
    retiredAtCall,    \* retired when the current (or last) call began
    lastReturn,       \* value returned by the last call
    dirty             \* addresses stored to since the last lr

locals  == <<val, nCycles, addend, counterStart, executed, codeValid>>
hart    == <<regs, pendingException, priv, irq, powerDown, terminated>>
resv    == <<loadRes, loadResSeq, memseqno, dirty>>
stf     == <<stfActive, exitPending>>
ghost   == <<requested, callN, retired, retiredAtCall, lastReturn>>
vars    == <<phase, locals, hart, insnCounter, minstret, resv, stf, ghost>>

-----------------------------------------------------------------------------
(* write_reg: x0 is hard-wired (every caller tests rd != 0).               *)
WriteReg(rd, v) == IF rd # 0 THEN [regs EXCEPT ![rd] = v] ELSE regs

(* The interrupt test at entry and at the slow fetch (lines 698, 726).     *)
InterruptCheck == irq /\ (PendingInterrupt # -1 \/ ~Cosim)

(* raise_exception2 / raise_interrupt (riscv_cpu.cpp): the trap is taken   *)
(* to M, or delegated to S; it never lowers the privilege level.          *)
TrapPriv == {p \in {PRV_S, PRV_M} : p >= priv}

(* The locals of riscv_cpu_interp go out of scope when it returns.        *)
ResetLocals ==
    /\ val' = 0 /\ nCycles' = 0 /\ addend' = 0 /\ counterStart' = 0
    /\ executed' = 0 /\ codeValid' = FALSE

(* Leaving riscv_cpu_interp through the_end (lines 3045-3055) with the     *)
(* given values of n_cycles, insn_counter_addend, insn_executed and        *)
(* minstret: s->insn_counter = GET_INSN_COUNTER() and minstret gains the   *)
(* delta from insn_counter_start.                                          *)
TheEndFrom(start, nc, add, ex, mi) ==
    /\ insnCounter' = add - nc
    /\ minstret' = mi + ((add - nc) - start)
    /\ lastReturn' = ex
    /\ phase' = "idle"
    /\ ResetLocals

TheEnd(nc, add, ex, mi) == TheEndFrom(counterStart, nc, add, ex, mi)

(* The exception label (lines 3023-3041): every cause but an ecall        *)
(* cancels the instruction, which is taken off insn_counter_addend and    *)
(* insn_executed; the trap is raised; then done_interp and the_end.        *)
Cancels(cause) == cause < CAUSE_USER_ECALL \/ cause > CAUSE_USER_ECALL + 3

(* Variant with the --insn_counter_addend of the exception label left    *)
(* out, so a cancelled instruction is still counted.                       *)
ExceptionKeepsAddend(cause, nc, ex, mi) ==
    /\ pendingException' = cause
    /\ priv' \in TrapPriv
    /\ IF Cancels(cause)
         THEN TheEnd(nc - 1, addend, ex - 1, mi) /\ UNCHANGED retired
         ELSE TheEnd(nc - 1, addend, ex, mi) /\ retired' = retired + 1

Exception(cause, nc, ex, mi) ==
    /\ pendingException' = cause
    /\ priv' \in TrapPriv
    /\ IF Cancels(cause)
         THEN TheEnd(nc - 1, addend - 1, ex - 1, mi) /\ UNCHANGED retired
         ELSE TheEnd(nc - 1, addend, ex, mi) /\ retired' = retired + 1

(* illegal_insn (lines 3008-3016): CAUSE_ILLEGAL_INSTRUCTION, then the     *)
(* exception label.                                                        *)
IllegalInsn(mi) ==
    Exception(CAUSE_ILLEGAL_INSTRUCTION, nCycles, executed, mi)

(* done_interp (line 3043): n_cycles-- compensates for the loop-head       *)
(* decrement of an instruction that completed, then the_end.              *)
DoneInterp(mi) == TheEnd(nCycles - 1, addend, executed, mi)

(* stf_trace_trigger (majordomo_stf.cpp:61-90), which returns at once     *)
(* unless macro tracing is configured: tracing starts on START_TRACE_OPC   *)
(* when inactive and stops on STOP_TRACE_OPC when active.                  *)
StfStart(opc) == StfTrace /\ ~stfActive /\ opc = "start"
StfStop(opc)  == StfTrace /\ stfActive /\ opc = "stop"

(* Variant that returns only on the instruction that starts tracing, as  *)
(* if stf_trace_trigger returned its start test and not the active flag.  *)
AfterInsnStartOnly(v, code, opc, ic, mi) ==
    LET start  == StfStart(opc)
        stop   == StfStop(opc)
        active == start \/ (stfActive /\ ~stop)
        exit   == exitPending \/ (stop /\ StfExitOnStop)
    IN  /\ stfActive' = active
        /\ exitPending' = exit
        /\ terminated' = (terminated \/ (stop /\ StfExitOnStop))
        /\ IF start
             THEN IF exit
                    THEN TheEnd(nCycles, addend, executed, mi)
                    ELSE /\ phase' = "idle" /\ lastReturn' = executed
                         /\ insnCounter' = ic /\ minstret' = mi
                         /\ ResetLocals
             ELSE /\ phase' = "fetch" /\ val' = v /\ codeValid' \in code
                  /\ insnCounter' = ic /\ minstret' = mi
                  /\ UNCHANGED <<nCycles, addend, counterStart, executed,
                                 lastReturn>>

(* jump_insn (lines 2994-3005) after an instruction that completed with    *)
(* val = v: stf_trace_trigger (majordomo_stf.cpp:58-90) recognises the     *)
(* START/STOP opcodes; while macro tracing is active the function returns  *)
(* insn_executed directly, without the_end, unless an exit is pending.     *)
(* Otherwise the loop goes on with code_ptr < code_end in one of code.    *)
(* ic and mi are s->insn_counter and s->minstret as the instruction left   *)
(* them.                                                                   *)
AfterInsn(v, code, opc, ic, mi) ==
    LET start  == StfStart(opc)
        stop   == StfStop(opc)
        active == start \/ (stfActive /\ ~stop)
        exit   == exitPending \/ (stop /\ StfExitOnStop)
    IN  /\ stfActive' = active
        /\ exitPending' = exit
        /\ terminated' = (terminated \/ (stop /\ StfExitOnStop))
        /\ IF active
             THEN IF exit
                    THEN TheEnd(nCycles, addend, executed, mi)
                    ELSE /\ phase' = "idle" /\ lastReturn' = executed
                         /\ insnCounter' = ic /\ minstret' = mi
                         /\ ResetLocals
             ELSE /\ phase' = "fetch" /\ val' = v /\ codeValid' \in code
                  /\ insnCounter' = ic /\ minstret' = mi
                  /\ UNCHANGED <<nCycles, addend, counterStart, executed,
                                 lastReturn>>

(* NEXT_INSN / C_NEXT_INSN (lines 617-622): code_ptr advances and may      *)
(* reach code_end; after a slow fetch code_ptr stays below NULL-based      *)
(* code_end.  JUMP_INSN (lines 623-631) clears code_ptr and code_end.     *)
NextCode == IF codeValid THEN BOOLEAN ELSE {FALSE}

NextInsn(v) == AfterInsn(v, NextCode, "none", insnCounter, minstret)

JumpInsn(v) == AfterInsn(v, {FALSE}, "none", insnCounter, minstret)

(* A store that reaches memory: target_write bumps machine->memseqno      *)
(* (riscv_cpu.cpp), which is what invalidates every reservation.          *)
StoreMem(a) ==
    /\ memseqno < MaxMemSeq
    /\ memseqno' = memseqno + 1
    /\ dirty' = dirty \cup {a}
    /\ UNCHANGED <<loadRes, loadResSeq>>

-----------------------------------------------------------------------------
(* The hart after reset: machine mode, no reservation, counters at zero.   *)
Init ==
    /\ phase = "idle"
    /\ regs = [r \in Regs |-> 0]
    /\ val = 0 /\ nCycles = 0 /\ addend = 0 /\ counterStart = 0
    /\ executed = 0 /\ codeValid = FALSE
    /\ insnCounter = 0 /\ minstret = 0
    /\ pendingException = -1 /\ priv = PRV_M
    /\ irq = FALSE /\ powerDown = FALSE /\ terminated = FALSE
    /\ loadRes = NoRes /\ loadResSeq = 0 /\ memseqno = 0 /\ dirty = {}
    /\ stfActive = FALSE /\ exitPending = FALSE
    /\ requested = 0 /\ callN = 0 /\ retired = 0 /\ retiredAtCall = 0
    /\ lastReturn = 0

(* The driver may call again while the simulation goes on                 *)
(* (majordomo.cpp:234-268, dromajo_main.cpp:55-72).                        *)
CallAllowed(n) ==
    /\ phase = "idle" /\ ~terminated /\ ~exitPending
    /\ requested + n <= MaxInsns

(* Entry of riscv_cpu_interp (lines 654-711) when an enabled interrupt is  *)
(* pending and raise_interrupt takes it: --insn_counter_addend, then       *)
(* done_interp and the_end, so the call retires nothing and returns 0.    *)
CallInterrupted(n) ==
    /\ CallAllowed(n)
    /\ InterruptCheck
    /\ priv' \in TrapPriv
    /\ TheEndFrom(insnCounter, n - 1, insnCounter + n - 1, 0, minstret)
    /\ requested' = requested + n /\ callN' = n /\ retiredAtCall' = retired
    /\ UNCHANGED <<regs, pendingException, irq, powerDown, terminated,
                   resv, stf, retired>>

(* Entry of riscv_cpu_interp (lines 654-711) when no interrupt is taken:  *)
(* the budget is set up and pending_exception cleared.                     *)
Call(n) ==
    /\ CallAllowed(n)
    /\ phase' = "fetch"
    /\ addend' = insnCounter + n /\ counterStart' = insnCounter
    /\ nCycles' = n + 1 /\ executed' = 0 /\ val' = 0 /\ codeValid' = FALSE
    /\ pendingException' = -1
    /\ requested' = requested + n /\ callN' = n /\ retiredAtCall' = retired
    /\ UNCHANGED <<regs, priv, irq, powerDown, terminated, insnCounter,
                   minstret, resv, stf, retired, lastReturn>>

(* Loop head (lines 712-716): the budget is spent, so the_end.             *)
FetchBudgetEnd ==
    /\ phase = "fetch" /\ nCycles - 1 = 0
    /\ TheEnd(0, addend, executed, minstret)
    /\ UNCHANGED <<hart, resv, stf, requested, callN, retired, retiredAtCall>>

(* Loop head (lines 718-721): ++insn_executed, then an execute trigger     *)
(* matches the pc (check_triggers) and raises CAUSE_BREAKPOINT.            *)
FetchTrigger ==
    /\ phase = "fetch" /\ nCycles - 1 # 0
    /\ Exception(CAUSE_BREAKPOINT, nCycles - 1, executed + 1, minstret)
    /\ UNCHANGED <<regs, irq, powerDown, terminated, resv, stf,
                   requested, callN, retiredAtCall>>

(* Slow fetch (lines 723-731): code_ptr >= code_end and raise_interrupt    *)
(* takes a pending interrupt: goto the_end, with insn_executed already     *)
(* incremented for the instruction that was never fetched.                 *)
FetchInterrupt ==
    /\ phase = "fetch" /\ nCycles - 1 # 0 /\ ~codeValid
    /\ InterruptCheck
    /\ priv' \in TrapPriv
    /\ TheEnd(nCycles - 1, addend, executed + 1, minstret)
    /\ UNCHANGED <<regs, pendingException, irq, powerDown, terminated,
                   resv, stf, requested, callN, retired, retiredAtCall>>

(* Slow fetch (lines 733-764): the TLB refill or the read of the second    *)
(* half of an instruction that straddles two pages faults.                 *)
FetchFault ==
    /\ phase = "fetch" /\ nCycles - 1 # 0 /\ ~codeValid
    /\ \E c \in FetchFaults : Exception(c, nCycles - 1, executed + 1, minstret)
    /\ UNCHANGED <<regs, irq, powerDown, terminated, resv, stf,
                   requested, callN, retiredAtCall>>

(* Fetch succeeds (lines 723-770): from the fast path, or from a TLB hit   *)
(* that may leave code_ptr < code_end, or from the slow path that leaves   *)
(* code_ptr NULL-based.                                                    *)
FetchOk ==
    /\ phase = "fetch" /\ nCycles - 1 # 0
    /\ phase' = "exec"
    /\ nCycles' = nCycles - 1 /\ executed' = executed + 1
    /\ codeValid' \in IF codeValid THEN {TRUE} ELSE BOOLEAN
    /\ UNCHANGED <<val, addend, counterStart, hart, insnCounter, minstret,
                   resv, stf, ghost>>

-----------------------------------------------------------------------------
(* Variables an executed instruction leaves alone unless it says so.       *)
Quiet == <<pendingException, priv, irq, powerDown>>
Caller == <<requested, callN, retiredAtCall>>

(* An ILLEGAL_INSTR inside a handler: goto illegal_insn, nothing written.  *)
IllegalHere ==
    /\ IllegalInsn(minstret)
    /\ UNCHANGED <<regs, irq, powerDown, terminated, resv, stf, Caller>>

(* The tail of a 32-bit integer computation: val = result;                 *)
(* if (rd != 0) write_reg(rd, val); NEXT_INSN.  The STF START/STOP opcodes *)
(* (xor x0, x0, x0 and xor x0, x1, x1) are the opc values other than none. *)
WriteVal(opcs) ==
    /\ \E rd \in Regs, v \in Vals, opc \in opcs :
         /\ opc # "none" => rd = 0 /\ v = 0
         /\ regs' = WriteReg(rd, v)
         /\ AfterInsn(v, NextCode, opc, insnCounter, minstret)
    /\ retired' = retired + 1
    /\ UNCHANGED <<Quiet, resv, Caller>>

(* OP (lines 1926-2091): Zba, Zbb, Zbc, Zbs, Zicond, M and the base        *)
(* register-register operations; an unmatched funct3/funct7 is illegal     *)
(* (ZBA001, 036, 037).                                                     *)
AluOp ==
    /\ phase = "exec"
    /\ IllegalHere \/ WriteVal({"none", "start", "stop"})

(* OP-IMM (lines 1519-1634): addi ... andi, the Zbb unary operations, the  *)
(* Zbs immediates, rori; a shift amount with reserved bits is illegal      *)
(* (027, 028).                                                             *)
AluImm ==
    /\ phase = "exec"
    /\ IllegalHere \/ WriteVal({"none"})

(* OP-IMM-32 (lines 1635-1704): addiw, slli.uw, ctzw, cpopw, clzw, roriw,  *)
(* slliw, srliw, sraiw; reserved shift bits and other funct3 are illegal   *)
(* (029, 030, 031).                                                        *)
AluImm32 ==
    /\ phase = "exec"
    /\ IllegalHere \/ WriteVal({"none"})

(* OP-32 (lines 2092-2149): the Zba .uw forms, zext.h, rolw, rorw, the     *)
(* M word operations and addw ... sraw; other encodings are illegal        *)
(* (038, 039, 040).                                                        *)
Alu32 ==
    /\ phase = "exec"
    /\ IllegalHere \/ WriteVal({"none"})

(* A conditional branch once its condition is known (lines 1403-1409 and   *)
(* 1882-1891): a taken branch to a target that is not 4-aligned traps when *)
(* misa has no C, before any state changes; otherwise JUMP_INSN; not taken *)
(* is NEXT_INSN.  val is left alone.                                       *)
CondBranch ==
    \/ /\ ~ExtC
       /\ Exception(CAUSE_MISALIGNED_FETCH, nCycles, executed, minstret)
       /\ UNCHANGED <<regs, irq, powerDown, terminated, resv, stf, Caller>>
    \/ /\ \E taken \in BOOLEAN :
            IF taken THEN JumpInsn(val) ELSE NextInsn(val)
       /\ retired' = retired + 1
       /\ UNCHANGED <<regs, Quiet, resv, Caller>>

(* Andes CUSTOM-2 (lines 1707-1897): with funct3 0 the LEA and FFB/FFZMISM/ *)
(* FFMISM/FLMISM group, with 2 and 3 BFOZ and BFOS, which set val and rd;  *)
(* with 5, 6 and 7 the BEQC, BNEC, BBC and BBS branches; funct3 1 and 4    *)
(* and unknown funct7 of the LEA group are illegal.                        *)
AndesCustom2 ==
    /\ phase = "exec"
    /\ IllegalHere \/ WriteVal({"none"}) \/ CondBranch

(* write_reg(rd, result) and the next instruction, val left alone: the    *)
(* shape of lui, auipc and the compressed integer operations.             *)
WriteRdKeepVal ==
    /\ \E rd \in Regs, v \in Vals : regs' = WriteReg(rd, v)
    /\ NextInsn(val)
    /\ retired' = retired + 1
    /\ UNCHANGED <<Quiet, resv, Caller>>

(* A memory access that faults: goto mmu_exception, nothing written.      *)
MemFault(faults) ==
    /\ \E c \in faults : Exception(c, nCycles, executed, minstret)
    /\ UNCHANGED <<regs, irq, powerDown, terminated, resv, stf, Caller>>

(* lui / auipc (lines 1346-1353) write rd directly and leave val alone.    *)
UpperImm ==
    /\ phase = "exec"
    /\ WriteRdKeepVal

(* Variant that writes rd before the read has succeeded.                  *)
LoadValueWritesFirst ==
    /\ phase = "exec"
    /\ \E rd \in Regs, v \in Vals :
       \/ /\ \E c \in LoadFaults : Exception(c, nCycles, executed, minstret)
          /\ regs' = WriteReg(rd, v)
          /\ UNCHANGED <<irq, powerDown, terminated, resv, stf, Caller>>
       \/ /\ regs' = WriteReg(rd, v) /\ NextInsn(v)
          /\ retired' = retired + 1
          /\ UNCHANGED <<Quiet, resv, Caller>>

(* A load that writes rd: a read fault goes to mmu_exception before val   *)
(* and rd are touched; otherwise val = the value read, written to rd.      *)
LoadValue ==
    /\ phase = "exec"
    /\ \/ /\ \E c \in LoadFaults : Exception(c, nCycles, executed, minstret)
          /\ UNCHANGED <<regs, irq, powerDown, terminated, resv, stf, Caller>>
       \/ /\ \E rd \in Regs, v \in Vals :
               regs' = WriteReg(rd, v) /\ NextInsn(v)
          /\ retired' = retired + 1
          /\ UNCHANGED <<Quiet, resv, Caller>>

(* Loads lb ... ld, lbu ... lwu (lines 1413-1483) and their compressed     *)
(* forms.                                                                  *)
Load == LoadValue

(* Stores (lines 1484-1517): val = read_reg(rs2), then the write; no       *)
(* register is written.                                                    *)
Store ==
    /\ phase = "exec"
    /\ \E rs2 \in Regs, a \in Addrs :
         \/ /\ \E c \in StoreFaults : Exception(c, nCycles, executed, minstret)
            /\ UNCHANGED <<regs, irq, powerDown, terminated, resv, stf, Caller>>
         \/ /\ StoreMem(a)
            /\ NextInsn(regs[rs2])
            /\ retired' = retired + 1
            /\ UNCHANGED <<regs, Quiet, Caller>>

(* Andes CUSTOM-0/1 loads and ADDIGP (LBGP, ADDIGP, LBUGP at lines         *)
(* 779-810, LHGP, LWGP, LDGP, LHUGP, LWUGP at lines 848-905): val is the   *)
(* value read (or gp + imm), then the common tail if (rd != 0)             *)
(* write_reg(rd, val) (lines 828, 922).                                    *)
AndesGpLoad == LoadValue

(* Andes GP stores (SBGP at lines 811-824, SHGP, SWGP, SDGP at lines       *)
(* 836-846, 880-892, 906-920): the write of read_reg(rs2), then the        *)
(* common tail if (rd != 0) write_reg(rd, val) (lines 828, 922), where     *)
(* bits 11:7 are immediate bits and val is whatever an earlier             *)
(* instruction of the batch left in it.                                    *)
AndesGpStore ==
    /\ phase = "exec"
    /\ \E rd \in Regs, a \in Addrs :
         \/ /\ \E c \in StoreFaults : Exception(c, nCycles, executed, minstret)
            /\ UNCHANGED <<regs, irq, powerDown, terminated, resv, stf, Caller>>
         \/ /\ StoreMem(a)
            /\ regs' = WriteReg(rd, val)
            /\ NextInsn(val)
            /\ retired' = retired + 1
            /\ UNCHANGED <<Quiet, Caller>>

(* Conditional branches beq ... bgeu (lines 1388-1412).                    *)
Branch ==
    /\ phase = "exec"
    /\ CondBranch

(* Variant of jal that writes the link register before the target check. *)
JalLinkFirst ==
    /\ phase = "exec"
    /\ \E rd \in Regs, link \in Vals :
       \/ /\ ~ExtC
          /\ regs' = WriteReg(rd, link)
          /\ Exception(CAUSE_MISALIGNED_FETCH, nCycles, executed, minstret)
          /\ UNCHANGED <<irq, powerDown, terminated, resv, stf, Caller>>
       \/ /\ regs' = WriteReg(rd, link)
          /\ JumpInsn(val)
          /\ retired' = retired + 1
          /\ UNCHANGED <<Quiet, resv, Caller>>

(* jal (lines 1354-1369): the misaligned-target check comes first, then   *)
(* rd = pc + 4 and JUMP_INSN; val is left alone.                           *)
Jal ==
    /\ phase = "exec"
    /\ \/ /\ ~ExtC
          /\ Exception(CAUSE_MISALIGNED_FETCH, nCycles, executed, minstret)
          /\ UNCHANGED <<regs, irq, powerDown, terminated, resv, stf, Caller>>
       \/ /\ \E rd \in Regs, link \in Vals : regs' = WriteReg(rd, link)
          /\ JumpInsn(val)
          /\ retired' = retired + 1
          /\ UNCHANGED <<Quiet, resv, Caller>>

(* jalr (lines 1370-1387): val = pc + 4, the misaligned-target check,     *)
(* then rd = val and JUMP_INSN.                                            *)
Jalr ==
    /\ phase = "exec"
    /\ \/ /\ ~ExtC
          /\ Exception(CAUSE_MISALIGNED_FETCH, nCycles, executed, minstret)
          /\ UNCHANGED <<regs, irq, powerDown, terminated, resv, stf, Caller>>
       \/ /\ \E rd \in Regs, link \in Vals :
               regs' = WriteReg(rd, link) /\ JumpInsn(link)
          /\ retired' = retired + 1
          /\ UNCHANGED <<Quiet, resv, Caller>>

(* The counter update that csrrw, csrrs and csrrc make before csr_read     *)
(* (lines 2191-2197, 2218-2224): s->insn_counter = GET_INSN_COUNTER() and  *)
(* minstret += insn_counter - insn_counter_start.                          *)
CsrCounter == addend - nCycles
CsrMinstret == minstret + (CsrCounter - counterStart)

(* csrrw, csrrs, csrrc and their immediate forms (lines 2181-2251).        *)
(* csr_read and csr_write are in riscv_cpu.cpp: csr_read may refuse, and   *)
(* csr_write returns -2 (mmu_exception with a cause set), -1 (illegal),    *)
(* 0, 1 (leave the loop to recheck interrupts) or 2 (refetch).  A write    *)
(* may change mie or mip.  csrrw also resets insn_counter_addend to        *)
(* s->insn_counter + n_cycles, the value it already has.                   *)
Csr ==
    /\ phase = "exec"
    /\ \E writes \in BOOLEAN, err \in {-2, -1, 0, 1, 2} :
       \/ IllegalInsn(CsrMinstret)
          /\ UNCHANGED <<regs, irq, powerDown, terminated, resv, stf, Caller>>
       \/ /\ writes /\ err = -2
          /\ \E c \in StoreFaults : Exception(c, nCycles, executed, CsrMinstret)
          /\ UNCHANGED <<regs, irq, powerDown, terminated, resv, stf, Caller>>
       \/ /\ writes /\ err = -1
          /\ IllegalInsn(CsrMinstret)
          /\ UNCHANGED <<regs, irq, powerDown, terminated, resv, stf, Caller>>
       \/ /\ writes => err >= 0
          /\ \E rd \in Regs, old \in Vals, v \in Vals :
               /\ regs' = WriteReg(rd, old)
               /\ IF writes /\ err = 1
                    THEN DoneInterp(CsrMinstret) /\ UNCHANGED stf
                         /\ UNCHANGED terminated
                    ELSE AfterInsn(v, IF writes /\ err = 2 THEN {FALSE} ELSE NextCode,
                                   "none", CsrCounter, CsrMinstret)
          /\ irq' \in IF writes THEN BOOLEAN ELSE {irq}
          /\ retired' = retired + 1
          /\ UNCHANGED <<pendingException, priv, powerDown, resv, Caller>>

(* ecall (lines 2252-2260): pending_exception = CAUSE_USER_ECALL + priv;   *)
(* in M mode with a7 == SBI_SHUTDOWN the simulation is terminated.  The   *)
(* exception label counts an ecall as executed.                            *)
Ecall ==
    /\ phase = "exec"
    /\ Exception(CAUSE_USER_ECALL + priv, nCycles, executed, minstret)
    /\ \E shutdown \in BOOLEAN :
         terminated' = (terminated \/ (~IgnoreSbiShutdown /\ priv = PRV_M /\ shutdown))
    /\ UNCHANGED <<regs, irq, powerDown, resv, stf, Caller>>

(* ebreak (lines 2261-2266).                                               *)
Ebreak ==
    /\ phase = "exec"
    /\ Exception(CAUSE_BREAKPOINT, nCycles, executed, minstret)
    /\ UNCHANGED <<regs, irq, powerDown, terminated, resv, stf, Caller>>

(* sret (lines 2267-2278): illegal below S, or in S when TSR is set;       *)
(* handle_sret returns to U or S, then done_interp.                        *)
Sret ==
    /\ phase = "exec"
    /\ \/ /\ priv < PRV_S \/ (priv = PRV_S /\ MstatusTSR)
          /\ IllegalInsn(minstret)
          /\ UNCHANGED <<regs, irq, powerDown, terminated, resv, stf, Caller>>
       \/ /\ ~(priv < PRV_S \/ (priv = PRV_S /\ MstatusTSR))
          /\ priv' \in {PRV_U, PRV_S}
          /\ DoneInterp(minstret)
          /\ retired' = retired + 1
          /\ UNCHANGED <<regs, pendingException, irq, powerDown, terminated,
                         resv, stf, Caller>>

(* mret (lines 2279-2290): illegal below M; handle_mret returns to MPP.    *)
Mret ==
    /\ phase = "exec"
    /\ \/ /\ priv < PRV_M
          /\ IllegalInsn(minstret)
          /\ UNCHANGED <<regs, irq, powerDown, terminated, resv, stf, Caller>>
       \/ /\ priv = PRV_M
          /\ priv' \in Privs
          /\ DoneInterp(minstret)
          /\ retired' = retired + 1
          /\ UNCHANGED <<regs, pendingException, irq, powerDown, terminated,
                         resv, stf, Caller>>

(* wfi (lines 2303-2324): illegal in U, and in S when TW is set; then     *)
(* power down and leave the loop if no enabled interrupt is pending, or    *)
(* always when not co-simulating; otherwise a no-op.                       *)
WfiIllegal == priv = PRV_U \/ (priv = PRV_S /\ MstatusTW)

Wfi ==
    /\ phase = "exec"
    /\ \/ /\ WfiIllegal
          /\ IllegalInsn(minstret)
          /\ UNCHANGED <<regs, irq, powerDown, terminated, resv, stf, Caller>>
       \/ /\ ~WfiIllegal
          /\ (~irq /\ PendingInterrupt = -1) \/ ~Cosim
          /\ powerDown' = TRUE
          /\ DoneInterp(minstret)
          /\ retired' = retired + 1
          /\ UNCHANGED <<regs, pendingException, priv, irq, terminated,
                         resv, stf, Caller>>
       \/ /\ ~WfiIllegal
          /\ ~((~irq /\ PendingInterrupt = -1) \/ ~Cosim)
          /\ NextInsn(val)
          /\ retired' = retired + 1
          /\ UNCHANGED <<regs, Quiet, resv, Caller>>

(* sfence.vma (lines 2325-2346): illegal in U, and in S when TVM is set;   *)
(* the TLB flush is followed by JUMP_INSN, the code TLB may be gone.       *)
SfenceVma ==
    /\ phase = "exec"
    /\ \/ /\ priv = PRV_U \/ (priv = PRV_S /\ MstatusTVM)
          /\ IllegalInsn(minstret)
          /\ UNCHANGED <<regs, irq, powerDown, terminated, resv, stf, Caller>>
       \/ /\ ~(priv = PRV_U \/ (priv = PRV_S /\ MstatusTVM))
          /\ JumpInsn(val)
          /\ retired' = retired + 1
          /\ UNCHANGED <<regs, Quiet, resv, Caller>>

(* fence and fence.i (lines 2350-2358) do nothing but NEXT_INSN.           *)
Fence ==
    /\ phase = "exec"
    /\ NextInsn(val)
    /\ retired' = retired + 1
    /\ UNCHANGED <<regs, Quiet, resv, Caller>>

(* An encoding no handler accepts: every default: ILLEGAL_INSTR and every  *)
(* reserved-field check of the decoder.                                    *)
Illegal ==
    /\ phase = "exec"
    /\ IllegalInsn(minstret)
    /\ UNCHANGED <<regs, irq, powerDown, terminated, resv, stf, Caller>>

(* lr.w / lr.d (OP_A, lines 2380-2389): after a successful read, val is    *)
(* the value read, load_res = addr and load_res_memseqno = memseqno.       *)
Lr ==
    /\ phase = "exec"
    /\ \/ /\ \E c \in LoadFaults : Exception(c, nCycles, executed, minstret)
          /\ UNCHANGED <<regs, irq, powerDown, terminated, resv, stf, Caller>>
       \/ /\ \E rd \in Regs, a \in Addrs, v \in Vals :
               /\ loadRes' = a /\ loadResSeq' = memseqno /\ dirty' = {}
               /\ regs' = WriteReg(rd, v)
               /\ NextInsn(v)
          /\ retired' = retired + 1
          /\ UNCHANGED <<Quiet, memseqno, Caller>>

(* Variant of the sc test that ignores the memory sequence number.        *)
ReservationAddrOnly(a) == loadRes = a

(* The reservation test of sc (line 2396).                                 *)
ReservationValid(a) == loadRes = a /\ loadResSeq = memseqno

(* sc.w / sc.d (OP_A, lines 2390-2405): a misaligned address traps; with   *)
(* a valid reservation the store is made, val = 0 and the reservation is   *)
(* cleared; otherwise val = 1 and the reservation is kept.  rd = val.      *)
Sc ==
    /\ phase = "exec"
    /\ \E rd \in Regs, a \in Addrs :
       \/ /\ Exception(CAUSE_MISALIGNED_STORE, nCycles, executed, minstret)
          /\ UNCHANGED <<regs, irq, powerDown, terminated, resv, stf, Caller>>
       \/ /\ ReservationValid(a)
          /\ \E c \in StoreFaults : Exception(c, nCycles, executed, minstret)
          /\ UNCHANGED <<regs, irq, powerDown, terminated, resv, stf, Caller>>
       \/ /\ ReservationValid(a)
          /\ memseqno < MaxMemSeq
          /\ memseqno' = memseqno + 1 /\ dirty' = dirty \cup {a}
          /\ loadRes' = NoRes /\ loadResSeq' = 0
          /\ regs' = WriteReg(rd, 0) /\ NextInsn(0)
          /\ retired' = retired + 1
          /\ UNCHANGED <<Quiet, Caller>>
       \/ /\ ~ReservationValid(a)
          /\ regs' = WriteReg(rd, 1) /\ NextInsn(1)
          /\ retired' = retired + 1
          /\ UNCHANGED <<Quiet, resv, Caller>>

(* Variant of the AMO fault conversion without the trigger exception.     *)
AmoCauseAnyFault(c) == c + 2

(* AMOs (OP_A, lines 2406-2449): a read fault turns a load cause into the  *)
(* matching store cause (pending_exception += 2) unless it is a trigger;   *)
(* then the write; rd = the old value.                                     *)
AmoCause(c) == IF c # CAUSE_BREAKPOINT THEN c + 2 ELSE c

Amo ==
    /\ phase = "exec"
    /\ \/ /\ \E c \in LoadFaults : Exception(AmoCause(c), nCycles, executed, minstret)
          /\ UNCHANGED <<regs, irq, powerDown, terminated, resv, stf, Caller>>
       \/ /\ \E c \in StoreFaults : Exception(c, nCycles, executed, minstret)
          /\ UNCHANGED <<regs, irq, powerDown, terminated, resv, stf, Caller>>
       \/ /\ \E rd \in Regs, a \in Addrs, old \in Vals :
               StoreMem(a) /\ regs' = WriteReg(rd, old) /\ NextInsn(old)
          /\ retired' = retired + 1
          /\ UNCHANGED <<Quiet, Caller>>

(* Floating-point loads and stores (lines 2466-2575): illegal when fs is   *)
(* 0; a fault; or the access, which writes an f register or memory and no  *)
(* integer register.                                                       *)
FpMem ==
    /\ phase = "exec"
    /\ \/ /\ ~FsOn
          /\ IllegalInsn(minstret)
          /\ UNCHANGED <<regs, irq, powerDown, terminated, resv, stf, Caller>>
       \/ /\ FsOn
          /\ \E c \in LoadFaults \cup StoreFaults :
               Exception(c, nCycles, executed, minstret)
          /\ UNCHANGED <<regs, irq, powerDown, terminated, resv, stf, Caller>>
       \/ /\ FsOn
          /\ \/ UNCHANGED resv
             \/ \E a \in Addrs : StoreMem(a)
          /\ NextInsn(val)
          /\ retired' = retired + 1
          /\ UNCHANGED <<regs, Quiet, Caller>>

(* A compressed taken or not-taken control transfer (c.j, c.beqz, c.bnez, *)
(* c.jr): no misaligned-target check, val and the registers left alone.    *)
CJumpOrFall ==
    /\ \E taken \in BOOLEAN : IF taken THEN JumpInsn(val) ELSE NextInsn(val)
    /\ retired' = retired + 1
    /\ UNCHANGED <<regs, Quiet, resv, Caller>>

(* Compressed quadrant 0 of the XLEN 64 build (lines 951-1071): c.addi4spn *)
(* (imm 0 illegal, 000) writes rd; c.lw and c.ld write rd after the read;  *)
(* c.fld and c.fsd as the FP accesses; c.sw and c.sd set val =             *)
(* read_reg(rs2) before the write; the reserved funct3 is illegal (005).   *)
(* None of these consults misa.C.                                          *)
CQuadrant0 ==
    /\ phase = "exec"
    /\ \/ IllegalHere
       \/ WriteRdKeepVal
       \/ MemFault(LoadFaults \cup StoreFaults)
       \/ Store
       \/ FpMem

(* Compressed quadrant 1 (lines 1072-1193): c.addi, c.addiw (rd 0 illegal, *)
(* 006), c.li, c.addi16sp and c.lui (zero immediates illegal, 007-009),    *)
(* the c.srli ... c.addw group (reserved encodings illegal, 011) write rd; *)
(* c.j, c.beqz and c.bnez jump or fall through.                            *)
CQuadrant1 ==
    /\ phase = "exec"
    /\ IllegalHere \/ WriteRdKeepVal \/ CJumpOrFall

(* Compressed quadrant 2 (lines 1194-1344): c.slli, c.mv and c.add write   *)
(* rd; c.lwsp and c.ldsp (rd 0 illegal, 016, 017) write rd after the read; *)
(* c.fldsp and c.fsdsp as the FP accesses; c.jr (rd 0 illegal, 019) jumps; *)
(* c.ebreak raises a breakpoint; c.jalr sets val = pc + 2, writes x1 and   *)
(* jumps; c.swsp and c.sdsp write read_reg(rs2) without setting val.       *)
CQuadrant2 ==
    /\ phase = "exec"
    /\ \/ IllegalHere
       \/ WriteRdKeepVal
       \/ MemFault(LoadFaults \cup StoreFaults)
       \/ FpMem
       \/ CJumpOrFall
       \/ /\ Exception(CAUSE_BREAKPOINT, nCycles, executed, minstret)
          /\ UNCHANGED <<regs, irq, powerDown, terminated, resv, stf, Caller>>
       \/ /\ \E link \in Vals : regs' = WriteReg(1, link) /\ JumpInsn(link)
          /\ retired' = retired + 1
          /\ UNCHANGED <<Quiet, resv, Caller>>
       \/ /\ \E a \in Addrs : StoreMem(a)
          /\ NextInsn(val)
          /\ retired' = retired + 1
          /\ UNCHANGED <<regs, Quiet, Caller>>

(* An FP computation that completes: it writes an f register (not          *)
(* modelled) and the next instruction follows, val left alone.             *)
FpDone(v) ==
    /\ NextInsn(v)
    /\ retired' = retired + 1
    /\ UNCHANGED <<regs, Quiet, resv, Caller>>

(* fmadd, fmsub, fnmsub, fnmadd (lines 2576-2739): illegal when fs is 0    *)
(* (080), for a reserved rounding mode (081) or format (091); otherwise    *)
(* write_fp_reg(rd, fma_sf..) and NEXT_INSN.                               *)
FpFused ==
    /\ phase = "exec"
    /\ IllegalHere \/ (FsOn /\ FpDone(val))

(* OP-FP (lines 2740-2862): illegal when fs is 0 and for the Q and RV32    *)
(* encodings; the Zfa fleq, fltq, fmaxm, fminm, fround, froundnx and       *)
(* fcvtmod encodings do nothing; fli.h/s/d set val to the constant and     *)
(* write no register; the rest is majordomo_fp_template.h (not in this     *)
(* tree), which per the specification writes fd, or an integer rd for the  *)
(* compares, classifications, moves and conversions, or is illegal (093).  *)
FpOp ==
    /\ phase = "exec"
    /\ \/ IllegalHere
       \/ /\ FsOn
          /\ \/ FpDone(val)
             \/ \E v \in Vals : FpDone(v)
             \/ /\ \E rd \in Regs, v \in Vals : regs' = WriteReg(rd, v) /\ NextInsn(v)
                /\ retired' = retired + 1
                /\ UNCHANGED <<Quiet, resv, Caller>>

-----------------------------------------------------------------------------
(* Between two calls on this hart, a device raises an interrupt line       *)
(* (virt_machine_get_sleep_duration sets MTIP when timecmp is reached, the *)
(* PLIC and CLINT set MEIP/SEIP/MSIP); riscv_cpu_set_mip also ends a       *)
(* power-down.                                                             *)
SetMip ==
    /\ phase = "idle"
    /\ irq' = TRUE /\ powerDown' = FALSE
    /\ UNCHANGED <<phase, locals, regs, pendingException, priv, terminated,
                   insnCounter, minstret, resv, stf, ghost>>

(* A device lowers its line (a timecmp write, a PLIC claim).               *)
ResetMip ==
    /\ phase = "idle"
    /\ irq' = FALSE
    /\ UNCHANGED <<phase, locals, regs, pendingException, priv, powerDown,
                   terminated, insnCounter, minstret, resv, stf, ghost>>

(* Another hart, run by the driver's round robin between two calls on      *)
(* this hart (majordomo.cpp:239-243), stores to memory.                    *)
RemoteStore ==
    /\ phase = "idle"
    /\ \E a \in Addrs : StoreMem(a)
    /\ UNCHANGED <<phase, locals, hart, insnCounter, minstret, stf, ghost>>

(* The driver's loop has ended: terminated, an STF exit pending, or the    *)
(* instruction budget spent (majordomo.cpp:268).                           *)
Halt ==
    /\ phase = "idle"
    /\ ~\E n \in 1..MaxBatch : CallAllowed(n)
    /\ UNCHANGED vars

Next ==
    \/ \E n \in 1..MaxBatch : Call(n) \/ CallInterrupted(n)
    \/ FetchBudgetEnd \/ FetchTrigger \/ FetchInterrupt \/ FetchFault
    \/ FetchOk
    \/ AluOp \/ AluImm \/ AluImm32 \/ Alu32 \/ AndesCustom2 \/ UpperImm \/ Load \/ Store \/ AndesGpLoad \/ AndesGpStore
    \/ Branch \/ Jal \/ Jalr \/ Csr \/ Ecall \/ Ebreak \/ Sret \/ Mret
    \/ Wfi \/ SfenceVma \/ Fence \/ Illegal \/ Lr \/ Sc \/ Amo \/ FpMem
    \/ CQuadrant0 \/ CQuadrant1 \/ CQuadrant2 \/ FpFused \/ FpOp
    \/ SetMip \/ ResetMip \/ RemoteStore \/ Halt

Spec == Init /\ [][Next]_vars

-----------------------------------------------------------------------------
(* Properties.                                                             *)

TypeOK ==
    /\ phase \in {"idle", "fetch", "exec"}
    /\ regs \in [Regs -> Vals] /\ regs[0] = 0
    /\ val \in Vals
    /\ nCycles \in 0..MaxBatch + 1 /\ executed \in 0..MaxBatch
    /\ addend \in Nat /\ counterStart \in Nat /\ codeValid \in BOOLEAN
    /\ insnCounter \in Nat /\ minstret \in Nat
    /\ pendingException \in {-1} \cup Causes
    /\ priv \in Privs
    /\ {irq, powerDown, terminated, stfActive, exitPending} \subseteq BOOLEAN
    /\ loadRes \in Addrs \cup {NoRes} /\ loadResSeq \in 0..MaxMemSeq
    /\ memseqno \in 0..MaxMemSeq /\ dirty \subseteq Addrs
    /\ lastReturn \in 0..MaxBatch

(* Between calls, the engine refines the contract of one call: the         *)
(* instruction counter the hart exposes (s->insn_counter, which            *)
(* GET_INSN_COUNTER and the_end maintain through insn_counter_addend and   *)
(* its decrements at the entry interrupt and the exception label) has      *)
(* advanced by exactly the number of instructions retired, never more than *)
(* the budget n_cycles.  During a call the abstract state is the one at    *)
(* its start.                                                              *)
Batch == INSTANCE HartBatch WITH
    insn_counter <- IF phase = "idle" THEN insnCounter ELSE counterStart,
    retired      <- IF phase = "idle" THEN retired ELSE retiredAtCall,
    requested    <- IF phase = "idle" THEN requested ELSE requested - callN

BatchRefinement == Batch!Spec

(* An instruction that traps leaves the register file as it found it: no  *)
(* handler writes rd before its last check (jal/jalr test the target       *)
(* before the link write, loads, sc and AMOs write rd after the memory     *)
(* access succeeds, the CSR handlers write rd after csr_write).            *)
NoWritebackOnTrap ==
    [][phase = "exec" /\ pendingException' # -1 => regs' = regs]_vars

(* An sc that succeeds (the reservation is consumed) stores to the         *)
(* reserved address, and no store by any hart has reached that address   *)
(* since the lr that made the reservation: load_res and                    *)
(* load_res_memseqno against the global memseqno (line 2396).              *)
ReservationSound ==
    [][loadRes # NoRes /\ loadRes' = NoRes =>
         /\ loadRes \notin dirty
         /\ dirty' = dirty \cup {loadRes}]_vars

(* minstret counts the instructions retired (spec.md: the core returns     *)
(* and accounts the number of instructions actually retired); checked      *)
(* between calls.                                                          *)
MinstretCountsRetired == phase = "idle" => minstret = retired

(* The value riscv_cpu_interp returns is the number of instructions the    *)
(* call retired.                                                           *)
ReturnCountIsRetired ==
    phase = "idle" => lastReturn = retired - retiredAtCall

(* A store instruction writes memory and no integer register.              *)
StoreWritesNoRegister == [][Store \/ AndesGpStore => regs' = regs]_vars

(* A hart that executed wfi stays suspended, retiring nothing, until an    *)
(* enabled interrupt is pending (spec.md, WFI power-down).                 *)
WfiSuspends == [][powerDown /\ ~irq => retired' = retired]_vars


(* While STF macro tracing is active, riscv_cpu_interp returns from     *)
(* jump_insn after every completed instruction (line 3003), so no call   *)
(* is still running once it has retired an instruction with tracing on:  *)
(* the driver then writes one stf_trace_element per instruction.  A call *)
(* that starts tracing returns on the START instruction itself.          *)
StfStepPerCall ==
    stfActive /\ phase # "idle" => retired = retiredAtCall
=============================================================================
