------------------------------- MODULE Driver -------------------------------
(***************************************************************************)
(* The execution driver of src/src/majordomo.cpp: main's do-while loop     *)
(* over rounds, each round calling iterate_core for every hart in turn;    *)
(* iterate_core's budget throttling, maxinsns accounting and STF           *)
(* instruction-number tracing (stf_trace_trigger_insn, stf_trace_element   *)
(* in src/src/majordomo_stf.cpp); and virt_machine_run                     *)
(* (src/src/dromajo_main.cpp), which runs the core and computes            *)
(* keep_going.  A call of riscv_cpu_interp64 is taken by its contract      *)
(* (HartBatch): it retires some r <= n of the n instructions it is given,  *)
(* and may end the hart (a shutdown ecall).  The STF trace is modelled     *)
(* in both modes: instruction-number tracing (stf_trace_trigger_insn,      *)
(* called by iterate_core) and macro tracing (stf_trace_trigger, called by *)
(* the core at jump_insn after every completed instruction, so here a      *)
(* property of the batch's last completed instruction), with the STF       *)
(* writer's open/close and the records handed to it.  Record payloads      *)
(* (register and memory values, opcodes) are abstracted to their kind.     *)
(***************************************************************************)
EXTENDS Naturals, FiniteSets, Sequences

CONSTANTS NCpus,            \* m->ncpus
          Request,          \* n_cycles_request
          MaxInsns,         \* --maxinsns
          ExeTrace,         \* --exe_trace (a value above every count: off)
          Interactive,      \* m->common.interactive
          StfModes,         \* "off", "insn" (--stf_insn_num_tracing), "macro"
          StfInsnStart,     \* --stf_insn_start
          StfInsnLength,    \* --stf_insn_length
          StfExitOnStop     \* --stf_exit_on_stop_opc

ASSUME StfModes \subseteq {"off", "insn", "macro"} /\ StfModes # {}

Harts == 0..(NCpus - 1)

VARIABLES
    hart,          \* the loop index i of main's for over harts; NCpus: round over
    running,       \* FALSE once the do-while has exited
    keepGoing,     \* keep_going, or-ed over the round
    nActual,       \* n_cycles_actual, summed over the round
    totalCount,    \* total_inst_count
    maxinsns,      \* m->common.maxinsns
    numExecuted,   \* m->common.num_executed
    exeTrace,      \* m->common.exe_trace
    stfActive,     \* m->common.stf_insn_tracing_active
    stfNumTraced,  \* m->common.stf_num_traced
    exitPending,   \* m->common.stf_has_exit_pending
    terminated,    \* riscv_terminated(cpu_state[h])
    retired,       \* ghost: instructions the cores really retired
    granted,       \* ghost: budgets handed to riscv_cpu_interp64
    lastBudget,    \* ghost: the n_cycles of the latest iterate_core
    traceStarted,  \* ghost: stf_trace_trigger_insn has started a trace
    htifExit,      \* ghost: a hart has written an exit to the HTIF tohost word
    stfMode,       \* the STF configuration: --stf_trace off, insn or macro mode
    macroActive,   \* m->common.stf_macro_tracing_active
    isStart,       \* m->common.stf_is_start_opc
    isStop,        \* m->common.stf_is_stop_opc
    pendingExc,    \* cpu_state[h]->pending_exception # -1
    writerOpen,    \* (bool)stf_writer
    file,          \* the records handed to stf_writer since it was opened
    regionRetired  \* ghost: retired traceable instructions since the open

vars == <<hart, running, keepGoing, nActual, totalCount, maxinsns, numExecuted,
          exeTrace, stfActive, stfNumTraced, exitPending, terminated, retired,
          granted, lastBudget, traceStarted, htifExit, stfMode, macroActive,
          isStart, isStop, pendingExc, writerOpen, file, regionRetired>>

stf == <<macroActive, isStart, isStop, pendingExc, writerOpen, file, regionRetired>>

Init ==
    /\ hart = 0
    /\ running = TRUE
    /\ keepGoing = FALSE
    /\ nActual = 0
    /\ totalCount = 0
    /\ maxinsns = MaxInsns
    /\ numExecuted = 0
    /\ exeTrace = ExeTrace
    /\ stfActive = FALSE
    /\ stfNumTraced = 0
    /\ exitPending = FALSE
    /\ terminated = [h \in Harts |-> FALSE]
    /\ retired = 0
    /\ granted = 0
    /\ lastBudget = 0
    /\ traceStarted = FALSE
    /\ htifExit = FALSE
    /\ stfMode \in StfModes
    /\ macroActive = FALSE /\ isStart = FALSE /\ isStop = FALSE
    /\ pendingExc = [h \in Harts |-> FALSE]
    /\ writerOpen = FALSE
    /\ file = <<>>
    /\ regionRetired = 0

-----------------------------------------------------------------------------
(* stf_trace_trigger_insn: start when num_executed equals stf_insn_start,  *)
(* stop when stf_num_traced equals stf_insn_length.                        *)
StfStart == stfMode = "insn" /\ ~stfActive /\ numExecuted = StfInsnStart
StfStopPast == stfMode = "insn" /\ stfActive /\ stfNumTraced > StfInsnLength
StfStop  == stfMode = "insn" /\ stfActive /\ stfNumTraced = StfInsnLength

(* The budget after the STF throttle: one instruction while tracing.       *)
ThrottleNever(active) == Request

Throttle(active) == IF active THEN 1 ELSE Request

(* maxinsns after a budget of n: clamped at 0 rather than wrapping.       *)
MaxinsnsAfterNoClamp(n) == maxinsns - n

MaxinsnsAfter(n) == IF maxinsns < n THEN 0 ELSE maxinsns - n

(* virt_machine_run's result after the core ran: FALSE when the hart's    *)
(* HTIF tohost word holds an exit (the hart is not terminated by it), else *)
(* !riscv_terminated && maxinsns > 0 (iterate_core returned early when     *)
(* maxinsns reached 0, so that conjunct holds here).                       *)
VirtMachineRun(h, tohostExit) == ~tohostExit /\ ~terminated'[h]

(* How a call of riscv_cpu_interp64 ends: its last instruction completed *)
(* ("done"), was an ecall (retired, pending_exception set), trapped and   *)
(* was cancelled, or an interrupt was taken at entry and nothing ran.      *)
(* last is the opcode class stf_trace_trigger saw on the last completed   *)
(* instruction ("none": no call of it in this batch).                      *)
Hows == {"done", "ecall", "cancel", "interrupt"}
Opcs == {"none", "start", "stop", "other"}

(* The outcomes a call of budget n can have on hart h, r instructions      *)
(* retired.  Only macro mode calls stf_trace_trigger; at an inactive START *)
(* it returns at once, so START is then the batch's last instruction; a    *)
(* CSR write that leaves through done_interp completes without it.  A     *)
(* terminated hart is called and runs like any other: neither iterate_core *)
(* nor riscv_cpu_interp tests terminate_simulation.                        *)
CoreOutcome(h, n, how, last, r) ==
    /\ r \in 0..n
    /\ (how = "interrupt") => (r = 0 /\ last = "none")
    /\ (how \in {"done", "ecall"}) => r >= 1
    /\ (how = "cancel") => r < n
    /\ ((how = "ecall" /\ r = 1) \/ (how = "cancel" /\ r = 0)) => last = "none"
    /\ (stfMode # "macro") => last = "none"
    /\ (last = "start" /\ ~macroActive) => how = "done"

(* stf_record_state: a ForcePC record, with the integer and FP register   *)
(* state when --stf_trace_register_state is given (one "state" record).   *)
StateRecord == <<"state">>

(* The records of one traced instruction: memory access and content       *)
(* records (stf_emit_memory_records), register records                    *)
(* (stf_emit_register_records), the opcode record (one "insn" record).    *)
InsnGroup == <<"insn">>

(* stf_trace_open: open the writer unless it is open, which starts a new  *)
(* file with its header, then stf_record_state's ForcePC (and register-    *)
(* state) records.                                                         *)
TraceOpen(f, open) == (IF open THEN f ELSE <<"header">>) \o StateRecord

(* stf_trace_trigger at jump_insn: START when inactive opens the trace,   *)
(* STOP when active closes it (stf_trace_close, if the writer is open).   *)
MacroStart(last) == ~macroActive /\ last = "start"
MacroStop(last)  == macroActive /\ last = "stop"

(* stf_macro_tracing_active after the batch: set at START, cleared at      *)
(* STOP (the variant leaves it set at STOP).                               *)
MacroActiveAfterKeep(start, stop) == macroActive \/ start

MacroActiveAfter(start, stop) == (macroActive \/ start) /\ ~stop

(* stf_trace_element: stf_num_traced counts an instruction run at a        *)
(* traceable privilege and address space with no pending exception; its   *)
(* records are written unless skip_record: an instruction classified       *)
(* ctf_nop whose pc is not last_pc + width, which is the case after an     *)
(* interrupt taken at entry (info reset to ctf_nop, pc at the handler).    *)
TraceElement(called, traceable, pend) ==
    IF called /\ traceable /\ ~pend THEN stfNumTraced + 1 ELSE stfNumTraced

InsnRecordsNoSkip(called, traceable, pend, how) ==
    IF called /\ traceable /\ ~pend THEN InsnGroup ELSE <<>>

InsnRecords(called, traceable, pend, how) ==
    IF called /\ traceable /\ ~pend /\ how # "interrupt" THEN InsnGroup ELSE <<>>

(* iterate_core for hart h, with the virt_machine_run it calls, and the    *)
(* accumulation of its result by main's loop.                              *)
(* num_executed += n_cycles.  Its one reader is the test                 *)
(* num_executed == stf_insn_start, to which every count past              *)
(* stf_insn_start looks alike: the count saturates at stf_insn_start + 1  *)
(* (the bound NumExecutedCap), which keeps a loop that never ends finite. *)
NumExecutedCap == StfInsnStart + 1

NumExecutedAfter(n) ==
    IF numExecuted + n >= NumExecutedCap THEN NumExecutedCap ELSE numExecuted + n

IterateCore ==
    /\ running /\ hart < NCpus
    /\ LET h      == hart
           active == (StfStart \/ stfActive) /\ ~StfStop
           exit   == StfStop /\ StfExitOnStop
           open1  == IF StfStart THEN TRUE ELSE IF StfStop THEN FALSE ELSE writerOpen
           file1  == IF StfStart THEN TraceOpen(file, writerOpen) ELSE file
           n0     == Throttle(active \/ macroActive)
           n      == IF exeTrace < n0 \/ Interactive THEN 1 ELSE n0
           mi     == MaxinsnsAfter(n)
       IN  /\ stfActive' = active
           /\ traceStarted' = (traceStarted \/ StfStart)
           /\ exeTrace' = IF exeTrace < n0 \/ Interactive THEN exeTrace ELSE exeTrace - n0
           /\ numExecuted' = NumExecutedAfter(n)
           /\ maxinsns' = mi
           /\ lastBudget' = n
           /\ hart' = hart + 1
           /\ nActual' = nActual + (IF mi = 0 THEN 0 ELSE n)
           /\ IF mi = 0
              THEN /\ UNCHANGED <<keepGoing, retired, granted, stfNumTraced, htifExit,
                                 macroActive, isStart, isStop, pendingExc>>
                   /\ terminated' = [terminated EXCEPT ![h] = @ \/ exit]
                   /\ exitPending' = (exitPending \/ exit)
                   /\ writerOpen' = open1 /\ file' = file1
                   /\ regionRetired' = IF StfStart THEN 0 ELSE regionRetired
              ELSE \E r \in 0..n, how \in Hows, last \in Opcs,
                      shutdown, traceable, tohost \in BOOLEAN :
                   LET start2 == MacroStart(last)
                       stop2  == MacroStop(last)
                       exit2  == exit \/ (stop2 /\ StfExitOnStop)
                       pend   == IF how = "interrupt" THEN pendingExc[h]
                                 ELSE how \in {"ecall", "cancel"}
                       startF == IF last = "none" THEN isStart ELSE last = "start"
                       stopF  == IF last = "none" THEN isStop ELSE last = "stop"
                       macro2 == MacroActiveAfter(start2, stop2)
                       called == (macro2 /\ ~startF /\ ~stopF) \/ active
                       file2  == IF start2 THEN TraceOpen(file1, open1) ELSE file1
                       recs   == InsnRecords(called, traceable, pend, how)
                   IN
                   /\ CoreOutcome(h, n, how, last, r)
                   /\ retired' = retired + r
                   /\ granted' = granted + n
                   /\ terminated' = [terminated EXCEPT ![h] = @ \/ exit2 \/ shutdown]
                   /\ exitPending' = (exitPending \/ exit2)
                   /\ keepGoing' = (keepGoing \/ VirtMachineRun(h, tohost))
                   /\ htifExit' = (htifExit \/ tohost)
                   /\ macroActive' = macro2
                   /\ isStart' = startF /\ isStop' = stopF
                   /\ pendingExc' = [pendingExc EXCEPT ![h] = pend]
                   /\ writerOpen' = IF start2 THEN TRUE ELSE IF stop2 THEN FALSE ELSE open1
                   /\ stfNumTraced' = TraceElement(called, traceable, pend)
                   /\ file' = file2 \o recs
                   /\ regionRetired' =
                        (IF StfStart \/ start2 THEN 0 ELSE regionRetired)
                        + (IF called /\ traceable /\ how \in {"done", "ecall"} THEN 1 ELSE 0)
    /\ UNCHANGED <<running, totalCount, stfMode>>

(* The end of a round: add the round's count and test the loop condition. *)
EndRoundNoKeep ==
    /\ running /\ hart = NCpus
    /\ totalCount' = totalCount + nActual
    /\ running' = ~exitPending
    /\ hart' = 0
    /\ keepGoing' = FALSE
    /\ nActual' = 0
    /\ UNCHANGED <<maxinsns, numExecuted, exeTrace, stfActive, stfNumTraced,
                   exitPending, terminated, retired, granted, lastBudget, traceStarted,
                   htifExit, stfMode, stf>>

EndRound ==
    /\ running /\ hart = NCpus
    /\ totalCount' = totalCount + nActual
    /\ running' = (keepGoing /\ ~exitPending)
    /\ hart' = 0
    /\ keepGoing' = FALSE
    /\ nActual' = 0
    /\ UNCHANGED <<maxinsns, numExecuted, exeTrace, stfActive, stfNumTraced,
                   exitPending, terminated, retired, granted, lastBudget, traceStarted,
                   htifExit, stfMode, stf>>

(* main has left the loop: it writes total_inst_count and the satp to     *)
(* files, returns 1 for a benchmark exit code, and reports the count.      *)
Exited == ~running /\ UNCHANGED vars

Next == IterateCore \/ EndRound \/ Exited

Spec == Init /\ [][Next]_vars

(* main is one thread that, outside interactive mode, never blocks between *)
(* two iterate_core calls: whichever step of the loop is next is taken.     *)
FairSpec == Spec /\ WF_vars(Next)

-----------------------------------------------------------------------------
(* With a finite --maxinsns, main's do-while loop ends: once maxinsns is   *)
(* used up iterate_core returns keep_going = 0 for every hart, whatever the *)
(* harts, HTIF and the STF triggers did before.                             *)
LoopEnds == <>~running

TypeOK ==
    /\ hart \in 0..NCpus
    /\ running \in BOOLEAN /\ keepGoing \in BOOLEAN
    /\ {nActual, totalCount, maxinsns, numExecuted, exeTrace, stfNumTraced,
        retired, granted, lastBudget} \subseteq Nat
    /\ stfActive \in BOOLEAN /\ exitPending \in BOOLEAN /\ traceStarted \in BOOLEAN
    /\ htifExit \in BOOLEAN
    /\ terminated \in [Harts -> BOOLEAN]
    /\ stfMode \in StfModes
    /\ {macroActive, isStart, isStop, writerOpen} \subseteq BOOLEAN
    /\ pendingExc \in [Harts -> BOOLEAN]
    /\ file \in Seq({"header", "state", "insn"})
    /\ regionRetired \in Nat

(* iterate_core throttles the budget to one instruction whenever it will  *)
(* record the instruction in the STF trace (spec.md, execution driver), so *)
(* every instruction traced by stf_trace_element ran in a batch of one.    *)
TracedSingleStep == [][stfNumTraced' # stfNumTraced => lastBudget' = 1]_vars

(* stf_trace_trigger_insn stops the trace once stf_insn_length             *)
(* instructions have been recorded: no hart records more.  (In macro mode  *)
(* stf_insn_length is not used.)                                           *)
StfTracesAtMostLength == stfMode = "insn" => stfNumTraced <= StfInsnLength

(* The driver's total_inst_count, reported as "Instruction Count", is the  *)
(* number of instructions the cores retired (spec.md: the core returns the *)
(* count and the driver aggregates it).                                    *)
TotalCountIsRetired == ~running => totalCount = retired

(* --maxinsns "terminates execution after a number of instructions": when *)
(* the loop ends with no hart stopped otherwise, the cores were handed     *)
(* that many instructions.                                                 *)
MaxinsnsBudgetRun ==
    (~running /\ ~exitPending /\ ~htifExit /\ \A h \in Harts : ~terminated[h])
        => granted = MaxInsns

(* --stf_insn_start "starts stf tracing after this number of              *)
(* instructions": once that many have been executed, the trace has begun.  *)
StfStartsAtInsn ==
    (stfMode = "insn" /\ numExecuted > StfInsnStart) => traceStarted

(* stf_trace_element hands its records to stf_writer, which              *)
(* stf_trace_close has closed at a STOP opcode executed inside the core   *)
(* or at stf_insn_length: a step that writes a record ends with the writer *)
(* open, so no instruction record is written to a closed writer.           *)
RecordsOnlyToOpenWriter ==
    [][Len(file') > Len(file) => writerOpen']_vars

(* skip_record in stf_trace_element: an instruction record is written     *)
(* only for an instruction that ran.  A call interrupted at entry runs     *)
(* nothing, yet iterate_core still calls stf_trace_element with the pc    *)
(* and opcode it read before the call; the record must be skipped.         *)
RecordsAreRetired ==
    [][(Len(file') > Len(file) /\ file'[Len(file')] = "insn") => retired' > retired]_vars

(* spec.md (trace emission): every retired instruction is emitted, an      *)
(* exception with its cause: while tracing, the file holds one instruction *)
(* record for each traceable instruction retired since it was opened.      *)
TraceHoldsEveryRetired ==
    Len(SelectSeq(file, LAMBDA x : x = "insn")) = regionRetired

=============================================================================
