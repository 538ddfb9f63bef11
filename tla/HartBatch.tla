------------------------------ MODULE HartBatch ------------------------------
(***************************************************************************)
(* What one call of the execution engine promises its caller, seen only    *)
(* between calls (spec.md, "Core execution" and the description of         *)
(* riscv_cpu_interp64): the caller asks for n instructions; the call       *)
(* retires some r <= n of them; the hart's instruction counter advances by *)
(* exactly r.  requested is the sum of the budgets handed out, retired the *)
(* number of instructions that took effect.                                *)
(***************************************************************************)
EXTENDS Naturals

CONSTANTS MaxBatch, MaxInsns

VARIABLES insn_counter, retired, requested

vars == <<insn_counter, retired, requested>>

Init == insn_counter = 0 /\ retired = 0 /\ requested = 0

(* One call with budget n.                                                 *)
RunBatch(n) ==
    /\ requested + n <= MaxInsns
    /\ requested' = requested + n
    /\ \E r \in 0..n : /\ insn_counter' = insn_counter + r
                       /\ retired' = retired + r

Next == \E n \in 1..MaxBatch : RunBatch(n)

Spec == Init /\ [][Next]_vars

=============================================================================
