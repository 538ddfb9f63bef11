------------------------------ MODULE MCInterp ------------------------------
(***************************************************************************)
(* Model-checking instance of Interp: x0 and two writable registers, two  *)
(* register values (0 and 1, the two results of sc), two data addresses   *)
(* (model values in the .cfg), batches of up to two instructions and a    *)
(* --maxinsns of four, so that a batch holds an instruction that sets val *)
(* followed by one that uses it, and a second call can follow a first.    *)
(***************************************************************************)
EXTENDS Interp, TLC

MCRegs     == {0, 1, 2}
MCVals     == {0, 1}
MCMaxBatch == 2
MCMaxInsns == 4
MCMaxMemSeq == 2
MCNoPendingInterrupt == -1

(* The two addresses are interchangeable.                                  *)
MCSymmetry == Permutations(Addrs)

=============================================================================
