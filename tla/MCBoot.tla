------------------------------- MODULE MCBoot -------------------------------
(***************************************************************************)
(* Start-up instances.  ROM_BASE_ADDR, BOOT_BASE_ADDR and KERNEL_OFFSET   *)
(* are defined in riscv_machine.h, which is not in the tree; the values    *)
(* are those of the upstream header (0x10000, 0x10000, 2 MiB), and the     *)
(* properties depend only on the ROM sitting below 2^31 and on the kernel  *)
(* offset being below the larger RAM size.                                  *)
(*                                                                         *)
(* Two families of parameters: one to three harts booting each RAM base   *)
(* generate_bootrom knows, from a raw firmware (the harts' interleavings); *)
(* and one hart on the 0x80000000 base, or on a base generate_bootrom     *)
(* refuses, with every kind of firmware, image sizes on both sides of     *)
(* each check of copy_kernel, a RAM size below KERNEL_OFFSET and one      *)
(* above it, and each way of getting a boot ROM; and the images main    *)
(* loads itself when the command-line path is one.                        *)
(***************************************************************************)
EXTENDS Boot

MCRomBase      == 65536
MCBootBase     == 65536
MCKernelOffset == 2097152

MiB == 1048576

P(n, b, size, bios, seg, entry, fw, k, i, br, opens, compact) ==
    [ncpus |-> n, base |-> b, baseLow |-> b[1] % 4096, size |-> size, bios |-> bios,
     elfBootSeg |-> seg, elfEntry |-> entry, fwLen |-> fw, kernelLen |-> k, initrdLen |-> i,
     bootrom |-> br, bootromOpens |-> opens, compact |-> compact, viaPath |-> FALSE]

KnownBases == {Base80000000, Base8000000000, BaseC000000000}

(* A base generate_bootrom refuses: 0x40000000. *)
OtherBase == ShlVal(Val(1), 30)

BootFamily(compact) ==
    {P(n, b, 4 * MiB, "raw", FALSE, FALSE, 4096, MiB, 5000, FALSE, FALSE, compact) :
        n \in 1..3, b \in KnownBases}

CopyFamily ==
    {P(1, b, size, bios, seg, entry, fw, k, i, br, opens, FALSE) :
        b \in {Base80000000, OtherBase}, size \in {MiB, 4 * MiB},
        bios \in {"none", "elf", "hex", "raw"}, seg \in BOOLEAN, entry \in BOOLEAN,
        fw \in {4096, 5 * MiB}, k \in {0, MiB, 3 * MiB}, i \in {0, 5000, 3 * MiB, 5 * MiB},
        <<br, opens>> \in {<<FALSE, FALSE>>, <<TRUE, TRUE>>, <<TRUE, FALSE>>}}

(* An ELF, or a hex text without the "0x" prefix, given as the command-  *)
(* line path: the faked config's 256 MiB at 0x80000000, no kernel.        *)
PathFamily ==
    {[q EXCEPT !.viaPath = TRUE] :
        q \in {P(1, Base80000000, 256 * MiB, bios, seg, entry, 4096, 0, 0, FALSE, FALSE, FALSE) :
                 bios \in {"elf", "hexbare"}, seg \in BOOLEAN, entry \in BOOLEAN}}

MCParams == BootFamily(FALSE) \cup CopyFamily \cup PathFamily

(* --compact_bootrom on each known base. *)
MCParamsCompact == BootFamily(TRUE)

(* --memory_addr 0x80000800 with a --bootrom file and an initrd as large  *)
(* as the RAM.                                                             *)
MCParamsUnaligned ==
    {P(1, AddVal(Base80000000, Val(2048)), 4 * MiB, "raw", FALSE, FALSE, 4096, 0, i, TRUE, TRUE, FALSE) :
        i \in {5000, 4 * MiB}}
=============================================================================
