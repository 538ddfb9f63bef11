-------------------------------- MODULE Boot --------------------------------
(***************************************************************************)
(* Machine start-up, from virt_machine_init to the harts leaving the boot *)
(* ROM: virt_machine_init and then virt_machine_load (riscv_machine.cpp)  *)
(* each run copy_kernel (bin_utils.cpp), which loads the firmware, the    *)
(* kernel and the initrd into RAM, writes the boot ROM (generate_bootrom) *)
(* or loads one from a file, places the device tree (riscv_build_fdt, see *)
(* Fdt) after it, and puts every hart in debug mode.  The harts then run  *)
(* the ROM from the reset vector, interleaved, until its dret.            *)
(*                                                                         *)
(* Addresses in RAM are byte offsets from ram_base_addr; the ROM addresses *)
(* the harts compute are 64-bit values (BootRom's limbs).  The images are *)
(* kept as their byte ranges, not their bytes.                             *)
(***************************************************************************)
EXTENDS Integers, Sequences, FiniteSets, BootRom

CONSTANTS
    RomBase,       \* ROM_BASE_ADDR
    BootBase,      \* BOOT_BASE_ADDR, the reset vector
    KernelOffset,  \* KERNEL_OFFSET
    Params         \* the VirtMachineParams the machine is started with

VARIABLES
    p,       \* the parameters of this run
    phase,   \* "init", "load" (virt_machine_init returned), "loaded" (virt_machine_main
             \* returned the machine), "booting", "failed" (it returned NULL), "crashed"
    m,       \* the RISCVMachine fields copy_kernel sets
    harts    \* the harts, riscv_cpu_init's state and what the ROM did to it

vars == <<p, phase, m, harts>>

Region(what, lo, len) == [what |-> what, lo |-> lo, hi |-> lo + len]

NoMachine == [bootromLoaded |-> FALSE, initrdStart |-> 0, rom |-> "none", words |-> <<>>,
              fdtOff |-> -1, regions |-> {}, loadedAs |-> "none"]
-----------------------------------------------------------------------------
(* load_elf_image: a PT_LOAD segment at BOOT_BASE_ADDR marks the boot ROM  *)
(* loaded; the firmware's segments are copied to RAM.                      *)
LoadElf(q, s) ==
    [s EXCEPT !.bootromLoaded = @ \/ q.elfBootSeg,
              !.regions = @ \cup {Region("firmware", 0, q.fwLen)},
              !.loadedAs = "elf"]

(* The first two bytes of the firmware buffer: "0x" for a hex text with  *)
(* the prefix ("hex"), two hex digits for one without ("hexbare", lines   *)
(* like "80000000 00000013"), 7f 'E' for an ELF, non-digits for a raw     *)
(* image.                                                                  *)
FwByte0(q) == CASE q.bios = "hex" -> "0" [] q.bios = "hexbare" -> "8"
                [] q.bios = "elf" -> "7f" [] OTHER -> "?"
FwByte1(q) == CASE q.bios = "hex" -> "x" [] q.bios = "hexbare" -> "0"
                [] q.bios = "elf" -> "E" [] OTHER -> "?"

HexDigits == {"0", "1", "2", "3", "4", "5", "6", "7", "8", "9",
              "a", "b", "c", "d", "e", "f", "A", "B", "C", "D", "E", "F"}

(* load_elf_and_fake_the_config: a RISC-V ELF, or a buffer starting with  *)
(* two hex digits, given as the command-line path is taken as the bios of *)
(* a faked config (256 MiB at RAM_BASE_ADDR); otherwise the path is read  *)
(* as a config file.  virt_machine_main is then elf_based.                 *)
FakesConfig(q) ==
    q.bios = "elf" \/ (FwByte0(q) \in HexDigits /\ FwByte1(q) \in HexDigits)

ElfBased(q) == q.viaPath /\ FakesConfig(q)

(* copy_kernel's test for a hex text: fw_buf[0] == '0' && fw_buf[0] == 'x'. *)
IsHexImage(q) == q.fwLen > 2 /\ FwByte0(q) = "0" /\ FwByte0(q) = "x"

(* The firmware: too big fails; an ELF is loaded (twice), and without a   *)
(* boot segment its entry point must be the RAM base; a hex text is       *)
(* parsed; anything else is copied raw to the RAM base.                   *)
LoadFirmware(q, s) ==
    IF q.fwLen > q.size THEN [ret |-> 1, s |-> s]
    ELSE IF q.bios = "elf"
         THEN LET s1 == LoadElf(q, s)
              IN IF ~s1.bootromLoaded /\ ~q.elfEntry THEN [ret |-> 1, s |-> s1]
                 ELSE [ret |-> 0, s |-> LoadElf(q, s1)]
    ELSE IF IsHexImage(q)
         THEN [ret |-> 0, s |-> [s EXCEPT !.regions = @ \cup {Region("firmware", 0, q.fwLen)},
                                          !.loadedAs = "hex"]]
    ELSE [ret |-> 0, s |-> [s EXCEPT !.regions = @ \cup {Region("firmware", 0, q.fwLen)},
                                     !.loadedAs = "raw"]]

(* Without its first test the uint64 ram_size - KERNEL_OFFSET wraps for a *)
(* RAM not above KERNEL_OFFSET, and any kernel passes.                      *)
KernelFitsNoOffsetCheck(q) == q.size < KernelOffset \/ q.kernelLen <= q.size - KernelOffset

(* The kernel needs RAM past KERNEL_OFFSET and must fit in what is left; *)
(* the first test keeps the unsigned subtraction from wrapping.          *)
KernelFits(q) == q.size > KernelOffset /\ q.kernelLen <= q.size - KernelOffset

LoadKernel(q, s) ==
    IF q.kernelLen = 0 THEN [ret |-> 0, s |-> s]
    ELSE IF ~KernelFits(q) THEN [ret |-> 1, s |-> s]
    ELSE [ret |-> 0, s |-> [s EXCEPT !.regions = @ \cup {Region("kernel", KernelOffset, q.kernelLen)}]]

(* The initrd ends at the top of RAM, its start rounded down to 4 KiB;    *)
(* only a length above the RAM size is refused.                            *)
InitrdStart(q) == ((q.baseLow + q.size - q.initrdLen) \div 4096) * 4096 - q.baseLow

LoadInitrd(q, s) ==
    IF q.initrdLen = 0 THEN [ret |-> 0, s |-> s]
    ELSE IF q.initrdLen > q.size THEN [ret |-> 1, s |-> s]
    ELSE [ret |-> 0, s |-> [s EXCEPT !.initrdStart = InitrdStart(q),
                                     !.regions = @ \cup {Region("initrd", InitrdStart(q), q.initrdLen)}]]

(* Where copy_kernel puts the device tree, from the ROM's start. *)
FdtOffset(q, bootromSzBytes) ==
    (BootBase - RomBase) + (IF q.compact THEN bootromSzBytes ELSE 256)

(* Without a boot ROM from the firmware: one read from --bootrom, or the  *)
(* generated one with the device tree after it (riscv_build_fdt succeeds  *)
(* when no dtb file is named).                                             *)
LoadBootrom(q, s) ==
    IF s.bootromLoaded THEN [ret |-> 0, s |-> s]
    ELSE IF q.bootrom
         THEN IF q.bootromOpens THEN [ret |-> 0, s |-> [s EXCEPT !.rom = "file"]]
              ELSE [ret |-> -1, s |-> s]
    ELSE LET g == GenerateBootrom(q.ncpus, q.base)
         IN IF g.size < 0 THEN [ret |-> -1, s |-> s]
            ELSE [ret |-> 0, s |-> [s EXCEPT !.rom = "generated", !.words = g.words,
                                             !.fdtOff = FdtOffset(q, g.size)]]

(* copy_kernel: the steps in order, the first failure returned. *)
CopyKernel(q, s) ==
    LET s0 == [s EXCEPT !.initrdStart = 0]
        r1 == LoadFirmware(q, s0)
        r2 == LoadKernel(q, r1.s)
        r3 == LoadInitrd(q, r2.s)
        r4 == LoadBootrom(q, r3.s)
    IN CASE r1.ret # 0 -> r1
         [] r2.ret # 0 -> r2
         [] r3.ret # 0 -> r3
         [] OTHER      -> r4
-----------------------------------------------------------------------------
Init ==
    /\ p \in Params
    /\ phase = "init"
    /\ m = NoMachine
    /\ harts = <<>>

(* virt_machine_init: the harts at the reset vector, then copy_kernel;    *)
(* no bios, or copy_kernel failing, returns NULL.  riscv_set_debug_mode   *)
(* at copy_kernel's end leaves the harts in debug mode, as created.        *)
VirtMachineInit ==
    /\ phase = "init"
    /\ harts' = [h \in 0..(p.ncpus - 1) |-> Hart(h, Val(BootBase))]
    /\ IF p.bios = "none" THEN phase' = "failed" /\ UNCHANGED m
       ELSE LET r == CopyKernel(p, m)
            IN m' = r.s /\ phase' = IF r.ret = 0 THEN "load" ELSE "failed"
    /\ UNCHANGED p

(* virt_machine_load, when the machine was set up from a config file:    *)
(* copy_kernel again, on the machine init left.                           *)
VirtMachineLoad ==
    /\ phase = "load"
    /\ ~ElfBased(p)
    /\ LET r == CopyKernel(p, m)
       IN m' = r.s /\ phase' = IF r.ret = 0 THEN "loaded" ELSE "failed"
    /\ UNCHANGED <<p, harts>>

(* virt_machine_main's elf_based branch instead: the path's buffer is    *)
(* loaded again, by load_elf_image if it is an ELF and by load_hex_image  *)
(* otherwise (the words go to the addresses the text names, kept here as  *)
(* the firmware range), and every hart is put in debug mode.             *)
MainLoadImages ==
    /\ phase = "load"
    /\ ElfBased(p)
    /\ m' = IF p.bios = "elf" THEN LoadElf(p, m) ELSE [m EXCEPT !.loadedAs = "hex"]
    /\ harts' = [h \in DOMAIN harts |-> [harts[h] EXCEPT !.debug = TRUE]]
    /\ phase' = "loaded"
    /\ UNCHANGED p

(* The instruction at a ROM address: a word of the generated ROM, or 0. *)
RomWord(pc) ==
    LET i == (Small(pc) - BootBase) \div 4 + 1
    IN IF pc[3] = 0 /\ pc[4] = 0 /\ Small(pc) >= BootBase /\ (Small(pc) - BootBase) % 4 = 0
          /\ i \in 1..Len(m.words)
       THEN m.words[i] ELSE 0

(* A hart in debug mode, powered up and not trapped, runs one instruction *)
(* of the generated ROM (the driver steps every hart in turn).             *)
HartStep(h) ==
    /\ phase = "booting"
    /\ m.rom = "generated"
    /\ h \in DOMAIN harts
    /\ harts[h].debug /\ ~harts[h].powerDown /\ harts[h].trap = "ok"
    /\ harts' = [harts EXCEPT ![h] = Execute(@, RomWord(@.pc))]
    /\ UNCHANGED <<p, phase, m>>

(* main once virt_machine_main has returned: it reads m->common.simpoints *)
(* and simpoint_en_bbv before its test if (!m) return 1, so a set-up that *)
(* returned NULL dies on the read; a machine goes on to the loop.          *)
MainStart ==
    /\ phase \in {"loaded", "failed"}
    /\ phase' = IF phase = "failed" THEN "crashed" ELSE "booting"
    /\ UNCHANGED <<p, m, harts>>

(* Start-up over: it died, or no hart runs ROM code any more (left it,  *)
(* asleep, trapped, or in a ROM from a file, which is not modelled).      *)
Settled ==
    /\ \/ phase = "crashed"
       \/ phase = "booting" /\ \A h \in DOMAIN harts : ~ENABLED HartStep(h)
    /\ UNCHANGED vars

Next == VirtMachineInit \/ VirtMachineLoad \/ MainLoadImages \/ MainStart \/ (\E h \in DOMAIN harts : HartStep(h)) \/ Settled

Spec == Init /\ [][Next]_vars

HartIds == UNION {0..(q.ncpus - 1) : q \in Params}

(* The driver loop calls every hart's step in turn, so a hart that can    *)
(* run its next ROM instruction eventually does.                           *)
FairSpec == Spec /\ \A h \in HartIds : WF_vars(HartStep(h))
-----------------------------------------------------------------------------
TypeOK ==
    /\ phase \in {"init", "load", "loaded", "booting", "failed", "crashed"}
    /\ m.rom \in {"none", "file", "generated"}
    /\ \A h \in DOMAIN harts : harts[h].trap \in {"ok", "illegal"} /\ harts[h].priv \in 0..3

(* A hart leaves the generated ROM only by its dret, and then in M-mode   *)
(* at the RAM base, with a0 its hart id and a1 the address copy_kernel    *)
(* put the device tree at: what the firmware is entered with.  The ROM    *)
(* computes a1 from its own pc and s0 from the base by shifts, the tree's *)
(* place is computed by copy_kernel, and each hart reads mhartid itself.  *)
BootHandsFdt ==
    \A h \in DOMAIN harts :
        (m.rom = "generated" /\ ~harts[h].debug) =>
            /\ harts[h].pc = p.base
            /\ harts[h].priv = PRV_M
            /\ harts[h].x[10] = Val(h)
            /\ harts[h].x[11] = Val(RomBase + m.fdtOff)

(* Once the machine is booting from the generated ROM, every hart         *)
(* eventually leaves it: none parks in its wfi loop or traps on the way.  *)
HartsLeaveRom ==
    (phase = "booting" /\ m.rom = "generated") ~> (\A h \in DOMAIN harts : ~harts[h].debug)

(* Whatever copy_kernel accepted lies inside RAM: the firmware, the kernel *)
(* at KERNEL_OFFSET and the initrd rounded down from the top are each     *)
(* within [ram_base, ram_base + ram_size), by its checks alone.            *)
LoadsInRam ==
    phase \in {"load", "loaded", "booting"} => \A r \in m.regions : 0 <= r.lo /\ r.hi <= p.size

(* copy_kernel loads a firmware the way its format asks: an ELF through   *)
(* load_elf_image, a "0x..." hex text through load_hex_image, any other   *)
(* image copied raw.  (A text without the prefix is a raw image to       *)
(* copy_kernel; main parses it only when it is the command-line path.)    *)
FirmwareLoadedByFormat ==
    phase \in {"load", "loaded", "booting"} /\ p.bios # "hexbare" => m.loadedAs = p.bios

(* The images copy_kernel accepts do not overlap: the firmware at the RAM *)
(* base, the kernel at KERNEL_OFFSET and the initrd below the top of RAM  *)
(* each keep their bytes.                                                  *)
LoadsDisjoint ==
    phase \in {"load", "loaded", "booting"} =>
        \A r1, r2 \in m.regions : r1.what # r2.what => r1.hi <= r2.lo \/ r2.hi <= r1.lo

(* When set-up fails (no bios, an image copy_kernel refuses, a ROM it     *)
(* cannot generate), majordomo's main returns 1: virt_machine_main        *)
(* returns NULL and main tests it (majordomo.cpp 228).                     *)
SetupFailureExits == phase # "crashed"
=============================================================================
