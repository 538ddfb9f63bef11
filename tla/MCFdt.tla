------------------------------- MODULE MCFdt --------------------------------
(***************************************************************************)
(* The machines riscv_build_fdt is checked for: one to three harts (the   *)
(* phandles of the harts' controllers and the PLIC depend on the count),  *)
(* each RAM base generate_bootrom accepts (their hex digit counts differ,  *)
(* so the memory node's name pads differently), none to two virtio         *)
(* devices, an empty and a non-empty command line (a fresh and a padded    *)
(* string), with and without an initrd.  The CLINT, PLIC, virtio and UART  *)
(* bases are the fixed addresses of riscv_machine.cpp's memory map.        *)
(***************************************************************************)
EXTENDS Fdt

MCMachines ==
    {[ncpus |-> n, ramBase |-> rb, clint |-> Addr(1, 25), plic |-> Addr(3, 26),
      virtio |-> [i \in 1..v |-> Addr(262160 + i - 1, 12)],
      uart |-> <<Addr(21, 26), Addr(5377, 18)>>, misa |-> 8, cmdline |-> c, initrd |-> b] :
        n \in 1..3, rb \in {Addr(1, 31), Addr(1, 39), Addr(3, 38)}, v \in 0..2,
        c \in {"", "console=hvc0"}, b \in BOOLEAN}
=============================================================================
