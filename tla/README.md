# Model checking majordomo's execution engine

This directory holds TLA+ models of majordomo, a RISC-V simulator derived from
Dromajo. They are checked with TLC. `PROJECT.json` lists:

- every component, and whether it is modelled;
- every TLC run, and what it checks;
- the mutants that show each property can fail;
- the source lines behind every definition (`map`);
- the findings, and the hazards of the code.

## The system

| Part | Source | Role |
|---|---|---|
| Execution engine | `src/include/majordomo_template.h` (`riscv_cpu_interp64`) | Runs a batch of up to `n_cycles` instructions of one hart. Uses a code TLB for fast fetch and a slow path at page boundaries. Checks interrupts at the start of the batch and at each slow fetch. Leaves through one of the exit labels `jump_insn`, `illegal_insn`, `mmu_exception`/`exception`, `done_interp` and `the_end`. |
| Driver | `src/src/majordomo.cpp` (`iterate_core`, `main`), `src/src/dromajo_main.cpp` (`virt_machine_run`) | Hands each hart a budget in turn, with round robin over harts. Counts executed instructions against `maxinsns`. Stops on termination, on `maxinsns` or on the STF exit. |
| STF tracing | `src/src/majordomo_stf.cpp` | Starts and stops a trace. The macro trigger responds to special `add`/`or` opcodes seen at `jump_insn`. The instruction-number trigger responds to counts seen by the driver. |
| Interrupt controllers | `src/src/interrupts.cpp` | The CLINT (`msip`, `mtimecmp`) and the PLIC (pending, served, enable, claim and complete). These set bits of a hart's `mip`. |
| Machine | `src/src/riscv_machine.cpp` | Sets up the machine. Its `get_sleep_duration` raises MTIP when the timer expires. |
| ISA string parser | `src/src/riscv_isa.cpp` | `parse_isa_string` turns `--march` into `IsaConfigFlags`. Its only call, in `virt_machine_init`, is commented out. |
| CPU state, CSRs, MMU, traps | `riscv_cpu.cpp` | **Not in this tree.** It is known only through `spec.md` and through the calls the engine makes. |
| Device tree | `src/src/fdt.cpp` | `riscv_build_fdt` writes the flattened device tree through a small library (`fdt_put32`, `fdt_put_data`, nodes, properties, a shared string table, `fdt_output`). |
| Boot ROM and loading | `src/src/bin_utils.cpp` | `copy_kernel` places the firmware, kernel and initrd in RAM and generates (or loads) the boot ROM, followed by the device tree. `virt_machine_init` and `virt_machine_load` each call it. The harts start in debug mode at the ROM and leave it by `dret`. |
| Devices, options, trace text, STF library | `uart.cpp`, `block_device.cpp`, `network.cpp`, `term_io.cpp`, `options.cpp`, `zfa.cpp`, `dromajo_trace.cpp`, `stf_lib` | I/O, dead code and formatting. None of these is modelled; `PROJECT.json` gives the reason for each. |

These parts interact in a fixed cycle:

1. The driver calls the engine with a budget.
2. The engine returns the number of instructions it executed.
3. The driver adds that number to its count, then lets the other harts run.
4. Between calls, the timer and the devices change `mip`.

Memory stores by other harts also happen between calls. They invalidate the
hart's `lr`/`sc` reservation through `memseqno`.

## Modules

### `HartBatch.tla`: the abstract contract

This module states what a call promises, seen only between calls. The caller
asks for `n` instructions, and some `r <= n` of them retire. The hart's
`insn_counter` advances by exactly `r`. `requested` is the sum of the budgets,
bounded by `MaxInsns`.

### `Interp.tla`: the engine, one hart, with its environment

**State.**

| Variable | Code |
|---|---|
| `phase` | `"idle"` between calls; `"fetch"` at the top of the loop; `"exec"` after an instruction was fetched |
| `regs`, `val` | Integer registers and the handler-local `val`. Values are drawn from a two-element set. |
| `nCycles`, `addend`, `counterStart`, `executed` | `n_cycles`, `s->insn_counter_addend`, `insn_counter_start` and `insn_executed` |
| `insnCounter`, `minstret` | The counters. `mcycle` follows `minstret` everywhere, so one variable stands for both. |
| `codeValid` | Whether the next fetch takes the fast path |
| `pendingException`, `priv` | Trap state |
| `irq` | An enabled interrupt is pending |
| `powerDown` | `power_down_flag` |
| `terminated` | Termination |
| `loadRes`, `loadResSeq`, `memseqno` | The LR reservation, and the global store sequence number |
| `stfActive`, `exitPending` | The STF macro-trace state |

Ghost variables:

- `requested`, `callN`, `retired`, `retiredAtCall`, `lastReturn`;
- `dirty`: the addresses stored to since the reservation was taken.

**Actions.** Each action models one whole path of the C code, from the fetch or
from the handler through to its exit label. For example, `Csr` includes the
`csr_write` outcome, the counter update and `jump_insn`.

| Action | Path |
|---|---|
| `Call` | Entry to `riscv_cpu_interp64` (lines 654-711), including the interrupt check at entry |
| `FetchBudgetEnd`, `FetchTrigger`, `FetchInterrupt`, `FetchFault`, `FetchOk` | The top of the loop (lines 712-770) |
| `AluOp`, `UpperImm`, `Load`, `Store`, `AndesGpLoad`, `AndesGpStore`, `Branch`, `Jal`, `Jalr`, `Csr`, `Ecall`, `Ebreak`, `Sret`, `Mret`, `Wfi`, `WfiIllegal`, `SfenceVma`, `Fence`, `Illegal`, `Lr`, `Sc`, `Amo`, `FpMem`, `AluImm`, `AluImm32`, `Alu32`, `AndesCustom2`, `CQuadrant0`, `CQuadrant1`, `CQuadrant2`, `FpFused`, `FpOp` | One action per handler family. Each family's illegal encodings (`IllegalHere`), traps and writeback are alternatives of its action. Each action's comment cites its lines. |
| `SetMip` (timer), `ResetMip` (write of `mtimecmp`), `RemoteStore` (store by another hart), `Halt` (the driver's loop ends) | The environment between calls |

Common code is written as operators and shared between actions:

| Operator | Code |
|---|---|
| `TheEndFrom`, `TheEnd` | `the_end` |
| `Exception` | `exception` |
| `IllegalInsn` | `illegal_insn` |
| `DoneInterp` | `done_interp` |
| `AfterInsn` | `jump_insn`, with the STF macro trigger |
| `NextInsn`, `JumpInsn` | `NEXT_INSN`, `JUMP_INSN` |

The functions of `riscv_cpu.cpp` are modelled from `spec.md` by the outcomes
they can return: `raise_exception2` (`TrapPriv`), `target_write` and the
`memseqno` bump (`StoreMem`), and the initial state. These are the
`spec_modelled` entries of the map.

Configuration flags are constants, so that each run fixes one build or
configuration:

- `Cosim`;
- `ExtC` (misa.C);
- mstatus TW, TSR and TVM;
- `FsOn`;
- `IgnoreSbiShutdown`;
- `StfTrace`, `StfExitOnStop`.

`Interp` refines `HartBatch` through the mapping `Batch`. The mapping exposes
the counter only in phase `"idle"` and otherwise holds the value it had at the
start of the call.

### `MCInterp.tla`: the model-checking instance

| Constant | Value |
|---|---|
| Registers | x0, x1, x2 |
| Values | 0, 1 |
| Addresses | model values `A1` and `A2`, with symmetry |
| Budget per call | at most 2 |
| Total budget | at most 4 instructions |
| Stores | at most 2 |

### `BitArith.tla` and `MCBitArith.tla`: the arithmetic helpers

`BitArith` translates the static helpers at the top of
`majordomo_template.h` into operators over `XLEN`-bit numbers. The helpers are
`rol`/`rolw64`/`ror`/`roriw`/`rorw`, `div`/`divu`/`rem`/`remu`,
`clmul`/`clmulh`/`clmulr`, `ctzw`, the Andes `bfoz_oper`/`bfos_oper` with
`get_mask`, `clear_bits` and `repeat_bit`, and the `mulhu`/`mulh`/`mulhsu`
compiled without `HAVE_INT128`. It also covers the Zbb unary helpers `orc_b`,
`rev8`, `cpop`/`cpopw`, `clz`/`clzw` and `sext_b`/`sext_h`, with bytes as
`ByteW`-bit digits (`XLEN \div 4`, so the scaled word has four bytes).

- `XLEN = 8` stands for 64 and `Half = 4` for 32. Every constant the code
  writes as 32 or 64 is written as `Half` or `XLEN`.
- The loops are `RECURSIVE` operators (`XorLoop`).
- Undefined C behaviour is a set of outcomes. `ShiftOutcomes` covers a shift
  by the full width, which is masked on x86 and zero on some other hosts.
  `CtzOfZero` covers `__builtin_ctz(0)`, which can be any count.

Next to the code's operators are reference definitions taken from the ISA
text: `RotLRef`/`RotRRef` (rotation by repeated one-bit rotates), `DivRemRef`
(the quotient/remainder table of the M extension), `ClProduct` (the carry-less
product as a XOR over set bits), and `BfozRef`/`BfosRef` (the Andes field
definition). `ZbbUnaryMatchIsa` compares the unary helpers with bit-level
definitions.

`MCBitArith` enumerates every operand pair: `a` is chosen in `Init` and `b`
counts up. Its invariants compare the two sides for the current pair. The
enumeration ends, so its cfgs say `CHECK_DEADLOCK FALSE`.

### `IsaString.tla`: the `--march` parser

Strings are sequences of one-character strings. `validateInitialSegment` is
the base prefix (`BaseOf`, tried in the code's order) and the letters up to the
first `_` (`FirstSegment`), with `g` expanded (`GExpansion`). `setIsaConfigFlags`
is every character of the whole string that is a single-letter key, and every
multi-letter key that occurs as a substring. The reference `NamedExts` splits
the string at `_`. No passing run checks this module. `parse_isa_string`'s
only call, in `virt_machine_init`, is commented out, so the code never runs.
A reference built from the parser's own pieces would only restate them. The
side configuration `MCBitArith_isa.cfg` shows the latent bug
(`IsaOnlyNamed`). `MCBitArith` indexes 20,000 strings by its operand pair:
`rv32` or `rv64` followed by four pieces such as `g`, `ic`, `_zba`, `_zicsr` and
`_zfa`.

### `CmdLine.tla`: the command line of `virt_machine_main`

The `getopt_long` loop of `virt_machine_main` (`src/src/riscv_machine.cpp`) is
a pure function of `argv`, so it is the recursive operator `Getopt`, one call
per `getopt_long` return. A word of `argv` is one of a small alphabet. The
alphabet has `--ncpus`, `--maxinsns`, `--plic`, the two switches
`--ignore_sbi_shutdown` and `--stf_insn_num_tracing`, `-1`, `1`, `2`, `cfg`,
and the address pairs `h:h` and `h:`. The model gives for each word what the
code computes from it: `Atoll`, `Strtok`, `HasColon` and `HexPrefixed`.

- `LongOptions` is the `long_options` table: each name's option letter and
  whether it takes a required argument.
- `ApplyOption` is the `switch` for the modelled cases (`NcpusCase`,
  `MaxinsnsCase`, `PlicCase` and the two switches).
- GNU `getopt_long` skips non-option words, and a required argument is the
  next word whatever it is; `Getopt` does the same.
- `PostNcpus` and `PostMaxinsns` are the checks after the loop. The config
  path is the first skipped word (`PathIndex`).

`MCBitArith` decodes its operand pair into an `argv` of up to four words and
pairs it with one of two config files, so every such command line is parsed.
Its properties are the violated `SwitchesTakeNoValue` and `ParseNeverCrashes`.
No passing property is kept. The `ncpus` range is the guard at lines 434-438.
The config path not being taken as an option's value follows from `getopt`'s
argument skip. Each of these would restate what it checks.

### `Driver.tla`: main's loop over harts

| Variable | Code |
|---|---|
| `hart` | The loop index over `m->ncpus` |
| `keepGoing`, `nActual`, `totalCount` | `keep_going`, `n_cycles_actual`, `total_inst_count` |
| `maxinsns`, `numExecuted`, `exeTrace` | The `m->common` fields of the same names |
| `stfActive`, `stfNumTraced`, `exitPending` | `stf_insn_tracing_active`, `stf_num_traced`, `stf_has_exit_pending` |
| `terminated` | `riscv_terminated` per hart |

The STF writer state is in these variables:

| Variable | Code |
|---|---|
| `stfMode` | Which trigger the run uses: `--stf_insn_num_tracing`, macro opcodes, or none |
| `macroActive`, `isStart`, `isStop` | `stf_macro_tracing_active`, `stf_is_start_opc`, `stf_is_stop_opc` |
| `pendingExc` | Each hart's `pending_exception != -1` as `stf_trace_element` reads it |
| `writerOpen`, `file` | Whether `stf_writer` is open, and the records written, as a sequence of `"header"`, `"state"` and `"insn"` |

The ghost variables are `retired`, `granted`, `lastBudget`, `traceStarted` and
`regionRetired`. `regionRetired` counts the traceable instructions retired
since the writer was last opened.

`numExecuted` saturates at `NumExecutedCap` = `stf_insn_start + 1`. Its only
reader is `num_executed == stf_insn_start`, and every count past the start
gives that test the same answer.

- `IterateCore` is one call of `iterate_core`, in the code's order:
  1. `stf_trace_trigger_insn`;
  2. the STF throttle;
  3. `exe_trace`/`interactive`;
  4. `num_executed`;
  5. the `maxinsns` clamp, with the early return at 0;
  6. `virt_machine_run`;
  7. `stf_trace_element`.

  The core is taken by its `HartBatch` contract (`CoreOutcome`). It retires
  some `r <= n` and ends in one of four ways: done, `ecall`, cancelled trap,
  or interrupt at entry. In macro mode it may execute a START or STOP opcode
  (`MacroStart`, `MacroStop`), which opens the writer (`TraceOpen`) or closes
  it. Whether the instruction is traceable (its privilege level, its ASID) is
  a free choice. `InsnRecords` is what `stf_trace_element` appends: an
  instruction group unless there is a pending exception or `skip_record`.
- `EndRound` is the end of the `for`: it adds the round to `total_inst_count`
  and tests `keep_going && !stf_has_exit_pending`.
- `Exited` stutters once the loop has ended.
- A hart that writes an exit to its HTIF `tohost` word makes
  `virt_machine_run` return false without being terminated (ghost `htifExit`).
- A terminated hart is still called in the next round while another hart
  keeps the loop going, and it runs like any other hart. Neither
  `iterate_core` nor `riscv_cpu_interp` tests `terminate_simulation`.

### `Plic.tla`: PLIC, CLINT and the timer check

| Variable | Code |
|---|---|
| `pending`, `served` | `plic_pending_irq`, `plic_served_irq`, as sets of sources |
| `enable` | Each hart's `plic_enable_irq[0..1]` |
| `mip` | The bits of `mip` that these devices drive |
| `timecmp`, `rtc` | `timecmp` and `rtc_get_time` |
| `claimed` (ghost) | What each context has claimed and not completed |
| `written` (ghost) | Per hart, the last value the guest wrote to each 32-bit half of `mtimecmp` |

Each action is one register access or device call: `PlicSetIrq`,
`PlicEnableWrite`, `PlicClaim`, `PlicComplete`, `ClintMsipWrite`,
`ClintTimecmpWrite(h, half, val)`, `ClintMtimeWrite(half, val)` and
`SleepCheck` (`virt_machine_get_sleep_duration`).

- `clint_write` is modelled at word width: a guest writes the low or the high
  32-bit half of `mtimecmp` or `mtime` (`HalfValues`). Each half is
  `TimeWidth / 2` bits wide (`Lo`, `Hi`). The low-half write of `mtimecmp` is
  `timecmp & ~0xffffffff | val`. There `~0xffffffff` is a 32-bit `unsigned`,
  so the mask is 0 and the write clears the high half (`LoWriteKeeps`).

- The contexts are numbered as the device tree numbers them: `2h` is hart h's
  S context and `2h+1` its M context. The enable decode uses `c / 2`, as the
  code does. The claim updates "hart" `c`, also as the code does.
- `PlicComplete(c, i)` requires that c claimed i. The code does not check
  this. It is the guest's side of the protocol, and `ClaimExclusive` is
  stated for guests that keep it. A guest that completes a source another
  context holds lets a third context claim it again.
- Times are `TimeWidth`-bit numbers. The signed reading of `timecmp - rtc` is
  modelled by `SignedDelay`.
- A claim on a context `c >= ncpus` makes `plic_update_mip` dereference the
  NULL `cpu_state[c]`: the process dies (`crashed`), and `Crashed` stutters.

### `Fdt.tla` and `MCFdt.tla`: the device-tree builder

`fdt` is the `FDTState`: `tab` (the words written), `tabSize`, `strtab` and
`strSize`, and `open` (`open_node_count`). Words are tokens, numbers, cells
and padded data chunks; a name or a string is a model value with its length,
so `fdt_put_data` pads `(len + 3) / 4` words as the code does, and the string
table is the sequence of names appended by `fdt_get_string_offset`, which
reuses a name already present. `BuildFdtCalls(mach)` is the sequence of
library calls `riscv_build_fdt` makes for a machine (harts with their
interrupt controllers, memory, CLINT, PLIC, virtio, the two DesignWare UARTs,
chosen), with phandles taken from `cur_phandle++` in the code's order.
`Made` performs the next call (`BeginNode`, `EndNode`, `PropBytes`,
`PropCells`), `FdtOutput` appends `FDT_END` and lays out the header, `Built`
stutters. Ghosts: `done` (calls made), `starts` (where each call's tokens
begin).

`MCFdt` enumerates 1-3 harts, the three RAM bases the ROM supports, 0-2
virtio devices, empty and non-empty bootargs, with and without an initrd.

### `BootRom.tla`, `Boot.tla` and `MCBoot.tla`: boot ROM, loading and the first instructions

TLC integers are 32-bit, so `BootRom` keeps 64-bit register values as four
16-bit limbs (`AddVal`, `ShlVal`, `SextW`, `OrVal`, `AndNotVal`), and an
instruction as a signed 32-bit number decoded by the interpreter's shifts.
`GenerateBootrom` is `generate_bootrom` word for word: the park loop for one
hart, nops for several, `auipc`/`addi` for a1, `dcsr`, `s0` built from the RAM
base, `dpc`, `dret`. `Execute` is the interpreter's handlers for exactly the
instructions the ROM uses, with their illegal-instruction guards.
`Hart`, `CsrRead`, `CsrWrite` and `HandleDret` stand for `riscv_cpu.cpp`,
which is not in the tree, and are modelled from `spec.md`.

`Boot` has `p` (the `VirtMachineParams`: harts, RAM base and size, firmware
format and length, kernel, initrd, `--bootrom`, `--compact_bootrom`), `phase`,
`m` (what `copy_kernel` has put where: `regions`, `initrdStart`, the ROM and
the tree's offset) and `harts`. `VirtMachineInit` creates the harts at the
reset vector and calls `CopyKernel`; `VirtMachineLoad` calls it again, as
`virt_machine_main` does for a machine set up from a config file.
When the command-line path is itself a RISC-V ELF, or a text whose first two
bytes are hex digits, `load_elf_and_fake_the_config` fakes the config
(`FakesConfig`, `ElfBased`). `MainLoadImages` then stands for the `elf_based`
branch: the image is loaded again by `load_elf_image` or `load_hex_image`,
and every hart goes into debug mode. `MainStart` is `main`'s use of the
returned machine (`phase` "loaded" or "failed"). A NULL machine is
dereferenced before the `if (!m)` test, which gives "crashed".
`HartStep(h)` runs one ROM instruction of hart h.
`CopyKernel` keeps every check and early return of `copy_kernel`, in order,
including the unsigned `ram_size - KERNEL_OFFSET`. `ROM_BASE_ADDR`,
`BOOT_BASE_ADDR` and `KERNEL_OFFSET` are not defined in this tree; they are
the constants `RomBase`, `BootBase`, `KernelOffset` (MC: 0x10000, 0x10000,
2 MiB, as in Dromajo).

## Runs

| Run | Cfg | Expect | What it shows |
|---|---|---|---|
| `interp_core` | `MCInterp.cfg` | pass | `BatchRefinement`: every exit path, including exceptions, interrupts at both check points, budget end and `done_interp`, leaves `insn_counter` advanced by exactly the instructions retired. `NoWritebackOnTrap`: no instruction that traps writes a register. This includes the AMO write fault, the `sc` write fault and misaligned jal/jalr targets. `ReservationSound`: an `sc` succeeds only if no store reached the reserved address since the `lr`. Stores by this hart and by others both count. It reaches 154k distinct states in about 45 s. |
| `interp_stf` | `MCInterp_stf.cfg` | pass | Uses STF macro tracing with exit on the stop opcode, co-simulation gating interrupts, misa.C on and FP off. `StfStepPerCall`: while macro tracing is active, a call never runs on past an instruction it retired. `stf_trace_trigger` returns the active flag, and `jump_insn` returns on it (line 3003), so the driver traces each instruction in its own call. It reaches 171k states. Refinement is not checked here; see `interp_stfcount`. |
| `interp_minstret` | `MCInterp_minstret.cfg` | violation | `MinstretCountsRetired`. A `csrr*` adds the batch delta to `minstret` and `mcycle`, and `the_end` adds it again. |
| `interp_return` | `MCInterp_return.cfg` | violation | `ReturnCountIsRetired`. An interrupt at the slow fetch returns one more instruction than were retired. |
| `interp_gpstore` | `MCInterp_gpstore.cfg` | violation | `StoreWritesNoRegister`. The Andes GP stores write the stale `val` to the register named by immediate bits 11:7. |
| `interp_wfi` | `MCInterp_wfi.cfg` | violation | `WfiSuspends`. After `wfi`, the next call runs instructions anyway. |
| `interp_stfcount` | `MCInterp_stfcount.cfg` | violation | `BatchRefinement`. With macro tracing active, the engine returns at `jump_insn` without `the_end`, and the counters freeze. |
| `bitarith` | `MCBitArith.cfg` | pass | Checks every operand pair at `XLEN` 8. The rotates are rotations under both outcomes of the undefined shift. `div`/`rem` follow the ISA table, including x/0 and overflow. The `clmul` family gives the halves of the carry-less product. `bfoz`/`bfos` extract the Andes field. `mulhu` is the high half of the product. The Zbb unary helpers match their bit-level definitions (`ZbbUnaryMatchIsa`). The same walk drives the violation configurations of `IsaString` and `CmdLine`. 65,536 states, about 50 s. |
| `bitarith_switch` | `MCBitArith_switch.cfg` | violation | `SwitchesTakeNoValue`. `--ignore_sbi_shutdown` is `required_argument` in the table, so it swallows the next word, and `--ignore_sbi_shutdown cfg` has no config path. |
| `bitarith_plic` | `MCBitArith_plic.cfg` | violation | `ParseNeverCrashes`. `--plic h:` passes the `':'` check, and `strtok` then returns NULL for the size, which is dereferenced. |
| `bitarith_isa` | `MCBitArith_isa.cfg` | violation | `IsaOnlyNamed`. `rv64i_zicsr` enables C, and `_zfa` enables F and A, because `setIsaConfigFlags` matches characters and substrings anywhere in the string. |
| `bitarith_roriw` | `MCBitArith_roriw.cfg` | violation | `RoriwMatchesZbb`. Upper bits of `rs1` leak into `roriw`. |
| `bitarith_ctzw` | `MCBitArith_ctzw.cfg` | violation | `CtzwMatchesZbb`. `ctzw` of a value with a zero low word and a nonzero high word is `__builtin_ctz(0)`. |
| `bitarith_mulh` | `MCBitArith_mulh.cfg` | violation | `MulhMatchesProduct`. The fallback `mulh`/`mulhsu` subtract the wrong operand. |
| `driver` | `Driver.cfg` | pass | Uses two harts, budget 2, `maxinsns` 7 and `exe_trace` 4. Both STF modes are checked: instruction-number tracing of 2 from instruction 2, and START/STOP opcodes. `TracedSingleStep`: every traced instruction ran in a batch of one. `StfTracesAtMostLength`: no more than `stf_insn_length` instructions are traced. `RecordsOnlyToOpenWriter`: no step appends to a closed writer. `RecordsAreRetired`: an instruction record is written only by a step that retired an instruction. `LoopEnds`: under `FairSpec`, the loop ends. 41k states, about 11 s. |
| `driver_stftrace` | `Driver_stftrace.cfg` | violation | `TraceHoldsEveryRetired`. An `ecall` retires, but `stf_trace_element` skips it because `pending_exception` is set, so the trace holds fewer instructions than ran. |
| `driver_count` | `Driver_count.cfg` | violation | `TotalCountIsRetired`. `total_inst_count` sums the budgets, not the instructions retired. |
| `driver_maxinsns` | `Driver_maxinsns.cfg` | violation | `MaxinsnsBudgetRun`. With `maxinsns` 4 on two harts with budget 2, only 2 instructions run. |
| `driver_stfstart` | `Driver_stfstart.cfg` | violation | `StfStartsAtInsn`. A start of 3 with batches of 2 is never reached. |
| `plic` | `Plic.cfg` | pass | Uses two harts, four contexts, two sources, enables rewritten between the empty set and all sources, and CLINT word writes of 0. `ClaimExclusive`: no source is held by two contexts. 2.66M states, about 90 s. |
| `plic_crash` | `Plic_crash.cfg` | violation | `NoCrash`. With two harts, a claim from hart 1's S context (2) updates `cpu_state[2]`, which is NULL. |
| `plic_lost` | `Plic_lost.cfg` | violation | `EipSetWhenDeliverable`. The sequence is set, claim, set again, complete. The source is then pending and enabled with EIP clear. |
| `plic_spurious` | `Plic_spurious.cfg` | violation | `NoSpuriousEip`. A claim from context 1 updates "hart 1", and hart 0's EIP stays set with nothing to claim. |
| `plic_timecmp` | `Plic_timecmp.cfg` | violation | `TimecmpHoldsWrites`. The sequence is a write of `mtimecmp`'s high half, then its low half. The low write clears the high half, so `mtimecmp` no longer holds what was written. This breaks the RISC-V sequence lo = -1, hi, lo. |
| `plic_timer` | `Plic_timer.cfg` | violation | `MtipOnlyWhenDue`. An `mtimecmp` far ahead reads as a negative delay and raises MTIP. |
| `fdt` | `MCFdt.cfg` | pass | `BuffersCover`: `tab` and the string table never outgrow their allocation. `DecodesToCalls`: the written structure block reads back, token by token and to `FDT_END`, as exactly the calls made, with every property name resolved through the string table. `PhandlesResolve`: phandles are unique, and every `interrupt-parent` and `interrupts-extended` cites one. 7,056 states. |
| `boot` | `MCBoot.cfg` | pass | For 1-3 harts on each supported base, and 4,608 loading configurations on one hart, plus an ELF or bare hex image given as the path. `BootHandsFdt`: a hart leaves the ROM only by `dret`, in M-mode at the RAM base, with a0 its hart id and a1 the tree's address. `LoadsInRam`: every image `copy_kernel` accepts lies in RAM. `HartsLeaveRom`: under per-hart weak fairness every hart leaves the ROM. 22,081 states, about 40 s. |
| `boot_compact` | `MCBoot_compact.cfg` | violation | `BootHandsFdt`. With `--compact_bootrom` the tree is at ROM byte 52, but the ROM hands a1 = `_start + 256`. |
| `boot_hex` | `MCBoot_hex.cfg` | violation | `FirmwareLoadedByFormat`. The hex test `fw_buf[0]=='0' && fw_buf[0]=='x'` never holds, so hex firmware is copied raw. |
| `boot_nullmain` | `MCBoot_nullmain.cfg` | violation | `SetupFailureExits`. When `virt_machine_main` returns NULL, `main` reads `m->common.simpoints` (line 213) before its `if (!m) return 1` (line 227). |
| `boot_overlap` | `MCBoot_overlap.cfg` | violation | `LoadsDisjoint`. A 3 MiB initrd in 4 MiB of RAM lands on the kernel at 2 MiB. |
| `boot_unaligned` | `MCBoot_unaligned.cfg` | violation | `LoadsInRam`. With RAM at 0x80000800 and a RAM-sized initrd, the 4 KiB round-down starts it 2 KiB below RAM. |

The runs registered in `PROJECT.json` are `interp_core`, `interp_stf`,
`interp_minstret`, `interp_gpstore`, `interp_stfcount`, `bitarith`, `driver`,
`plic`, `fdt`, `boot`, `boot_compact` and `plic_timecmp`. The other rows are
further configurations kept beside them.
What they show is recorded in the notes of the matching `hazards`.

Each violation is explained in the `findings` of `PROJECT.json`. Each passing
property has a mutant in `PROJECT.json`: a plausible bug in the mapped code
that TLC then catches. The mutants are:

| Mutant | Bug | Property that catches it |
|---|---|---|
| `AmoCauseAnyFault` | Maps every read fault to cause + 2 | `TypeOK` |
| `ExceptionKeepsAddend` | Forgets `--insn_counter_addend` | `BatchRefinement` |
| `JalLinkFirst` | Writes the link register before the alignment check | `NoWritebackOnTrap` |
| `LoadValueWritesFirst` | Writes the register before the fault check | `NoWritebackOnTrap` |
| `ReservationAddrOnly` | `sc` compares only the address, not `memseqno` | `ReservationSound` |
| `AfterInsnStartOnly` | `stf_trace_trigger` returns its start test, not the active flag | `StfStepPerCall` |
| `rolw64Unextended` | `rolw` without the sign extension of the 32-bit result | `RotatesMatchZbb` |
| `remZeroByZero` | `rem` returns 0, not the dividend, for a zero divisor | `DivRemMatchIsa` |
| `clmulrFromOne` | The `clmulr` loop starts one bit late | `ClmulMatchesProduct` |
| `get_maskNoFull` | `get_mask` without the full-width case | `BitFieldMatchesAndes` |
| `mulhuNoLowCarry` | `mulhu` drops the carry out of the low partial product | `MulhuMatchesProduct` |
| `MaxinsnsAfterNoClamp` | `maxinsns -= n` without the clamp, so it wraps | `TypeOK` (Driver) |
| `StfStopPast` | The stop test uses `>` instead of `==` | `StfTracesAtMostLength` |
| `ThrottleNever` | No single-step throttle while tracing | `TracedSingleStep` |
| `ClaimIdAfterLowest` | The claim returns `ctz + 1`, as if `ffs` | `TypeOK` (Plic) |
| `cpopwFull` | `cpopw` counts the whole register, not the low word | `ZbbUnaryMatchIsa` |
| `ClaimMaskPendingOnly` | The claim ignores the served mask | `ClaimExclusive` |
| `MacroActiveAfterKeep` | A STOP opcode leaves macro tracing active | `RecordsOnlyToOpenWriter` |
| `InsnRecordsNoSkip` | `stf_trace_element` without `skip_record` | `RecordsAreRetired` |
| `EndRoundNoKeep` | The loop condition tests only `stf_has_exit_pending` | `LoopEnds` |
| `FdtBeginNodeNoCount` | `fdt_begin_node` without `open_node_count++` | `TypeOK` (Fdt) |
| `FdtAllocLenNoMax` | `fdt_alloc_len` grows to `size * 3 / 2` only, not `max(len, ...)` | `BuffersCover` |
| `FdtGetStringOffsetLate` | The new string's offset is taken after the append | `DecodesToCalls` |
| `IntcPhandleSame` | Every hart's interrupt controller gets the same phandle | `PhandlesResolve` |
| `HandleDretNoMask` | `dret` takes all of `dcsr` as the privilege | `TypeOK` (Boot) |
| `SetS0Shift39` | The ROM shifts s0 by 39 for the 0x80000000 base too | `BootHandsFdt` |
| `KernelFitsNoOffsetCheck` | No `ram_size <= KERNEL_OFFSET` test before the unsigned subtraction | `LoadsInRam` |
| `ParkBnez` | The park loop branches on `bnez` | `HartsLeaveRom` |

### Why the bounds are enough

- **Budget 2 per call.** A batch can end with an instruction that has retired,
  after one that trapped, or at the budget. A CSR instruction can also follow
  another instruction within one call, and the `minstret` double count needs
  that.
- **Total 4.** This allows two calls. A reservation can be taken in one call and
  used in the next, with other harts' stores in between. It also allows a `wfi`
  followed by another call.
- **Two addresses.** A store can then hit or miss the reservation.
- **Two stores.** Enough for `memseqno` to change both on the reservation and
  elsewhere.
- **Register values 0/1.** These are enough for a stale `val` to differ from a
  register.

- **`XLEN` 8.** Every edge the code has at 64 bits has an 8-bit counterpart.
  These include the shift by the full width, the 32-bit half, the most
  negative value divided by -1, `get_mask` of the full width, and the carry
  between half-word products. Every pair of operands is checked.
- **Driver: two harts, budget 2.** With two harts, one hart's early return
  at `maxinsns` 0 can starve the next. Budget 2 makes `num_executed` skip odd
  values, and it lets the throttle change a budget. `exe_trace` 4 runs out
  during the run, so both branches are taken.
- **Driver STF: both modes, four outcomes, four opcodes.** Two harts in macro
  mode let one hart's START or STOP flags stand for another hart's call.
  `maxinsns` 7 leaves room for a START, a traced instruction and a STOP.
- **CmdLine: up to four words of a 13-word alphabet.** A required argument can
  then be followed by a path, or be at the end of `argv`. The alphabet has
  every class of word the modelled cases tell apart: an option with a value, a
  switch, a negative number, an address pair with or without a size, and a
  path. `MaxCpus` 2 keeps both the upper bound and 0 in reach.
- **Plic: two harts, two sources, times of 4 bits.** Two harts give contexts
  that do and do not coincide with hart numbers. Two sources let one be served
  while the other is pending. Four-bit time lets `timecmp - rtc` wrap. It also
  gives two 2-bit halves, so a half write can lose the other half. The passing
  run writes only 0. With any other value the word writes multiply the states
  past the time limit. The violation runs write 1.

- **Fdt: 1-3 harts, 0-2 virtio devices, three bases, bootargs and initrd on
  and off.** Three harts make `tab` grow more than once and give three
  interrupt controllers before the PLIC's phandle. The bases give node names
  of different lengths, so the padding of `fdt_put_data` varies. Bootargs and
  the initrd add and omit properties of `chosen`, and names repeat, so the
  string table both adds and reuses.
- **Boot: 1-3 harts; the three supported bases and one other; RAM of 1 MiB
  (below `KERNEL_OFFSET`) and 4 MiB; images of 0, just fitting and too large.**
  One hart takes the park branch, several the nops; an unknown base makes
  `generate_bootrom` fail. Firmware is ELF with and without a boot segment and
  a matching entry, hex or raw; the kernel and initrd sizes hit every check of
  `copy_kernel` on both sides.

Symmetry over `Addrs` is sound because no definition singles out an address.

## Fairness

`Driver` has a liveness property, `LoopEnds`. Its `FairSpec` adds
`WF_vars(Next)` to `Spec`. That is justified because `main` is one thread, and
outside interactive mode it never blocks between two `iterate_core` calls.
`Driver.cfg` keeps `Interactive` FALSE. Once the loop has ended, `Exited`
stutters, so deadlock checking stays on.

`Boot` has a liveness property, `HartsLeaveRom`. Its `FairSpec` adds
`WF_vars(HartStep(h))` for every hart: the driver calls every hart's step in
turn, so a hart that can run its next ROM instruction eventually does. A
parked hart (`wfi` with `power_down_flag` set) is not enabled and is not
owed a step.

The other modules have no fairness:

- `Interp` models a callee that `main` drives.
- `Plic` models devices driven by guest accesses, which nothing forces to
  happen.
- `EipSetWhenDeliverable` is a state invariant because the code has no later
  step that would repair a lost EIP; a liveness form would fail the same way.

## What is not modelled, and why

- **Data.** Register contents are abstracted to `{0,1}`. Address translation and
  PMP are abstracted to the fault outcomes that `target_read`/`target_write`
  can return.
- **Vector, XLEN 128 and `dret`.** `VLEN` is not defined, so the vector
  handler is not compiled; neither are the XLEN 128 paths. `dret` needs debug
  mode; it is modelled only in `BootRom`, where the ROM leaves debug mode. The FP arithmetic bodies live in `majordomo_fp_template.h`, which is not
  in this tree; `FpFused`/`FpOp` keep their guards, traps and writebacks.
- **SimPoint.** `simpoint_step` runs only when `simpoint_roi` is nonzero, and
  nothing sets it.
- **PLIC priorities, CLINT reads and narrow accesses.** Priorities are stored
  and never read. `clint_read` changes no state. The 16- and 8-bit CLINT
  accesses are not modelled, only 32-bit words. The model takes an mtime write
  as a new `rtc`. In the code it rewrites hart 0's `mcycle`, which belongs to
  the engine.
- **The SiFive UART.** `uart.cpp` is registered at `UART0_BASE_ADDR` but is not
  in the device tree. Nothing sets its `rx_fifo_len`, and `uart_update_irq`
  only logs. The DesignWare UARTs that the device tree lists have no source
  in this tree.
- **Devices and trace formatting.** These are I/O; see the components in
  `PROJECT.json`.
- **Parts of boot.** The `--dtb` file path (file I/O), the framebuffer node
  (`fb_dev` is never set), the SiFive UART node (`#ifdef USE_SIFIVE_UART`),
  the text of a hex image, a path that is read as a config file
  (`virt_machine_load_config_file` is not in the tree), the bytes of ELF segments and `dump_dram` (output
  only). The harts after `dret` belong to the engine (`Interp`).
- **The rest of the command line.** `CmdLine` models the options that reach
  the loop and the machine size. The remaining cases only copy a string or a
  number into the same option record. The `options.cpp` boost parser is never
  called.
