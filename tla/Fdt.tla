-------------------------------- MODULE Fdt --------------------------------
(***************************************************************************)
(* The flattened device tree builder of src/src/fdt.cpp: the FDTState     *)
(* library (fdt_put32, fdt_put_data, fdt_begin_node, fdt_end_node,         *)
(* fdt_get_string_offset, fdt_prop, fdt_prop_tab_u32, fdt_output) and the  *)
(* sequence of library calls riscv_build_fdt makes for a machine.          *)
(*                                                                         *)
(* A word of the structure block is a cell (a 32-bit value put by          *)
(* fdt_put32) or the k-th 4-byte chunk of a datum put by fdt_put_data.    *)
(* A datum (a node name, a property string) is kept by identity and byte  *)
(* length: its bytes are never inspected, only their number, which is what *)
(* the padding and the string-table offsets depend on.  A 64-bit address   *)
(* is a record [m, e] standing for m * 2^e, as TLC's integers are 32-bit; *)
(* its hex digit count is what a node name "name@<hex>" takes from it.     *)
(***************************************************************************)
EXTENDS Integers, Sequences, SequencesExt, FiniteSets

CONSTANT Machines   \* the machines riscv_build_fdt is called for

VARIABLES
    fdt,     \* FDTState: tab, tab_size, open_node_count, string table, its size
    calls,   \* the library calls riscv_build_fdt has still to make
    done,    \* the calls made so far (ghost)
    starts,  \* the word of tab each of them began at (ghost)
    out,     \* the header fdt_output writes
    status   \* "building", "written" by fdt_output, "assert" if it aborts

vars == <<fdt, calls, done, starts, out, status>>
-----------------------------------------------------------------------------
RECURSIVE BitLen(_)
BitLen(x) == IF x = 0 THEN 0 ELSE 1 + BitLen(x \div 2)

(* The digits PRIx64 prints for m * 2^e. *)
HexDigits(a) == IF a.m = 0 THEN 1 ELSE (BitLen(a.m) + a.e + 3) \div 4

Addr(m, e) == [m |-> m, e |-> e]

(* A datum fdt_put_data writes: its identity (a string and an instance   *)
(* number) and its length in bytes, the terminating NUL included.  A node *)
(* name is fdt_begin_node's string or fdt_begin_node_num's "name@<hex n>"  *)
(* (instance i tells the nodes of one name apart).                        *)
Datum(str, i, len) == [id |-> <<str, i>>, len |-> len]
NoDatum            == Datum("", 0, 0)
Name(str)          == Datum(str, -1, Len(str) + 1)
NameNum(str, i, a) == Datum(str, i, Len(str) + 1 + HexDigits(a) + 1)

(* A word of tab: an FDT token, a length or offset, a property cell, or   *)
(* the k-th chunk of a datum.  A cell's value is a number <<"", n>> or a  *)
(* named value <<name, i>> (i tells instances of one name apart).          *)
Word(t, a, b, c, n) == [t |-> t, a |-> a, b |-> b, c |-> c, n |-> n]
Tok(n)      == Word("tok", "", n, 0, 0)
Num(n)      == Word("num", "", n, 0, 0)
Cell(x)     == Word("cell", x[1], x[2], 0, 0)
Chunk(d, k) == Word("chunk", d.id[1], d.id[2], k, d.len)
V(n)        == <<"", n>>
Sym(str)    == <<str, 0>>


MaxInt(a, b) == IF a >= b THEN a ELSE b

StrTabLen(st) == FoldLeft(LAMBDA acc, s : acc + Len(s) + 1, 0, st)
-----------------------------------------------------------------------------
(* fdt_init: a zeroed FDTState. *)
FdtInit == [tab |-> <<>>, tabSize |-> 0, open |-> 0, strtab |-> <<>>, strSize |-> 0]

FdtAllocLenNoMax(s, len) ==
    IF len > s.tabSize THEN [s EXCEPT !.tabSize = (s.tabSize * 3) \div 2] ELSE s

(* fdt_alloc_len: grow tab to max(len, tab_size * 3 / 2) words. *)
FdtAllocLen(s, len) ==
    IF len > s.tabSize THEN [s EXCEPT !.tabSize = MaxInt(len, (s.tabSize * 3) \div 2)] ELSE s

FdtPut32(s, w) ==
    LET s1 == FdtAllocLen(s, Len(s.tab) + 1) IN [s1 EXCEPT !.tab = Append(@, w)]

(* fdt_put_data: len bytes, zero padded to (len + 3) / 4 words. *)
FdtPutDataShort(s, d) ==
    LET len1 == d.len \div 4
        s1   == FdtAllocLen(s, Len(s.tab) + len1)
    IN [s1 EXCEPT !.tab = @ \o [k \in 1..len1 |-> Chunk(d, k)]]

FdtPutData(s, d) ==
    LET len1 == (d.len + 3) \div 4
        s1   == FdtAllocLen(s, Len(s.tab) + len1)
    IN [s1 EXCEPT !.tab = @ \o [k \in 1..len1 |-> Chunk(d, k)]]

(* fdt_begin_node without the open_node_count++. *)
FdtBeginNodeNoCount(s, nm) == FdtPutData(FdtPut32(s, Tok(1)), nm)

FdtBeginNode(s, nm) ==
    LET s1 == FdtPutData(FdtPut32(s, Tok(1)), nm) IN [s1 EXCEPT !.open = @ + 1]

FdtEndNode(s) == LET s1 == FdtPut32(s, Tok(2)) IN [s1 EXCEPT !.open = @ - 1]

(* fdt_get_string_offset: walk the table string by string; a name not    *)
(* found is appended, the table growing to max(new_len, size * 3 / 2).   *)
RECURSIVE StringWalk(_, _, _, _)
StringWalk(st, name, i, pos) ==
    IF i > Len(st) THEN -1
    ELSE IF st[i] = name THEN pos
    ELSE StringWalk(st, name, i + 1, pos + Len(st[i]) + 1)

FdtGetStringOffsetLate(s, name) ==
    LET found  == StringWalk(s.strtab, name, 1, 0)
        newLen == StrTabLen(s.strtab) + Len(name) + 1
    IN IF found >= 0 THEN [s |-> s, off |-> found]
       ELSE [s   |-> [s EXCEPT !.strtab = Append(@, name),
                               !.strSize = IF newLen > @ THEN MaxInt(newLen, (@ * 3) \div 2) ELSE @],
             off |-> newLen]

FdtGetStringOffset(s, name) ==
    LET found  == StringWalk(s.strtab, name, 1, 0)
        newLen == StrTabLen(s.strtab) + Len(name) + 1
    IN IF found >= 0 THEN [s |-> s, off |-> found]
       ELSE [s   |-> [s EXCEPT !.strtab = Append(@, name),
                               !.strSize = IF newLen > @ THEN MaxInt(newLen, (@ * 3) \div 2) ELSE @],
             off |-> StrTabLen(s.strtab)]

(* fdt_prop: FDT_PROP, the length, the name's offset, the padded data.    *)
FdtProp(s, name, d) ==
    LET s1 == FdtPut32(FdtPut32(s, Tok(3)), Num(d.len))
        g  == FdtGetStringOffset(s1, name)
    IN FdtPutData(FdtPut32(g.s, Num(g.off)), d)

(* fdt_prop_tab_u32: the cells one fdt_put32 each. *)
FdtPropTabU32(s, name, cells) ==
    LET s1 == FdtPut32(FdtPut32(s, Tok(3)), Num(4 * Len(cells)))
        g  == FdtGetStringOffset(s1, name)
    IN FoldLeft(LAMBDA acc, c : FdtPut32(acc, Cell(c)), FdtPut32(g.s, Num(g.off)), cells)

Align8(pos) == ((pos + 7) \div 8) * 8

(* fdt_output after its FDT_END: the header's offsets and sizes; the      *)
(* header is 40 bytes, the reservation map one empty 16-byte entry.       *)
FdtHeader(s) ==
    LET structSize == 4 * Len(s.tab)
        strSize    == StrTabLen(s.strtab)
        rsv        == Align8(40 + structSize)
    IN [magic |-> "d00dfeed", version |-> 17, lastComp |-> 16,
        offStruct |-> 40, sizeStruct |-> structSize, offRsvmap |-> rsv,
        offStrings |-> rsv + 16, sizeStrings |-> strSize,
        totalsize |-> Align8(rsv + 16 + strSize)]

NoHeader == [magic |-> "", version |-> 0, lastComp |-> 0, offStruct |-> 0, sizeStruct |-> 0,
             offRsvmap |-> 0, offStrings |-> 0, sizeStrings |-> 0, totalsize |-> 0]
-----------------------------------------------------------------------------
(* One library call of riscv_build_fdt.  fdt_prop_str, fdt_prop_tab_str   *)
(* and fdt_prop(.., NULL, 0) are fdt_prop calls with a datum of that many *)
(* bytes; fdt_prop_u32, fdt_prop_u64 and fdt_prop_tab_u64_2 are           *)
(* fdt_prop_tab_u32 calls with one, two and four cells.                    *)
Call(op, node, prop, d, cells) == [op |-> op, node |-> node, prop |-> prop, d |-> d, cells |-> cells]
Begin(nm)        == Call("begin", nm, "", NoDatum, <<>>)
End              == Call("end", NoDatum, "", NoDatum, <<>>)
Prop(nm, d)      == Call("prop", NoDatum, nm, d, <<>>)
Str(nm, str)     == Prop(nm, Datum(str, 0, Len(str) + 1))
Empty(nm)        == Prop(nm, NoDatum)
Cells(nm, cs)    == Call("cells", NoDatum, nm, NoDatum, cs)
U32(nm, x)       == Cells(nm, <<x>>)
Hi(str)          == Sym("hi " \o str)
Lo(str)          == Sym("lo " \o str)
U64(nm, str)     == Cells(nm, <<Hi(str), Lo(str)>>)
U64x2(nm, a, b)  == Cells(nm, <<Hi(a), Lo(a), Hi(b), Lo(b)>>)
Output           == Call("output", NoDatum, "", NoDatum, <<>>)

(* cur_phandle starts at 1 and each hart's interrupt controller takes the *)
(* next one (hartid2handle); the PLIC takes the one after the harts.      *)
IntcPhandleSame(h) == 1

IntcPhandle(h) == 1 + h

PlicPhandle(n) == 1 + n

CpuNode(m, h) ==
    << Begin(NameNum("cpu", h, Addr(h, 0))), Str("device_type", "cpu"), U32("reg", V(h)),
       Str("status", "okay"), Str("compatible", "riscv"),
       Prop("riscv,isa", Datum("rv64", h, 4 + m.misa + 1)),
       Str("mmu-type", "riscv,sv48"), U32("clock-frequency", Sym("CPU_FREQUENCY")),
       Begin(Name("interrupt-controller")), U32("#interrupt-cells", V(1)),
       Empty("interrupt-controller"), Str("compatible", "riscv,cpu-intc"),
       U32("phandle", V(IntcPhandle(h))), U32("linux,phandle", V(IntcPhandle(h))),
       End, End >>

(* interrupts-extended of the CLINT (M software 3, M timer 7) and of the  *)
(* PLIC (S external 9, M external 11): <phandle irq> pairs per hart.      *)
IrqPairs(n, i1, i2) ==
    FlattenSeq([h \in 1..n |-> <<V(IntcPhandle(h - 1)), V(i1), V(IntcPhandle(h - 1)), V(i2)>>])

VirtioNode(m, i) ==
    << Begin(NameNum("virtio", i, m.virtio[i])), Str("compatible", "virtio,mmio"),
       Cells("reg", <<<<"hi virtio", i>>, <<"lo virtio", i>>, Hi("VIRTIO_SIZE"), Lo("VIRTIO_SIZE")>>),
       Cells("interrupts-extended", <<V(PlicPhandle(m.ncpus)), <<"VIRTIO_IRQ +", i - 1>>>>), End >>

UartNode(m, u) ==
    << Begin(NameNum("uart", u, m.uart[u])),
       Cells("reg", <<<<"hi uart", u>>, <<"lo uart", u>>, Hi("DW_APB_UART0_SIZE"), Lo("DW_APB_UART0_SIZE")>>),
       U32("current-speed", V(115200)), U32("clock-frequency", V(25000000)),
       U32("reg-shift", V(2)), U32("reg-io-width", V(4)), Str("compatible", "ns16550a"),
       U32("interrupt-parent", V(PlicPhandle(m.ncpus))), U32("interrupts", <<"DW_APB_UART_IRQ", u - 1>>),
       End >>

(* riscv_build_fdt without a dtb file.  m->common.fb_dev is never set in  *)
(* this tree, so the framebuffer node is never built.                      *)
BuildFdtCalls(m) ==
    << Begin(Name("")), U32("#address-cells", V(2)), U32("#size-cells", V(2)),
       Str("compatible", "ucbbar,dromajo-bar_dev"), Str("model", "ucbbar,dromajo-bare"),
       Begin(Name("cpus")), U32("#address-cells", V(1)), U32("#size-cells", V(0)),
       U32("timebase-frequency", Sym("RTC_FREQ")) >>
    \o FlattenSeq([h \in 1..m.ncpus |-> CpuNode(m, h - 1)])
    \o << End,
       Begin(NameNum("memory", 0, m.ramBase)), Str("device_type", "memory"),
       Cells("reg", <<Hi("ram_base"), Lo("ram_base"), Hi("ram_size"), Lo("ram_size")>>), End,
       Begin(Name("soc")), U32("#address-cells", V(2)), U32("#size-cells", V(2)),
       Prop("compatible", Datum("ucbbar,dromajo-bar-soc", 1, 23 + 11)), Empty("ranges"),
       Begin(NameNum("clint", 0, m.clint)), Str("compatible", "riscv,clint0"),
       Cells("interrupts-extended", IrqPairs(m.ncpus, 3, 7)),
       U64x2("reg", "clint_base", "clint_size"), End,
       Begin(NameNum("plic", 0, m.plic)), U32("#interrupt-cells", V(1)),
       Empty("interrupt-controller"), Str("compatible", "riscv,plic0"),
       U32("riscv,ndev", V(31)), U64x2("reg", "plic_base", "plic_size"),
       Cells("interrupts-extended", IrqPairs(m.ncpus, 9, 11)),
       U32("phandle", V(PlicPhandle(m.ncpus))), End >>
    \o FlattenSeq([i \in 1..Len(m.virtio) |-> VirtioNode(m, i)])
    \o FlattenSeq([u \in 1..2 |-> UartNode(m, u)])
    \o << End, Begin(Name("chosen")), Str("bootargs", m.cmdline) >>
    \o (IF m.initrd THEN <<U64("linux,initrd-start", "initrd_start"),
                          U64("linux,initrd-end", "initrd_end")>> ELSE <<>>)
    \o << End, End, Output >>
-----------------------------------------------------------------------------
Init ==
    /\ \E m \in Machines : calls = BuildFdtCalls(m)
    /\ fdt = FdtInit
    /\ done = <<>>
    /\ starts = <<>>
    /\ out = NoHeader
    /\ status = "building"

Call1 == Head(calls)

(* A call made: the state the library function leaves, the call consumed. *)
Made(s1) == /\ fdt' = s1
            /\ calls' = Tail(calls)
            /\ done' = Append(done, Call1)
            /\ starts' = Append(starts, Len(fdt.tab) + 1)
            /\ UNCHANGED <<out, status>>

BeginNode == calls # <<>> /\ Call1.op = "begin" /\ Made(FdtBeginNode(fdt, Call1.node))
EndNode   == calls # <<>> /\ Call1.op = "end"   /\ Made(FdtEndNode(fdt))
PropBytes == calls # <<>> /\ Call1.op = "prop"  /\ Made(FdtProp(fdt, Call1.prop, Call1.d))
PropCells == calls # <<>> /\ Call1.op = "cells" /\ Made(FdtPropTabU32(fdt, Call1.prop, Call1.cells))

(* fdt_output: assert(open_node_count == 0), FDT_END, the header.         *)
FdtOutput ==
    /\ calls # <<>> /\ Call1.op = "output"
    /\ calls' = Tail(calls)
    /\ UNCHANGED <<done, starts>>
    /\ IF fdt.open # 0
       THEN status' = "assert" /\ UNCHANGED <<fdt, out>>
       ELSE LET s1 == FdtPut32(fdt, Tok(9))
            IN fdt' = s1 /\ out' = FdtHeader(s1) /\ status' = "written"

(* riscv_build_fdt has returned and fdt_end freed the state.              *)
Built == calls = <<>> /\ UNCHANGED vars

Next == BeginNode \/ EndNode \/ PropBytes \/ PropCells \/ FdtOutput \/ Built

Spec == Init /\ [][Next]_vars
-----------------------------------------------------------------------------
(* A devicetree reader's view of the structure block (Devicetree           *)
(* Specification, ch. 5), written independently of the encoder: each      *)
(* token, a node name read up to its NUL and skipped to the next 4-byte    *)
(* boundary, a property's length, name offset and data.                     *)
Ceil4(n) == CHOOSE k \in 0..n : 4 * k >= n /\ 4 * k < n + 4

StringAt(st, off) ==
    LET js == {j \in 1..Len(st) : StrTabLen(SubSeq(st, 1, j - 1)) = off}
    IN IF js = {} THEN "?" ELSE st[CHOOSE j \in js : TRUE]

Event(ev, name, len, words) == [ev |-> ev, name |-> name, len |-> len, words |-> words]
Bad == Event("bad", <<"", 0>>, 0, <<>>)

(* The event a reader finds at word i, and the word after it. *)
ReadAt(tab, st, i) ==
    LET Read(ev, next) == [ev |-> ev, next |-> next]
        BadRead        == Read(Bad, i)
    IN IF i > Len(tab) \/ tab[i].t # "tok" THEN BadRead
       ELSE CASE tab[i].b = 2 -> Read(Event("end", <<"", 0>>, 0, <<>>), i + 1)
              [] tab[i].b = 1 /\ i < Len(tab) /\ tab[i + 1].t = "chunk" ->
                   LET d == [id |-> <<tab[i + 1].a, tab[i + 1].b>>, len |-> tab[i + 1].n]
                       w == Ceil4(d.len)
                   IN IF i + w <= Len(tab) /\ SubSeq(tab, i + 1, i + w) = [k \in 1..w |-> Chunk(d, k)]
                      THEN Read(Event("begin", d.id, 0, <<>>), i + 1 + w)
                      ELSE BadRead
              [] tab[i].b = 3 /\ i + 2 <= Len(tab) /\ tab[i + 1].t = "num" /\ tab[i + 2].t = "num" ->
                   LET w == Ceil4(tab[i + 1].b)
                   IN IF i + 2 + w <= Len(tab)
                      THEN Read(Event("prop", <<StringAt(st, tab[i + 2].b), 0>>, tab[i + 1].b,
                                      SubSeq(tab, i + 3, i + 2 + w)), i + 3 + w)
                      ELSE BadRead
              [] OTHER -> BadRead

(* What a reader must find for one call. *)
Expected(c) ==
    CASE c.op = "begin" -> Event("begin", c.node.id, 0, <<>>)
      [] c.op = "end"   -> Event("end", <<"", 0>>, 0, <<>>)
      [] c.op = "prop"  -> Event("prop", <<c.prop, 0>>, c.d.len,
                                 [k \in 1..Ceil4(c.d.len) |-> Chunk(c.d, k)])
      [] c.op = "cells" -> Event("prop", <<c.prop, 0>>, 4 * Len(c.cells),
                                 [k \in 1..Len(c.cells) |-> Cell(c.cells[k])])

Phandles == SelectSeq(done, LAMBDA c : c.op = "cells" /\ c.prop = "phandle")

Cited(c) ==
    CASE c.op = "cells" /\ c.prop = "interrupts-extended" ->
             {c.cells[2 * k - 1] : k \in 1..(Len(c.cells) \div 2)}
      [] c.op = "cells" /\ c.prop = "interrupt-parent" -> {c.cells[1]}
      [] OTHER -> {}
-----------------------------------------------------------------------------
TypeOK ==
    /\ fdt.open \in Nat /\ fdt.tabSize \in Nat /\ fdt.strSize \in Nat
    /\ status \in {"building", "written", "assert"}
    /\ Len(done) + Len(calls) >= 1

(* fdt_alloc_len and fdt_get_string_offset grow their buffers before      *)
(* every write: the words of tab and the bytes of the string table never  *)
(* exceed what was allocated, from the first put on a zero-sized table.   *)
BuffersCover ==
    /\ Len(fdt.tab) <= fdt.tabSize
    /\ StrTabLen(fdt.strtab) <= fdt.strSize

(* What fdt_output writes reads back, token by token from the first word  *)
(* to FDT_END, as exactly the                                              *)
(* nodes and properties riscv_build_fdt put, in order, every property     *)
(* name resolved through the string table: the padding of names and data *)
(* and the shared string offsets are right for every machine.              *)
DecodesToCalls ==
    status = "written" =>
        LET At(j) == IF j > Len(done) THEN Len(fdt.tab) ELSE starts[j]
        IN /\ starts[1] = 1
           /\ fdt.tab[Len(fdt.tab)] = Tok(9)
           /\ \A j \in 1..Len(done) :
                 LET r == ReadAt(fdt.tab, fdt.strtab, starts[j])
                 IN r.ev = Expected(done[j]) /\ r.next = At(j + 1)

(* Every phandle riscv_build_fdt cites (interrupts-extended of the CLINT, *)
(* the PLIC and virtio, interrupt-parent of the UARTs) is the phandle of  *)
(* exactly one node, and every node's phandle is cited: no two harts'     *)
(* interrupt controllers, nor a hart's and the PLIC, share one.            *)
PhandlesResolve ==
    status = "written" =>
        /\ Cardinality({Phandles[j].cells[1] : j \in DOMAIN Phandles}) = Len(Phandles)
        /\ UNION {Cited(done[j]) : j \in DOMAIN done} = {Phandles[j].cells[1] : j \in DOMAIN Phandles}

(* fdt_output's assert(open_node_count == 0) never fires.                 *)
NeverAsserts == status # "assert"
=============================================================================
