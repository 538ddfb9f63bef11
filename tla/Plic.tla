-------------------------------- MODULE Plic --------------------------------
(***************************************************************************)
(* The interrupt controllers of src/src/interrupts.cpp and the timer check *)
(* of src/src/riscv_machine.cpp, as the harts' software sees them.         *)
(*                                                                         *)
(* PLIC: plic_pending_irq and plic_served_irq are sets of sources; each    *)
(* hart has two enable sets, index 0 driving SEIP and index 1 MEIP          *)
(* (plic_update_mip).  The device tree (fdt.cpp 390-397) gives hart h the  *)
(* contexts 2h (S external interrupt) and 2h+1 (M external interrupt); the *)
(* enable registers decode a context as hart c/2, index c%2, the claim and *)
(* complete registers as hart c.  Devices call plic_set_irq; the harts'    *)
(* interrupt handlers claim a source from their context and complete it.   *)
(*                                                                         *)
(* CLINT: msip writes, writes of either 32-bit half of mtimecmp (which    *)
(* clear MTIP) and of mtime, and virt_machine_get_sleep_duration, run      *)
(* before every batch, which raises MTIP once timecmp - rtc, taken as a    *)
(* signed 64-bit number, is <= 0.  Times are TimeWidth-bit numbers         *)
(* standing for the 64-bit ones, each half HalfBits wide.                  *)
(***************************************************************************)
EXTENDS Integers, FiniteSets

CONSTANTS NCpus,          \* m->ncpus
          Sources,        \* PLIC source numbers in use (1..31)
          EnableValues,   \* values the guest writes to an enable register
          EnableRewrites, \* whether the guest rewrites enables after boot
          TimeWidth,      \* bits of mtime and mtimecmp
          MaxTime,        \* bound on rtc
          TimecmpValues,  \* values mtimecmp holds at reset
          HalfValues      \* values the guest writes to a 32-bit CLINT half

Harts == 0..(NCpus - 1)
Contexts == 0..(2 * NCpus - 1)
EipBit(k) == IF k = 0 THEN "SEIP" ELSE "MEIP"
MipBits == {"SEIP", "MEIP", "MSIP", "MTIP"}
HalfBits == TimeWidth \div 2
Halves == {"lo", "hi"}
Lo(t) == t % 2^HalfBits
Hi(t) == t \div 2^HalfBits

VARIABLES pending,   \* s->plic_pending_irq
          served,    \* s->plic_served_irq
          enable,    \* cpu->plic_enable_irq[0..1], per hart
          mip,       \* the bits of each hart's mip these devices drive
          claimed,   \* ghost: the sources each context has claimed and not completed
          timecmp,   \* cpu->timecmp, per hart
          rtc,       \* rtc_get_time(m)
          crashed,   \* the simulator process has died (a NULL cpu_state)
          written    \* ghost: per hart, the last value put in each half of mtimecmp

vars == <<pending, served, enable, mip, claimed, timecmp, rtc, crashed, written>>

Init ==
    /\ pending = {} /\ served = {}
    /\ enable \in [Harts -> [{0, 1} -> EnableValues]]
    /\ mip = [h \in Harts |-> {}]
    /\ claimed = [c \in Contexts |-> {}]
    /\ timecmp \in [Harts -> TimecmpValues]
    /\ rtc = 0
    /\ crashed = FALSE
    /\ written = [h \in Harts |-> [lo |-> Lo(timecmp[h]), hi |-> Hi(timecmp[h])]]

-----------------------------------------------------------------------------
(* plic_update_mip: each of SEIP and MEIP is set iff a pending, unserved   *)
(* source is enabled in the matching enable set.                           *)
UpdateMip(m, en, pend, serv) ==
    LET mask == pend \ serv
    IN  (m \ {"SEIP", "MEIP"}) \cup {EipBit(k) : k \in {k \in {0, 1} : mask \cap en[k] # {}}}

(* plic_set_irq: raise or lower a source, then update every hart.          *)
PlicSetIrq(src, state) ==
    LET pend == IF state THEN pending \cup {src} ELSE pending \ {src}
    IN  /\ pending' = pend
        /\ mip' = [h \in Harts |-> UpdateMip(mip[h], enable[h], pend, served)]
        /\ UNCHANGED <<served, enable, claimed, timecmp, rtc, crashed, written>>

(* plic_write to an enable register: stores the word, nothing else.        *)
PlicEnableWrite(c, val) ==
    /\ EnableRewrites
    /\ enable' = [enable EXCEPT ![c \div 2][c % 2] = val]
    /\ UNCHANGED <<pending, served, mip, claimed, timecmp, rtc, crashed, written>>

Lowest(S) == CHOOSE i \in S : \A j \in S : i <= j

(* ctz32(mask) as a 1-based ffs: the bit after the lowest.                 *)
ClaimIdAfterLowest(mask) == Lowest(mask) + 1

ClaimId(mask) == Lowest(mask)

(* The sources a claim may hand out: s->plic_pending_irq & ~served.        *)
ClaimMaskPendingOnly == pending

ClaimMask == pending \ served

(* plic_read of context c's claim register with a source to hand out: the *)
(* lowest pending, unserved source becomes served and not pending, and     *)
(* plic_update_mip runs for "hart" c, which dereferences s->cpu_state[c]: *)
(* the machine is allocated zeroed and only the first ncpus entries are   *)
(* set (riscv_machine.cpp 750, 791-793), so for c >= ncpus the process    *)
(* dies.  A read with none returns 0 and changes nothing.  The other      *)
(* plic_read offsets only return values.                                   *)
PlicClaim(c) ==
    LET mask == ClaimMask
        i    == ClaimId(mask)
    IN  /\ mask # {}
        /\ served' = served \cup {i}
        /\ pending' = pending \ {i}
        /\ IF c \in Harts
           THEN /\ mip' = [mip EXCEPT ![c] = UpdateMip(@, enable[c], pending', served')]
                /\ UNCHANGED crashed
           ELSE /\ crashed' = TRUE
                /\ UNCHANGED mip
        /\ claimed' = [claimed EXCEPT ![c] = @ \cup {i}]
        /\ UNCHANGED <<enable, timecmp, rtc, written>>

(* plic_write of source i to context c's complete register: clears the    *)
(* served bit, nothing else.  plic_write does not check that c claimed i; *)
(* the guard is the guest's side of the protocol (a handler completes what *)
(* it claimed), which ClaimExclusive assumes.                              *)
PlicComplete(c, i) ==
    /\ i \in claimed[c]
    /\ served' = served \ {i}
    /\ claimed' = [claimed EXCEPT ![c] = @ \ {i}]
    /\ UNCHANGED <<pending, enable, mip, timecmp, rtc, crashed, written>>

(* clint_write of hart h's msip word.                                      *)
ClintMsipWrite(h, val) ==
    /\ mip' = [mip EXCEPT ![h] = IF val THEN @ \cup {"MSIP"} ELSE @ \ {"MSIP"}]
    /\ UNCHANGED <<pending, served, enable, claimed, timecmp, rtc, crashed, written>>

(* The part of timecmp a write of its low word keeps: timecmp &           *)
(* ~0xffffffff, where 0xffffffff is an unsigned int, so the complement is  *)
(* taken in 32 bits, is 0, and the high word goes too.                     *)
LoWriteKeeps(tc) == 0

(* The same with the mask taken in 64 bits (~0xffffffffULL).                *)
LoWriteKeepsWide(tc) == Hi(tc) * 2^HalfBits

(* clint_write of the hi (offset bit 2 set) or lo word of hart h's         *)
(* mtimecmp: merge the word into timecmp and clear MTIP.                   *)
ClintTimecmpWrite(h, half, val) ==
    /\ timecmp' = [timecmp EXCEPT ![h] =
                      IF half = "hi" THEN Lo(@) + val * 2^HalfBits
                                     ELSE LoWriteKeeps(@) + val]
    /\ mip' = [mip EXCEPT ![h] = @ \ {"MTIP"}]
    /\ written' = [written EXCEPT ![h][half] = val]
    /\ UNCHANGED <<pending, served, enable, claimed, rtc, crashed>>

(* clint_write of mtime's lo (0xbff8) or hi (0xbffc) word: mtime is hart  *)
(* 0's mcycle / RTC_FREQ_DIV, rebuilt with the word replaced and stored    *)
(* back as mcycle = mtime * RTC_FREQ_DIV, so the clock jumps.  A value    *)
(* past MaxTime is outside the bound of the model.                         *)
ClintMtimeWrite(half, val) ==
    LET t == IF half = "hi" THEN Lo(rtc) + val * 2^HalfBits
                            ELSE Hi(rtc) * 2^HalfBits + val
    IN  /\ t <= MaxTime
        /\ rtc' = t
        /\ UNCHANGED <<pending, served, enable, mip, claimed, timecmp, crashed, written>>

(* The clock advances as hart 0's mcycle does.                             *)
Tick ==
    /\ rtc < MaxTime
    /\ rtc' = rtc + 1
    /\ UNCHANGED <<pending, served, enable, mip, claimed, timecmp, crashed, written>>

(* (int64_t)(timecmp - rtc): unsigned subtraction read as signed.          *)
SignedDelay(tc, now) ==
    LET d == (tc - now) % 2^TimeWidth
    IN  IF d >= 2^(TimeWidth - 1) THEN d - 2^TimeWidth ELSE d

(* virt_machine_get_sleep_duration for hart h, when it raises MTIP.        *)
SleepCheck(h) ==
    /\ "MTIP" \notin mip[h]
    /\ rtc > 0
    /\ SignedDelay(timecmp[h], rtc) <= 0
    /\ mip' = [mip EXCEPT ![h] = @ \cup {"MTIP"}]
    /\ UNCHANGED <<pending, served, enable, claimed, timecmp, rtc, crashed, written>>

(* The operations of the devices and the guest while the process lives.  *)
Running ==
    \/ \E src \in Sources, state \in BOOLEAN : PlicSetIrq(src, state)
    \/ \E c \in Contexts, val \in EnableValues : PlicEnableWrite(c, val)
    \/ \E c \in Contexts : PlicClaim(c)
    \/ \E c \in Contexts, i \in Sources : PlicComplete(c, i)
    \/ \E h \in Harts, val \in BOOLEAN : ClintMsipWrite(h, val)
    \/ \E h \in Harts, half \in Halves, val \in HalfValues : ClintTimecmpWrite(h, half, val)
    \/ \E half \in Halves, val \in HalfValues : ClintMtimeWrite(half, val)
    \/ Tick
    \/ \E h \in Harts : SleepCheck(h)

(* After a crash nothing runs any more.                                    *)
Crashed == crashed /\ UNCHANGED vars

Next ==
    \/ ~crashed /\ Running
    \/ Crashed

Spec == Init /\ [][Next]_vars

-----------------------------------------------------------------------------
TypeOK ==
    /\ pending \subseteq Sources /\ served \subseteq Sources
    /\ enable \in [Harts -> [{0, 1} -> SUBSET Sources]]
    /\ mip \in [Harts -> SUBSET MipBits]
    /\ claimed \in [Contexts -> SUBSET Sources]
    /\ timecmp \in [Harts -> 0..(2^TimeWidth - 1)]
    /\ rtc \in 0..MaxTime
    /\ crashed \in BOOLEAN
    /\ written \in [Harts -> [Halves -> 0..(2^HalfBits - 1)]]

(* A source is handed to one context at a time: between a claim and its   *)
(* completion no other context's claim returns it, even if the device      *)
(* raises it again (plic_read claim, plic_write complete, plic_set_irq).   *)
ClaimExclusive ==
    \A c1, c2 \in Contexts : c1 # c2 => claimed[c1] \cap claimed[c2] = {}

(* A hart's external-interrupt bit is set whenever a source enabled for   *)
(* that context is pending and not being served, so the hart takes it     *)
(* (RISC-V PLIC: the EIP bit of a context reflects its pending enabled    *)
(* sources; interrupts.cpp keeps mip in step with plic_update_mip).        *)
EipSetWhenDeliverable ==
    ~crashed => \A h \in Harts, k \in {0, 1} :
        (pending \ served) \cap enable[h][k] # {} => EipBit(k) \in mip[h]

(* Conversely a hart's external-interrupt bit is set only when its        *)
(* context has something to claim.                                          *)
NoSpuriousEip ==
    ~crashed => \A h \in Harts, k \in {0, 1} :
        EipBit(k) \in mip[h] => (pending \ served) \cap enable[h][k] # {}

(* MTIP is raised only once mtime has reached mtimecmp (RISC-V CLINT);    *)
(* virt_machine_get_sleep_duration raises it.                              *)
MtipOnlyWhenDue == \A h \in Harts : "MTIP" \in mip[h] => rtc >= timecmp[h]

(* mtimecmp is two 32-bit registers: after any sequence of word writes,   *)
(* each half holds the last word written to it, so the RISC-V sequence    *)
(* lo = -1, hi = new hi, lo = new lo sets the whole deadline (clint_write *)
(* of offsets 0x4000 + 8h and 0x4004 + 8h).                                *)
TimecmpHoldsWrites ==
    \A h \in Harts : timecmp[h] = written[h].lo + written[h].hi * 2^HalfBits

(* The guest cannot bring the simulator down: whatever context of the     *)
(* device tree an interrupt handler claims from, plic_read returns (the   *)
(* claim path calls plic_update_mip(s, hartid) with hartid the context).  *)
NoCrash == ~crashed

=============================================================================
