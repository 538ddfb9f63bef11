----------------------------- MODULE MCBitArith -----------------------------
(***************************************************************************)
(* Checks the helpers of BitArith on every pair of XLEN-bit operands.  The *)
(* state is the operand pair <<a, b>>; the steps walk b through all words  *)
(* for each a.  The Andes msb and lsb fields are read from b.              *)
(***************************************************************************)
EXTENDS BitArith, IsaString, CmdLine

VARIABLES a, b

vars == <<a, b>>

Init == a \in Word /\ b = 0

NextOperand == b < 2^XLEN - 1 /\ b' = b + 1 /\ UNCHANGED a

Next == NextOperand

(* The walk over b ends at the last word.                                  *)
Spec == Init /\ [][Next]_vars

(* The --march strings checked: rv32 or rv64 followed by four pieces,     *)
(* each empty or one of IsaPieces.  The state <<a, b>> numbers the string  *)
(* it checks (in base 10 over the pieces), so that the walk visits every   *)
(* one of them.                                                            *)
IsaPieces == <<<<>>, <<"i">>, <<"g">>, <<"c">>, <<"m">>, <<"_">>, <<"x">>,
               <<"z", "b", "a">>, <<"z", "f", "a">>, <<"z", "i", "c", "s", "r">>>>

isaInput ==
    LET n     == (a * 2^XLEN + b) % (2 * 10^4)
        d(i)  == IsaPieces[((n \div 10^i) % 10) + 1]
        base  == IF n < 10^4 THEN Bases.rv32 ELSE Bases.rv64
    IN  base \o d(0) \o d(1) \o d(2) \o d(3)

(* The command lines checked: up to four words of CmdLine's alphabet     *)
(* (ArgWords[1] stands for no word), with a config file that sets neither  *)
(* ncpus nor maxinsns, or sets ncpus 2 and maxinsns 5; numbered by the     *)
(* state in base 13 like the --march strings.                              *)
ArgWords == <<"">> \o <<"--ncpus", "--maxinsns", "--ignore_sbi_shutdown",
              "--stf_insn_num_tracing", "--plic", "-1", "0", "1", "2",
              "h:h", "h:", "cfg">>

argvInput ==
    LET n    == (a * 2^XLEN + b) % (2 * 13^4)
        w(i) == ArgWords[((n \div 13^i) % 13) + 1]
    IN  SelectSeq(<<w(0), w(1), w(2), w(3)>>, LAMBDA x : x # "")

configInput ==
    IF (a * 2^XLEN + b) % (2 * 13^4) < 13^4 THEN [ncpus |-> 0, maxinsns |-> 0]
    ELSE [ncpus |-> 2, maxinsns |-> 5]

cmdResult == VirtMachineMain(argvInput, configInput)

msb == Shr(b, Half) % XLEN
lsb == b % XLEN

-----------------------------------------------------------------------------
(* rol, ror, rolw and rorw (OP and OP-32, majordomo_template.h 163-214)    *)
(* rotate as Zbb defines, whichever result the build gives rol's shift by  *)
(* XLEN when the amount is zero.                                           *)
RotatesMatchZbb ==
    /\ \A ub \in ShiftOutcomes : rol(a, b, ub) = RotLRef(a, b % XLEN, XLEN)
    /\ ror(a, b) = RotRRef(a, b % XLEN, XLEN)
    /\ rolw64(a, b) = Sext(RotLRef(Trunc(a, Half), b % Half, Half), Half)
    /\ rorw(a, b) = Sext(RotRRef(Trunc(a, Half), b % Half, Half), Half)

(* roriw (OP-IMM-32, line 1680) rotates the low word of rs1 by shamt5 and  *)
(* sign-extends it, whatever the upper word of rs1 holds.                  *)
RoriwMatchesZbb ==
    roriw(a, b % Half) = Sext(RotRRef(Trunc(a, Half), b % Half, Half), Half)

(* div, divu, rem and remu, at both widths (OP lines 2063-2066, OP-32      *)
(* lines 2126-2129), return the quotient and remainder the M extension     *)
(* defines, including divide by zero and the most negative over -1.       *)
DivRemMatchIsa ==
    \A w \in {XLEN, Half} :
        LET sa == Signed(Trunc(a, w), w)
            sb == Signed(Trunc(b, w), w)
            ua == Trunc(a, w)
            ub == Trunc(b, w)
        IN  /\ DivRemRef(sa, sb, w, div(sa, sb, w), rem(sa, sb, w))
            /\ DivRemRef(ua, ub, w, divu(ua, ub, w), remu(ua, ub))

(* clmul, clmulh and clmulr (OP lines 2010-2020) are the low, high and     *)
(* middle words of the carry-less product.                                 *)
ClmulMatchesProduct ==
    LET P == ClProduct(a, b)
    IN  /\ clmul(a, b) = Trunc(P, XLEN)
        /\ clmulh(a, b) = Shr(P, XLEN)
        /\ clmulr(a, b) = Trunc(Shr(P, XLEN - 1), XLEN)

(* ctzw (OP-IMM-32, line 1657) counts the trailing zeros of the low word,  *)
(* 32 when it is zero, whatever the upper word holds.                      *)
CtzwMatchesZbb ==
    \A z \in CtzOfZero :
        ctzw(a, z) = IF Trunc(a, Half) = 0 THEN Half ELSE LowestSet(Trunc(a, Half))

(* The Zbb unary operations of OP-IMM and OP-IMM-32 (funct3 1 and 5):     *)
(* clz, clzw, cpop and cpopw count the                                     *)
(* leading zeros and set bits of the register or of its low word, sext.b   *)
(* and sext.h sign-extend its low byte and half-word, rev8 reverses its    *)
(* bytes and orc.b fills each nonzero byte, bit by bit as Zbb defines.     *)
ZbbUnaryMatchIsa ==
    LET lead(x, w) == Cardinality({i \in 0..w - 1 : \A j \in i..w - 1 : Bit(x, j) = 0})
        ones(x, w) == Cardinality({i \in 0..w - 1 : Bit(x, i) = 1})
        sx(w)      == Compose(LAMBDA i : Bit(a, IF i < w THEN i ELSE w - 1), XLEN)
    IN  /\ clz(a) = lead(a, XLEN) /\ clzw(a) = lead(a, Half)
        /\ cpop(a) = ones(a, XLEN) /\ cpopw(a) = ones(a, Half)
        /\ sext_b(a) = sx(ByteW) /\ sext_h(a) = sx(2 * ByteW)
        /\ rev8(a) = Compose(LAMBDA i : Bit(a, (NBytes - 1 - i \div ByteW) * ByteW + (i % ByteW)), XLEN)
        /\ orc_b(a) = Compose(LAMBDA i : IF ByteOf(a, i \div ByteW) = 0 THEN 0 ELSE 1, XLEN)

(* BFOZ and BFOS (CUSTOM-2 lines 1816-1828) extract and place the field    *)
(* the Andes manual describes, zero- or sign-filling the rest.             *)
BitFieldMatchesAndes ==
    /\ bfoz_oper(msb, lsb, a) = BfozRef(msb, lsb, a)
    /\ bfos_oper(msb, lsb, a) = BfosRef(msb, lsb, a)

(* The half-word mulhu (OP line 2062) is the high word of the product.     *)
MulhuMatchesProduct == mulhu(a, b) = Shr(a * b, XLEN)

(* mulh and mulhsu (OP lines 2060-2061) are the high words of the signed   *)
(* and signed-by-unsigned products.                                        *)
MulhMatchesProduct ==
    /\ mulh(a, b) = Trunc((Signed(a, XLEN) * Signed(b, XLEN)) \div 2^XLEN, XLEN)
    /\ mulhsu(a, b) = Trunc((Signed(a, XLEN) * b) \div 2^XLEN, XLEN)

(* parse_isa_string enables only the extensions the string names.          *)
IsaOnlyNamed == FlagsAsNamed(isaInput)

(* The options documented as switches (--ignore_sbi_shutdown,              *)
(* --stf_insn_num_tracing) take no value: the word after one is parsed on *)
(* its own, in every command line virt_machine_main accepts.               *)
SwitchesTakeNoValue ==
    cmdResult.status = "ok" =>
    \A i \in 1..Len(argvInput) :
        argvInput[i] \in Switches => (i + 1) \notin cmdResult.consumed

(* Option parsing ends in a configuration or in usage(), never in a crash. *)
ParseNeverCrashes == cmdResult.status # "crash"

=============================================================================
