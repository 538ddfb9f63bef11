------------------------------ MODULE BitArith ------------------------------
(***************************************************************************)
(* The integer helpers at the top of src/include/majordomo_template.h     *)
(* (lines 136-572): rotates, division and remainder, carry-less multiply,  *)
(* ctzw, the Andes bit-field extracts and the half-word mulh fallback.     *)
(* Each helper is an operator on unsigned bit patterns of width XLEN.      *)
(* For the RV64 build, XLEN stands for 64 and Half for the 32-bit word of  *)
(* the *W instructions.  Each helper is checked against a reference        *)
(* definition written from the ISA text, bit by bit.                       *)
(***************************************************************************)
EXTENDS Integers, Bitwise, FiniteSets

CONSTANT XLEN

ASSUME XLEN \in {4, 8, 16}

Half == XLEN \div 2
Word == 0..(2^XLEN - 1)

Trunc(x, w) == x % 2^w
Shl(x, n) == Trunc(x * 2^n, XLEN)
Shr(x, n) == x \div 2^n
Bit(x, i) == Shr(x, i) % 2
Compl(x) == (2^XLEN - 1) - x
Signed(x, w) == IF x >= 2^(w - 1) THEN x - 2^w ELSE x
(* (uint64_t)(int32_t)u32 and the like: sign-extend the low w bits.        *)
Sext(x, w) == Trunc(Signed(Trunc(x, w), w), XLEN)
AbsVal(x) == IF x < 0 THEN -x ELSE x

(* The value whose bit i is F(i), for i < n.                               *)
RECURSIVE Compose(_, _)
Compose(F(_), n) == IF n = 0 THEN 0 ELSE Compose(F, n - 1) + 2^(n - 1) * F(n - 1)

(* A shift count of XLEN is undefined in C; the two outcomes a build gives *)
(* are the count taken modulo XLEN (x86 and AArch64 shifters) and zero.    *)
ShiftOutcomes == {"masked", "zero"}

ShrWide(x, n, ub) ==
    IF n < XLEN THEN Shr(x, n)
    ELSE IF ub = "masked" THEN Shr(x, n % XLEN) ELSE 0

-----------------------------------------------------------------------------
(* Rotates.                                                                *)

shift_mask == XLEN - 1

rol(rs1, rs2, ub) ==
    LET shift == rs2 % XLEN
    IN  Shl(rs1, shift) | ShrWide(rs1, XLEN - shift, ub)

rolw64Unextended(rs1, rs2) ==
    LET shamt == rs2 & (Half - 1)
        v1    == Trunc(rs1, Half)
    IN  Trunc(v1 * 2^shamt, Half) | Shr(v1, (Half - shamt) & (Half - 1))

rolw64(rs1, rs2) ==
    LET shamt == rs2 & (Half - 1)
        v1    == Trunc(rs1, Half)
    IN  Sext(Trunc(v1 * 2^shamt, Half) | Shr(v1, (Half - shamt) & (Half - 1)), Half)

ror(rs1, rs2) ==
    LET shamt == rs2 & shift_mask
    IN  Shr(rs1, shamt) | Shl(rs1, (XLEN - shamt) & shift_mask)

(* roriw shifts the whole 64-bit rs1 before truncating to 32 bits.         *)
roriw(rs1, shamt5) ==
    Sext(Trunc(Shr(rs1, shamt5) | Shl(rs1, (Half - shamt5) & (Half - 1)), Half), Half)

rorw(rs1, rs2) ==
    LET shamt == rs2 & (Half - 1)
        v1    == Trunc(rs1, Half)
    IN  Sext(Shr(v1, shamt) | Trunc(v1 * 2^((Half - shamt) & (Half - 1)), Half), Half)

(* Zbb: rotate the low w bits of x left or right by n.                     *)
RotLRef(x, n, w) == Compose(LAMBDA i : Bit(x, (i - n) % w), w)
RotRRef(x, n, w) == Compose(LAMBDA i : Bit(x, (i + n) % w), w)

-----------------------------------------------------------------------------
(* Division and remainder, on the signed or unsigned values of width w.   *)
(* C's / and % truncate toward zero.                                       *)

CQuot(a, b) ==
    LET q == AbsVal(a) \div AbsVal(b)
    IN  IF (a < 0) = (b < 0) THEN q ELSE -q

div(a, b, w) ==
    IF b = 0 THEN -1
    ELSE IF a = -(2^(w - 1)) /\ b = -1 THEN a
    ELSE CQuot(a, b)

divu(a, b, w) == IF b = 0 THEN 2^w - 1 ELSE a \div b

remZeroByZero(a, b, w) ==
    IF b = 0 THEN 0
    ELSE IF a = -(2^(w - 1)) /\ b = -1 THEN 0
    ELSE a - b * CQuot(a, b)

rem(a, b, w) ==
    IF b = 0 THEN a
    ELSE IF a = -(2^(w - 1)) /\ b = -1 THEN 0
    ELSE a - b * CQuot(a, b)

remu(a, b) == IF b = 0 THEN a ELSE a % b

(* The M extension: q*b + r = a with |r| < |b| and r of a's sign, taken   *)
(* modulo 2^w; divide by zero gives q = all ones, r = a.                   *)
DivRemRef(a, b, w, q, r) ==
    IF b = 0 THEN Trunc(q, w) = 2^w - 1 /\ r = a
    ELSE /\ Trunc(q * b + r, w) = Trunc(a, w)
         /\ AbsVal(r) < AbsVal(b)
         /\ r = 0 \/ (r < 0) = (a < 0)
         /\ q \in -(2^(w - 1))..(2^w - 1)

-----------------------------------------------------------------------------
(* Carry-less multiply: the loops of clmul, clmulh and clmulr.             *)

RECURSIVE XorLoop(_, _, _, _)
XorLoop(Term(_), v2, i, hi) ==
    IF i > hi THEN 0
    ELSE (IF Bit(v2, i) = 1 THEN Term(i) ELSE 0) ^^ XorLoop(Term, v2, i + 1, hi)

clmul(v1, v2) == XorLoop(LAMBDA i : Shl(v1, i), v2, 0, XLEN - 1)

clmulh(v1, v2) == XorLoop(LAMBDA i : Shr(v1, XLEN - i), v2, 1, XLEN - 1)

clmulrFromOne(v1, v2) == XorLoop(LAMBDA i : Shr(v1, XLEN - i - 1), v2, 1, XLEN - 1)

clmulr(v1, v2) == XorLoop(LAMBDA i : Shr(v1, XLEN - i - 1), v2, 0, XLEN - 1)

(* The 2*XLEN-bit carry-less product: bit k is the parity of the pairs    *)
(* of set bits x[i], y[k-i].                                               *)
ClProduct(x, y) ==
    Compose(LAMBDA k : Cardinality({i \in 0..k : Bit(x, i) = 1 /\ Bit(y, k - i) = 1}) % 2,
            2 * XLEN - 1)

-----------------------------------------------------------------------------
(* ctzw.  It tests the whole 64-bit val for zero but counts the zeros of  *)
(* its low 32 bits with __builtin_ctz, whose result for 0 is undefined: a *)
(* tzcnt build gives 32, a bsf build leaves the destination register as   *)
(* it was.  CtzOfZero are those outcomes.                                  *)

CtzOfZero == 0..Half

LowestSet(x) == CHOOSE i \in 0..XLEN - 1 : Bit(x, i) = 1 /\ Trunc(x, i) = 0

ctzw(val, z) ==
    IF val = 0 THEN Half
    ELSE IF Trunc(val, Half) = 0 THEN z
    ELSE LowestSet(Trunc(val, Half))

-----------------------------------------------------------------------------
(* The Zbb unary helpers (lines 143-162, 315-334, 355-374).  A byte of the *)
(* scaled word is ByteW bits, so a word has four of them; sext.h takes two *)
(* bytes.                                                                  *)
ByteW == XLEN \div 4
NBytes == XLEN \div ByteW
ByteOf(x, k) == Trunc(Shr(x, k * ByteW), ByteW)

(* Sum of F(k) * 2^(k * ByteW) over the bytes k: the word with bytes F(k). *)
RECURSIVE Bytes(_, _)
Bytes(F(_), n) == IF n = 0 THEN 0 ELSE Bytes(F, n - 1) + F(n - 1) * 2^((n - 1) * ByteW)

(* orc_b: each byte becomes all ones unless it is zero.                    *)
orc_b(rs) == Bytes(LAMBDA k : IF ByteOf(rs, k) = 0 THEN 0 ELSE 2^ByteW - 1, NBytes)

(* rev8: byte i moves to byte num_bytes - 1 - i.                           *)
rev8(rs) == Bytes(LAMBDA k : ByteOf(rs, NBytes - 1 - k), NBytes)

(* cpop and cpopw (__builtin_popcount of the word and of its low 32 bits). *)
cpop(val) == Cardinality({i \in 0..XLEN - 1 : Bit(val, i) = 1})

(* Variant that counts the whole register.                                 *)
cpopwFull(val) == cpop(val)

cpopw(val) == cpop(Trunc(val, Half))

(* sext_h and sext_b: shift left by XLEN-16 (XLEN-8), then arithmetic      *)
(* shift right by as much.                                                 *)
sext_h(val) == Sext(val, 2 * ByteW)
sext_b(val) == Sext(val, ByteW)

HighestSet(x) == CHOOSE i \in 0..XLEN - 1 : Bit(x, i) = 1 /\ Shr(x, i + 1) = 0

(* clz and clzw: std::countl_zero of the word and of (uint32_t)val; both   *)
(* are defined at zero.                                                    *)
clz(val) == IF val = 0 THEN XLEN ELSE XLEN - 1 - HighestSet(val)
clzw(val) == IF Trunc(val, Half) = 0 THEN Half ELSE Half - 1 - HighestSet(Trunc(val, Half))

-----------------------------------------------------------------------------
(* The Andes bit-field extracts.  msb and lsb are the instruction fields  *)
(* insn[31:26] and insn[25:20], each of range 0..XLEN-1.                   *)

(* (1ULL << len) - 1 without the len = 64 case: x86 takes the count mod 64. *)
get_maskNoFull(len) == 2^(len % XLEN) - 1

get_mask(len) == IF len = XLEN THEN 2^XLEN - 1 ELSE 2^len - 1

clear_bits(value, start, end) ==
    LET mask == get_mask(start + 1) & Compl(get_mask(end))
    IN  value & Compl(mask)

bfoz_oper(msb, lsb, Rs1) ==
    CASE msb = 0 ->
           LET v0 == Shl(Rs1 & 1, lsb)
               v1 == IF lsb < XLEN - 1 THEN clear_bits(v0, XLEN - 1, lsb + 1) ELSE v0
           IN  IF lsb > 0 THEN clear_bits(v1, lsb - 1, 0) ELSE v1
      [] msb < lsb ->
           LET v0 == Shl(Rs1 & get_mask(lsb - msb + 1), msb)
               v1 == IF lsb < XLEN - 1 THEN clear_bits(v0, XLEN - 1, lsb + 1) ELSE v0
           IN  clear_bits(v1, msb - 1, 0)
      [] OTHER ->
           LET lenm1 == msb - lsb
           IN  clear_bits(get_mask(lenm1 + 1) & Shr(Rs1, lsb), XLEN - 1, lenm1 + 1)

repeat_bit(value, bit_pos) == IF Bit(value, bit_pos) = 1 THEN 2^XLEN - 1 ELSE 0

bfos_oper(msb, lsb, Rs1) ==
    CASE msb = 0 ->
           LET v0 == Shl(Rs1 & 1, lsb)
               v1 == IF lsb < XLEN - 1
                     THEN v0 | (repeat_bit(Rs1, 0) & Compl(2^(lsb + 1) - 1)) ELSE v0
           IN  IF lsb > 0 THEN v1 & Compl(get_mask(lsb)) ELSE v1
      [] msb < lsb ->
           LET lenm1 == lsb - msb
               v0 == Shl(Rs1 & get_mask(lenm1 + 1), msb)
               v1 == IF lsb < XLEN - 1
                     THEN v0 | (repeat_bit(Rs1, lenm1) & Compl(get_mask(lsb + 1))) ELSE v0
           IN  v1 & Compl(get_mask(msb))
      [] OTHER ->
           LET lenm1 == msb - lsb
           IN  (Shr(Rs1, lsb) & get_mask(lenm1 + 1))
                 | (repeat_bit(Rs1, msb) & Compl(get_mask(lenm1 + 1)))

(* The Andes manual, bit by bit: msb = 0 puts Rs1[0] at bit lsb; msb < lsb *)
(* puts Rs1[lsb-msb:0] at bits lsb..msb; otherwise Rs1[msb:lsb] goes to   *)
(* the bottom.  BFOZ fills the rest with zeros, BFOS fills the bits above *)
(* the field with its top bit.                                             *)
FieldTop(msb, lsb) == IF msb = 0 THEN lsb ELSE IF msb < lsb THEN lsb ELSE msb - lsb
FieldSrc(msb, lsb, k) ==
    IF msb = 0 THEN 0 ELSE IF msb < lsb THEN k - msb ELSE k + lsb
InField(msb, lsb, k) ==
    IF msb = 0 THEN k = lsb ELSE IF msb < lsb THEN msb <= k /\ k <= lsb ELSE k <= msb - lsb

BfozRef(msb, lsb, x) ==
    Compose(LAMBDA k : IF InField(msb, lsb, k) THEN Bit(x, FieldSrc(msb, lsb, k)) ELSE 0, XLEN)

BfosRef(msb, lsb, x) ==
    Compose(LAMBDA k : IF InField(msb, lsb, k) THEN Bit(x, FieldSrc(msb, lsb, k))
                       ELSE IF k > FieldTop(msb, lsb)
                            THEN Bit(x, FieldSrc(msb, lsb, FieldTop(msb, lsb)))
                       ELSE 0, XLEN)

-----------------------------------------------------------------------------
(* The high half of a product, built from half-word products.  It is the  *)
(* code compiled when HAVE_INT128 is not defined.                          *)

mulhuNoLowCarry(a, b) ==
    LET a0 == Trunc(a, Half)   a1 == Shr(a, Half)
        b0 == Trunc(b, Half)   b1 == Shr(b, Half)
        r01 == a0 * b1   r10 == a1 * b0   r11 == a1 * b1
        c1 == Trunc(r01, Half) + Trunc(r10, Half)
        c2 == Shr(c1, Half) + Shr(r01, Half) + Shr(r10, Half) + Trunc(r11, Half)
    IN  Trunc(Shr(c2, Half) + Shr(r11, Half), Half) * 2^Half + Trunc(c2, Half)

mulhu(a, b) ==
    LET a0 == Trunc(a, Half)   a1 == Shr(a, Half)
        b0 == Trunc(b, Half)   b1 == Shr(b, Half)
        r00 == a0 * b0   r01 == a0 * b1   r10 == a1 * b0   r11 == a1 * b1
        c1 == Shr(r00, Half) + Trunc(r01, Half) + Trunc(r10, Half)
        c2 == Shr(c1, Half) + Shr(r01, Half) + Shr(r10, Half) + Trunc(r11, Half)
    IN  Trunc(Shr(c2, Half) + Shr(r11, Half), Half) * 2^Half + Trunc(c2, Half)

(* r1 -= a: the operand is converted back to its unsigned pattern.         *)
mulh(a, b) ==
    LET r1 == mulhu(a, b)
        r2 == IF Signed(a, XLEN) < 0 THEN Trunc(r1 - a, XLEN) ELSE r1
    IN  IF Signed(b, XLEN) < 0 THEN Trunc(r2 - b, XLEN) ELSE r2

mulhsu(a, b) ==
    LET r1 == mulhu(a, b)
    IN  IF Signed(a, XLEN) < 0 THEN Trunc(r1 - a, XLEN) ELSE r1

=============================================================================
