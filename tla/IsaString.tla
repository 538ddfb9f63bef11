------------------------------ MODULE IsaString ------------------------------
(***************************************************************************)
(* The --march parser of src/src/riscv_isa.cpp: parse_isa_string runs      *)
(* validateInitialSegment (the base prefix and the single-letter           *)
(* extensions of the first segment, 'g' expanded) and then                 *)
(* setIsaConfigFlags (every character of the whole string that is a        *)
(* single-letter key, every multi-letter key that occurs anywhere in it).  *)
(* A string is a sequence of one-character strings; the result is the set  *)
(* of IsaConfigFlags members set, named as in the maps.                    *)
(***************************************************************************)
EXTENDS Naturals, Sequences, FiniteSets
LOCAL INSTANCE SequencesExt

(* simpleExts (lines 50-59): the letters allowed in the first segment.     *)
simpleExts == {"i", "e", "g", "m", "a", "f", "d", "c"}

(* The multi-letter keys of extensionMap (lines 61-76); its single-letter  *)
(* keys are those of simpleExts.                                           *)
multiExts == [zba |-> <<"z", "b", "a">>, zbb |-> <<"z", "b", "b">>,
              zbc |-> <<"z", "b", "c">>, zbs |-> <<"z", "b", "s">>,
              zfh |-> <<"z", "f", "h">>, zfa |-> <<"z", "f", "a">>]

Bases == [rv32 |-> <<"r", "v", "3", "2">>, rv64 |-> <<"r", "v", "6", "4">>,
          rv128 |-> <<"r", "v", "1", "2", "8">>]

(* The letters 'g' stands for.                                             *)
GExpansion(letters) == IF "g" \in letters THEN {"i", "m", "a", "f", "d"} ELSE {}

(* The base the string starts with, tried in the code's order; "" if none. *)
BaseOf(s) ==
    CASE IsPrefix(Bases.rv32, s)  -> "rv32"
      [] IsPrefix(Bases.rv64, s)  -> "rv64"
      [] IsPrefix(Bases.rv128, s) -> "rv128"
      [] OTHER                    -> ""

(* The text after the base up to the first '_'.                            *)
FirstSegment(s) ==
    LET n    == IF BaseOf(s) = "" THEN 0 ELSE Len(Bases[BaseOf(s)])
        rest == SubSeq(s, n + 1, Len(s))
        us   == SelectInSeq(rest, LAMBDA ch : ch = "_")
    IN  IF us = 0 THEN rest ELSE SubSeq(rest, 1, us - 1)

(* validateInitialSegment (lines 125-181): a known base, then only letters *)
(* of simpleExts up to the first '_'; each sets its flag and 'g' also     *)
(* sets i, m, a, f and d.  On failure the process exits.                   *)
validateInitialSegment(s) ==
    LET letters == ToSet(FirstSegment(s))
    IN  [ok    |-> BaseOf(s) # "" /\ letters \subseteq simpleExts,
         flags |-> {BaseOf(s)} \cup letters \cup GExpansion(letters)]

(* setIsaConfigFlags (lines 81-96): every character of the string that is  *)
(* a single-letter key, and every multi-letter key found anywhere in it.   *)
setIsaConfigFlags(s) ==
    (ToSet(s) \cap simpleExts) \cup {k \in DOMAIN multiExts : multiExts[k] \in SubSeqs(s)}

(* parse_isa_string (lines 184-190).                                       *)
parse_isa_string(s) ==
    LET v == validateInitialSegment(s)
    IN  [ok |-> v.ok, flags |-> v.flags \cup setIsaConfigFlags(s)]

-----------------------------------------------------------------------------
(* Reference: the extensions an ISA string names.  The string splits at    *)
(* '_'; the first part is the base and single-letter extensions, each      *)
(* later part names one multi-letter extension.                            *)
RECURSIVE SplitAt_(_)
SplitAt_(s) ==
    LET us == SelectInSeq(s, LAMBDA ch : ch = "_")
    IN  IF us = 0 THEN <<s>>
        ELSE <<SubSeq(s, 1, us - 1)>> \o SplitAt_(SubSeq(s, us + 1, Len(s)))

NamedExts(s) ==
    LET parts   == SplitAt_(s)
        letters == ToSet(FirstSegment(s))
    IN  {BaseOf(s)} \cup letters \cup GExpansion(letters)
            \cup {k \in DOMAIN multiExts : \E j \in 2..Len(parts) : parts[j] = multiExts[k]}

-----------------------------------------------------------------------------
(* An accepted --march string enables only what it names (spec.md: the     *)
(* extension set is resolved from the architecture string), so that a      *)
(* letter inside a multi-letter name such as the c of zicsr or the f and a *)
(* of zfa does not enable C, F or A (setIsaConfigFlags' first loop).       *)
FlagsAsNamed(s) ==
    parse_isa_string(s).ok => parse_isa_string(s).flags = NamedExts(s)

=============================================================================
