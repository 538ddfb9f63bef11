------------------------------ MODULE CmdLine ------------------------------
(***************************************************************************)
(* The command line of virt_machine_main (src/src/riscv_machine.cpp):     *)
(* the getopt_long loop over argv with the long-option table, the switch   *)
(* cases of a slice of the options, the config path taken from the first *)
(* non-option word, and the post-processing of ncpus and maxinsns.  The    *)
(* loop is a pure function of argv and of the config file's values, so it *)
(* is modelled as a recursive operator over argv, one call per getopt_long *)
(* return.                                                                 *)
(*                                                                         *)
(* A word of argv is a string of a small alphabet (MCBitArith's           *)
(* ArgWords), where "h:h" stands for an address pair such as              *)
(* 0x80000000:0x1000 and "h:" for one with nothing after the colon; what  *)
(* the code computes from a word (does it begin with '-', its long        *)
(* option, atoll, strchr ':', the strtok tokens and their "0x" prefix) is *)
(* given for each word of the alphabet.  getopt_long is GNU's:           *)
(* non-option words are skipped and permuted behind the options, and a    *)
(* required argument is the next word whatever it is.                      *)
(***************************************************************************)
EXTENDS Integers, Sequences, FiniteSets

CONSTANT MaxCpus   \* MAX_CPUS (riscv_machine.h)

(* The long_options table (lines 126-180): the option each long name      *)
(* selects and whether it has a required_argument.                         *)
LongOptions == [w \in {"--ncpus", "--maxinsns", "--ignore_sbi_shutdown",
                       "--stf_insn_num_tracing", "--plic"} |->
                  CASE w = "--ncpus"                -> [c |-> "n", arg |-> TRUE]
                    [] w = "--maxinsns"             -> [c |-> "m", arg |-> TRUE]
                    [] w = "--ignore_sbi_shutdown"  -> [c |-> "P", arg |-> TRUE]
                    [] w = "--stf_insn_num_tracing" -> [c |-> "N", arg |-> FALSE]
                    [] w = "--plic"                 -> [c |-> "p", arg |-> TRUE]]

(* The options the usage text (options.cpp) documents without a value.    *)
Switches == {"--ignore_sbi_shutdown", "--stf_insn_num_tracing"}

(* getopt_long treats a word that begins with '-' as an option.           *)
IsOption(w) == w \in DOMAIN LongOptions \cup {"-1"}

(* atoll: the leading decimal number of the word, 0 if there is none      *)
(* ("0x..." reads as 0).                                                   *)
Atoll(w) == CASE w = "-1" -> -1 [] w = "1" -> 1 [] w = "2" -> 2 [] OTHER -> 0

(* strtok(copy, ":") then strtok(NULL, ":"): the non-empty pieces between *)
(* colons; each piece here begins with "0x".                               *)
Strtok(w) == CASE w = "h:h" -> <<"h", "h">> [] w = "h:" -> <<"h">> [] OTHER -> <<w>>

HasColon(w) == w \in {"h:h", "h:"}

HexPrefixed(t) == t = "h"

(* (uint64_t) of a long compared with a bound: a negative long converts   *)
(* to a value of at least 2^63.                                            *)
Uint64Geq(x, k) == x < 0 \/ x >= k
-----------------------------------------------------------------------------
(* The option variables at the top of virt_machine_main (lines 64-116)     *)
(* that this slice reads or writes; status is "ok" while parsing goes on,  *)
(* "usage" once usage() has exited, "crash" for a NULL dereference;       *)
(* nonopts are the indices of the skipped non-option words, consumed those *)
(* of the words taken as a required argument.                              *)
InitialOptions ==
    [status |-> "ok", ncpus |-> 0, maxinsns |-> 0, ignoreSbi |-> FALSE,
     insnNum |-> FALSE, plic |-> <<>>, nonopts |-> <<>>, consumed |-> {}]

Usage(st) == [st EXCEPT !.status = "usage"]

(* case 'p' (lines 321-338): the argument must contain ':'; the two       *)
(* strtok pieces must begin with 0x; the size piece is dereferenced even  *)
(* when strtok returned NULL for it.                                       *)
PlicCase(st, arg) ==
    LET t == Strtok(arg) IN
    IF ~HasColon(arg) THEN Usage(st)
    ELSE IF ~HexPrefixed(t[1]) THEN Usage(st)
    ELSE IF Len(t) < 2 THEN [st EXCEPT !.status = "crash"]
    ELSE IF ~HexPrefixed(t[2]) THEN Usage(st)
    ELSE [st EXCEPT !.plic = t]

(* case 'n' (lines 224-228): one --ncpus, read with atoll.                 *)
NcpusCase(st, arg) ==
    IF st.ncpus # 0 THEN Usage(st) ELSE [st EXCEPT !.ncpus = Atoll(arg)]

(* case 'm' (lines 242-255): one --maxinsns, atoll then a k/m/g suffix    *)
(* (no word of the alphabet has one).                                      *)
MaxinsnsCase(st, arg) ==
    IF st.maxinsns # 0 THEN Usage(st) ELSE [st EXCEPT !.maxinsns = Atoll(arg)]

(* The switch on getopt_long's result for option word w at index i, its  *)
(* required argument being argv[i + 1].                                    *)
ApplyOption(st, w, argv, i) ==
    LET c   == LongOptions[w].c
        arg == argv[i + 1]
        st1 == IF LongOptions[w].arg THEN [st EXCEPT !.consumed = @ \cup {i + 1}] ELSE st
    IN CASE c = "n" -> NcpusCase(st1, arg)
         [] c = "m" -> MaxinsnsCase(st1, arg)
         [] c = "P" -> [st1 EXCEPT !.ignoreSbi = TRUE]
         [] c = "N" -> [st1 EXCEPT !.insnNum = TRUE]
         [] c = "p" -> PlicCase(st1, arg)

(* One getopt_long return from index i: a non-option word is skipped (to  *)
(* be permuted behind the options); an unknown option, or a required       *)
(* argument missing at the end of argv, returns '?' and the default case  *)
(* calls usage.                                                            *)
RECURSIVE Getopt(_, _, _)
Getopt(argv, i, st) ==
    IF st.status # "ok" \/ i > Len(argv) THEN st
    ELSE LET w == argv[i] IN
         IF ~IsOption(w) THEN Getopt(argv, i + 1, [st EXCEPT !.nonopts = Append(@, i)])
         ELSE IF w \notin DOMAIN LongOptions THEN Usage(st)
         ELSE IF LongOptions[w].arg /\ i = Len(argv) THEN Usage(st)
         ELSE Getopt(argv, IF LongOptions[w].arg THEN i + 2 ELSE i + 1,
                     ApplyOption(st, w, argv, i))
-----------------------------------------------------------------------------
(* After the loop (lines 387-438 and 692-701): the config path is the     *)
(* first non-option word, or usage "missing config file"; config is the    *)
(* ncpus and maxinsns the config file at that path sets; ncpus from the    *)
(* command line overrides the config file's, is checked against MAX_CPUS  *)
(* as a uint64 and defaults to 1; maxinsns from the command line           *)
(* overrides the config file's when above 0, and 0 means unlimited.        *)
PostNcpus(st, config) ==
    LET n == IF st.ncpus # 0 THEN st.ncpus ELSE config.ncpus IN
    IF Uint64Geq(n, MaxCpus) THEN Usage(st)
    ELSE [st EXCEPT !.ncpus = IF n = 0 THEN 1 ELSE n]

(* A --maxinsns of -1 is (uint64_t)-1, above 0: it overrides.             *)
PostMaxinsns(st, config) ==
    LET mi == IF st.maxinsns # 0 THEN st.maxinsns ELSE config.maxinsns IN
    [st EXCEPT !.maxinsns = IF mi = 0 THEN "unlimited" ELSE mi]

VirtMachineMain(argv, config) ==
    LET st == Getopt(argv, 1, InitialOptions) IN
    IF st.status # "ok" THEN st
    ELSE IF st.nonopts = <<>> THEN Usage(st)
    ELSE LET post == PostNcpus(st, config) IN
         IF post.status # "ok" THEN post ELSE PostMaxinsns(post, config)

(* The index in argv of the config path (path = argv[optind++]).          *)
PathIndex(st) == st.nonopts[1]

=============================================================================
