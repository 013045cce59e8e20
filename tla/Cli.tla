-------------------------------- MODULE Cli ---------------------------------
(***************************************************************************)
(* The command line: the option loop of main() (src/src/main.c) over glibc *)
(* getopt("hacUM:C:P:I:").  What comes out is what Boot of module Runc     *)
(* chooses: a user namespace or not, and the limits that were asked for.   *)
(*                                                                         *)
(* An argument is a cluster of option letters, the last of which may have  *)
(* a word attached ("-ac", "-M64"), or a word.  getopt() goes through the  *)
(* letters one by one, puts words that are no option's argument behind     *)
(* everything else, and gives an option that wants an argument the next    *)
(* element of argv whatever that is.                                       *)
(***************************************************************************)
EXTENDS Integers, Sequences

CONSTANTS
    Words,      \* what is not an option, as far as the loop can tell it apart
    NoWord,     \* "no word"
    Empty,      \* the word ""
    Garbage,    \* a word strtol() makes 0 of, such as "-a" or "U64"
    InRange,    \* option -> the words whose strtol() value main() accepts
    Letters,    \* the letters an argument may be made of
    Clusters,   \* the clusters, each a sequence of letters, that may be given
    MaxArgs     \* how many arguments there may be (a bound)

(* -M, -C, -P and -I: 1 .. MAX_MEMORY_ALLOCABLE, 1 .. MAX_CPU_SHARES,      *)
(* MIN_PIDS .. MAX_PIDS and MIN_WEIGHT .. MAX_WEIGHT.  All ranges lack 0.  *)
LimitOptions == {"M", "C", "P", "I"}

Flags == {"a", "U", "c"}

ASSUME WordsAssumption ==
    /\ {Empty, Garbage} \subseteq Words /\ NoWord \notin Words
    /\ InRange \in [LimitOptions -> SUBSET (Words \ {Empty, Garbage})]

ASSUME LettersAssumption == Clusters \subseteq Seq(Letters) \ {<<>>} /\ "-" \in Letters

ASSUME MaxArgsAssumption == MaxArgs \in Nat

VARIABLES
    argv,       \* the command line
    rest,       \* the arguments getopt() has not looked at
    letters,    \* of the cluster it is in, the letters it has not returned
    attached,   \* the word attached to that cluster's last letter, or NoWord
    flags,      \* has_userns, runall and cgroup_flag, by their letters
    limit,      \* option -> the value given last, or NoWord
    operands,   \* the words that are no option's argument
    exit        \* "parsing", "usage", "abort", or "run": main() calls runc()

cliVars == <<argv, rest, letters, attached, flags, limit, operands, exit>>

DashDash == [letters |-> <<"-">>, word |-> NoWord]

Arguments ==
    {[letters |-> <<>>, word |-> w] : w \in Words}
        \cup {[letters |-> c, word |-> NoWord] : c \in Clusters}
        \cup {[letters |-> c, word |-> w] :
                 c \in {d \in Clusters : d[Len(d)] \in LimitOptions}, w \in Words \ {Empty}}
        \cup {DashDash}

CliInit ==
    /\ argv \in UNION {[1 .. n -> Arguments] : n \in 0 .. MaxArgs}
    /\ rest = argv
    /\ letters = <<>> /\ attached = NoWord
    /\ flags = {}
    /\ limit = [o \in LimitOptions |-> NoWord]
    /\ operands = <<>>
    /\ exit = "parsing"

-----------------------------------------------------------------------------
(* getopt() goes to the next argument.                                     *)
NextArgument ==
    /\ exit = "parsing" /\ letters = <<>> /\ rest # <<>>
    /\ rest' = Tail(rest)
    /\ UNCHANGED <<argv, flags, limit, exit>>

EnterCluster ==
    /\ NextArgument
    /\ Head(rest).letters # <<>> /\ Head(rest) # DashDash
    /\ letters' = Head(rest).letters
    /\ attached' = Head(rest).word
    /\ UNCHANGED operands

(* A word is left for later.                                               *)
PassOperand ==
    /\ NextArgument
    /\ Head(rest).letters = <<>>
    /\ operands' = Append(operands, Head(rest).word)
    /\ UNCHANGED <<letters, attached>>

(* What an argument is when it is taken as a word.                         *)
AsWord(arg) == IF arg.letters = <<>> THEN arg.word ELSE Garbage

(* "--" ends the options.                                                  *)
PassDashDash ==
    /\ exit = "parsing" /\ letters = <<>> /\ rest # <<>>
    /\ Head(rest) = DashDash
    /\ operands' = operands \o [i \in DOMAIN Tail(rest) |-> AsWord(Tail(rest)[i])]
    /\ rest' = <<>>
    /\ UNCHANGED <<argv, letters, attached, flags, limit, exit>>

(* -a, -U, -c.                                                             *)
SetFlag ==
    /\ exit = "parsing" /\ letters # <<>> /\ Head(letters) \in Flags
    /\ flags' = flags \cup {Head(letters)}
    /\ letters' = Tail(letters)
    /\ UNCHANGED <<argv, rest, attached, limit, operands, exit>>

(* -h, a letter that is no option, or an option without its argument.      *)
Usage ==
    /\ exit = "parsing" /\ letters # <<>>
    /\ \/ Head(letters) \notin Flags \cup LimitOptions
       \/ Head(letters) \in LimitOptions /\ Len(letters) = 1 /\ attached = NoWord /\ rest = <<>>
    /\ exit' = "usage"
    /\ UNCHANGED <<argv, rest, letters, attached, flags, limit, operands>>

(* The value w of the option o: in its range, and after -c.                *)
Valid(o, w) == "c" \in flags /\ w # Empty /\ w \in InRange[o]

(* Mutant of SetLimit: -c is looked at when all options are known.         *)
SetLimitLate(w) ==
    /\ IF w # Empty /\ w \in InRange[Head(letters)]
       THEN limit' = [limit EXCEPT ![Head(letters)] = w] /\ UNCHANGED exit
       ELSE exit' = "abort" /\ UNCHANGED limit
    /\ letters' = <<>>
    /\ UNCHANGED <<argv, attached, flags, operands>>

(* -M, -C, -P, -I.                                                         *)
SetLimit(w) ==
    /\ IF Valid(Head(letters), w)
       THEN limit' = [limit EXCEPT ![Head(letters)] = w] /\ UNCHANGED exit
       ELSE exit' = "abort" /\ UNCHANGED limit
    /\ letters' = <<>>
    /\ UNCHANGED <<argv, attached, flags, operands>>

(* Mutant of LimitOption: the next element of argv is looked at again.     *)
LimitOptionAgain ==
    /\ exit = "parsing" /\ letters # <<>> /\ Head(letters) \in LimitOptions
    /\ \/ Len(letters) > 1 /\ SetLimit(Garbage)
       \/ Len(letters) = 1 /\ attached # NoWord /\ SetLimit(attached)
       \/ Len(letters) = 1 /\ attached = NoWord /\ rest # <<>> /\ SetLimit(AsWord(Head(rest)))
    /\ UNCHANGED rest

(* The argument is what is left of the cluster, or else the next element.  *)
LimitOption ==
    /\ exit = "parsing" /\ letters # <<>> /\ Head(letters) \in LimitOptions
    /\ \/ /\ Len(letters) > 1
          /\ SetLimit(Garbage)
          /\ UNCHANGED rest
       \/ /\ Len(letters) = 1 /\ attached # NoWord
          /\ SetLimit(attached)
          /\ UNCHANGED rest
       \/ /\ Len(letters) = 1 /\ attached = NoWord /\ rest # <<>>
          /\ SetLimit(AsWord(Head(rest)))
          /\ rest' = Tail(rest)

(* getopt() returns -1: init_resources(), and runc() if -a was given.      *)
EndOfOptions ==
    /\ exit = "parsing" /\ letters = <<>> /\ rest = <<>>
    /\ exit' = IF "a" \in flags THEN "run" ELSE "abort"
    /\ UNCHANGED <<argv, rest, letters, attached, flags, limit, operands>>

CliNext ==
    \/ EnterCluster
    \/ PassOperand
    \/ PassDashDash
    \/ SetFlag
    \/ Usage
    \/ LimitOption
    \/ EndOfOptions

CliSpec == CliInit /\ [][CliNext]_cliVars

-----------------------------------------------------------------------------
(* How a command line is to be read, without a loop.                       *)

(* The cluster wants the next argument: its first limit option is its last *)
(* letter, and has no word attached.                                       *)
WantsNext(arg) ==
    \E k \in DOMAIN arg.letters :
        /\ arg.letters[k] \in LimitOptions /\ k = Len(arg.letters) /\ arg.word = NoWord
        /\ \A j \in 1 .. k - 1 : arg.letters[j] \notin LimitOptions

(* The arguments that want the next one, up to the n-th, begin at the j-th. *)
Chain(v, j, n) ==
    /\ \A k \in j .. n : WantsNext(v[k])
    /\ j > 1 => ~WantsNext(v[j - 1])

(* The i-th argument is taken by the option before it: an odd number of    *)
(* arguments before it want the next one.                                  *)
Taken(v, i) == \E j \in 1 .. i - 1 : (i - j) % 2 = 1 /\ Chain(v, j, i - 1)

(* The i-th argument is behind the "--" that ends the options.             *)
Ended(v, i) == \E j \in 1 .. i - 1 : v[j] = DashDash /\ ~Taken(v, j)

(* Where the options of the i-th argument are, a cluster: up to the first  *)
(* that wants an argument.                                                 *)
OptionsIn(v, i) ==
    {k \in DOMAIN v[i].letters :
        /\ \A l \in 1 .. k - 1 : v[i].letters[l] \notin LimitOptions
        /\ v[i] # DashDash /\ ~Ended(v, i) /\ ~Taken(v, i)}

Before(j, l, i, k) == j < i \/ (j = i /\ l < k)

(* The argument of the option that is the k-th letter of v[i].             *)
WordOf(v, i, k) ==
    IF k < Len(v[i].letters) THEN Garbage
    ELSE IF v[i].word # NoWord THEN v[i].word
    ELSE IF i < Len(v) THEN AsWord(v[i + 1])
    ELSE NoWord

(* What is wrong with that option.                                         *)
Fault(v, i, k) ==
    LET o == v[i].letters[k]
        w == WordOf(v, i, k)
        AfterC == \E j \in 1 .. i : \E l \in OptionsIn(v, j) :
                      Before(j, l, i, k) /\ v[j].letters[l] = "c"
    IN  IF o \in Flags THEN "none"
        ELSE IF o \notin LimitOptions \/ w = NoWord THEN "usage"
        ELSE IF w \in InRange[o] /\ AfterC THEN "none"
        ELSE "abort"

NoFault(v) == \A i \in DOMAIN v : \A k \in OptionsIn(v, i) : Fault(v, i, k) = "none"

FirstFault(v, fault) ==
    \E i \in DOMAIN v : \E k \in OptionsIn(v, i) :
        /\ Fault(v, i, k) = fault
        /\ \A j \in 1 .. i : \A l \in OptionsIn(v, j) :
              Before(j, l, i, k) => Fault(v, j, l) = "none"

Has(v, o) == \E i \in DOMAIN v : \E k \in OptionsIn(v, i) : v[i].letters[k] = o

(* w is the word that the last option o has, if there is an option o.      *)
LastWord(v, o, w) ==
    IF ~Has(v, o) THEN w = NoWord
    ELSE \E i \in DOMAIN v : \E k \in OptionsIn(v, i) :
            /\ v[i].letters[k] = o /\ w = WordOf(v, i, k)
            /\ \A j \in DOMAIN v : \A l \in OptionsIn(v, j) :
                  v[j].letters[l] = o => ~Before(i, k, j, l)

OperandsOf(v) == {i \in DOMAIN v : Ended(v, i) \/ (v[i].letters = <<>> /\ ~Taken(v, i))}

(* words are the arguments S of v, in their order.                         *)
InOrder(words, v, S) ==
    \E f \in [DOMAIN words -> S] :
        /\ \A i \in S : \E n \in DOMAIN words : f[n] = i
        /\ \A n \in DOMAIN words : words[n] = AsWord(v[f[n]])
        /\ \A n \in DOMAIN words : \A m \in 1 .. n - 1 : f[m] < f[n]

(* The loop reads every command line as it is meant: the first fault       *)
(* decides between usage and abort, limits count only after -c, in their   *)
(* range and the last one given, an option's argument is never an option   *)
(* or an operand as well, and the command keeps the order of its words.    *)
ReadAsMeant ==
    /\ exit = "usage" => FirstFault(argv, "usage")
    /\ exit = "abort" => FirstFault(argv, "abort") \/ (NoFault(argv) /\ ~Has(argv, "a"))
    /\ exit = "run" =>
          /\ NoFault(argv) /\ Has(argv, "a")
          /\ InOrder(operands, argv, OperandsOf(argv))
          /\ \A f \in Flags : f \in flags <=> Has(argv, f)
          /\ \A o \in LimitOptions : LastWord(argv, o, limit[o])

-----------------------------------------------------------------------------
(* What the help says and the code does not do.                            *)

(* main.c: "Usage: sudo ./MyDocker <options> <entrypoint>".  Everything    *)
(* from the first word that is not an option's is the container's command. *)
EntrypointWhole ==
    exit = "run" /\ (\A i \in DOMAIN argv : argv[i] # DashDash) =>
        InOrder(operands, argv,
                {i \in DOMAIN argv :
                    \E j \in 1 .. i : argv[j].letters = <<>> /\ ~Taken(argv, j)})

-----------------------------------------------------------------------------
(* The inductive invariant.                                                *)

(* How many arguments have been looked at, and how many letters of the     *)
(* last of them, the cluster getopt() is in.                               *)
seen == Len(argv) - Len(rest)
used == Len(argv[seen].letters) - Len(letters)

(* The loop has come past the k-th letter of the i-th argument.            *)
Past(i, k) == i <= seen /\ (i = seen /\ letters # <<>> => k <= used)

(* What is left is what has not been looked at.                            *)
RestInv ==
    /\ argv \in Seq(Arguments) /\ rest \in Seq(Arguments) /\ Len(rest) <= Len(argv)
    /\ \A i \in 1 .. Len(rest) : rest[i] = argv[seen + i]
    /\ letters \in Seq(Letters)
    /\ letters # <<>> =>
          /\ seen \in 1 .. Len(argv) /\ used \in Nat /\ attached = argv[seen].word
          /\ \A k \in 1 .. Len(letters) : letters[k] = argv[seen].letters[used + k]

(* Which arguments were taken, as far as the loop has come: what is next   *)
(* is not taken, and what it is in was not.                                *)
TakenInv ==
    rest # <<>> \/ letters # <<>> =>
        /\ \A i \in 1 .. seen : argv[i] = DashDash => Taken(argv, i)
        /\ \E j \in 1 .. seen + 1 : Chain(argv, j, seen)
        /\ letters = <<>> => ~Taken(argv, seen + 1)
        /\ letters # <<>> =>
              /\ ~Taken(argv, seen) /\ argv[seen] # DashDash
              /\ \A k \in 1 .. used : argv[seen].letters[k] \notin LimitOptions

(* The flags and limits are what the options so far mean.                  *)
OptionsInv ==
    /\ flags \subseteq Flags /\ DOMAIN limit = LimitOptions
    /\ \A i \in DOMAIN argv : \A k \in OptionsIn(argv, i) :
          Past(i, k) => Fault(argv, i, k) = "none"
    /\ \A f \in Flags : f \in flags <=>
          \E i \in DOMAIN argv : \E k \in OptionsIn(argv, i) :
              Past(i, k) /\ argv[i].letters[k] = f
    /\ \A o \in LimitOptions :
          \/ /\ limit[o] = NoWord
             /\ \A i \in DOMAIN argv : \A k \in OptionsIn(argv, i) :
                   Past(i, k) => argv[i].letters[k] # o
          \/ \E i \in DOMAIN argv : \E k \in OptionsIn(argv, i) :
                /\ Past(i, k) /\ argv[i].letters[k] = o /\ limit[o] = WordOf(argv, i, k)
                /\ \A j \in DOMAIN argv : \A l \in OptionsIn(argv, j) :
                      Past(j, l) /\ argv[j].letters[l] = o => ~Before(i, k, j, l)

(* The operands are the words so far.                                      *)
OperandsInv ==
    /\ operands \in Seq(Words)
    /\ InOrder(operands, argv, OperandsOf(argv) \cap (1 .. seen))

CliInv ==
    /\ exit \in {"parsing", "usage", "abort", "run"}
    /\ exit = "parsing" => RestInv /\ TakenInv /\ OptionsInv /\ OperandsInv
    /\ ReadAsMeant

=============================================================================
