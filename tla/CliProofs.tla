----------------------------- MODULE CliProofs ------------------------------
(***************************************************************************)
(* The proofs about module Cli: for every set of words and clusters and    *)
(* command lines of any length, the option loop reads the command line as  *)
(* it is meant.                                                            *)
(***************************************************************************)
EXTENDS Cli, TLAPS

(* What an argument is.                                                    *)
LEMMA ArgumentIs ==
    ASSUME NEW a \in Arguments
    PROVE  a.letters \in Seq(Letters) /\ AsWord(a) \in Words
  <1>1. Garbage \in Words
    BY WordsAssumption
  <1>2. CASE a \in {[letters |-> <<>>, word |-> w] : w \in Words}
    <2>1. PICK w \in Words : a = [letters |-> <<>>, word |-> w]
      BY <1>2
    <2>2. a.letters = <<>> /\ a.word = w /\ <<>> \in Seq(Letters)
      BY <2>1
    <2> QED  BY <2>1, <2>2 DEF AsWord
  <1>3. CASE a \in {[letters |-> c, word |-> NoWord] : c \in Clusters}
    BY <1>1, <1>3, LettersAssumption DEF AsWord
  <1>4. ASSUME NEW c \in Clusters, NEW w \in Words, a = [letters |-> c, word |-> w]
        PROVE  a.letters \in Seq(Letters) /\ AsWord(a) \in Words
    BY <1>1, <1>4, LettersAssumption DEF AsWord
  <1>5. CASE a = DashDash
    <2>1. a.letters = <<"-">> /\ a.letters # <<>>
      BY <1>5 DEF DashDash
    <2>2. <<"-">> \in Seq(Letters)
      <3>1. \A x \in Letters : <<x>> \in Seq(Letters)
        OBVIOUS
      <3> QED  BY <3>1, LettersAssumption
    <2>3. AsWord(a) = Garbage
      BY <2>1 DEF AsWord
    <2> QED  BY <1>1, <2>1, <2>2, <2>3
  <1>6. CASE a \in {[letters |-> c, word |-> w] :
                       c \in {d \in Clusters : d[Len(d)] \in LimitOptions}, w \in Words \ {Empty}}
    <2>1. PICK c \in {d \in Clusters : d[Len(d)] \in LimitOptions}, w \in Words \ {Empty} :
              a = [letters |-> c, word |-> w]
      BY <1>6
    <2> QED  BY <1>4, <2>1
  <1> QED  BY <1>2, <1>3, <1>5, <1>6 DEF Arguments

LEMMA DashDashIs == DashDash.letters # <<>>
  <1>1. DashDash.letters = <<"-">>
    BY DEF DashDash
  <1> QED  BY <1>1

-----------------------------------------------------------------------------
(* Which arguments are taken, step by step: one that does not want the     *)
(* next leaves it alone, one that is not taken itself and wants it takes   *)
(* it, and what is taken takes nothing.                                    *)
LEMMA NotTaken ==
    ASSUME NEW v, NEW n \in Nat, n > 0 => ~WantsNext(v[n])
    PROVE  ~Taken(v, n + 1)
  <1> SUFFICES ASSUME NEW j \in 1 .. (n + 1) - 1, Chain(v, j, (n + 1) - 1)
               PROVE  FALSE
    BY DEF Taken
  <1>1. n > 0 /\ n \in j .. (n + 1) - 1
    OBVIOUS
  <1> QED  BY <1>1 DEF Chain

LEMMA ChainGoesOn ==
    ASSUME NEW v, NEW n \in Nat, \E j \in 1 .. n + 1 : Chain(v, j, n)
    PROVE  \E j \in 1 .. n + 2 : Chain(v, j, n + 1)
  <1>1. CASE WantsNext(v[n + 1])
    <2>1. PICK j \in 1 .. n + 1 : Chain(v, j, n)
      OBVIOUS
    <2>2. \A k \in j .. n + 1 : k \in j .. n \/ k = n + 1
      OBVIOUS
    <2>3. Chain(v, j, n + 1)
      BY <1>1, <2>1, <2>2 DEF Chain
    <2> QED  BY <2>3
  <1>2. CASE ~WantsNext(v[n + 1])
    <2>1. (n + 2) - 1 = n + 1 /\ n + 2 .. n + 1 = {} /\ n + 2 \in 1 .. n + 2
      OBVIOUS
    <2>2. Chain(v, n + 2, n + 1)
      BY <1>2, <2>1 DEF Chain
    <2> QED  BY <2>1, <2>2
  <1> QED  BY <1>1, <1>2

LEMMA NextTaken ==
    ASSUME NEW v, NEW n \in Nat \ {0}, WantsNext(v[n]), ~Taken(v, n),
           \E j \in 1 .. n + 1 : Chain(v, j, n)
    PROVE  Taken(v, n + 1) /\ ~Taken(v, n + 2)
  <1>1. PICK j \in 1 .. n + 1 : Chain(v, j, n)
    OBVIOUS
  <1>2. j \in 1 .. n
    <2>1. CASE j = n + 1
      <3>1. j > 1 /\ j - 1 = n
        BY <2>1
      <3> QED  BY <1>1, <3>1 DEF Chain
    <2> QED  BY <2>1
  <1>3. (n + 1 - j) % 2 = 1
    <2>1. CASE j = n
      BY <2>1
    <2>2. CASE j \in 1 .. n - 1
      <3>1. Chain(v, j, n - 1)
        BY <1>1, <2>2 DEF Chain
      <3>2. (n - j) % 2 # 1
        BY <2>2, <3>1 DEF Taken
      <3> QED  BY <1>2, <3>2
    <2> QED  BY <1>2, <2>1, <2>2
  <1>4. Taken(v, n + 1)
    <2>1. (n + 1) - 1 = n
      OBVIOUS
    <2> QED  BY <1>1, <1>2, <1>3, <2>1 DEF Taken
  <1>5. ~Taken(v, n + 2)
    <2> SUFFICES ASSUME NEW i \in 1 .. (n + 2) - 1, (n + 2 - i) % 2 = 1,
                        Chain(v, i, (n + 2) - 1)
                 PROVE  FALSE
      BY DEF Taken
    <2>1. CASE i = n + 1
      <3>1. i > 1 /\ i - 1 = n
        BY <2>1
      <3> QED  BY <3>1 DEF Chain
    <2>2. CASE i < j
      <3>1. j > 1 /\ j - 1 \in i .. (n + 2) - 1
        BY <1>2, <2>2
      <3> QED  BY <1>1, <3>1 DEF Chain
    <2>3. CASE j < i /\ i <= n
      <3>1. i > 1 /\ i - 1 \in j .. n
        BY <1>2, <2>3
      <3> QED  BY <1>1, <3>1 DEF Chain
    <2>4. CASE i = j
      BY <1>2, <1>3, <2>4
    <2> QED  BY <1>2, <2>1, <2>2, <2>3, <2>4
  <1> QED  BY <1>4, <1>5

-----------------------------------------------------------------------------
(* The words of further arguments are put behind those of earlier ones.    *)
LEMMA InOrderGrows ==
    ASSUME NEW v, NEW n \in Nat, NEW S \in SUBSET (1 .. n),
           NEW words \in Seq(Words), NEW more \in Seq(Words), InOrder(words, v, S),
           \A k \in 1 .. Len(more) : more[k] = AsWord(v[n + k])
    PROVE  InOrder(words \o more, v, S \cup (n + 1 .. n + Len(more)))
  <1> DEFINE L == Len(words)
             M == Len(more)
             all == words \o more
             T == S \cup (n + 1 .. n + M)
  <1>1. /\ L \in Nat /\ M \in Nat /\ DOMAIN words = 1 .. L /\ DOMAIN all = 1 .. L + M
        /\ \A m \in 1 .. L : all[m] = words[m]
        /\ \A m \in L + 1 .. L + M : all[m] = more[m - L] /\ m - L \in 1 .. M
    OBVIOUS
  <1>2. PICK f \in [1 .. L -> S] :
            /\ \A i \in S : \E m \in 1 .. L : f[m] = i
            /\ \A m \in 1 .. L : words[m] = AsWord(v[f[m]])
            /\ \A m \in 1 .. L : \A k \in 1 .. m - 1 : f[k] < f[m]
    BY <1>1 DEF InOrder
  <1> HIDE DEF L, M, all
  <1> DEFINE g == [m \in 1 .. L + M |-> IF m <= L THEN f[m] ELSE n + (m - L)]
  <1>3. /\ \A m \in 1 .. L : m \in 1 .. L + M /\ g[m] = f[m] /\ f[m] \in S /\ f[m] \in 1 .. n
        /\ \A m \in L + 1 .. L + M :
              m \in 1 .. L + M /\ g[m] = n + (m - L) /\ g[m] \in n + 1 .. n + M
        /\ \A m \in 1 .. L + M : m \in 1 .. L \/ m \in L + 1 .. L + M
    <2>1. /\ \A m \in 1 .. L : m \in 1 .. L + M /\ m <= L
          /\ \A m \in L + 1 .. L + M :
                m \in 1 .. L + M /\ ~(m <= L) /\ n + (m - L) \in n + 1 .. n + M
          /\ \A m \in 1 .. L + M : m \in 1 .. L \/ m \in L + 1 .. L + M
      BY <1>1
    <2>2. \A m \in 1 .. L : f[m] \in S /\ f[m] \in 1 .. n
      BY <1>2
    <2> QED  BY <2>1, <2>2
  <1>4. g \in [1 .. L + M -> T]
    <2>1. \A m \in 1 .. L + M : g[m] \in T
      BY <1>3
    <2> QED  BY <2>1
  <1> HIDE DEF g
  <1>5. \A i \in T : \E m \in 1 .. L + M : g[m] = i
    <2>1. ASSUME NEW i \in S
          PROVE  \E m \in 1 .. L + M : g[m] = i
      BY <1>2, <1>3
    <2>2. ASSUME NEW i \in n + 1 .. n + M
          PROVE  \E m \in 1 .. L + M : g[m] = i
      <3>1. L + (i - n) \in L + 1 .. L + M /\ n + ((L + (i - n)) - L) = i
        BY <1>1
      <3> QED  BY <1>3, <3>1
    <2> QED  BY <2>1, <2>2
  <1>6. \A m \in 1 .. L + M : all[m] = AsWord(v[g[m]])
    <2>1. ASSUME NEW m \in 1 .. L
          PROVE  all[m] = AsWord(v[g[m]])
      BY <1>1, <1>2, <1>3
    <2>2. ASSUME NEW m \in L + 1 .. L + M
          PROVE  all[m] = AsWord(v[g[m]])
      <3>1. all[m] = more[m - L] /\ m - L \in 1 .. Len(more)
        BY <1>1 DEF M
      <3>2. more[m - L] = AsWord(v[n + (m - L)])
        BY <3>1
      <3> QED  BY <1>3, <3>1, <3>2
    <2> QED  BY <1>3, <2>1, <2>2
  <1>7. \A m \in 1 .. L + M : \A k \in 1 .. m - 1 : g[k] < g[m]
    <2> TAKE m \in 1 .. L + M
    <2> TAKE k \in 1 .. m - 1
    <2>1. CASE m \in 1 .. L
      <3>1. k \in 1 .. L /\ f[k] < f[m]
        BY <1>1, <1>2, <2>1
      <3> QED  BY <1>3, <2>1, <3>1
    <2>2. CASE m \in L + 1 .. L + M /\ k \in 1 .. L
      BY <1>3, <2>2
    <2>3. CASE m \in L + 1 .. L + M /\ k \in L + 1 .. L + M
      BY <1>1, <1>3, <2>3
    <2>4. k \in 1 .. L + M
      BY <1>1
    <2> QED  BY <1>3, <2>1, <2>2, <2>3, <2>4
  <1>8. InOrder(all, v, T)
    <2>1. DOMAIN all = 1 .. L + M
      BY <1>1
    <2> HIDE DEF T
    <2> QED  BY <1>4, <1>5, <1>6, <1>7, <2>1 DEF InOrder
  <1> QED  BY <1>8 DEF all, M

-----------------------------------------------------------------------------
(* Where the loop stands.                                                  *)
LEMMA StandsAt ==
    ASSUME RestInv
    PROVE  /\ argv \in Seq(Arguments) /\ Len(argv) \in Nat /\ DOMAIN argv = 1 .. Len(argv)
           /\ rest \in Seq(Arguments) /\ Len(rest) \in Nat
           /\ seen \in 0 .. Len(argv) /\ Len(rest) = Len(argv) - seen
           /\ \A i \in 1 .. Len(rest) : rest[i] = argv[seen + i]
           /\ rest = <<>> => seen = Len(argv)
           /\ rest # <<>> =>
                 /\ seen + 1 \in 1 .. Len(argv) /\ Head(rest) = argv[seen + 1]
                 /\ Head(rest) \in Arguments
                 /\ Tail(rest) \in Seq(Arguments) /\ Len(Tail(rest)) = Len(rest) - 1
                 /\ \A i \in 1 .. Len(Tail(rest)) : Tail(rest)[i] = argv[(seen + 1) + i]
  <1>1. /\ argv \in Seq(Arguments) /\ Len(argv) \in Nat /\ DOMAIN argv = 1 .. Len(argv)
        /\ rest \in Seq(Arguments) /\ Len(rest) \in Nat /\ Len(rest) <= Len(argv)
        /\ \A i \in 1 .. Len(rest) : rest[i] = argv[seen + i]
    BY DEF RestInv
  <1>2. seen \in 0 .. Len(argv) /\ Len(rest) = Len(argv) - seen
    BY <1>1 DEF seen
  <1>3. ASSUME rest = <<>>
        PROVE  seen = Len(argv)
    <2>1. Len(rest) = 0
      BY <1>3
    <2>2. Len(argv) \in Int
      BY <1>1
    <2>3. seen \in Int
      BY <1>2, <2>2
    <2>4. 0 = Len(argv) - seen
      BY <1>2, <2>1, Zenon
    <2>5. seen \in Int /\ Len(argv) \in Int /\ 0 = Len(argv) - seen
      BY <2>2, <2>3, <2>4
    <2>6. \A a \in Int, b \in Int : 0 = a - b => b = a
      OBVIOUS
    <2> QED  BY <2>5, <2>6
  <1>4. ASSUME rest # <<>>
        PROVE  /\ seen + 1 \in 1 .. Len(argv) /\ Head(rest) = argv[seen + 1]
               /\ Head(rest) \in Arguments
               /\ Tail(rest) \in Seq(Arguments) /\ Len(Tail(rest)) = Len(rest) - 1
               /\ \A i \in 1 .. Len(Tail(rest)) : Tail(rest)[i] = argv[(seen + 1) + i]
    <2>1. /\ Len(rest) > 0 /\ Head(rest) = rest[1] /\ Head(rest) \in Arguments
          /\ Tail(rest) \in Seq(Arguments) /\ Len(Tail(rest)) = Len(rest) - 1
          /\ \A i \in 1 .. Len(rest) - 1 : i + 1 \in 1 .. Len(rest) /\ Tail(rest)[i] = rest[i + 1]
      BY <1>1, <1>4
    <2>2. seen + 1 \in 1 .. Len(argv) /\ Head(rest) = argv[seen + 1]
      BY <1>1, <1>2, <2>1
    <2>3. \A i \in 1 .. Len(Tail(rest)) : Tail(rest)[i] = argv[(seen + 1) + i]
      <3> TAKE i \in 1 .. Len(Tail(rest))
      <3>1. i + 1 \in 1 .. Len(rest) /\ Tail(rest)[i] = rest[i + 1]
        BY <2>1
      <3>2. rest[i + 1] = argv[seen + (i + 1)] /\ seen + (i + 1) = (seen + 1) + i
        BY <1>1, <1>2, <3>1
      <3> QED  BY <3>1, <3>2
    <2> QED  BY <2>1, <2>2, <2>3
  <1> QED  BY <1>1, <1>2, <1>3, <1>4

(* Until the "--" no argument is behind it.                                *)
LEMMA NotEnded ==
    ASSUME RestInv, TakenInv, rest # <<>> \/ letters # <<>>, NEW i \in 1 .. seen + 1
    PROVE  ~Ended(argv, i)
  <1>1. \A j \in 1 .. seen : argv[j] = DashDash => Taken(argv, j)
    BY DEF TakenInv
  <1>2. \A j \in 1 .. i - 1 : j \in 1 .. seen
    BY StandsAt
  <1> QED  BY <1>1, <1>2 DEF Ended

(* The letter at hand is an option, and those the loop has come past are   *)
(* the ones before it.                                                     *)
LEMMA LetterAtHand ==
    ASSUME RestInv, TakenInv, letters # <<>>
    PROVE  /\ seen \in 1 .. Len(argv) /\ seen \in DOMAIN argv /\ used \in Nat
           /\ letters \in Seq(Letters) /\ Len(letters) \in Nat /\ Len(letters) > 0
           /\ used + 1 \in OptionsIn(argv, seen) /\ Head(letters) = argv[seen].letters[used + 1]
           /\ Len(argv[seen].letters) = used + Len(letters)
           /\ \A i \in DOMAIN argv : \A k \in OptionsIn(argv, i) :
                 Past(i, k) <=> Before(i, k, seen, used + 1)
  <1>1. /\ seen \in 1 .. Len(argv) /\ seen \in DOMAIN argv /\ used \in Nat
        /\ letters \in Seq(Letters) /\ Len(letters) \in Nat /\ Len(letters) > 0
        /\ \A k \in 1 .. Len(letters) : letters[k] = argv[seen].letters[used + k]
    BY StandsAt DEF RestInv
  <1>2. argv[seen].letters \in Seq(Letters)
    <2>1. argv[seen] \in Arguments
      BY <1>1, StandsAt
    <2> QED  BY <2>1, ArgumentIs
  <1>3. /\ Len(argv[seen].letters) \in Nat
        /\ DOMAIN argv[seen].letters = 1 .. Len(argv[seen].letters)
        /\ \A i \in DOMAIN argv : DOMAIN argv[i].letters \subseteq Nat
    <2>1. ASSUME NEW i \in DOMAIN argv
          PROVE  DOMAIN argv[i].letters \subseteq Nat
      <3>1. argv[i] \in Arguments
        BY StandsAt
      <3>2. argv[i].letters \in Seq(Letters)
        BY <3>1, ArgumentIs
      <3> QED  BY <3>2
    <2> QED  BY <1>2, <2>1
  <1>4. Len(argv[seen].letters) = used + Len(letters)
    BY <1>1, <1>3 DEF used
  <1>5. used + 1 \in DOMAIN argv[seen].letters
    BY <1>1, <1>3, <1>4
  <1>6. Head(letters) = argv[seen].letters[used + 1]
    <2>1. Head(letters) = letters[1] /\ 1 \in 1 .. Len(letters)
      BY <1>1
    <2> QED  BY <1>1, <2>1
  <1>7. used + 1 \in OptionsIn(argv, seen)
    <2>1. ~Taken(argv, seen) /\ argv[seen] # DashDash /\ ~Ended(argv, seen)
      <3>1. seen \in 1 .. seen + 1
        BY <1>1
      <3> QED  BY <3>1, NotEnded DEF TakenInv
    <2>2. \A l \in 1 .. (used + 1) - 1 : argv[seen].letters[l] \notin LimitOptions
      BY <1>1 DEF TakenInv
    <2> QED  BY <1>5, <2>1, <2>2 DEF OptionsIn
  <1>8. ASSUME NEW i \in DOMAIN argv, NEW k \in OptionsIn(argv, i)
        PROVE  Past(i, k) <=> Before(i, k, seen, used + 1)
    <2>1. i \in Nat /\ k \in Nat /\ seen \in Nat
      BY <1>1, <1>3, StandsAt DEF OptionsIn
    <2> QED  BY <1>1, <2>1 DEF Past, Before
  <1> QED  BY <1>1, <1>4, <1>6, <1>7, <1>8

(* What is wrong with the option at hand.                                  *)
LEMMA FaultAtHand ==
    ASSUME RestInv, TakenInv, OptionsInv, letters # <<>>
    PROVE  LET w == WordOf(argv, seen, used + 1) IN
           Fault(argv, seen, used + 1) =
               IF Head(letters) \in Flags THEN "none"
               ELSE IF Head(letters) \notin LimitOptions \/ w = NoWord THEN "usage"
               ELSE IF w \in InRange[Head(letters)] /\ "c" \in flags THEN "none"
               ELSE "abort"
  <1>1. /\ seen \in 1 .. Len(argv) /\ DOMAIN argv = 1 .. Len(argv) /\ Len(argv) \in Nat
        /\ Head(letters) = argv[seen].letters[used + 1]
        /\ \A i \in DOMAIN argv : \A k \in OptionsIn(argv, i) :
              Past(i, k) <=> Before(i, k, seen, used + 1)
    BY LetterAtHand, StandsAt
  <1>2. (\E j \in 1 .. seen : \E l \in OptionsIn(argv, j) :
            Before(j, l, seen, used + 1) /\ argv[j].letters[l] = "c") <=> "c" \in flags
    <2>1. "c" \in flags <=>
            \E i \in DOMAIN argv : \E k \in OptionsIn(argv, i) :
                Past(i, k) /\ argv[i].letters[k] = "c"
      BY DEF OptionsInv, Flags
    <2>2. \A i \in DOMAIN argv : \A k \in OptionsIn(argv, i) :
             Before(i, k, seen, used + 1) => i \in 1 .. seen
      BY <1>1 DEF Before
    <2>3. \A i \in 1 .. seen : i \in DOMAIN argv
      BY <1>1
    <2> QED  BY <1>1, <2>1, <2>2, <2>3
  <1> QED  BY <1>1, <1>2 DEF Fault

(* It is the first with anything wrong.                                    *)
LEMMA FirstAtHand ==
    ASSUME RestInv, TakenInv, OptionsInv, letters # <<>>
    PROVE  FirstFault(argv, Fault(argv, seen, used + 1))
  <1>1. /\ seen \in DOMAIN argv /\ used + 1 \in OptionsIn(argv, seen)
        /\ \A i \in DOMAIN argv : \A k \in OptionsIn(argv, i) :
              Past(i, k) <=> Before(i, k, seen, used + 1)
    BY LetterAtHand
  <1>2. \A j \in 1 .. seen : j \in DOMAIN argv
    BY StandsAt
  <1>3. \A j \in 1 .. seen : \A l \in OptionsIn(argv, j) :
           Before(j, l, seen, used + 1) => Fault(argv, j, l) = "none"
    BY <1>1, <1>2 DEF OptionsInv
  <1> QED  BY <1>1, <1>3 DEF FirstFault

-----------------------------------------------------------------------------
(* Nothing is read: the loop goes on to another argument.                  *)
LEMMA OptionsMoved ==
    ASSUME OptionsInv, argv' = argv, flags' = flags, limit' = limit,
           \A i \in DOMAIN argv : \A k \in OptionsIn(argv, i) : Past(i, k)' <=> Past(i, k)
    PROVE  OptionsInv'
  <1>1. /\ flags' \subseteq Flags /\ DOMAIN limit' = LimitOptions
        /\ \A i \in DOMAIN argv' : \A k \in OptionsIn(argv', i) :
              Past(i, k)' => Fault(argv', i, k) = "none"
    BY DEF OptionsInv
  <1>2. \A f \in Flags : f \in flags' <=>
           \E i \in DOMAIN argv' : \E k \in OptionsIn(argv', i) :
               Past(i, k)' /\ argv'[i].letters[k] = f
    BY DEF OptionsInv
  <1>3. ASSUME NEW o \in LimitOptions
        PROVE  \/ /\ limit'[o] = NoWord
                  /\ \A i \in DOMAIN argv' : \A k \in OptionsIn(argv', i) :
                        Past(i, k)' => argv'[i].letters[k] # o
               \/ \E i \in DOMAIN argv' : \E k \in OptionsIn(argv', i) :
                     /\ Past(i, k)' /\ argv'[i].letters[k] = o /\ limit'[o] = WordOf(argv', i, k)
                     /\ \A j \in DOMAIN argv' : \A l \in OptionsIn(argv', j) :
                           Past(j, l)' /\ argv'[j].letters[l] = o => ~Before(i, k, j, l)
    BY DEF OptionsInv
  <1> QED  BY <1>1, <1>2, <1>3 DEF OptionsInv

(* The option at hand is read.                                             *)
LEMMA OptionRead ==
    ASSUME RestInv, TakenInv, OptionsInv, letters # <<>>, argv' = argv,
           \A i \in DOMAIN argv : \A k \in OptionsIn(argv, i) :
               Past(i, k)' <=> Past(i, k) \/ (i = seen /\ k = used + 1),
           Fault(argv, seen, used + 1) = "none",
           \/ Head(letters) \in Flags /\ flags' = flags \cup {Head(letters)} /\ limit' = limit
           \/ /\ Head(letters) \in LimitOptions /\ flags' = flags
              /\ limit' = [limit EXCEPT ![Head(letters)] = WordOf(argv, seen, used + 1)]
    PROVE  OptionsInv'
  <1> DEFINE h == Head(letters)
             Is(i, k) == i \in DOMAIN argv /\ k \in OptionsIn(argv, i)
  <1>0. PICK n, u : n = seen /\ u = used + 1
    OBVIOUS
  <1>1. /\ Is(n, u) /\ argv[n].letters[u] = h /\ n \in Nat /\ u \in Nat
        /\ \A i, k : Is(i, k) => (Past(i, k) <=> Before(i, k, n, u))
    BY <1>0, LetterAtHand
  <1>2. DOMAIN argv \subseteq Nat /\ \A i, k : Is(i, k) => i \in Nat /\ k \in Nat
    <2>1. DOMAIN argv \subseteq Nat
      BY StandsAt
    <2>2. ASSUME NEW i \in DOMAIN argv, NEW k \in OptionsIn(argv, i)
          PROVE  k \in Nat
      <3>1. argv[i] \in Arguments
        BY StandsAt
      <3>2. argv[i].letters \in Seq(Letters)
        BY <3>1, ArgumentIs
      <3>3. k \in DOMAIN argv[i].letters
        BY DEF OptionsIn
      <3> QED  BY <3>2, <3>3
    <2> QED  BY <2>1, <2>2
  <1>3. \A i, k : Is(i, k) => (Past(i, k)' <=> Past(i, k) \/ (i = n /\ k = u))
    BY <1>0
  <1>4. Flags \cap LimitOptions = {}
    BY DEF Flags, LimitOptions
  <1>5. /\ flags \subseteq Flags /\ DOMAIN limit = LimitOptions
        /\ \A i, k : Is(i, k) /\ Past(i, k) => Fault(argv, i, k) = "none"
        /\ \A f \in Flags : f \in flags <=>
              \E i, k : Is(i, k) /\ Past(i, k) /\ argv[i].letters[k] = f
        /\ \A o \in LimitOptions :
              \/ /\ limit[o] = NoWord
                 /\ \A i, k : Is(i, k) /\ Past(i, k) => argv[i].letters[k] # o
              \/ \E i, k :
                    /\ Is(i, k) /\ Past(i, k) /\ argv[i].letters[k] = o
                    /\ limit[o] = WordOf(argv, i, k)
                    /\ \A j, l : Is(j, l) /\ Past(j, l) /\ argv[j].letters[l] = o =>
                                     ~Before(i, k, j, l)
    <2>1. \A f \in Flags : f \in flags <=>
             \E i, k : Is(i, k) /\ Past(i, k) /\ argv[i].letters[k] = f
      BY DEF OptionsInv
    <2>2. ASSUME NEW o \in LimitOptions
          PROVE  \/ /\ limit[o] = NoWord
                    /\ \A i, k : Is(i, k) /\ Past(i, k) => argv[i].letters[k] # o
                 \/ \E i, k :
                       /\ Is(i, k) /\ Past(i, k) /\ argv[i].letters[k] = o
                       /\ limit[o] = WordOf(argv, i, k)
                       /\ \A j, l : Is(j, l) /\ Past(j, l) /\ argv[j].letters[l] = o =>
                                        ~Before(i, k, j, l)
      BY DEF OptionsInv
    <2>3. /\ flags \subseteq Flags /\ DOMAIN limit = LimitOptions
          /\ \A i, k : Is(i, k) /\ Past(i, k) => Fault(argv, i, k) = "none"
      BY DEF OptionsInv
    <2> QED  BY <2>1, <2>2, <2>3
  <1>6. /\ h \in Flags => flags' = flags \cup {h} /\ limit' = limit
        /\ h \notin Flags =>
              /\ h \in LimitOptions /\ flags' = flags
              /\ limit' = [limit EXCEPT ![h] = WordOf(argv, n, u)]
        /\ Fault(argv, n, u) = "none"
    BY <1>0, <1>4
  <1> HIDE DEF h, Is
  <1>7. \A i, k : Is(i, k) /\ Past(i, k)' => Fault(argv, i, k) = "none"
    BY <1>3, <1>5, <1>6
  <1>8. \A f \in Flags : f \in flags' <=>
           \E i, k : Is(i, k) /\ Past(i, k)' /\ argv[i].letters[k] = f
    <2> TAKE f \in Flags
    <2>1. f \in flags' <=> f \in flags \/ f = h
      BY <1>6
    <2>2. (\E i, k : Is(i, k) /\ Past(i, k)' /\ argv[i].letters[k] = f) <=>
             \/ \E i, k : Is(i, k) /\ Past(i, k) /\ argv[i].letters[k] = f
             \/ f = h
      BY <1>1, <1>3
    <2> QED  BY <1>5, <2>1, <2>2
  <1>9. ASSUME NEW o \in LimitOptions
        PROVE  \/ /\ limit'[o] = NoWord
                  /\ \A i, k : Is(i, k) /\ Past(i, k)' => argv[i].letters[k] # o
               \/ \E i, k :
                     /\ Is(i, k) /\ Past(i, k)' /\ argv[i].letters[k] = o
                     /\ limit'[o] = WordOf(argv, i, k)
                     /\ \A j, l : Is(j, l) /\ Past(j, l)' /\ argv[j].letters[l] = o =>
                                      ~Before(i, k, j, l)
    <2>1. CASE o # h
      <3>1. limit'[o] = limit[o]
        BY <1>5, <1>6, <2>1
      <3>2. \A i, k : Is(i, k) /\ argv[i].letters[k] = o => (Past(i, k)' <=> Past(i, k))
        BY <1>1, <1>3, <2>1
      <3>3. CASE limit[o] = NoWord /\ \A i, k : Is(i, k) /\ Past(i, k) => argv[i].letters[k] # o
        BY <3>1, <3>2, <3>3
      <3>4. CASE \E i, k :
                    /\ Is(i, k) /\ Past(i, k) /\ argv[i].letters[k] = o
                    /\ limit[o] = WordOf(argv, i, k)
                    /\ \A j, l : Is(j, l) /\ Past(j, l) /\ argv[j].letters[l] = o =>
                                     ~Before(i, k, j, l)
        BY <3>1, <3>2, <3>4
      <3> QED  BY <1>5, <3>3, <3>4
    <2>2. CASE o = h
      <3>1. limit'[o] = WordOf(argv, n, u)
        BY <1>4, <1>5, <1>6, <2>2
      <3>2. Is(n, u) /\ Past(n, u)' /\ argv[n].letters[u] = o
        BY <1>1, <1>3, <2>2
      <3>3. ASSUME NEW j, NEW l, Is(j, l), Past(j, l)'
            PROVE  ~Before(n, u, j, l)
        <4>1. Before(j, l, n, u) \/ (j = n /\ l = u)
          BY <1>1, <1>3, <3>3
        <4>2. j \in Nat /\ l \in Nat
          BY <1>2, <3>3
        <4> QED  BY <1>1, <4>1, <4>2 DEF Before
      <3> QED  BY <3>1, <3>2, <3>3
    <2> QED  BY <2>1, <2>2
  <1>10. flags' \subseteq Flags /\ DOMAIN limit' = LimitOptions
    <2>1. CASE h \in Flags
      BY <1>5, <1>6, <2>1
    <2>2. CASE h \notin Flags
      BY <1>5, <1>6, <2>2
    <2> QED  BY <2>1, <2>2
  <1>11. /\ \A i \in DOMAIN argv' : \A k \in OptionsIn(argv', i) :
               Past(i, k)' => Fault(argv', i, k) = "none"
         /\ \A f \in Flags : f \in flags' <=>
               \E i \in DOMAIN argv' : \E k \in OptionsIn(argv', i) :
                   Past(i, k)' /\ argv'[i].letters[k] = f
    BY <1>7, <1>8 DEF Is
  <1>12. ASSUME NEW o \in LimitOptions
         PROVE  \/ /\ limit'[o] = NoWord
                   /\ \A i \in DOMAIN argv' : \A k \in OptionsIn(argv', i) :
                         Past(i, k)' => argv'[i].letters[k] # o
                \/ \E i \in DOMAIN argv' : \E k \in OptionsIn(argv', i) :
                      /\ Past(i, k)' /\ argv'[i].letters[k] = o /\ limit'[o] = WordOf(argv', i, k)
                      /\ \A j \in DOMAIN argv' : \A l \in OptionsIn(argv', j) :
                            Past(j, l)' /\ argv'[j].letters[l] = o => ~Before(i, k, j, l)
    BY <1>9 DEF Is
  <1> QED  BY <1>10, <1>11, <1>12 DEF OptionsInv

-----------------------------------------------------------------------------
(* The loop goes on, or stops at a fault.                                  *)
LEMMA GoesOn ==
    ASSUME exit' = "parsing", RestInv', TakenInv', OptionsInv', OperandsInv'
    PROVE  CliInv'
  <1>1. ReadAsMeant'
    BY DEF ReadAsMeant
  <1> QED  BY <1>1 DEF CliInv

LEMMA StopsAtFault ==
    ASSUME NEW fault \in {"usage", "abort"}, exit' = fault, argv' = argv, FirstFault(argv, fault)
    PROVE  CliInv'
  <1>1. FirstFault(argv', fault)
    OBVIOUS
  <1>2. ReadAsMeant'
    <2>1. CASE fault = "usage"
      BY <1>1, <2>1 DEF ReadAsMeant
    <2>2. CASE fault = "abort"
      BY <1>1, <2>2 DEF ReadAsMeant
    <2> QED  BY <2>1, <2>2
  <1> QED  BY <1>2 DEF CliInv

(* Places of letters count from 1.                                         *)
LEMMA PlacesAre ==
    ASSUME RestInv, NEW i \in DOMAIN argv
    PROVE  /\ i \in Nat /\ i >= 1 /\ argv[i].letters \in Seq(Letters)
           /\ \A k \in OptionsIn(argv, i) :
                 k \in Nat /\ k >= 1 /\ k <= Len(argv[i].letters) /\ k \in DOMAIN argv[i].letters
  <1>1. i \in Nat /\ i >= 1 /\ argv[i] \in Arguments
    BY StandsAt
  <1>2. argv[i].letters \in Seq(Letters)
    BY <1>1, ArgumentIs
  <1>3. \A k \in DOMAIN argv[i].letters : k \in Nat /\ k >= 1 /\ k <= Len(argv[i].letters)
    BY <1>2
  <1> QED  BY <1>1, <1>2, <1>3 DEF OptionsIn

(* getopt() has gone to the next argument.                                 *)
LEMMA Onward ==
    ASSUME RestInv, rest # <<>>, argv' = argv, rest' = Tail(rest)
    PROVE  /\ seen' = seen + 1 /\ seen \in Nat
           /\ argv' \in Seq(Arguments) /\ rest' \in Seq(Arguments) /\ Len(rest') <= Len(argv')
           /\ \A i \in 1 .. Len(rest') : rest'[i] = argv'[seen' + i]
  <1>1. /\ Len(rest') = Len(rest) - 1 /\ Len(rest) = Len(argv) - seen /\ seen \in Nat
        /\ Len(argv) \in Nat /\ seen \in 0 .. Len(argv) /\ rest' \in Seq(Arguments)
        /\ argv \in Seq(Arguments)
        /\ \A i \in 1 .. Len(rest') : rest'[i] = argv[(seen + 1) + i]
    BY StandsAt
  <1>2. seen' = seen + 1
    <2>1. seen' = Len(argv) - Len(rest')
      BY DEF seen
    <2> QED  BY <1>1, <2>1
  <1>3. Len(rest') <= Len(argv')
    BY <1>1
  <1> QED  BY <1>1, <1>2, <1>3

LEMMA EnterClusterStep ==
    ASSUME CliInv, EnterCluster
    PROVE  CliInv'
  <1>1. /\ RestInv /\ TakenInv /\ OptionsInv /\ OperandsInv /\ exit' = "parsing"
        /\ letters = <<>> /\ rest # <<>> /\ rest' = Tail(rest) /\ argv' = argv
        /\ flags' = flags /\ limit' = limit /\ operands' = operands
        /\ Head(rest).letters # <<>> /\ Head(rest) # DashDash
        /\ letters' = Head(rest).letters /\ attached' = Head(rest).word
    BY DEF EnterCluster, NextArgument, CliInv
  <1>2. /\ seen' = seen + 1 /\ seen \in Nat /\ Head(rest) = argv[seen + 1]
        /\ seen + 1 \in 1 .. Len(argv) /\ DOMAIN argv = 1 .. Len(argv)
    BY <1>1, Onward, StandsAt
  <1>3. /\ argv[seen + 1].letters \in Seq(Letters) /\ Len(argv[seen + 1].letters) \in Nat
    BY <1>1, <1>2, PlacesAre
  <1>4. used' = 0
    <2>1. used' = Len(argv'[seen'].letters) - Len(letters')
      BY DEF used
    <2>2. argv'[seen'].letters = letters'
      BY <1>1, <1>2
    <2> QED  BY <1>1, <1>2, <1>3, <2>1, <2>2
  <1>5. RestInv'
    <2>1. /\ argv' \in Seq(Arguments) /\ rest' \in Seq(Arguments) /\ Len(rest') <= Len(argv')
          /\ \A i \in 1 .. Len(rest') : rest'[i] = argv'[seen' + i]
      BY <1>1, Onward
    <2>2. /\ letters' \in Seq(Letters) /\ seen' \in 1 .. Len(argv') /\ used' \in Nat
          /\ attached' = argv'[seen'].word
      BY <1>1, <1>2, <1>3, <1>4
    <2>3. \A k \in 1 .. Len(letters') : letters'[k] = argv'[seen'].letters[used' + k]
      BY <1>1, <1>2, <1>3, <1>4
    <2> QED  BY <2>1, <2>2, <2>3 DEF RestInv
  <1>6. TakenInv'
    <2>1. \A i \in 1 .. seen' : argv'[i] = DashDash => Taken(argv', i)
      <3>1. \A i \in 1 .. seen : argv[i] = DashDash => Taken(argv, i)
        BY <1>1 DEF TakenInv
      <3>2. \A i \in 1 .. seen' : i \in 1 .. seen \/ i = seen + 1
        BY <1>2
      <3> QED  BY <1>1, <1>2, <3>1, <3>2
    <2>2. \E j \in 1 .. seen' + 1 : Chain(argv', j, seen')
      <3>1. \E j \in 1 .. seen + 1 : Chain(argv, j, seen)
        BY <1>1 DEF TakenInv
      <3>2. \E j \in 1 .. seen + 2 : Chain(argv, j, seen + 1)
        BY <1>2, <3>1, ChainGoesOn
      <3>3. seen' + 1 = seen + 2
        BY <1>2
      <3> QED  BY <1>1, <1>2, <3>2, <3>3
    <2>3. ~Taken(argv', seen') /\ argv'[seen'] # DashDash
      BY <1>1, <1>2 DEF TakenInv
    <2>4. letters' # <<>> /\ 1 .. used' = {}
      BY <1>1, <1>4
    <2> QED  BY <2>1, <2>2, <2>3, <2>4 DEF TakenInv
  <1>7. OptionsInv'
    <2>1. ASSUME NEW i \in DOMAIN argv, NEW k \in OptionsIn(argv, i)
          PROVE  Past(i, k)' <=> Past(i, k)
      <3>1. i \in Nat /\ k \in Nat /\ k >= 1
        BY <1>1, PlacesAre
      <3>2. Past(i, k)' <=> i <= seen + 1 /\ (i = seen + 1 => k <= 0)
        BY <1>1, <1>2, <1>4 DEF Past
      <3>3. Past(i, k) <=> i <= seen
        BY <1>1 DEF Past
      <3> QED  BY <1>2, <3>1, <3>2, <3>3
    <2> QED  BY <1>1, <2>1, OptionsMoved
  <1>8. OperandsInv'
    <2>1. seen + 1 \notin OperandsOf(argv)
      <3>1. ~Ended(argv, seen + 1)
        <4>1. seen + 1 \in 1 .. seen + 1
          BY <1>2
        <4> QED  BY <1>1, <4>1, NotEnded
      <3> QED  BY <1>1, <1>2, <3>1 DEF OperandsOf
    <2>2. OperandsOf(argv) \cap (1 .. seen') = OperandsOf(argv) \cap (1 .. seen)
      BY <1>2, <2>1
    <2> QED  BY <1>1, <2>2 DEF OperandsInv
  <1> QED  BY <1>1, <1>5, <1>6, <1>7, <1>8, GoesOn

LEMMA PassOperandStep ==
    ASSUME CliInv, PassOperand
    PROVE  CliInv'
  <1>1. /\ RestInv /\ TakenInv /\ OptionsInv /\ OperandsInv /\ exit' = "parsing"
        /\ letters = <<>> /\ rest # <<>> /\ rest' = Tail(rest) /\ argv' = argv
        /\ flags' = flags /\ limit' = limit
        /\ Head(rest).letters = <<>> /\ operands' = Append(operands, Head(rest).word)
        /\ letters' = letters /\ attached' = attached
    BY DEF PassOperand, NextArgument, CliInv
  <1>2. /\ seen' = seen + 1 /\ seen \in Nat /\ Head(rest) = argv[seen + 1]
        /\ seen + 1 \in 1 .. Len(argv) /\ DOMAIN argv = 1 .. Len(argv)
        /\ Head(rest) \in Arguments
    BY <1>1, Onward, StandsAt
  <1>3. RestInv'
    <2>1. /\ argv' \in Seq(Arguments) /\ rest' \in Seq(Arguments) /\ Len(rest') <= Len(argv')
          /\ \A i \in 1 .. Len(rest') : rest'[i] = argv'[seen' + i]
      BY <1>1, Onward
    <2>2. letters' \in Seq(Letters)
      BY <1>1 DEF RestInv
    <2> QED  BY <1>1, <2>1, <2>2 DEF RestInv
  <1>4. ~Taken(argv, seen + 1) /\ ~Ended(argv, seen + 1)
    <2>1. seen + 1 \in 1 .. seen + 1
      BY <1>2
    <2> QED  BY <1>1, <2>1, NotEnded DEF TakenInv
  <1>5. TakenInv'
    <2>1. \A i \in 1 .. seen' : argv'[i] = DashDash => Taken(argv', i)
      <3>1. \A i \in 1 .. seen : argv[i] = DashDash => Taken(argv, i)
        BY <1>1 DEF TakenInv
      <3>2. \A i \in 1 .. seen' : i \in 1 .. seen \/ i = seen + 1
        BY <1>2
      <3>3. argv[seen + 1] # DashDash
        BY <1>1, <1>2, DashDashIs
      <3> QED  BY <1>1, <3>1, <3>2, <3>3
    <2>2. \E j \in 1 .. seen' + 1 : Chain(argv', j, seen')
      <3>1. \E j \in 1 .. seen + 1 : Chain(argv, j, seen)
        BY <1>1 DEF TakenInv
      <3>2. \E j \in 1 .. seen + 2 : Chain(argv, j, seen + 1)
        BY <1>2, <3>1, ChainGoesOn
      <3>3. seen' + 1 = seen + 2
        BY <1>2
      <3> QED  BY <1>1, <1>2, <3>2, <3>3
    <2>3. ~Taken(argv', seen' + 1)
      <3>1. ~WantsNext(argv[seen + 1])
        BY <1>1, <1>2 DEF WantsNext
      <3>2. ~Taken(argv, (seen + 1) + 1)
        BY <1>2, <3>1, NotTaken
      <3> QED  BY <1>1, <1>2, <3>2
    <2> QED  BY <1>1, <2>1, <2>2, <2>3 DEF TakenInv
  <1>6. OptionsInv'
    <2>1. ASSUME NEW i \in DOMAIN argv, NEW k \in OptionsIn(argv, i)
          PROVE  Past(i, k)' <=> Past(i, k)
      <3>1. i \in Nat /\ k \in DOMAIN argv[i].letters
        BY <1>1, PlacesAre
      <3>2. i # seen + 1
        BY <1>1, <1>2, <3>1
      <3>3. Past(i, k)' <=> i <= seen + 1
        BY <1>1, <1>2 DEF Past
      <3>4. Past(i, k) <=> i <= seen
        BY <1>1 DEF Past
      <3> QED  BY <1>2, <3>1, <3>2, <3>3, <3>4
    <2> QED  BY <1>1, <2>1, OptionsMoved
  <1>7. OperandsInv'
    <2> DEFINE S == OperandsOf(argv) \cap (1 .. seen)
               more == <<AsWord(argv[seen + 1])>>
    <2>1. /\ operands \in Seq(Words) /\ InOrder(operands, argv, S)
          /\ AsWord(argv[seen + 1]) \in Words
      BY <1>1, <1>2, ArgumentIs DEF OperandsInv
    <2>2. /\ more \in Seq(Words) /\ Len(more) = 1 /\ more[1] = AsWord(argv[seen + 1])
          /\ operands' = operands \o more
      BY <1>1, <1>2, <2>1 DEF AsWord
    <2>3. S \in SUBSET (1 .. seen) /\ \A k \in 1 .. Len(more) : more[k] = AsWord(argv[seen + k])
      BY <2>2
    <2> HIDE DEF S, more
    <2>4. InOrder(operands \o more, argv, S \cup (seen + 1 .. seen + Len(more)))
      BY <1>2, <2>1, <2>2, <2>3, InOrderGrows
    <2>5. S \cup (seen + 1 .. seen + Len(more)) = OperandsOf(argv) \cap (1 .. seen')
      <3>1. seen + 1 \in OperandsOf(argv)
        BY <1>1, <1>2, <1>4 DEF OperandsOf
      <3> QED  BY <1>2, <2>2, <3>1 DEF S
    <2>6. operands' \in Seq(Words)
      BY <2>1, <2>2
    <2> QED  BY <1>1, <2>2, <2>4, <2>5, <2>6 DEF OperandsInv
  <1> QED  BY <1>1, <1>3, <1>5, <1>6, <1>7, GoesOn

LEMMA PassDashDashStep ==
    ASSUME CliInv, PassDashDash
    PROVE  CliInv'
  <1>1. /\ RestInv /\ TakenInv /\ OptionsInv /\ OperandsInv /\ exit' = "parsing"
        /\ letters = <<>> /\ rest # <<>> /\ rest' = <<>> /\ argv' = argv
        /\ flags' = flags /\ limit' = limit /\ Head(rest) = DashDash
        /\ operands' = operands \o [i \in DOMAIN Tail(rest) |-> AsWord(Tail(rest)[i])]
        /\ letters' = letters /\ attached' = attached
    BY DEF PassDashDash, CliInv
  <1>2. /\ seen \in Nat /\ argv[seen + 1] = DashDash /\ Len(argv) \in Nat
        /\ seen + 1 \in 1 .. Len(argv) /\ DOMAIN argv = 1 .. Len(argv) /\ argv \in Seq(Arguments)
        /\ Tail(rest) \in Seq(Arguments) /\ Len(Tail(rest)) = Len(argv) - (seen + 1)
        /\ \A i \in 1 .. Len(Tail(rest)) : Tail(rest)[i] = argv[(seen + 1) + i]
    <2>1. /\ argv \in Seq(Arguments) /\ Len(argv) \in Nat /\ DOMAIN argv = 1 .. Len(argv)
          /\ seen \in 0 .. Len(argv) /\ Len(rest) = Len(argv) - seen
          /\ seen + 1 \in 1 .. Len(argv) /\ Head(rest) = argv[seen + 1]
          /\ Tail(rest) \in Seq(Arguments) /\ Len(Tail(rest)) = Len(rest) - 1
          /\ \A i \in 1 .. Len(Tail(rest)) : Tail(rest)[i] = argv[(seen + 1) + i]
      BY <1>1, StandsAt
    <2>2. seen \in Nat
      BY <2>1
    <2>3. Len(Tail(rest)) = Len(argv) - (seen + 1)
      <3>1. \A a \in Nat, b \in Nat : (a - b) - 1 = a - (b + 1)
        OBVIOUS
      <3>2. (Len(argv) - seen) - 1 = Len(argv) - (seen + 1)
        BY <2>1, <2>2, <3>1
      <3>3. Len(Tail(rest)) = (Len(argv) - seen) - 1
        BY <2>1
      <3> QED  BY <3>2, <3>3
    <2> QED  BY <1>1, <2>1, <2>2, <2>3
  <1>3. seen' = Len(argv)
    <2>1. Len(rest') = 0
      BY <1>1
    <2> QED  BY <1>1, <1>2, <2>1 DEF seen
  <1>4. RestInv'
    <2>1. letters' = <<>> /\ letters' \in Seq(Letters)
      BY <1>1 DEF RestInv
    <2>2. rest' \in Seq(Arguments) /\ Len(rest') = 0
      BY <1>1
    <2> QED  BY <1>1, <1>2, <2>1, <2>2 DEF RestInv
  <1>5. TakenInv'
    BY <1>1 DEF TakenInv
  <1>6. /\ ~Taken(argv, seen + 1) /\ ~Ended(argv, seen + 1)
        /\ \A i \in seen + 2 .. Len(argv) : Ended(argv, i)
    <2>1. ~Taken(argv, seen + 1)
      BY <1>1 DEF TakenInv
    <2>2. seen + 1 \in 1 .. seen + 1
      BY <1>2
    <2>3. \A i \in seen + 2 .. Len(argv) : seen + 1 \in 1 .. i - 1
      BY <1>2
    <2> QED  BY <1>1, <1>2, <2>1, <2>2, <2>3, NotEnded DEF Ended
  <1>7. OptionsInv'
    <2>1. ASSUME NEW i \in DOMAIN argv, NEW k \in OptionsIn(argv, i)
          PROVE  Past(i, k)' <=> Past(i, k)
      <3>1. argv[i] # DashDash /\ ~Ended(argv, i) /\ i \in 1 .. Len(argv)
        BY <1>2 DEF OptionsIn
      <3>2. i <= seen
        <4>1. i # seen + 1 /\ i \notin seen + 2 .. Len(argv)
          BY <1>2, <1>6, <3>1
        <4> QED  BY <1>2, <3>1, <4>1
      <3>3. Past(i, k)' /\ Past(i, k)
        BY <1>1, <1>2, <1>3, <3>1, <3>2 DEF Past
      <3> QED  BY <3>3
    <2> QED  BY <1>1, <2>1, OptionsMoved
  <1>8. OperandsInv'
    <2> DEFINE S == OperandsOf(argv) \cap (1 .. seen)
               more == [i \in DOMAIN Tail(rest) |-> AsWord(Tail(rest)[i])]
    <2>1. operands \in Seq(Words) /\ InOrder(operands, argv, S)
      BY <1>1 DEF OperandsInv
    <2>2. /\ more \in Seq(Words) /\ Len(more) = Len(Tail(rest))
          /\ \A k \in 1 .. Len(more) : more[k] = AsWord(argv[(seen + 1) + k])
      <3>1. DOMAIN Tail(rest) = 1 .. Len(Tail(rest)) /\ Len(Tail(rest)) \in Nat
        BY <1>2
      <3>2. \A k \in 1 .. Len(Tail(rest)) : AsWord(Tail(rest)[k]) \in Words
        <4> TAKE k \in 1 .. Len(Tail(rest))
        <4>1. Tail(rest)[k] \in Arguments
          BY <1>2
        <4> QED  BY <4>1, ArgumentIs
      <3> DEFINE n == Len(Tail(rest))
      <3>4. /\ more = [k \in 1 .. n |-> AsWord(Tail(rest)[k])]
            /\ \A k \in 1 .. n : more[k] = AsWord(Tail(rest)[k])
        BY <3>1
      <3>6. n \in Nat /\ \A k \in 1 .. n : AsWord(Tail(rest)[k]) \in Words
        BY <3>1, <3>2
      <3> HIDE DEF n
      <3>7. more \in [1 .. n -> Words]
        BY <3>4, <3>6
      <3> HIDE DEF more
      <3>8. more \in Seq(Words) /\ Len(more) = n
        BY <3>6, <3>7
      <3>3. more \in Seq(Words) /\ Len(more) = Len(Tail(rest))
        BY <3>8 DEF n
      <3>5. \A k \in 1 .. Len(more) : more[k] = AsWord(argv[(seen + 1) + k])
        BY <1>2, <3>3, <3>4 DEF n
      <3> QED  BY <3>3, <3>5
    <2>3. S \in SUBSET (1 .. seen + 1) /\ operands' = operands \o more
      BY <1>1, <1>2
    <2> HIDE DEF S, more
    <2>4. InOrder(operands \o more, argv, S \cup ((seen + 1) + 1 .. (seen + 1) + Len(more)))
      <3>1. seen + 1 \in Nat
        BY <1>2
      <3> QED  BY <2>1, <2>2, <2>3, <3>1, InOrderGrows
    <2>5. S \cup ((seen + 1) + 1 .. (seen + 1) + Len(more)) = OperandsOf(argv) \cap (1 .. seen')
      <3>1. (seen + 1) + 1 .. (seen + 1) + Len(more) = seen + 2 .. Len(argv)
        <4>1. (seen + 1) + 1 = seen + 2 /\ (seen + 1) + Len(more) = Len(argv)
          BY <1>2, <2>2
        <4> QED  BY <4>1
      <3>2. seen + 1 \notin OperandsOf(argv)
        <4>1. argv[seen + 1].letters # <<>>
          BY <1>2, DashDashIs
        <4> QED  BY <1>6, <4>1 DEF OperandsOf
      <3>3. seen + 2 .. Len(argv) \subseteq OperandsOf(argv)
        BY <1>2, <1>6 DEF OperandsOf
      <3>4. \A i \in 1 .. Len(argv) : i \in 1 .. seen \/ i = seen + 1 \/ i \in seen + 2 .. Len(argv)
        BY <1>2
      <3>5. 1 .. seen \subseteq 1 .. Len(argv) /\ seen + 2 .. Len(argv) \subseteq 1 .. Len(argv)
        BY <1>2
      <3> QED  BY <1>3, <3>1, <3>2, <3>3, <3>4, <3>5 DEF S
    <2>6. operands' \in Seq(Words)
      BY <2>1, <2>2, <2>3
    <2> QED  BY <1>1, <2>3, <2>4, <2>5, <2>6 DEF OperandsInv
  <1> QED  BY <1>1, <1>4, <1>5, <1>7, <1>8, GoesOn

LEMMA SetFlagStep ==
    ASSUME CliInv, SetFlag
    PROVE  CliInv'
  <1>1. /\ RestInv /\ TakenInv /\ OptionsInv /\ OperandsInv /\ exit' = "parsing"
        /\ letters # <<>> /\ Head(letters) \in Flags /\ flags' = flags \cup {Head(letters)}
        /\ letters' = Tail(letters) /\ argv' = argv /\ rest' = rest /\ attached' = attached
        /\ limit' = limit /\ operands' = operands
    BY DEF SetFlag, CliInv
  <1>2. /\ seen \in 1 .. Len(argv) /\ seen \in DOMAIN argv /\ used \in Nat
        /\ letters \in Seq(Letters) /\ Len(letters) \in Nat /\ Len(letters) > 0
        /\ Head(letters) = argv[seen].letters[used + 1]
        /\ Len(argv[seen].letters) = used + Len(letters)
        /\ Len(argv) \in Nat
    BY <1>1, LetterAtHand, StandsAt
  <1>3. /\ letters' \in Seq(Letters) /\ Len(letters') = Len(letters) - 1
        /\ \A k \in 1 .. Len(letters) - 1 :
              k + 1 \in 1 .. Len(letters) /\ letters'[k] = letters[k + 1]
    BY <1>1, <1>2
  <1>4. seen' = seen /\ used' = used + 1
    <2>1. seen' = seen
      BY <1>1 DEF seen
    <2>2. used' = Len(argv[seen].letters) - Len(letters')
      BY <1>1, <2>1 DEF used
    <2> QED  BY <1>2, <1>3, <2>1, <2>2
  <1>5. RestInv'
    <2>1. \A k \in 1 .. Len(letters') : letters'[k] = argv'[seen'].letters[used' + k]
      <3> TAKE k \in 1 .. Len(letters')
      <3>1. k + 1 \in 1 .. Len(letters) /\ letters'[k] = letters[k + 1]
        BY <1>2, <1>3
      <3>2. letters[k + 1] = argv[seen].letters[used + (k + 1)]
        BY <1>1, <3>1 DEF RestInv
      <3>3. used + (k + 1) = used' + k
        BY <1>2, <1>4
      <3> QED  BY <1>1, <1>4, <3>1, <3>2, <3>3
    <2>2. seen' \in 1 .. Len(argv') /\ used' \in Nat /\ attached' = argv'[seen'].word
      BY <1>1, <1>2, <1>4 DEF RestInv
    <2>3. /\ argv' \in Seq(Arguments) /\ rest' \in Seq(Arguments) /\ Len(rest') <= Len(argv')
          /\ \A i \in 1 .. Len(rest') : rest'[i] = argv'[seen' + i]
      BY <1>1, <1>4 DEF RestInv
    <2> QED  BY <1>3, <2>1, <2>2, <2>3 DEF RestInv
  <1>6. \A k \in 1 .. used + 1 : argv[seen].letters[k] \notin LimitOptions
    <2>1. \A k \in 1 .. used : argv[seen].letters[k] \notin LimitOptions
      BY <1>1 DEF TakenInv
    <2>2. argv[seen].letters[used + 1] \notin LimitOptions
      BY <1>1, <1>2 DEF Flags, LimitOptions
    <2>3. \A k \in 1 .. used + 1 : k \in 1 .. used \/ k = used + 1
      BY <1>2
    <2> QED  BY <2>1, <2>2, <2>3
  <1>7. TakenInv'
    <2>1. ASSUME letters' = <<>>
          PROVE  ~Taken(argv, seen + 1)
      <3>1. Len(letters') = 0
        BY <2>1
      <3>2. Len(argv[seen].letters) = used + 1 /\ Len(argv[seen].letters) \in 1 .. used + 1
        <4>1. Len(letters) = 1
          BY <1>2, <1>3, <3>1
        <4>2. Len(argv[seen].letters) = used + 1
          BY <1>2, <4>1
        <4>3. used + 1 \in 1 .. used + 1
          BY <1>2
        <4> QED  BY <4>2, <4>3
      <3>3. ~WantsNext(argv[seen])
        <4> SUFFICES ASSUME NEW k \in DOMAIN argv[seen].letters, k = Len(argv[seen].letters),
                            argv[seen].letters[k] \in LimitOptions
                     PROVE  FALSE
          BY DEF WantsNext
        <4> QED  BY <1>6, <3>2
      <3> QED  BY <1>2, <3>3, NotTaken
    <2>2. /\ \A i \in 1 .. seen : argv[i] = DashDash => Taken(argv, i)
          /\ \E j \in 1 .. seen + 1 : Chain(argv, j, seen)
          /\ ~Taken(argv, seen) /\ argv[seen] # DashDash
      BY <1>1 DEF TakenInv
    <2> QED  BY <1>1, <1>4, <1>6, <2>1, <2>2 DEF TakenInv
  <1>8. OptionsInv'
    <2>1. ASSUME NEW i \in DOMAIN argv, NEW k \in OptionsIn(argv, i)
          PROVE  Past(i, k)' <=> Past(i, k) \/ (i = seen /\ k = used + 1)
      <3>1. i \in Nat /\ k \in Nat /\ (i = seen => k <= used + Len(letters))
        BY <1>1, <1>2, PlacesAre
      <3>2. Past(i, k) <=> i <= seen /\ (i = seen => k <= used)
        BY <1>1 DEF Past
      <3>3. CASE letters' = <<>>
        <4>1. Len(letters) = 1
          BY <1>2, <1>3, <3>3
        <4>2. Past(i, k)' <=> i <= seen
          BY <1>4, <3>3 DEF Past
        <4> QED  BY <1>2, <3>1, <3>2, <4>1, <4>2
      <3>4. CASE letters' # <<>>
        <4>1. Past(i, k)' <=> i <= seen /\ (i = seen => k <= used + 1)
          BY <1>4, <3>4 DEF Past
        <4> QED  BY <1>2, <3>1, <3>2, <4>1
      <3> QED  BY <3>3, <3>4
    <2>2. Fault(argv, seen, used + 1) = "none"
      BY <1>1, FaultAtHand
    <2> QED  BY <1>1, <2>1, <2>2, OptionRead
  <1>9. OperandsInv'
    BY <1>1, <1>4 DEF OperandsInv
  <1> QED  BY <1>1, <1>5, <1>7, <1>8, <1>9, GoesOn

(* The argument of the option at hand is what the loop makes of it.        *)
LEMMA WordAtHand ==
    ASSUME RestInv, TakenInv, letters # <<>>
    PROVE  /\ Len(letters) > 1 => WordOf(argv, seen, used + 1) = Garbage
           /\ Len(letters) = 1 /\ attached # NoWord => WordOf(argv, seen, used + 1) = attached
           /\ Len(letters) = 1 /\ attached = NoWord /\ rest = <<>> =>
                 WordOf(argv, seen, used + 1) = NoWord
           /\ Len(letters) = 1 /\ attached = NoWord /\ rest # <<>> =>
                 /\ WordOf(argv, seen, used + 1) = AsWord(Head(rest))
                 /\ AsWord(Head(rest)) # NoWord
  <1>1. /\ seen \in 1 .. Len(argv) /\ used \in Nat /\ Len(letters) \in Nat /\ Len(letters) > 0
        /\ Len(argv[seen].letters) = used + Len(letters)
        /\ Len(argv) \in Nat /\ attached = argv[seen].word
    BY LetterAtHand, StandsAt DEF RestInv
  <1>2. ASSUME Len(letters) > 1
        PROVE  WordOf(argv, seen, used + 1) = Garbage
    <2>1. used + 1 < Len(argv[seen].letters)
      BY <1>1, <1>2
    <2> QED  BY <2>1 DEF WordOf
  <1>3. ASSUME Len(letters) = 1
        PROVE  ~(used + 1 < Len(argv[seen].letters))
    BY <1>1, <1>3
  <1>4. ASSUME Len(letters) = 1, attached # NoWord
        PROVE  WordOf(argv, seen, used + 1) = attached
    BY <1>1, <1>3, <1>4 DEF WordOf
  <1>5. ASSUME Len(letters) = 1, attached = NoWord, rest = <<>>
        PROVE  WordOf(argv, seen, used + 1) = NoWord
    <2>1. ~(seen < Len(argv))
      BY <1>1, <1>5, StandsAt
    <2> QED  BY <1>1, <1>3, <1>5, <2>1 DEF WordOf
  <1>6. ASSUME Len(letters) = 1, attached = NoWord, rest # <<>>
        PROVE  /\ WordOf(argv, seen, used + 1) = AsWord(Head(rest))
               /\ AsWord(Head(rest)) # NoWord
    <2>1. /\ seen + 1 \in 1 .. Len(argv) /\ Head(rest) = argv[seen + 1]
          /\ Head(rest) \in Arguments
      BY <1>6, StandsAt
    <2>2. seen < Len(argv)
      BY <1>1, <2>1
    <2>3. WordOf(argv, seen, used + 1) = AsWord(Head(rest))
      BY <1>1, <1>3, <1>6, <2>1, <2>2 DEF WordOf
    <2> QED  BY <2>1, <2>3, ArgumentIs, WordsAssumption
  <1> QED  BY <1>2, <1>4, <1>5, <1>6

LEMMA UsageStep ==
    ASSUME CliInv, Usage
    PROVE  CliInv'
  <1>1. /\ RestInv /\ TakenInv /\ OptionsInv /\ letters # <<>>
        /\ exit' = "usage" /\ argv' = argv
        /\ \/ Head(letters) \notin Flags \cup LimitOptions
           \/ /\ Head(letters) \in LimitOptions /\ Len(letters) = 1
              /\ attached = NoWord /\ rest = <<>>
    BY DEF Usage, CliInv
  <1>2. Flags \cap LimitOptions = {}
    BY DEF Flags, LimitOptions
  <1>3. Fault(argv, seen, used + 1) = "usage"
    <2>1. CASE Head(letters) \notin Flags \cup LimitOptions
      BY <1>1, <2>1, FaultAtHand
    <2>2. CASE /\ Head(letters) \in LimitOptions /\ Len(letters) = 1
               /\ attached = NoWord /\ rest = <<>>
      <3>1. WordOf(argv, seen, used + 1) = NoWord
        BY <1>1, <2>2, WordAtHand
      <3> QED  BY <1>1, <1>2, <2>2, <3>1, FaultAtHand
    <2> QED  BY <1>1, <2>1, <2>2
  <1>4. FirstFault(argv, "usage")
    BY <1>1, <1>3, FirstAtHand
  <1> QED  BY <1>1, <1>4, StopsAtFault

(* -M, -C, -P and -I: the value is checked, and either the loop stops ...  *)
LEMMA LimitRefused ==
    ASSUME RestInv, TakenInv, OptionsInv, letters # <<>>, Head(letters) \in LimitOptions,
           NEW w, w = WordOf(argv, seen, used + 1), w # NoWord,
           ~Valid(Head(letters), w), exit' = "abort", argv' = argv
    PROVE  CliInv'
  <1>1. Empty \notin InRange[Head(letters)] /\ Head(letters) \notin Flags
    BY WordsAssumption DEF Flags, LimitOptions
  <1>2. ~(w \in InRange[Head(letters)] /\ "c" \in flags)
    BY <1>1 DEF Valid
  <1>3. Fault(argv, seen, used + 1) = "abort"
    BY <1>1, <1>2, FaultAtHand
  <1> QED  BY <1>3, FirstAtHand, StopsAtFault

(* ... or goes on behind the option and its argument.                      *)
LEMMA LimitAccepted ==
    ASSUME RestInv, TakenInv, OptionsInv, letters # <<>>, Head(letters) \in LimitOptions,
           NEW w, w = WordOf(argv, seen, used + 1), w # NoWord, Len(letters) = 1,
           Valid(Head(letters), w), limit' = [limit EXCEPT ![Head(letters)] = w],
           argv' = argv, letters' = <<>>, flags' = flags,
           \/ seen' = seen
           \/ seen' = seen + 1 /\ Taken(argv, seen + 1)
    PROVE  OptionsInv'
  <1>1. Fault(argv, seen, used + 1) = "none"
    BY FaultAtHand DEF Valid
  <1>2. /\ seen \in DOMAIN argv /\ seen \in Nat /\ used \in Nat
        /\ Len(argv[seen].letters) = used + 1
    BY LetterAtHand
  <1>3. ASSUME NEW i \in DOMAIN argv, NEW k \in OptionsIn(argv, i)
        PROVE  Past(i, k)' <=> Past(i, k) \/ (i = seen /\ k = used + 1)
    <2>1. i \in Nat /\ k \in Nat /\ (i = seen => k <= used + 1)
      BY <1>2, PlacesAre
    <2>2. Past(i, k) <=> i <= seen /\ (i = seen => k <= used)
      BY DEF Past
    <2>3. Past(i, k)' <=> i <= seen'
      BY DEF Past
    <2>4. seen' = seen + 1 => i # seen + 1
      BY <1>2 DEF OptionsIn
    <2> QED  BY <1>2, <2>1, <2>2, <2>3, <2>4
  <1> QED  BY <1>1, <1>3, OptionRead

LEMMA LimitOptionStep ==
    ASSUME CliInv, LimitOption
    PROVE  CliInv'
  <1>1. /\ RestInv /\ TakenInv /\ OptionsInv /\ OperandsInv /\ exit = "parsing"
        /\ letters # <<>> /\ Head(letters) \in LimitOptions
    BY DEF LimitOption, CliInv
  <1>2. PICK w :
            /\ SetLimit(w)
            /\ \/ Len(letters) > 1 /\ w = Garbage /\ rest' = rest
               \/ Len(letters) = 1 /\ attached # NoWord /\ w = attached /\ rest' = rest
               \/ /\ Len(letters) = 1 /\ attached = NoWord /\ rest # <<>>
                  /\ w = AsWord(Head(rest)) /\ rest' = Tail(rest)
    BY DEF LimitOption
  <1>3. w = WordOf(argv, seen, used + 1) /\ w # NoWord
    BY <1>1, <1>2, WordAtHand, WordsAssumption
  <1>4. CASE ~Valid(Head(letters), w)
    <2>1. exit' = "abort" /\ argv' = argv
      BY <1>2, <1>4 DEF SetLimit
    <2> QED  BY <1>1, <1>3, <1>4, <2>1, LimitRefused
  <1>5. CASE Valid(Head(letters), w)
    <2>1. /\ limit' = [limit EXCEPT ![Head(letters)] = w] /\ exit' = "parsing"
          /\ letters' = <<>> /\ argv' = argv /\ attached' = attached /\ flags' = flags
          /\ operands' = operands
      BY <1>1, <1>2, <1>5 DEF SetLimit
    <2>2. w # Garbage
      <3>1. w \in InRange[Head(letters)]
        BY <1>5 DEF Valid
      <3>2. Garbage \notin InRange[Head(letters)]
        BY <1>1, WordsAssumption
      <3> QED  BY <3>1, <3>2
    <2>3. Len(letters) = 1
      BY <1>2, <2>2
    <2>4. /\ seen \in 1 .. Len(argv) /\ seen \in Nat /\ used \in Nat /\ Len(argv) \in Nat
          /\ used + 1 \in OptionsIn(argv, seen) /\ attached = argv[seen].word
          /\ Head(letters) = argv[seen].letters[used + 1]
          /\ Len(argv[seen].letters) = used + 1
      BY <1>1, <2>3, LetterAtHand, StandsAt DEF RestInv
    <2>5. /\ \A i \in 1 .. seen : argv[i] = DashDash => Taken(argv, i)
          /\ \E j \in 1 .. seen + 1 : Chain(argv, j, seen)
          /\ ~Taken(argv, seen) /\ argv[seen] # DashDash
      BY <1>1 DEF TakenInv
    <2>6. letters' \in Seq(Letters)
      BY <2>1
    <2>7. CASE rest' = rest /\ attached # NoWord
      <3>1. seen' = seen
        BY <2>1, <2>7 DEF seen
      <3>2. RestInv'
        <4>1. /\ argv' \in Seq(Arguments) /\ rest' \in Seq(Arguments) /\ Len(rest') <= Len(argv')
              /\ \A i \in 1 .. Len(rest') : rest'[i] = argv'[seen' + i]
          BY <1>1, <2>1, <2>7, <3>1 DEF RestInv
        <4> QED  BY <2>1, <2>6, <4>1 DEF RestInv
      <3>3. ~Taken(argv, seen + 1)
        <4>1. ~WantsNext(argv[seen])
          BY <2>4, <2>7 DEF WantsNext
        <4> QED  BY <2>4, <4>1, NotTaken
      <3>4. TakenInv'
        BY <2>1, <2>5, <3>1, <3>3 DEF TakenInv
      <3>5. OptionsInv'
        BY <1>1, <1>3, <1>5, <2>1, <2>3, <3>1, LimitAccepted
      <3>6. OperandsInv'
        BY <1>1, <2>1, <3>1 DEF OperandsInv
      <3> QED  BY <2>1, <3>2, <3>4, <3>5, <3>6, GoesOn
    <2>8. CASE rest' = Tail(rest) /\ rest # <<>> /\ attached = NoWord
      <3>1. /\ seen' = seen + 1 /\ seen + 1 \in 1 .. Len(argv)
            /\ argv' \in Seq(Arguments) /\ rest' \in Seq(Arguments) /\ Len(rest') <= Len(argv')
            /\ \A i \in 1 .. Len(rest') : rest'[i] = argv'[seen' + i]
        BY <1>1, <2>1, <2>8, Onward, StandsAt
      <3>2. RestInv'
        BY <2>1, <2>6, <3>1 DEF RestInv
      <3>3. Taken(argv, seen + 1) /\ ~Taken(argv, seen + 2)
        <4>1. WantsNext(argv[seen])
          BY <1>1, <2>4, <2>8 DEF WantsNext, OptionsIn
        <4>2. seen \in Nat \ {0}
          BY <2>4
        <4> QED  BY <2>5, <4>1, <4>2, NextTaken
      <3>4. TakenInv'
        <4>1. \A i \in 1 .. seen' : argv'[i] = DashDash => Taken(argv', i)
          <5>1. \A i \in 1 .. seen' : i \in 1 .. seen \/ i = seen + 1
            BY <2>4, <3>1
          <5> QED  BY <2>1, <2>5, <3>3, <5>1
        <4>2. \E j \in 1 .. seen' + 1 : Chain(argv', j, seen')
          <5>1. \E j \in 1 .. seen + 2 : Chain(argv, j, seen + 1)
            BY <2>4, <2>5, ChainGoesOn
          <5>2. seen' + 1 = seen + 2
            BY <2>4, <3>1
          <5> QED  BY <2>1, <3>1, <5>1, <5>2
        <4>3. ~Taken(argv', seen' + 1)
          <5>1. seen' + 1 = seen + 2
            BY <2>4, <3>1
          <5> QED  BY <2>1, <3>3, <5>1
        <4> QED  BY <2>1, <4>1, <4>2, <4>3 DEF TakenInv
      <3>5. OptionsInv'
        BY <1>1, <1>3, <1>5, <2>1, <2>3, <3>1, <3>3, LimitAccepted
      <3>6. OperandsInv'
        <4>1. seen + 1 \notin OperandsOf(argv)
          <5>1. ~Ended(argv, seen + 1)
            <6>1. seen + 1 \in 1 .. seen + 1
              BY <2>4
            <6> QED  BY <1>1, <6>1, NotEnded
          <5> QED  BY <3>3, <5>1 DEF OperandsOf
        <4>2. OperandsOf(argv) \cap (1 .. seen') = OperandsOf(argv) \cap (1 .. seen)
          BY <2>4, <3>1, <4>1
        <4> QED  BY <1>1, <2>1, <4>2 DEF OperandsInv
      <3> QED  BY <2>1, <3>2, <3>4, <3>5, <3>6, GoesOn
    <2> QED  BY <1>2, <2>3, <2>7, <2>8
  <1> QED  BY <1>4, <1>5

(* At the end of the options all of them have been read.                   *)
LEMMA EndOfOptionsStep ==
    ASSUME CliInv, EndOfOptions
    PROVE  CliInv'
  <1>1. /\ RestInv /\ OptionsInv /\ OperandsInv /\ letters = <<>> /\ rest = <<>>
        /\ exit' = IF "a" \in flags THEN "run" ELSE "abort"
        /\ argv' = argv /\ flags' = flags /\ limit' = limit /\ operands' = operands
    BY DEF EndOfOptions, CliInv
  <1>2. seen = Len(argv) /\ DOMAIN argv = 1 .. Len(argv) /\ Len(argv) \in Nat
    BY <1>1, StandsAt
  <1>3. \A i \in DOMAIN argv : \A k \in OptionsIn(argv, i) : Past(i, k)
    BY <1>1, <1>2 DEF Past
  <1>4. NoFault(argv) /\ \A f \in Flags : f \in flags <=> Has(argv, f)
    BY <1>1, <1>3 DEF NoFault, Has, OptionsInv
  <1>5. ASSUME NEW o \in LimitOptions
        PROVE  LastWord(argv, o, limit[o])
    <2>1. CASE /\ limit[o] = NoWord
               /\ \A i \in DOMAIN argv : \A k \in OptionsIn(argv, i) :
                     Past(i, k) => argv[i].letters[k] # o
      <3>1. ~Has(argv, o)
        BY <1>3, <2>1 DEF Has
      <3> QED  BY <2>1, <3>1 DEF LastWord
    <2>2. CASE \E i \in DOMAIN argv : \E k \in OptionsIn(argv, i) :
                  /\ Past(i, k) /\ argv[i].letters[k] = o /\ limit[o] = WordOf(argv, i, k)
                  /\ \A j \in DOMAIN argv : \A l \in OptionsIn(argv, j) :
                        Past(j, l) /\ argv[j].letters[l] = o => ~Before(i, k, j, l)
      <3>1. Has(argv, o)
        BY <2>2 DEF Has
      <3> QED  BY <1>3, <2>2, <3>1 DEF LastWord
    <2> QED  BY <1>1, <2>1, <2>2 DEF OptionsInv
  <1>6. InOrder(operands, argv, OperandsOf(argv))
    <2>1. OperandsOf(argv) \cap (1 .. seen) = OperandsOf(argv)
      BY <1>2 DEF OperandsOf
    <2> QED  BY <1>1, <2>1 DEF OperandsInv
  <1>7. "a" \in Flags
    BY DEF Flags
  <1>8. ReadAsMeant'
    <2>1. CASE "a" \in flags
      <3>1. Has(argv, "a") /\ exit' = "run"
        BY <1>1, <1>4, <1>7, <2>1
      <3> QED  BY <1>1, <1>4, <1>5, <1>6, <3>1 DEF ReadAsMeant
    <2>2. CASE "a" \notin flags
      <3>1. ~Has(argv, "a") /\ exit' = "abort"
        BY <1>1, <1>4, <1>7, <2>2
      <3> QED  BY <1>1, <1>4, <3>1 DEF ReadAsMeant
    <2> QED  BY <2>1, <2>2
  <1> QED  BY <1>1, <1>8 DEF CliInv

-----------------------------------------------------------------------------
(* In the beginning nothing has been read.                                 *)
LEMMA CliStarts ==
    ASSUME CliInit
    PROVE  CliInv
  <1>1. /\ rest = argv /\ letters = <<>> /\ flags = {} /\ operands = <<>> /\ exit = "parsing"
        /\ limit = [o \in LimitOptions |-> NoWord]
    BY DEF CliInit
  <1>2. argv \in Seq(Arguments) /\ Len(argv) \in Nat /\ DOMAIN argv = 1 .. Len(argv)
    <2>1. PICK n \in 0 .. MaxArgs : argv \in [1 .. n -> Arguments]
      BY DEF CliInit
    <2>2. n \in Nat
      BY MaxArgsAssumption
    <2> HIDE DEF Arguments
    <2>3. argv \in Seq(Arguments)
      BY <2>1, <2>2
    <2> QED  BY <2>3
  <1>3. seen = 0
    BY <1>1, <1>2 DEF seen
  <1>4. RestInv
    <2>1. letters \in Seq(Letters)
      BY <1>1
    <2>2. \A i \in 1 .. Len(rest) : rest[i] = argv[seen + i]
      BY <1>1, <1>2, <1>3
    <2> QED  BY <1>1, <1>2, <2>1, <2>2 DEF RestInv
  <1>5. TakenInv
    <2>1. Chain(argv, 1, 0)
      BY DEF Chain
    <2>2. ~Taken(argv, 0 + 1)
      BY NotTaken
    <2> QED  BY <1>1, <1>3, <2>1, <2>2 DEF TakenInv
  <1>6. \A i \in DOMAIN argv : \A k \in OptionsIn(argv, i) : ~Past(i, k)
    BY <1>2, <1>3 DEF Past
  <1>7. OptionsInv
    BY <1>1, <1>6 DEF OptionsInv
  <1>8. OperandsInv
    <2>1. OperandsOf(argv) \cap (1 .. seen) = {}
      BY <1>3
    <2>2. InOrder(<<>>, argv, {})
      <3> DEFINE f == [n \in {} |-> n]
      <3>1. DOMAIN <<>> = {} /\ f \in [{} -> {}]
        OBVIOUS
      <3> HIDE DEF f
      <3> QED  BY <3>1 DEF InOrder
    <2>3. <<>> \in Seq(Words)
      OBVIOUS
    <2> QED  BY <1>1, <2>1, <2>2, <2>3 DEF OperandsInv
  <1>9. ReadAsMeant
    BY <1>1 DEF ReadAsMeant
  <1> QED  BY <1>1, <1>4, <1>5, <1>7, <1>8, <1>9 DEF CliInv

(* Nothing else touches the command line.                                  *)
LEMMA CliStutters ==
    ASSUME CliInv, UNCHANGED cliVars
    PROVE  CliInv'
  <1>1. /\ argv' = argv /\ rest' = rest /\ letters' = letters /\ attached' = attached
        /\ flags' = flags /\ limit' = limit /\ operands' = operands /\ exit' = exit
    BY DEF cliVars
  <1>2. seen' = seen
    BY <1>1 DEF seen
  <1>3. used' = used
    BY <1>1, <1>2 DEF used
  <1>4. RestInv => RestInv'
    BY <1>1, <1>2, <1>3 DEF RestInv
  <1>5. TakenInv => TakenInv'
    BY <1>1, <1>2, <1>3 DEF TakenInv
  <1>6. OptionsInv => OptionsInv'
    BY <1>1, <1>2, <1>3, OptionsMoved DEF Past
  <1>7. OperandsInv => OperandsInv'
    BY <1>1, <1>2 DEF OperandsInv
  <1>8. ReadAsMeant => ReadAsMeant'
    BY <1>1 DEF ReadAsMeant
  <1> QED  BY <1>1, <1>4, <1>5, <1>6, <1>7, <1>8 DEF CliInv

(* At every turn of the loop the flags, the limits and the operands are    *)
(* what the command line read so far means, and getopt() is at an argument *)
(* that the option before it has not taken.                                *)
THEOREM LoopReadsSoFar == CliSpec => []CliInv
  <1>1. CliInit => CliInv
    BY CliStarts
  <1>2. CliInv /\ [CliNext]_cliVars => CliInv'
    BY EnterClusterStep, PassOperandStep, PassDashDashStep, SetFlagStep, UsageStep,
       LimitOptionStep, EndOfOptionsStep, CliStutters DEF CliNext
  <1> QED  BY <1>1, <1>2, PTL DEF CliSpec

(* However many arguments there are: usage and abort report the first      *)
(* fault, and a container is run with the flags, the limits and the        *)
(* command that the whole command line means.                              *)
THEOREM LoopReadsAsMeant == CliSpec => []ReadAsMeant
  <1>1. CliInv => ReadAsMeant
    BY DEF CliInv
  <1> QED  BY <1>1, LoopReadsSoFar, PTL

=============================================================================
