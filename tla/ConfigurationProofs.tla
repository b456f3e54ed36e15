------------------------ MODULE ConfigurationProofs ------------------------
(***************************************************************************)
(* The three things that have to agree, for every set of limits, documents *)
(* and hosts: the loader's checks and the manager's; the command line that *)
(* spawn_process writes and the options that the Runtime makes of it; and  *)
(* the Runtime's parser and the description of its options.                *)
(*                                                                         *)
(* The digits need an induction.  It is had from the well-foundedness of < *)
(* on the natural numbers, with the set of the numbers for which a fact    *)
(* holds in the place of the fact.                                         *)
(***************************************************************************)
EXTENDS Configuration, SequenceTheorems, WellFoundedInduction, TLAPS

\* The words that are nothing to the parser.  No proof needs to know them.
CONSTANT OtherWords

Digit == 0 .. 9

\* Range by range, what validate_raw lets through validate accepts.
LEMMA NumbersAgree ==
  ASSUME NEW d \in Documents, Loads(d)
  PROVE  \A f \in Fields : NumberFits(f, d.numbers[f])
<1> SUFFICES ASSUME NEW f \in Fields PROVE NumberFits(f, d.numbers[f])
  OBVIOUS
<1>1. InRange(f, d.numbers[f]) /\ d.numbers[f] \in Nat
  BY DEF Loads, Documents
<1>2. CASE f \in Timeouts
  <2>1. High(f) = MaxTimeout
    BY <1>2 DEF High, Timeouts, Queues
  <2>2. NumberFits(f, d.numbers[f]) <=> (d.numbers[f] # 0 /\ d.numbers[f] <= MaxTimeout)
    BY <1>2 DEF NumberFits, Timeouts, Queues
  <2>3. d.numbers[f] >= 1
    BY <1>1, <1>2 DEF InRange, Timeouts
  <2> QED BY <1>1, <2>1, <2>2, <2>3 DEF InRange
<1>3. CASE f \in Queues
  <2>1. High(f) = MaxQueue
    BY <1>3 DEF High, Timeouts, Queues
  <2>2. NumberFits(f, d.numbers[f]) <=> (d.numbers[f] # 0 /\ d.numbers[f] <= MaxQueue)
    BY <1>3, <2>1 DEF NumberFits, Timeouts, Queues
  <2>3. d.numbers[f] >= 1
    BY <1>1, <1>3 DEF InRange, Queues
  <2> QED BY <1>1, <2>1, <2>2, <2>3 DEF InRange
<1>4. CASE f = "inFlight"
  BY <1>1, <1>4, ConfigurationAssumption DEF InRange, High, NumberFits, Timeouts, Queues
<1>5. CASE f \in {"stderr", "work"}
  BY <1>1, <1>5, ConfigurationAssumption DEF InRange, High, NumberFits, Timeouts, Queues
<1> QED BY <1>2, <1>3, <1>4, <1>5 DEF Fields

\* A manager refuses a document that the loader let through for its paths only.
LEMMA RefusedForPaths ==
  ASSUME NEW d \in Documents, NEW h, Loads(d), ~ManagerAccepts(d, h)
  PROVE  ~PathsFit(d, h)
BY NumbersAgree DEF ManagerAccepts

\* The level that the manager's policy writes is the one the document calls effective.
LEMMA LevelsAgree ==
  ASSUME NEW d \in Documents
  PROVE  Policy(d.debug, d.level).level = EffectiveLevel(d)
BY DEF Policy, EffectiveLevel

\* A policy that the manager writes is one the Runtime's own policy admits.
LEMMA PoliciesAgree ==
  ASSUME NEW d \in Documents
  PROVE  LET policy == Policy(d.debug, d.level)
         IN  PolicyExists(IF policy.debug THEN "true" ELSE "false", policy.level)
BY DEF Policy, PolicyExists, Verbose, Documents

-----------------------------------------------------------------------------

\* With what the check of a document needs to know.
IInv == document \in Documents /\ LoadedIsEnough

\* ProductConfig's validation leaves RuntimeManager::new nothing to refuse but the
\* paths of the host, whatever the limits are.
THEOREM LoadedIsEnoughHolds ==
  ASSUME NEW documents \in SUBSET Documents, NEW hosts, NEW lines,
         NEW shipped \in Documents, NEW installed
  PROVE  InitWith(documents, hosts, lines, shipped, installed) /\ [][Next]_vars
           => []LoadedIsEnough
<1>1. InitWith(documents, hosts, lines, shipped, installed) => IInv
  BY DEF InitWith, IInv, LoadedIsEnough
<1>2. IInv /\ [Next]_vars => IInv'
  <2> SUFFICES ASSUME IInv, [Next]_vars PROVE IInv'
    OBVIOUS
  <2>1. CASE UNCHANGED vars
    BY <2>1 DEF vars, inputs, parser, IInv, LoadedIsEnough
  <2>2. CASE Initialize
    <3>1. failure' = "manager" => Loads(document) /\ ~ManagerAccepts(document, host)
      BY <2>2 DEF Initialize
    <3>2. UNCHANGED <<document, host>>
      BY <2>2 DEF Initialize, inputs
    <3> QED BY <3>1, <3>2, RefusedForPaths DEF IInv, LoadedIsEnough
  <2>3. CASE UNCHANGED <<document, host, failure>>
    BY <2>3 DEF IInv, LoadedIsEnough
  <2>4. ASSUME NEW g \in 1 .. MaxWord, Spawn(g)
        PROVE  UNCHANGED <<document, host, failure>>
    BY <2>4 DEF Spawn, inputs
  <2>5. ASSUME NEW name \in OptionNames, Parse(name)
        PROVE  UNCHANGED <<document, host, failure>>
    BY <2>5 DEF Parse, Refuse, inputs
  <2>6. ParseUnknown \/ ParseEnd => UNCHANGED <<document, host, failure>>
    BY DEF ParseUnknown, ParseEnd, Refuse, inputs
  <2> QED BY <2>1, <2>2, <2>3, <2>4, <2>5, <2>6 DEF Next
<1>3. IInv => LoadedIsEnough
  BY DEF IInv
<1> QED BY <1>1, <1>2, <1>3, PTL

-----------------------------------------------------------------------------
(* Induction, and what it defines. *)

\* Induction over the natural numbers, which is that each set of them has a least one.
LEMMA LeastNatural ==
  ASSUME NEW T \in SUBSET Nat, T # {}
  PROVE  \E m \in T : \A k \in Nat : k < m => k \notin T
<1>1. PICK m \in T : \A k \in T : <<k, m>> \notin OpToRel(<, Nat)
  BY NatLessThanWellFounded, WFMin
<1>2. \A k \in T : ~(k < m)
  BY <1>1 DEF OpToRel
<1> QED BY <1>2

\* What holds of 0 and, with a number, of the next one, holds of all.
LEMMA Induction ==
  ASSUME NEW T, 0 \in T, \A i \in Nat : i \in T => i + 1 \in T
  PROVE  \A i \in Nat : i \in T
<1> SUFFICES ASSUME NEW j \in Nat, j \notin T PROVE FALSE
  OBVIOUS
<1> DEFINE B == {i \in Nat : i \notin T}
<1>1. PICK m \in B : \A k \in Nat : k < m => k \notin B
  <2>1. B # {}
    OBVIOUS
  <2> QED BY <2>1, LeastNatural
<1>2. m # 0 /\ m \in Nat
  BY <1>1
<1>3. m - 1 \in Nat /\ m - 1 < m /\ (m - 1) + 1 = m
  BY <1>2
<1>4. m - 1 \in T
  BY <1>1, <1>3
<1> QED BY <1>1, <1>3, <1>4

\* What holds of a number when it holds of all the smaller ones, holds of all.
LEMMA StrongInduction ==
  ASSUME NEW T, \A i \in Nat : (\A k \in Nat : k < i => k \in T) => i \in T
  PROVE  \A i \in Nat : i \in T
<1> SUFFICES ASSUME NEW j \in Nat, j \notin T PROVE FALSE
  OBVIOUS
<1> DEFINE B == {i \in Nat : i \notin T}
<1>1. PICK m \in B : \A k \in Nat : k < m => k \notin B
  <2>1. B # {}
    OBVIOUS
  <2> QED BY <2>1, LeastNatural
<1> QED BY <1>1

\* f is what is read of s from the left, a value of S after each element.
Reading(S, b, g, s, f) ==
  /\ f \in [0 .. Len(s) -> S]
  /\ f[0] = b
  /\ \A i \in 1 .. Len(s) : f[i] = g[<<f[i - 1], s[i]>>]

\* A sequence can be read from the left, whatever is done with an element.
LEMMA ReadingExists ==
  ASSUME NEW S, NEW b \in S, NEW D, NEW g \in [S \X D -> S], NEW s \in Seq(D)
  PROVE  \E f : Reading(S, b, g, s, f)
<1> DEFINE Reads(n) == \E f \in [0 .. n -> S] :
                         f[0] = b /\ \A i \in 1 .. n : f[i] = g[<<f[i - 1], s[i]>>]
           T == {n \in Nat : n <= Len(s) => Reads(n)}
<1>1. 0 \in T
  <2> DEFINE f == [i \in 0 .. 0 |-> b]
  <2>1. f \in [0 .. 0 -> S] /\ f[0] = b
    OBVIOUS
  <2> HIDE DEF f
  <2>2. Reads(0)
    <3>1. \A i \in 1 .. 0 : f[i] = g[<<f[i - 1], s[i]>>]
      OBVIOUS
    <3> QED BY <2>1, <3>1
  <2> QED BY <2>2
<1>2. ASSUME NEW n \in Nat, n \in T PROVE n + 1 \in T
  <2> SUFFICES ASSUME n + 1 <= Len(s) PROVE Reads(n + 1)
    OBVIOUS
  <2>1. PICK f \in [0 .. n -> S] :
          f[0] = b /\ \A i \in 1 .. n : f[i] = g[<<f[i - 1], s[i]>>]
    <3>1. n <= Len(s) /\ Len(s) \in Nat
      OBVIOUS
    <3> QED BY <1>2, <3>1
  <2> DEFINE h == [i \in 0 .. n + 1 |-> IF i = n + 1 THEN g[<<f[n], s[n + 1]>>] ELSE f[i]]
  <2>2. f[n] \in S /\ s[n + 1] \in D
    BY <2>1
  <2>3. g[<<f[n], s[n + 1]>>] \in S
    BY <2>2
  <2>4. h \in [0 .. n + 1 -> S] /\ h[0] = b
    BY <2>1, <2>3
  <2>5. ASSUME NEW i \in 1 .. n + 1 PROVE h[i] = g[<<h[i - 1], s[i]>>]
    <3>1. i - 1 \in 0 .. n + 1 /\ i - 1 # n + 1 /\ h[i - 1] = f[i - 1]
      OBVIOUS
    <3>2. CASE i = n + 1
      BY <3>1, <3>2
    <3>3. CASE i # n + 1
      <4>1. i \in 1 .. n /\ h[i] = f[i]
        BY <3>3
      <4> QED BY <2>1, <3>1, <4>1
    <3> QED BY <3>2, <3>3
  <2> HIDE DEF h
  <2> QED BY <2>4, <2>5
<1> HIDE DEF T
<1>3. \A n \in Nat : n \in T
  BY <1>1, <1>2, Induction
<1>4. Len(s) \in T /\ Len(s) \in Nat
  BY <1>3
<1>5. Reads(Len(s))
  BY <1>4 DEF T
<1> QED BY <1>5 DEF Reading

\* The recursive definition of NumberOf has the value that it seems to have.
LEMMA NumberOfIsRead ==
  ASSUME NEW s \in Seq(Digit)
  PROVE  \E f \in [0 .. Len(s) -> Nat] :
           /\ f[0] = 0
           /\ \A i \in 1 .. Len(s) : f[i] = 10 * f[i - 1] + s[i]
           /\ NumberOf(s) = f[Len(s)]
<1> DEFINE g == [p \in Nat \X Digit |-> 10 * p[1] + p[2]]
           Read(f) == [i \in 0 .. Len(s) |-> IF i = 0 THEN 0 ELSE 10 * f[i - 1] + s[i]]
           r == CHOOSE f : f = Read(f)
<1>1. g \in [Nat \X Digit -> Nat]
  BY DEF Digit
<1>2. PICK f : Reading(Nat, 0, g, s, f)
  <2>1. 0 \in Nat
    OBVIOUS
  <2> HIDE DEF g
  <2> QED BY <1>1, <2>1, ReadingExists
<1>3. ASSUME NEW i \in 1 .. Len(s) PROVE f[i] = 10 * f[i - 1] + s[i]
  <2>1. i - 1 \in 0 .. Len(s)
    OBVIOUS
  <2>2. f[i - 1] \in Nat /\ s[i] \in Digit
    BY <1>2, <2>1 DEF Reading
  <2>3. g[<<f[i - 1], s[i]>>] = 10 * f[i - 1] + s[i]
    BY <2>2
  <2> QED BY <1>2, <2>3 DEF Reading
<1>4. f = Read(f)
  <2>1. \A i \in 0 .. Len(s) : i # 0 => i \in 1 .. Len(s)
    OBVIOUS
  <2> QED BY <1>2, <1>3, <2>1 DEF Reading
<1>5. r = Read(r)
  <2> HIDE DEF Read
  <2> QED BY <1>4, Zenon
<1>6. \A i \in Nat : i <= Len(s) => r[i] = f[i]
  <2> DEFINE T == {i \in Nat : i <= Len(s) => r[i] = f[i]}
  <2>1. 0 \in T
    <3>1. 0 \in 0 .. Len(s)
      OBVIOUS
    <3> HIDE DEF r
    <3> QED BY <1>2, <1>5, <3>1 DEF Reading
  <2>2. ASSUME NEW i \in Nat, i \in T PROVE i + 1 \in T
    <3>1. i + 1 <= Len(s) => /\ i + 1 \in 0 .. Len(s) /\ i + 1 # 0 /\ i + 1 \in 1 .. Len(s)
                             /\ (i + 1) - 1 = i /\ i <= Len(s)
      OBVIOUS
    <3> HIDE DEF r
    <3>2. i + 1 <= Len(s) => r[i + 1] = 10 * r[i] + s[i + 1]
      BY <1>5, <3>1
    <3>3. i + 1 <= Len(s) => f[i + 1] = 10 * f[i] + s[i + 1]
      BY <1>3, <3>1
    <3> QED BY <2>2, <3>1, <3>2, <3>3
  <2> HIDE DEF T
  <2>3. \A i \in Nat : i \in T
    BY <2>1, <2>2, Induction
  <2> QED BY <2>3 DEF T
<1>7. NumberOf(s) = r[Len(s)]
  BY DEF NumberOf
<1> HIDE DEF r
<1>8. NumberOf(s) = f[Len(s)]
  BY <1>6, <1>7
<1> QED BY <1>2, <1>3, <1>8 DEF Reading

-----------------------------------------------------------------------------
(* Digits: what is read of them, and what is written. *)

\* The numbers that the digits of s stand for, after each of them.
Numbers(s, f) ==
  /\ f \in [0 .. Len(s) -> Nat]
  /\ f[0] = 0
  /\ \A i \in 1 .. Len(s) : f[i] = 10 * f[i - 1] + s[i]
  /\ NumberOf(s) = f[Len(s)]

\* The same, by name.
LEMMA NumbersExist ==
  ASSUME NEW s \in Seq(Digit)
  PROVE  \E f : Numbers(s, f)
BY NumberOfIsRead DEF Numbers

\* A loop that stops at the first number above limit reads the number, unless it is above.
Capped(limit, n) == IF n <= limit THEN n ELSE NotANumber

\* A turn of parse_work_iterations' loop is that of such a loop.
LEMMA WorkStep ==
  ASSUME NEW n \in Nat, NEW d \in Digit
  PROVE  (IF 10 * n + d > MaxWork THEN NotANumber ELSE 10 * n + d) = Capped(MaxWork, 10 * n + d)
BY ConfigurationAssumption DEF Capped, Digit

\* So is one of parse_generation's: its guard keeps the product and the sum from
\* wrapping, and stops no number that fits.
LEMMA GenerationStep ==
  ASSUME NEW n \in Nat, NEW d \in Digit
  PROVE  (IF n > (MaxWord - d) \div 10 THEN NotANumber ELSE (10 * n + d) % (MaxWord + 1))
           = Capped(MaxWord, 10 * n + d)
<1> DEFINE q == (MaxWord - d) \div 10
<1>1. MaxWord \in Nat /\ d \in Int /\ d >= 0
  BY ConfigurationAssumption DEF Digit
<1>2. q \in Int /\ 10 * q <= MaxWord - d /\ MaxWord - d < 10 * q + 10
  BY <1>1
<1> HIDE DEF q
<1>3. n > q <=> ~(10 * n + d <= MaxWord)
  BY <1>1, <1>2
<1>4. 10 * n + d <= MaxWord => (10 * n + d) % (MaxWord + 1) = 10 * n + d
  BY <1>1
<1> QED BY <1>3, <1>4 DEF Capped, q

\* w is what such a loop has after each digit of s.
Reads(limit, s, w) ==
  /\ w[0] = 0
  /\ \A i \in 1 .. Len(s) : w[i - 1] = NotANumber => w[i] = NotANumber
  /\ \A i \in 1 .. Len(s) : w[i - 1] \in Nat => w[i] = Capped(limit, 10 * w[i - 1] + s[i])

\* What such a loop has in the end is the number, or nothing if that is above the limit.
LEMMA ReadNumber ==
  ASSUME NEW s \in Seq(Digit), NEW limit \in Nat, NEW w, Reads(limit, s, w)
  PROVE  w[Len(s)] = Capped(limit, NumberOf(s))
<1>1. PICK f : Numbers(s, f)
  BY NumbersExist
<1> DEFINE T == {i \in Nat : i <= Len(s) => w[i] = Capped(limit, f[i])}
<1>2. 0 \in T
  <2>1. 0 \in 0 .. Len(s)
    OBVIOUS
  <2> QED BY <1>1, <2>1 DEF Numbers, Capped, Reads
<1>3. ASSUME NEW i \in Nat, i \in T PROVE i + 1 \in T
  <2> SUFFICES ASSUME i + 1 <= Len(s) PROVE w[i + 1] = Capped(limit, f[i + 1])
    OBVIOUS
  <2>1. /\ i + 1 \in 1 .. Len(s) /\ (i + 1) - 1 = i /\ i <= Len(s) /\ i \in 0 .. Len(s)
    OBVIOUS
  <2>2. f[i] \in Nat /\ s[i + 1] \in Digit /\ f[i + 1] = 10 * f[i] + s[i + 1]
    BY <1>1, <2>1 DEF Numbers
  <2>3. w[i] = Capped(limit, f[i])
    BY <1>3, <2>1
  <2>4. /\ w[i] = NotANumber => w[i + 1] = NotANumber
        /\ w[i] \in Nat => w[i + 1] = Capped(limit, 10 * w[i] + s[i + 1])
    BY <2>1 DEF Reads
  <2> QED BY <2>2, <2>3, <2>4 DEF Capped, NotANumber, Digit
<1> HIDE DEF T
<1>4. \A i \in Nat : i \in T
  BY <1>2, <1>3, Induction
<1>5. Len(s) \in T /\ Len(s) \in Nat
  BY <1>4
<1> QED BY <1>1, <1>5 DEF T, Numbers

\* There is something that such a loop has after each digit.
LEMMA NumberIsRead ==
  ASSUME NEW s \in Seq(Digit), NEW limit \in Nat
  PROVE  \E w \in [0 .. Len(s) -> Nat \cup {NotANumber}] : Reads(limit, s, w)
<1>1. PICK f : Numbers(s, f)
  BY NumbersExist
<1> DEFINE w == [i \in 0 .. Len(s) |-> Capped(limit, f[i])]
<1>2. w \in [0 .. Len(s) -> Nat \cup {NotANumber}] /\ w[0] = 0
  BY <1>1 DEF Numbers, Capped
<1>3. ASSUME NEW i \in 1 .. Len(s)
      PROVE  /\ w[i - 1] = NotANumber => w[i] = NotANumber
             /\ w[i - 1] \in Nat => w[i] = Capped(limit, 10 * w[i - 1] + s[i])
  <2>1. i \in 0 .. Len(s) /\ i - 1 \in 0 .. Len(s)
    OBVIOUS
  <2>2. f[i - 1] \in Nat /\ s[i] \in Digit /\ f[i] = 10 * f[i - 1] + s[i]
    BY <1>1, <2>1 DEF Numbers
  <2>3. w[i - 1] = Capped(limit, f[i - 1]) /\ w[i] = Capped(limit, f[i])
    BY <2>1
  <2> HIDE DEF w
  <2> QED BY <2>2, <2>3 DEF Capped, NotANumber, Digit
<1> HIDE DEF w
<1> QED BY <1>2, <1>3 DEF Reads

\* What parse_work_iterations makes of digits, however many they are.
LEMMA ParseWorkReads ==
  ASSUME NEW s \in Seq(Digit)
  PROVE  ParseWork(s) = IF s = <<>> THEN NotANumber ELSE Capped(MaxWork, NumberOf(s))
<1> DEFINE Read(f) == [i \in 0 .. Len(s) |->
                        IF i = 0 THEN 0
                        ELSE IF f[i - 1] = NotANumber THEN NotANumber
                        ELSE IF 10 * f[i - 1] + s[i] > MaxWork THEN NotANumber
                        ELSE 10 * f[i - 1] + s[i]]
           r == CHOOSE f : f = Read(f)
<1>1. ParseWork(s) = IF s = <<>> THEN NotANumber ELSE r[Len(s)]
  BY DEF ParseWork, Accumulate
<1>2. MaxWork \in Nat /\ Len(s) \in Nat
  BY ConfigurationAssumption
<1>3. \A n \in Nat, i \in 1 .. Len(s) :
        (IF 10 * n + s[i] > MaxWork THEN NotANumber ELSE 10 * n + s[i])
          = Capped(MaxWork, 10 * n + s[i])
  BY WorkStep
<1>4. r = Read(r)
  <2>1. PICK w \in [0 .. Len(s) -> Nat \cup {NotANumber}] : Reads(MaxWork, s, w)
    BY <1>2, NumberIsRead
  <2>2. ASSUME NEW i \in 0 .. Len(s) PROVE w[i] = Read(w)[i]
    <3>1. CASE i = 0
      BY <2>1, <3>1 DEF Reads
    <3>2. CASE i # 0
      <4>1. i \in 1 .. Len(s) /\ w[i - 1] \in Nat \cup {NotANumber}
        BY <3>2
      <4> QED BY <1>3, <2>1, <3>2, <4>1 DEF Reads, NotANumber
    <3> QED BY <3>1, <3>2
  <2>3. w = [i \in 0 .. Len(s) |-> w[i]]
    OBVIOUS
  <2>4. w = Read(w)
    BY <2>2, <2>3
  <2> HIDE DEF Read
  <2> QED BY <2>4, Zenon
<1> HIDE DEF r
<1>5. Reads(MaxWork, s, r)
  <2>1. r[0] = 0
    BY <1>2, <1>4
  <2>2. ASSUME NEW i \in 1 .. Len(s)
        PROVE  /\ r[i - 1] = NotANumber => r[i] = NotANumber
               /\ r[i - 1] \in Nat => r[i] = Capped(MaxWork, 10 * r[i - 1] + s[i])
    <3>1. i \in 0 .. Len(s) /\ i # 0
      OBVIOUS
    <3>2. r[i] = IF r[i - 1] = NotANumber THEN NotANumber
                 ELSE IF 10 * r[i - 1] + s[i] > MaxWork THEN NotANumber
                 ELSE 10 * r[i - 1] + s[i]
      BY <1>4, <3>1
    <3> QED BY <1>3, <3>2 DEF NotANumber
  <2> QED BY <2>1, <2>2 DEF Reads
<1> QED BY <1>1, <1>2, <1>5, ReadNumber

\* What parse_generation makes of them.
LEMMA ParseGenerationReads ==
  ASSUME NEW s \in Seq(Digit)
  PROVE  ParseGeneration(s) = IF s # <<>> /\ NumberOf(s) \in 1 .. MaxWord
                              THEN NumberOf(s) ELSE NotANumber
<1> DEFINE Read(f) == [i \in 0 .. Len(s) |->
                        IF i = 0 THEN 0
                        ELSE IF f[i - 1] = NotANumber THEN NotANumber
                        ELSE IF f[i - 1] > (MaxWord - s[i]) \div 10 THEN NotANumber
                        ELSE (10 * f[i - 1] + s[i]) % (MaxWord + 1)]
           r == CHOOSE f : f = Read(f)
           parsed == IF s = <<>> THEN NotANumber ELSE r[Len(s)]
<1>1. ParseGeneration(s) = IF parsed = 0 THEN NotANumber ELSE parsed
  BY DEF ParseGeneration, Accumulate
<1>2. MaxWord \in Nat /\ Len(s) \in Nat
  BY ConfigurationAssumption
<1>3. \A n \in Nat, i \in 1 .. Len(s) :
        (IF n > (MaxWord - s[i]) \div 10 THEN NotANumber ELSE (10 * n + s[i]) % (MaxWord + 1))
          = Capped(MaxWord, 10 * n + s[i])
  BY GenerationStep
<1>4. r = Read(r)
  <2>1. PICK w \in [0 .. Len(s) -> Nat \cup {NotANumber}] : Reads(MaxWord, s, w)
    BY <1>2, NumberIsRead
  <2>2. ASSUME NEW i \in 0 .. Len(s) PROVE w[i] = Read(w)[i]
    <3>1. CASE i = 0
      BY <2>1, <3>1 DEF Reads
    <3>2. CASE i # 0
      <4>1. i \in 1 .. Len(s) /\ w[i - 1] \in Nat \cup {NotANumber}
        BY <3>2
      <4> QED BY <1>3, <2>1, <3>2, <4>1 DEF Reads, NotANumber
    <3> QED BY <3>1, <3>2
  <2>3. w = [i \in 0 .. Len(s) |-> w[i]]
    OBVIOUS
  <2>4. w = Read(w)
    BY <2>2, <2>3
  <2> HIDE DEF Read
  <2> QED BY <2>4, Zenon
<1> HIDE DEF r
<1>5. Reads(MaxWord, s, r)
  <2>1. r[0] = 0
    BY <1>2, <1>4
  <2>2. ASSUME NEW i \in 1 .. Len(s)
        PROVE  /\ r[i - 1] = NotANumber => r[i] = NotANumber
               /\ r[i - 1] \in Nat => r[i] = Capped(MaxWord, 10 * r[i - 1] + s[i])
    <3>1. i \in 0 .. Len(s) /\ i # 0
      OBVIOUS
    <3>2. r[i] = IF r[i - 1] = NotANumber THEN NotANumber
                 ELSE IF r[i - 1] > (MaxWord - s[i]) \div 10 THEN NotANumber
                 ELSE (10 * r[i - 1] + s[i]) % (MaxWord + 1)
      BY <1>4, <3>1
    <3>3. ASSUME NEW n \in Nat, n = r[i - 1] PROVE r[i] = Capped(MaxWord, 10 * n + s[i])
      <4>1. n # NotANumber
        BY DEF NotANumber
      <4> QED BY <1>3, <3>2, <3>3, <4>1
    <3> QED BY <3>2, <3>3
  <2> QED BY <2>1, <2>2 DEF Reads
<1>6. r[Len(s)] = Capped(MaxWord, NumberOf(s))
  BY <1>2, <1>5, ReadNumber
<1>7. NumberOf(s) \in Nat
  <2>1. PICK f : Numbers(s, f)
    BY NumbersExist
  <2> QED BY <1>2, <2>1 DEF Numbers
<1> HIDE DEF Read
<1> QED BY <1>1, <1>2, <1>6, <1>7 DEF Capped, NotANumber

\* Another digit makes ten times the number and the digit.
LEMMA NumberOfAppend ==
  ASSUME NEW s \in Seq(Digit), NEW d \in Digit
  PROVE  NumberOf(Append(s, d)) = 10 * NumberOf(s) + d
<1> DEFINE t == Append(s, d)
<1>1. /\ t \in Seq(Digit) /\ Len(t) = Len(s) + 1 /\ t[Len(s) + 1] = d
      /\ \A i \in 1 .. Len(s) : t[i] = s[i]
  BY AppendProperties
<1> HIDE DEF t
<1>2. PICK f : Numbers(s, f)
  BY NumbersExist
<1>3. PICK g : Numbers(t, g)
  BY <1>1, NumbersExist
<1> DEFINE T == {i \in Nat : i <= Len(s) => g[i] = f[i]}
<1>4. 0 \in T
  BY <1>2, <1>3 DEF Numbers
<1>5. ASSUME NEW i \in Nat, i \in T PROVE i + 1 \in T
  <2> SUFFICES ASSUME i + 1 <= Len(s) PROVE g[i + 1] = f[i + 1]
    OBVIOUS
  <2>1. i + 1 \in 1 .. Len(s) /\ i + 1 \in 1 .. Len(t) /\ (i + 1) - 1 = i /\ i <= Len(s)
    BY <1>1
  <2>2. f[i + 1] = 10 * f[i] + s[i + 1]
    BY <1>2, <2>1 DEF Numbers
  <2>3. g[i + 1] = 10 * g[i] + t[i + 1]
    BY <1>3, <2>1 DEF Numbers
  <2> QED BY <1>1, <1>5, <2>1, <2>2, <2>3
<1> HIDE DEF T
<1>6. \A i \in Nat : i \in T
  BY <1>4, <1>5, Induction
<1>7. g[Len(s)] = f[Len(s)] /\ Len(s) \in Nat
  <2>1. Len(s) \in T /\ Len(s) \in Nat
    BY <1>6
  <2> QED BY <2>1 DEF T
<1>8. Len(s) + 1 \in 1 .. Len(t) /\ (Len(s) + 1) - 1 = Len(s)
  BY <1>1, <1>7
<1>9. g[Len(s) + 1] = 10 * g[Len(s)] + d
  BY <1>1, <1>3, <1>8 DEF Numbers
<1> QED BY <1>1, <1>2, <1>3, <1>7, <1>9 DEF Numbers, t

\* A single digit stands for itself.
LEMMA NumberOfOne ==
  ASSUME NEW d \in Digit
  PROVE  NumberOf(<<d>>) = d
<1> DEFINE s == <<d>>
<1>1. s \in Seq(Digit) /\ Len(s) = 1 /\ s[1] = d
  OBVIOUS
<1> HIDE DEF s
<1>2. PICK f : Numbers(s, f)
  BY <1>1, NumbersExist
<1>3. 1 \in 1 .. Len(s) /\ 1 - 1 = 0
  BY <1>1
<1>4. f[1] = 10 * f[1 - 1] + s[1]
  BY <1>2, <1>3 DEF Numbers
<1>5. f[1] = 10 * 0 + d
  BY <1>1, <1>2, <1>4 DEF Numbers
<1> QED BY <1>1, <1>2, <1>5 DEF Numbers, Digit, s

\* What the last digit leaves is smaller, and makes the number with it.
LEMMA LastDigit ==
  ASSUME NEW n \in Nat, ~(n < 10)
  PROVE  /\ n \div 10 \in Nat /\ n \div 10 < n
         /\ n % 10 \in Digit /\ n = 10 * (n \div 10) + (n % 10)
<1>1. n \div 10 \in Int /\ n % 10 \in 0 .. 9 /\ n = 10 * (n \div 10) + (n % 10)
  OBVIOUS
<1> DEFINE q == n \div 10
           r == n % 10
<1> HIDE DEF q, r
<1>2. q \in Int /\ r \in 0 .. 9 /\ n = 10 * q + r
  BY <1>1 DEF q, r
<1>3. q \in Nat /\ q < n /\ r \in Digit
  BY <1>2 DEF Digit
<1> QED BY <1>2, <1>3 DEF q, r

\* f is what is written for each number up to N.
Written(N, f) ==
  /\ f \in [0 .. N -> Seq(Digit)]
  /\ \A n \in 0 .. N : f[n] = IF n < 10 THEN <<n>> ELSE Append(f[n \div 10], n % 10)

\* The numbers up to any one can be written.
LEMMA WrittenExists ==
  \A N \in Nat : \E f : Written(N, f)
<1> DEFINE T == {N \in Nat : \E f : Written(N, f)}
<1>1. 0 \in T
  <2> DEFINE f == [n \in 0 .. 0 |-> <<n>>]
  <2>1. f \in [0 .. 0 -> Seq(Digit)]
    BY DEF Digit
  <2>2. \A n \in 0 .. 0 : n < 10 /\ f[n] = <<n>>
    OBVIOUS
  <2> HIDE DEF f
  <2>3. Written(0, f)
    BY <2>1, <2>2 DEF Written
  <2> QED BY <2>3
<1>2. ASSUME NEW N \in Nat, N \in T PROVE N + 1 \in T
  <2>1. PICK f : Written(N, f)
    BY <1>2
  <2> DEFINE M == N + 1
             last == IF M < 10 THEN <<M>> ELSE Append(f[M \div 10], M % 10)
             h == [n \in 0 .. M |-> IF n = M THEN last ELSE f[n]]
  <2>2. last \in Seq(Digit)
    <3>1. CASE M < 10
      <4>1. M \in Digit
        BY <3>1 DEF Digit
      <4> QED BY <3>1, <4>1
    <3>2. CASE ~(M < 10)
      <4>1. M \div 10 \in 0 .. N /\ M % 10 \in Digit
        BY <3>2, LastDigit
      <4>2. f[M \div 10] \in Seq(Digit)
        BY <2>1, <4>1 DEF Written
      <4> QED BY <3>2, <4>1, <4>2, AppendProperties
    <3> QED BY <3>1, <3>2
  <2>3. h \in [0 .. M -> Seq(Digit)]
    <3> HIDE DEF last
    <3> QED BY <2>1, <2>2 DEF Written
  <2>4. ASSUME NEW n \in 0 .. M, ~(n < 10) PROVE h[n \div 10] = f[n \div 10]
    <3>1. n \div 10 \in 0 .. M /\ n \div 10 # M
      BY <2>4, LastDigit
    <3> QED BY <3>1
  <2>5. ASSUME NEW n \in 0 .. M
        PROVE  h[n] = IF n < 10 THEN <<n>> ELSE Append(h[n \div 10], n % 10)
    <3>1. CASE n = M
      BY <2>4, <3>1
    <3>2. CASE n # M
      <4>1. n \in 0 .. N /\ h[n] = f[n]
        BY <3>2
      <4>2. f[n] = IF n < 10 THEN <<n>> ELSE Append(f[n \div 10], n % 10)
        BY <2>1, <4>1 DEF Written
      <4> QED BY <2>4, <4>1, <4>2
    <3> QED BY <3>1, <3>2
  <2> HIDE DEF h
  <2>6. Written(M, h)
    BY <2>3, <2>5 DEF Written
  <2> QED BY <2>6
<1> HIDE DEF T
<1>3. \A N \in Nat : N \in T
  BY <1>1, <1>2, Induction
<1> QED BY <1>3 DEF T

\* There is only one way to write a number.
LEMMA WrittenOnce ==
  ASSUME NEW N \in Nat, NEW M \in Nat, NEW f, NEW g, Written(N, f), Written(M, g)
  PROVE  \A n \in Nat : n <= N /\ n <= M => f[n] = g[n]
<1> DEFINE T == {n \in Nat : n <= N /\ n <= M => f[n] = g[n]}
<1>1. ASSUME NEW n \in Nat, \A k \in Nat : k < n => k \in T PROVE n \in T
  <2> SUFFICES ASSUME n <= N, n <= M PROVE f[n] = g[n]
    OBVIOUS
  <2>1. n \in 0 .. N /\ n \in 0 .. M
    OBVIOUS
  <2>2. f[n] = IF n < 10 THEN <<n>> ELSE Append(f[n \div 10], n % 10)
    BY <2>1 DEF Written
  <2>3. g[n] = IF n < 10 THEN <<n>> ELSE Append(g[n \div 10], n % 10)
    BY <2>1 DEF Written
  <2>4. ~(n < 10) => f[n \div 10] = g[n \div 10]
    <3> SUFFICES ASSUME ~(n < 10) PROVE f[n \div 10] = g[n \div 10]
      OBVIOUS
    <3>1. n \div 10 \in Nat /\ n \div 10 < n
      BY LastDigit
    <3>2. n \div 10 <= N /\ n \div 10 <= M
      BY <3>1
    <3>3. n \div 10 \in T
      BY <1>1, <3>1
    <3> QED BY <3>2, <3>3
  <2> QED BY <2>2, <2>3, <2>4
<1> HIDE DEF T
<1>2. \A n \in Nat : n \in T
  BY <1>1, StrongInduction
<1> QED BY <1>2 DEF T

\* The recursive definition of Decimal has the values that it seems to have.
LEMMA DecimalWrites ==
  \A n \in Nat : Decimal[n] = IF n < 10 THEN <<n>> ELSE Append(Decimal[n \div 10], n % 10)
<1> DEFINE Writes(d) == [n \in Nat |-> IF n < 10 THEN <<n>> ELSE Append(d[n \div 10], n % 10)]
           upTo(n) == CHOOSE f : Written(n, f)
           all == [n \in Nat |-> upTo(n)[n]]
<1>1. \A n \in Nat : Written(n, upTo(n))
  BY WrittenExists, Zenon
<1> HIDE DEF upTo
<1>2. ASSUME NEW n \in Nat
      PROVE  all[n] = IF n < 10 THEN <<n>> ELSE Append(all[n \div 10], n % 10)
  <2>1. n \in 0 .. n
    OBVIOUS
  <2>2. upTo(n)[n] = IF n < 10 THEN <<n>> ELSE Append(upTo(n)[n \div 10], n % 10)
    BY <1>1, <2>1 DEF Written
  <2>3. ~(n < 10) => upTo(n)[n \div 10] = all[n \div 10]
    <3> SUFFICES ASSUME ~(n < 10) PROVE upTo(n)[n \div 10] = all[n \div 10]
      OBVIOUS
    <3>1. n \div 10 \in Nat /\ n \div 10 <= n /\ n \div 10 <= n \div 10
      BY LastDigit
    <3>2. Written(n, upTo(n)) /\ Written(n \div 10, upTo(n \div 10))
      BY <1>1, <3>1
    <3>3. upTo(n)[n \div 10] = upTo(n \div 10)[n \div 10]
      BY <3>1, <3>2, WrittenOnce
    <3> QED BY <3>1, <3>3
  <2> QED BY <2>2, <2>3
<1>3. all = Writes(all)
  BY <1>2
<1>4. Decimal = CHOOSE d : d = Writes(d)
  BY DEF Decimal
<1>5. Decimal = Writes(Decimal)
  <2> HIDE DEF Writes, all
  <2> QED BY <1>3, <1>4, Zenon
<1> QED BY <1>5

\* What spawn_process writes is a number's digits, and they stand for that number.
LEMMA DecimalStands ==
  \A n \in Nat : /\ Decimal[n] \in Seq(Digit) /\ Decimal[n] # <<>>
                 /\ NumberOf(Decimal[n]) = n
<1> DEFINE T == {n \in Nat : /\ Decimal[n] \in Seq(Digit) /\ Decimal[n] # <<>>
                             /\ NumberOf(Decimal[n]) = n}
<1>1. ASSUME NEW n \in Nat, \A k \in Nat : k < n => k \in T PROVE n \in T
  <2>1. CASE n < 10
    <3>1. n \in Digit
      BY <2>1 DEF Digit
    <3>2. Decimal[n] = <<n>>
      BY <2>1, DecimalWrites
    <3>3. <<n>> \in Seq(Digit) /\ <<n>> # <<>>
      BY <3>1
    <3>4. NumberOf(<<n>>) = n
      BY <3>1, NumberOfOne
    <3> QED BY <3>2, <3>3, <3>4
  <2>2. CASE ~(n < 10)
    <3> DEFINE q == n \div 10
               d == n % 10
    <3>1. q \in Nat /\ q < n /\ d \in Digit /\ n = 10 * q + d
      BY <2>2, LastDigit
    <3>2. Decimal[n] = Append(Decimal[q], d)
      BY <2>2, DecimalWrites
    <3> HIDE DEF q, d
    <3>3. Decimal[q] \in Seq(Digit) /\ NumberOf(Decimal[q]) = q
      BY <1>1, <3>1
    <3>4. NumberOf(Decimal[n]) = n
      BY <3>1, <3>2, <3>3, NumberOfAppend
    <3>5. Decimal[n] \in Seq(Digit) /\ Decimal[n] # <<>>
      BY <3>1, <3>2, <3>3, AppendProperties
    <3> QED BY <3>4, <3>5
  <2> QED BY <2>1, <2>2
<1> HIDE DEF T
<1>2. \A n \in Nat : n \in T
  BY <1>1, StrongInduction
<1> QED BY <1>2 DEF T

\* Every number that fits is read back as it was written.
LEMMA NumbersAreReadBack ==
  /\ \A n \in 0 .. MaxWork : ParseWork(Decimal[n]) = n
  /\ \A g \in 1 .. MaxWord : ParseGeneration(Decimal[g]) = g
<1>1. ASSUME NEW n \in 0 .. MaxWork PROVE ParseWork(Decimal[n]) = n
  <2>1. n \in Nat
    OBVIOUS
  <2>2. Decimal[n] \in Seq(Digit) /\ Decimal[n] # <<>> /\ NumberOf(Decimal[n]) = n
    BY <2>1, DecimalStands
  <2> QED BY <2>2, ParseWorkReads, ConfigurationAssumption DEF Capped
<1>2. ASSUME NEW g \in 1 .. MaxWord PROVE ParseGeneration(Decimal[g]) = g
  <2>1. g \in Nat
    OBVIOUS
  <2>2. Decimal[g] \in Seq(Digit) /\ Decimal[g] # <<>> /\ NumberOf(Decimal[g]) = g
    BY <2>1, DecimalStands
  <2> QED BY <2>2, ParseGenerationReads
<1> QED BY <1>1, <1>2

-----------------------------------------------------------------------------
(* The manager's command line, up to the options. *)

\* The options in the order in which spawn_process writes them.
Order == <<"plugin", "work", "directory", "level", "debug", "generation">>

\* What spawn_process means by an option.
Meant(d, h, generation, name) ==
  CASE name = "plugin" -> PathArgument(h.plugin).of
    [] name = "work" -> d.numbers["work"]
    [] name = "directory" -> PathArgument(LogDirectory(d, h)).of
    [] name = "level" -> EffectiveLevel(d)
    [] name = "debug" -> IF d.debug THEN "true" ELSE "false"
    [] name = "generation" -> generation

\* What an option's value is, option by option.
LEMMA ValueByName ==
  ASSUME NEW a
  PROVE  /\ Value("work", a) = ParseWork(a.of)
         /\ Value("generation", a) = ParseGeneration(a.of)
         /\ \A n \in {"plugin", "directory", "level", "debug"} : Value(n, a) = a.of
BY DEF Value

\* What is a value of it.
LEMMA IsValueByName ==
  ASSUME NEW a, NEW by
  PROVE  /\ \A n \in {"plugin", "directory"} :
              IsValue(n, a, by) <=> /\ a.is = "path" /\ a.of.size \in 1 .. MaxPath
                                    /\ MakesPath(a.of, by) /\ a.of.absolute
         /\ IsValue("work", a, by) <=> a.is = "digits" /\ ParseWork(a.of) # NotANumber
         /\ IsValue("generation", a, by) <=>
              a.is = "digits" /\ ParseGeneration(a.of) # NotANumber
         /\ IsValue("level", a, by) <=> a.is = "word" /\ a.of \in LogLevels
         /\ IsValue("debug", a, by) <=> a.is = "word" /\ a.of \in {"true", "false"}
<1>1. \A n \in {"plugin", "directory"} :
        IsValue(n, a, by) <=> /\ a.is = "path" /\ a.of.size \in 1 .. MaxPath
                              /\ MakesPath(a.of, by) /\ a.of.absolute
  BY DEF IsValue
<1>2. \A n \in {"work", "generation"} :
        IsValue(n, a, by) <=> a.is = "digits" /\ Value(n, a) # NotANumber
  BY DEF IsValue
<1>3. IsValue("level", a, by) <=> a.is = "word" /\ a.of \in LogLevels
  BY DEF IsValue
<1>4. IsValue("debug", a, by) <=> a.is = "word" /\ a.of \in {"true", "false"}
  BY DEF IsValue
<1> QED BY <1>1, <1>2, <1>3, <1>4, ValueByName

\* The manager's words, one by one.
LEMMA LineWords ==
  ASSUME NEW d, NEW h, NEW g
  PROVE  LET line == CommandLine(d, h, g)
         IN  /\ Len(line) = 12
             /\ line[2] = PathArgument(h.plugin)
             /\ line[4] = Digits(Decimal[d.numbers["work"]])
             /\ line[6] = PathArgument(LogDirectory(d, h))
             /\ line[8] = Word(Policy(d.debug, d.level).level)
             /\ line[10] = Word(IF Policy(d.debug, d.level).debug THEN "true" ELSE "false")
             /\ line[12] = Digits(Decimal[g])
             /\ \A j \in 1 .. 6 : line[2 * j - 1] = Option(Order[j])
<1> DEFINE line == CommandLine(d, h, g)
<1>1. line = << line[1], line[2], line[3], line[4], line[5], line[6],
               line[7], line[8], line[9], line[10], line[11], line[12] >>
  BY DEF CommandLine
<1>2. /\ line[1] = Option("plugin") /\ line[3] = Option("work")
      /\ line[5] = Option("directory") /\ line[7] = Option("level")
      /\ line[9] = Option("debug") /\ line[11] = Option("generation")
  BY DEF CommandLine
<1>3. /\ line[2] = PathArgument(h.plugin)
      /\ line[4] = Digits(Decimal[d.numbers["work"]])
      /\ line[6] = PathArgument(LogDirectory(d, h))
      /\ line[8] = Word(Policy(d.debug, d.level).level)
      /\ line[10] = Word(IF Policy(d.debug, d.level).debug THEN "true" ELSE "false")
      /\ line[12] = Digits(Decimal[g])
  BY DEF CommandLine
<1>4. Len(line) = 12
  BY DEF CommandLine
<1> HIDE DEF line
<1>5. ASSUME NEW j \in 1 .. 6 PROVE line[2 * j - 1] = Option(Order[j])
  <2>1. j = 1 \/ j = 2 \/ j = 3 \/ j = 4 \/ j = 5 \/ j = 6
    OBVIOUS
  <2>2. CASE j = 1
    BY <1>2, <2>2 DEF Order
  <2>3. CASE j = 2
    BY <1>2, <2>3 DEF Order
  <2>4. CASE j = 3
    BY <1>2, <2>4 DEF Order
  <2>5. CASE j = 4
    BY <1>2, <2>5 DEF Order
  <2>6. CASE j = 5
    BY <1>2, <2>6 DEF Order
  <2>7. CASE j = 6
    BY <1>2, <2>7 DEF Order
  <2> QED BY <2>1, <2>2, <2>3, <2>4, <2>5, <2>6, <2>7
<1> QED BY <1>3, <1>4, <1>5 DEF line

\* A Runtime's parser finds each of the manager's options with a value, if make_path can
\* read the paths, and that value is what the manager meant.
LEMMA LineIsUnderstood ==
  ASSUME NEW d \in Documents, NEW h, Loads(d), ManagerAccepts(d, h), NEW g \in 1 .. MaxWord,
         NEW j \in 1 .. 6, NEW by
  PROVE  LET line == CommandLine(d, h, g)
         IN  /\ ~UnpairedSurrogate(h, by) => IsValue(Order[j], line[2 * j], by)
             /\ Value(Order[j], line[2 * j]) = Meant(d, h, g, Order[j])
<1> DEFINE line == CommandLine(d, h, g)
           level == Policy(d.debug, d.level).level
           debug == IF Policy(d.debug, d.level).debug THEN "true" ELSE "false"
<1>1. /\ line[2] = PathArgument(h.plugin)
      /\ line[4] = Digits(Decimal[d.numbers["work"]])
      /\ line[6] = PathArgument(LogDirectory(d, h))
      /\ line[8] = Word(level)
      /\ line[10] = Word(debug)
      /\ line[12] = Digits(Decimal[g])
  BY LineWords
<1> SUFFICES /\ ~UnpairedSurrogate(h, by) => IsValue(Order[j], line[2 * j], by)
             /\ Value(Order[j], line[2 * j]) = Meant(d, h, g, Order[j])
  OBVIOUS
<1> HIDE DEF line
<1>2. ASSUME NEW p, PathFits(p), NEW n \in {"plugin", "directory"}
      PROVE  /\ MakesPath(p, by) => IsValue(n, PathArgument(p), by)
             /\ Value(n, PathArgument(p)) = PathArgument(p).of
  <2>1. PathArgument(p).is = "path" /\ PathArgument(p).of.size = p.size
        /\ PathArgument(p).of.absolute = p.absolute
        /\ PathArgument(p).of.unicode = p.unicode
    BY DEF PathArgument
  <2>2. p.size \in 1 .. MaxPath /\ p.absolute
    BY <1>2 DEF PathFits
  <2> QED BY <2>1, <2>2, IsValueByName, ValueByName DEF MakesPath
<1>10. /\ ~UnpairedSurrogate(h, by) => MakesPath(h.plugin, by)
       /\ ~UnpairedSurrogate(h, by) => MakesPath(LogDirectory(d, h), by)
  BY DEF UnpairedSurrogate, MakesPath, LogDirectory
<1>3. CASE j = 1
  <2>1. PathFits(h.plugin)
    BY DEF ManagerAccepts, PathsFit
  <2>2. Order[j] = "plugin" /\ line[2 * j] = PathArgument(h.plugin)
    BY <1>1, <1>3 DEF Order
  <2>3. Meant(d, h, g, "plugin") = PathArgument(h.plugin).of
    BY DEF Meant
  <2> QED BY <1>2, <1>10, <2>1, <2>2, <2>3
<1>4. CASE j = 2
  <2> DEFINE n == d.numbers["work"]
  <2>1. n \in 0 .. MaxWork
    <3>1. "work" \in Fields
      BY DEF Fields
    <3>2. InRange("work", n) /\ n \in Nat
      BY <3>1 DEF Loads, Documents
    <3>3. High("work") = MaxWork
      BY DEF High, Timeouts, Queues
    <3> QED BY <3>2, <3>3, ConfigurationAssumption DEF InRange
  <2>2. Order[j] = "work" /\ line[2 * j] = Digits(Decimal[n])
    BY <1>1, <1>4 DEF Order
  <2>3. Meant(d, h, g, "work") = n
    BY DEF Meant
  <2> HIDE DEF n
  <2>4. ParseWork(Decimal[n]) = n /\ n # NotANumber
    BY <2>1, NumbersAreReadBack, ConfigurationAssumption DEF NotANumber
  <2>5. Digits(Decimal[n]).is = "digits" /\ Digits(Decimal[n]).of = Decimal[n]
    BY DEF Digits
  <2> QED BY <2>2, <2>3, <2>4, <2>5, IsValueByName, ValueByName
<1>5. CASE j = 3
  <2>1. PathFits(LogDirectory(d, h))
    BY DEF ManagerAccepts, PathsFit
  <2>2. Order[j] = "directory" /\ line[2 * j] = PathArgument(LogDirectory(d, h))
    BY <1>1, <1>5 DEF Order
  <2>3. Meant(d, h, g, "directory") = PathArgument(LogDirectory(d, h)).of
    BY DEF Meant
  <2> QED BY <1>2, <1>10, <2>1, <2>2, <2>3
<1>6. CASE j = 4
  <2>1. level = EffectiveLevel(d) /\ level \in LogLevels
    BY LevelsAgree DEF EffectiveLevel, Documents, LogLevels
  <2>2. Order[j] = "level" /\ line[2 * j] = Word(level)
    BY <1>1, <1>6 DEF Order
  <2>3. Meant(d, h, g, "level") = EffectiveLevel(d)
    BY DEF Meant
  <2> HIDE DEF level
  <2>4. Word(level).is = "word" /\ Word(level).of = level
    BY DEF Word
  <2> QED BY <2>1, <2>2, <2>3, <2>4, IsValueByName, ValueByName
<1>7. CASE j = 5
  <2>1. debug = (IF d.debug THEN "true" ELSE "false") /\ debug \in {"true", "false"}
    BY DEF Policy
  <2>2. Order[j] = "debug" /\ line[2 * j] = Word(debug)
    BY <1>1, <1>7 DEF Order
  <2>3. Meant(d, h, g, "debug") = IF d.debug THEN "true" ELSE "false"
    BY DEF Meant
  <2> HIDE DEF debug
  <2>4. Word(debug).is = "word" /\ Word(debug).of = debug
    BY DEF Word
  <2> QED BY <2>1, <2>2, <2>3, <2>4, IsValueByName, ValueByName
<1>8. CASE j = 6
  <2>1. ParseGeneration(Decimal[g]) = g /\ g # NotANumber
    BY NumbersAreReadBack, ConfigurationAssumption DEF NotANumber
  <2>2. Order[j] = "generation" /\ line[2 * j] = Digits(Decimal[g])
    BY <1>1, <1>8 DEF Order
  <2>3. Meant(d, h, g, "generation") = g
    BY DEF Meant
  <2>4. Digits(Decimal[g]).is = "digits" /\ Digits(Decimal[g]).of = Decimal[g]
    BY DEF Digits
  <2> QED BY <2>1, <2>2, <2>3, <2>4, IsValueByName, ValueByName
<1>9. j = 1 \/ j = 2 \/ j = 3 \/ j = 4 \/ j = 5 \/ j = 6
  OBVIOUS
<1> QED BY <1>3, <1>4, <1>5, <1>6, <1>7, <1>8, <1>9

\* A path that make_path cannot read is no value.
LEMMA PathsAreRead ==
  ASSUME NEW d, NEW h, NEW g, NEW by,
         IsValue("plugin", CommandLine(d, h, g)[2], by),
         IsValue("directory", CommandLine(d, h, g)[6], by)
  PROVE  ~UnpairedSurrogate(h, by)
<1>1. IsValue("plugin", PathArgument(h.plugin), by)
  BY LineWords
<1>2. IsValue("directory", PathArgument(LogDirectory(d, h)), by)
  BY LineWords
<1>3. by = "wmain" => PathArgument(h.plugin).of.unicode /\ PathArgument(LogDirectory(d, h)).of.unicode
  BY <1>1, <1>2, IsValueByName DEF MakesPath
<1> QED BY <1>3 DEF UnpairedSurrogate, PathArgument, LogDirectory

\* Where the parser is in the manager's command line, and what it has made of it: the
\* options are met in the order in which they were written, none is refused but for a path
\* that is not Unicode, and each has the value that was meant.
ReachInv ==
  /\ document \in Documents /\ host \in Hosts
  /\ stage \in {"document", "ready"} => launched = 0 /\ index = 1 /\ options = NoOptions
  /\ stage = "ready" => Loads(document) /\ ManagerAccepts(document, host)
  /\ launched # 0 =>
       /\ launched \in 1 .. MaxWord /\ Loads(document) /\ ManagerAccepts(document, host)
       /\ args = CommandLine(document, host, launched)
       /\ stage \in {"parsing", "accepted", "refused"}
       /\ stage = "refused" => UnpairedSurrogate(host, entry)
       /\ \E k \in 0 .. 6 :
            /\ index = 2 * k + 1
            /\ DOMAIN options = {Order[j] : j \in 1 .. k}
            /\ \A j \in 1 .. k : options[Order[j]] = Meant(document, host, launched, Order[j])
            /\ \A j \in 1 .. k : IsValue(Order[j], args[2 * j], entry)
            /\ stage = "accepted" => k = 6

\* The six options, each once.
LEMMA OrderIs ==
  /\ {Order[j] : j \in 1 .. 6} = OptionNames
  /\ \A i, j \in 1 .. 6 : Order[i] = Order[j] => i = j
<1>1. /\ Order[1] = "plugin" /\ Order[2] = "work" /\ Order[3] = "directory"
      /\ Order[4] = "level" /\ Order[5] = "debug" /\ Order[6] = "generation"
  BY DEF Order
<1>2. \A j \in 1 .. 6 : j = 1 \/ j = 2 \/ j = 3 \/ j = 4 \/ j = 5 \/ j = 6
  OBVIOUS
<1>3. {Order[j] : j \in 1 .. 6} = OptionNames
  <2>1. {Order[j] : j \in 1 .. 6} = {Order[1], Order[2], Order[3], Order[4], Order[5], Order[6]}
    BY <1>2
  <2> QED BY <1>1, <2>1 DEF OptionNames
<1>4. \A i, j \in 1 .. 6 : Order[i] = Order[j] => i = j
  BY <1>1, <1>2
<1> QED BY <1>3, <1>4

\* An accepted line has been read to its end.
LEMMA ReachImplies == ReachInv => ConfigurationReachesRuntime
<1> SUFFICES ASSUME ReachInv, launched # 0, stage = "accepted"
             PROVE  /\ ~UnpairedSurrogate(host, entry)
                    /\ options["work"] = document.numbers["work"]
                    /\ options["generation"] = launched
                    /\ options["level"] = EffectiveLevel(document)
                    /\ options["debug"] = (IF document.debug THEN "true" ELSE "false")
                    /\ options["plugin"] = PathArgument(host.plugin).of
                    /\ options["directory"] = PathArgument(LogDirectory(document, host)).of
  BY DEF ReachInv, ConfigurationReachesRuntime
<1>1. \A j \in 1 .. 6 : /\ options[Order[j]] = Meant(document, host, launched, Order[j])
                        /\ IsValue(Order[j], args[2 * j], entry)
  BY DEF ReachInv
<1>2. /\ Order[1] = "plugin" /\ Order[2] = "work" /\ Order[3] = "directory"
      /\ Order[4] = "level" /\ Order[5] = "debug" /\ Order[6] = "generation"
  BY DEF Order
<1>3. \A n \in OptionNames : options[n] = Meant(document, host, launched, n)
  BY <1>1, OrderIs
<1>4. ~UnpairedSurrogate(host, entry)
  <2>1. args = CommandLine(document, host, launched)
    BY DEF ReachInv
  <2>2. IsValue("plugin", args[2], entry) /\ IsValue("directory", args[6], entry)
    <3>1. IsValue(Order[1], args[2 * 1], entry) /\ IsValue(Order[3], args[2 * 3], entry)
      BY <1>1
    <3>2. 2 * 1 = 2 /\ 2 * 3 = 6
      OBVIOUS
    <3> QED BY <1>2, <3>1, <3>2
  <2> QED BY <2>1, <2>2, PathsAreRead
<1> QED BY <1>3, <1>4 DEF Meant, OptionNames

\* At first there is no line of the manager's.
LEMMA ReachInit ==
  ASSUME NEW documents \in SUBSET Documents, NEW hosts \in SUBSET Hosts, NEW lines,
         NEW shipped \in Documents, NEW installed \in Hosts,
         InitWith(documents, hosts, lines, shipped, installed)
  PROVE  ReachInv
BY DEF InitWith, ReachInv

\* Every step keeps the invariant.
LEMMA ReachStep == ReachInv /\ [Next]_vars => ReachInv'
<1> SUFFICES ASSUME ReachInv, [Next]_vars PROVE ReachInv'
  OBVIOUS
<1>1. CASE UNCHANGED vars
  BY <1>1 DEF vars, inputs, parser, ReachInv
<1>2. CASE Initialize
  <2>1. /\ stage = "document" /\ UNCHANGED <<document, host, entry, launched, args, index, options>>
        /\ stage' \in {"ready", "failed"}
        /\ stage' = "ready" => Loads(document) /\ ManagerAccepts(document, host)
    BY <1>2 DEF Initialize, inputs, parser
  <2> QED BY <2>1 DEF ReachInv
<1>3. ASSUME NEW g \in 1 .. MaxWord, Spawn(g) PROVE ReachInv'
  <2>1. /\ stage = "ready" /\ stage' = "parsing" /\ launched' = g
        /\ args' = CommandLine(document, host, g)
        /\ UNCHANGED <<document, host, entry, index, options>>
    BY <1>3 DEF Spawn, inputs
  <2>2. index = 2 * 0 + 1 /\ DOMAIN options = {} /\ {Order[j] : j \in 1 .. 0} = {}
    BY <2>1 DEF ReachInv, NoOptions
  <2>3. g # 0 /\ 0 \in 0 .. 6
    BY ConfigurationAssumption
  <2> QED BY <2>1, <2>2, <2>3 DEF ReachInv
<1>4. ASSUME NEW name \in OptionNames, Parse(name) PROVE ReachInv'
  <2>1. /\ stage = "parsing" /\ index <= Len(args)
        /\ UNCHANGED <<document, host, entry, launched, failure>>
    BY <1>4 DEF Parse, inputs
  <2>2. CASE launched = 0
    <3>1. stage' \in {"parsing", "refused"}
      BY <1>4 DEF Parse, Refuse
    <3> QED BY <2>1, <2>2, <3>1 DEF ReachInv
  <2>3. CASE launched # 0
    <3>1. PICK k \in 0 .. 6 :
            /\ index = 2 * k + 1
            /\ DOMAIN options = {Order[j] : j \in 1 .. k}
            /\ \A j \in 1 .. k : options[Order[j]] = Meant(document, host, launched, Order[j])
            /\ \A j \in 1 .. k : IsValue(Order[j], args[2 * j], entry)
      BY <2>3 DEF ReachInv
    <3>2. /\ launched \in 1 .. MaxWord /\ Loads(document) /\ ManagerAccepts(document, host)
          /\ document \in Documents /\ host \in Hosts
          /\ args = CommandLine(document, host, launched)
      BY <2>3 DEF ReachInv
    <3>3. Len(args) = 12 /\ \A j \in 1 .. 6 : args[2 * j - 1] = Option(Order[j])
      BY <3>2, LineWords
    <3>4. index <= Len(args) /\ args[index].of = name /\ stage = "parsing"
      BY <1>4 DEF Parse
    <3> DEFINE m == k + 1
    <3>5. m \in 1 .. 6 /\ index = 2 * m - 1 /\ index + 1 = 2 * m /\ index # Len(args)
          /\ index + 2 = 2 * m + 1
      BY <3>1, <3>3, <3>4
    <3>6. name = Order[m]
      BY <3>3, <3>4, <3>5 DEF Option
    <3>7. /\ ~UnpairedSurrogate(host, entry) => IsValue(name, args[index + 1], entry)
          /\ Value(name, args[index + 1]) = Meant(document, host, launched, Order[m])
      BY <3>2, <3>5, <3>6, LineIsUnderstood
    <3>8. name \notin DOMAIN options
      <4>1. \A j \in 1 .. k : j \in 1 .. 6 /\ j # m
        BY <3>1, <3>5
      <4>2. \A j \in 1 .. k : Order[j] # Order[m]
        BY <3>5, <4>1, OrderIs
      <4> QED BY <3>1, <3>6, <4>2
    <3>13. CASE ~IsValue(name, args[index + 1], entry)
      <4>1. stage' = "refused" /\ UNCHANGED <<args, index, options>>
        BY <1>4, <3>13 DEF Parse, Refuse, parser
      <4>2. UnpairedSurrogate(host, entry)
        BY <3>7, <3>13
      <4> QED BY <2>1, <3>1, <3>2, <4>1, <4>2 DEF ReachInv
    <3> SUFFICES ASSUME IsValue(name, args[index + 1], entry) PROVE ReachInv'
      BY <3>13
    <3>9. /\ options' = [n \in DOMAIN options \cup {name} |->
                            IF n = name THEN Value(name, args[index + 1]) ELSE options[n]]
          /\ index' = index + 2 /\ stage' = stage /\ args' = args
      BY <1>4, <3>5, <3>7, <3>8 DEF Parse
    <3> HIDE DEF m
    <3>10. DOMAIN options' = {Order[j] : j \in 1 .. m}
      <4>1. 1 .. m = (1 .. k) \cup {m}
        BY <3>1 DEF m
      <4> QED BY <3>1, <3>6, <3>9, <4>1
    <3>11. ASSUME NEW j \in 1 .. m
           PROVE  options'[Order[j]] = Meant(document, host, launched, Order[j])
      <4>1. CASE j = m
        BY <3>6, <3>7, <3>9, <4>1
      <4>2. CASE j # m
        <5>1. j \in 1 .. k
          BY <4>2 DEF m
        <5>2. Order[j] \in DOMAIN options /\ Order[j] # name
          BY <3>1, <3>8, <5>1
        <5> QED BY <3>1, <3>9, <5>1, <5>2
      <4> QED BY <4>1, <4>2
    <3>14. \A j \in 1 .. m : IsValue(Order[j], args[2 * j], entry)
      <4>1. 1 .. m = (1 .. k) \cup {m} /\ index + 1 = 2 * m
        BY <3>1, <3>5 DEF m
      <4> QED BY <3>1, <3>6, <4>1
    <3>12. \E kk \in 0 .. 6 :
             /\ index' = 2 * kk + 1
             /\ DOMAIN options' = {Order[j] : j \in 1 .. kk}
             /\ \A j \in 1 .. kk : options'[Order[j]] = Meant(document, host, launched, Order[j])
             /\ \A j \in 1 .. kk : IsValue(Order[j], args[2 * j], entry)
             /\ stage' = "accepted" => kk = 6
      <4>1. m \in 0 .. 6 /\ index' = 2 * m + 1 /\ stage' # "accepted"
        BY <3>4, <3>5, <3>9
      <4> QED BY <3>10, <3>11, <3>14, <4>1
    <3> QED BY <2>1, <3>2, <3>4, <3>9, <3>12 DEF ReachInv
  <2> QED BY <2>2, <2>3
<1>5. CASE ParseUnknown
  <2>1. /\ stage = "parsing" /\ index <= Len(args) /\ stage' = "refused"
        /\ ~(args[index].is = "option" /\ args[index].of \in OptionNames)
        /\ UNCHANGED <<document, host, entry, launched, args, index, options>>
    BY <1>5 DEF ParseUnknown, Refuse, inputs, parser
  <2>2. launched = 0
    <3> SUFFICES ASSUME launched # 0 PROVE FALSE
      OBVIOUS
    <3>1. PICK k \in 0 .. 6 : index = 2 * k + 1
      BY DEF ReachInv
    <3>2. Len(args) = 12 /\ \A j \in 1 .. 6 : args[2 * j - 1] = Option(Order[j])
      BY LineWords DEF ReachInv
    <3>3. k + 1 \in 1 .. 6 /\ index = 2 * (k + 1) - 1
      BY <2>1, <3>1, <3>2
    <3>4. args[index] = Option(Order[k + 1]) /\ Order[k + 1] \in OptionNames
      BY <3>2, <3>3, OrderIs
    <3> QED BY <2>1, <3>4 DEF Option
  <2> QED BY <2>1, <2>2 DEF ReachInv
<1>6. CASE ParseEnd
  <2>1. /\ stage = "parsing" /\ index > Len(args) /\ stage' \in {"accepted", "refused"}
        /\ UNCHANGED <<document, host, entry, launched, args, index, options>>
    BY <1>6 DEF ParseEnd, Refuse, inputs, parser
  <2>2. CASE launched = 0
    BY <2>1, <2>2 DEF ReachInv
  <2>3. CASE launched # 0
    <3>1. PICK k \in 0 .. 6 :
            /\ index = 2 * k + 1
            /\ DOMAIN options = {Order[j] : j \in 1 .. k}
            /\ \A j \in 1 .. k : options[Order[j]] = Meant(document, host, launched, Order[j])
            /\ \A j \in 1 .. k : IsValue(Order[j], args[2 * j], entry)
      BY <2>3 DEF ReachInv
    <3>2. Len(args) = 12
      BY <2>3, LineWords DEF ReachInv
    <3>3. k = 6
      BY <2>1, <3>1, <3>2
    <3>4. DOMAIN options = OptionNames
      BY <3>1, <3>3, OrderIs
    <3>5. \A n \in OptionNames : options[n] = Meant(document, host, launched, n)
      BY <3>1, <3>3, OrderIs
    <3>6. PolicyExists(options["debug"], options["level"])
      <4>1. options["debug"] = (IF document.debug THEN "true" ELSE "false")
            /\ options["level"] = EffectiveLevel(document)
        BY <3>5 DEF Meant, OptionNames
      <4> QED BY <4>1 DEF PolicyExists, EffectiveLevel, Verbose
    <3>7. stage' = "accepted"
      BY <1>6, <3>4, <3>6 DEF ParseEnd, OptionNames, Required
    <3> QED BY <2>1, <2>3, <3>1, <3>3, <3>7 DEF ReachInv
  <2> QED BY <2>2, <2>3
<1> QED BY <1>1, <1>2, <1>3, <1>4, <1>5, <1>6 DEF Next

-----------------------------------------------------------------------------
(* Any command line, up to the verdict. *)

\* The words of a command line.
Words == OptionNames \cup LogLevels \cup {"true", "false"} \cup OtherWords

\* An argument of a command line, whoever wrote it.
AnyArgument ==
  [is : {"option", "word"}, of : Words]
  \cup [is : {"digits"}, of : Seq(Digit)]
  \cup [is : {"path"}, of : [absolute : BOOLEAN, size : Nat, unicode : BOOLEAN]]

\* Option and value of a pair, the pairs of an option, and its value.
NameAt(line, i) == line[2 * i - 1].of
PairsOf(line) == 1 .. Len(line) \div 2
Named(line, n) == {i \in PairsOf(line) : line[2 * i - 1].is = "option" /\ NameAt(line, i) = n}
ValueOf(line, n) == line[2 * (CHOOSE i \in Named(line, n) : TRUE)]

\* Admitted, without its local names.
LEMMA AdmittedIs ==
  ASSUME NEW line, NEW by
  PROVE  Admitted(line, by) <=>
           /\ Len(line) % 2 = 0
           /\ \A i \in PairsOf(line) :
                line[2 * i - 1].is = "option" /\ NameAt(line, i) \in OptionNames
           /\ \A i, j \in PairsOf(line) : NameAt(line, i) = NameAt(line, j) => i = j
           /\ \A n \in Required : Named(line, n) # {}
           /\ Named(line, "work") # {} => Named(line, "plugin") # {}
           /\ \A n \in {"plugin", "directory"} : \A i \in Named(line, n) :
                /\ line[2 * i].is = "path" /\ line[2 * i].of.absolute
                /\ line[2 * i].of.size \in 1 .. MaxPath
                /\ line[2 * i].of.unicode \/ by = "main"
           /\ \A i \in Named(line, "work") :
                /\ line[2 * i].is = "digits" /\ line[2 * i].of # <<>>
                /\ NumberOf(line[2 * i].of) <= MaxWork
           /\ /\ ValueOf(line, "generation").is = "digits"
              /\ NumberOf(ValueOf(line, "generation").of) \in 1 .. MaxWord
           /\ ValueOf(line, "level").is = "word" /\ ValueOf(line, "level").of \in LogLevels
           /\ ValueOf(line, "debug").is = "word" /\ ValueOf(line, "debug").of \in {"true", "false"}
           /\ ValueOf(line, "level").of \in Verbose => ValueOf(line, "debug").of = "true"
BY DEF Admitted, PairsOf, NameAt, Named, ValueOf

\* The only pair of an option has its value.
LEMMA OnlyPair ==
  ASSUME NEW line, NEW i \in PairsOf(line), line[2 * i - 1].is = "option",
         \A j \in PairsOf(line) : NameAt(line, i) = NameAt(line, j) => i = j
  PROVE  Named(line, NameAt(line, i)) = {i} /\ ValueOf(line, NameAt(line, i)) = line[2 * i]
<1>1. Named(line, NameAt(line, i)) = {i}
  BY DEF Named
<1>2. (CHOOSE j \in {i} : TRUE) = i
  OBVIOUS
<1> QED BY <1>1, <1>2 DEF ValueOf

\* When digits are a number for the parser.
LEMMA DigitsByName ==
  ASSUME NEW a \in AnyArgument, NEW by
  PROVE  /\ IsValue("work", a, by) <=>
              a.is = "digits" /\ a.of # <<>> /\ NumberOf(a.of) <= MaxWork
         /\ IsValue("generation", a, by) <=> a.is = "digits" /\ NumberOf(a.of) \in 1 .. MaxWord
<1>1. CASE a.is = "digits"
  <2>1. a.of \in Seq(Digit)
    BY <1>1 DEF AnyArgument
  <2>2. NumberOf(a.of) \in Nat /\ (a.of = <<>> => NumberOf(a.of) = 0)
    <3>1. PICK f : Numbers(a.of, f)
      BY <2>1, NumbersExist
    <3>2. Len(a.of) \in Nat /\ (a.of = <<>> => Len(a.of) = 0)
      BY <2>1
    <3> QED BY <3>1, <3>2 DEF Numbers
  <2>3. ParseWork(a.of) # NotANumber <=> a.of # <<>> /\ NumberOf(a.of) <= MaxWork
    BY <2>1, <2>2, ParseWorkReads DEF Capped, NotANumber
  <2>4. ParseGeneration(a.of) # NotANumber <=> NumberOf(a.of) \in 1 .. MaxWord
    BY <2>1, <2>2, ParseGenerationReads DEF NotANumber
  <2> QED BY <1>1, <2>3, <2>4, IsValueByName
<1>2. CASE a.is # "digits"
  BY <1>2, IsValueByName
<1> QED BY <1>1, <1>2

\* Option and value of a pair are on the line.
LEMMA PairPlace ==
  ASSUME NEW line \in Seq(AnyArgument), NEW i \in PairsOf(line)
  PROVE  /\ 2 * i - 1 \in 1 .. Len(line) /\ 2 * i \in 1 .. Len(line)
         /\ line[2 * i - 1] \in AnyArgument /\ line[2 * i] \in AnyArgument
<1>1. Len(line) \in Nat /\ i \in Nat /\ i >= 1 /\ i <= Len(line) \div 2
  BY DEF PairsOf
<1>2. 2 * i <= Len(line)
  BY <1>1
<1>3. 2 * i - 1 \in 1 .. Len(line) /\ 2 * i \in 1 .. Len(line)
  BY <1>1, <1>2
<1> QED BY <1>3, ElementOfSeq

\* Every value of an admitted line is one for the parser.
LEMMA AdmittedValues ==
  ASSUME NEW line \in Seq(AnyArgument), NEW by \in Entries, Admitted(line, by),
         NEW i \in PairsOf(line)
  PROVE  IsValue(NameAt(line, i), line[2 * i], by)
<1> DEFINE n == NameAt(line, i)
           a == line[2 * i]
<1>1. a \in AnyArgument
  BY PairPlace
<1>2. /\ line[2 * i - 1].is = "option" /\ n \in OptionNames
      /\ \A j \in PairsOf(line) : n = NameAt(line, j) => i = j
  BY AdmittedIs
<1>3. Named(line, n) = {i} /\ ValueOf(line, n) = a
  BY <1>2, OnlyPair
<1> HIDE DEF n, a
<1>4. CASE n \in {"plugin", "directory"}
  <2>1. /\ a.is = "path" /\ a.of.absolute /\ a.of.size \in 1 .. MaxPath
        /\ a.of.unicode \/ by = "main"
    BY <1>3, <1>4, AdmittedIs DEF a
  <2>2. MakesPath(a.of, by)
    BY <2>1 DEF MakesPath
  <2> QED BY <1>4, <2>1, <2>2, IsValueByName DEF n, a
<1>5. CASE n = "work"
  <2>1. a.is = "digits" /\ a.of # <<>> /\ NumberOf(a.of) <= MaxWork
    BY <1>3, <1>5, AdmittedIs DEF a
  <2>2. IsValue("work", a, by)
    BY <1>1, <2>1, DigitsByName
  <2> QED BY <1>5, <2>2 DEF n, a
<1>6. CASE n = "generation"
  <2>1. a.is = "digits" /\ NumberOf(a.of) \in 1 .. MaxWord
    BY <1>3, <1>6, AdmittedIs
  <2>2. IsValue("generation", a, by)
    BY <1>1, <2>1, DigitsByName
  <2> QED BY <1>6, <2>2 DEF n, a
<1>7. CASE n = "level"
  <2>1. a.is = "word" /\ a.of \in LogLevels
    BY <1>3, <1>7, AdmittedIs
  <2>2. IsValue("level", a, by)
    BY <2>1, IsValueByName
  <2> QED BY <1>7, <2>2 DEF n, a
<1>8. CASE n = "debug"
  <2>1. a.is = "word" /\ a.of \in {"true", "false"}
    BY <1>3, <1>8, AdmittedIs
  <2>2. IsValue("debug", a, by)
    BY <2>1, IsValueByName
  <2> QED BY <1>8, <2>2 DEF n, a
<1> QED BY <1>2, <1>4, <1>5, <1>6, <1>7, <1>8 DEF OptionNames

\* The pairs that the parser has taken.
Taken(k) ==
  /\ index = 2 * k + 1 /\ 2 * k <= Len(args)
  /\ \A i \in 1 .. k : /\ args[2 * i - 1].is = "option" /\ NameAt(args, i) \in OptionNames
                       /\ IsValue(NameAt(args, i), args[2 * i], entry)
  /\ \A i, j \in 1 .. k : NameAt(args, i) = NameAt(args, j) => i = j
  /\ DOMAIN options = {NameAt(args, i) : i \in 1 .. k}
  /\ \A i \in 1 .. k : options[NameAt(args, i)] = Value(NameAt(args, i), args[2 * i])

\* The pairs before the parser's are taken: each is an option's with a value for it, no
\* option is among them twice, and the options so far are theirs.
AcceptInv ==
  /\ ReachInv
  /\ args \in Seq(AnyArgument) /\ entry \in Entries
  /\ stage = "parsing" => \E k \in Nat : Taken(k)
  /\ AcceptsExactlyTheAdmitted

\* No pair is taken at first, and nothing is decided.
LEMMA AcceptInit ==
  ASSUME NEW documents \in SUBSET Documents, NEW hosts \in SUBSET Hosts,
         NEW lines \in SUBSET Seq(AnyArgument),
         NEW shipped \in Documents, NEW installed \in Hosts,
         InitWith(documents, hosts, lines, shipped, installed)
  PROVE  AcceptInv
<1>1. ReachInv
  BY ReachInit
<1>2. args \in Seq(AnyArgument) /\ index = 1 /\ options = NoOptions /\ entry \in Entries
      /\ stage \in {"document", "parsing"}
  <2>1. <<>> \in Seq(AnyArgument)
    BY EmptySeq
  <2> QED BY <2>1 DEF InitWith
<1>3. Taken(0)
  <2>1. 2 * 0 <= Len(args) /\ index = 2 * 0 + 1
    BY <1>2
  <2>2. DOMAIN options = {NameAt(args, i) : i \in 1 .. 0}
    BY <1>2 DEF NoOptions
  <2> QED BY <2>1, <2>2 DEF Taken
<1> QED BY <1>1, <1>2, <1>3 DEF AcceptInv, AcceptsExactlyTheAdmitted

\* The manager's command line is one.
LEMMA LineType ==
  ASSUME NEW d \in Documents, NEW h \in Hosts, NEW g \in 1 .. MaxWord
  PROVE  CommandLine(d, h, g) \in Seq(AnyArgument)
<1> DEFINE w == d.numbers["work"]
<1>1. Decimal[w] \in Seq(Digit) /\ Decimal[g] \in Seq(Digit)
  <2>1. w \in Nat /\ g \in Nat
    BY DEF Documents, Fields
  <2> QED BY <2>1, DecimalStands
<1> HIDE DEF w
<1>2. Digits(Decimal[w]) \in AnyArgument /\ Digits(Decimal[g]) \in AnyArgument
  BY <1>1 DEF Digits, AnyArgument
<1>3. ASSUME NEW p \in Paths PROVE PathArgument(p) \in AnyArgument
  BY DEF PathArgument, AnyArgument, Paths
<1>4. h.plugin \in Paths /\ LogDirectory(d, h) \in Paths
  <2>1. d.directory.size \in Nat /\ h.base \in Paths /\ h.plugin \in Paths
    BY DEF Documents, Directories, Hosts
  <2>2. h.base.size \in Nat /\ h.base.absolute \in BOOLEAN /\ h.base.nul \in BOOLEAN
        /\ h.base.unicode \in BOOLEAN
    BY <2>1 DEF Paths
  <2>3. h.base.size + 1 + d.directory.size \in Nat
    BY <2>1, <2>2
  <2> QED BY <2>1, <2>2, <2>3 DEF LogDirectory, Paths
<1>5. PathArgument(h.plugin) \in AnyArgument /\ PathArgument(LogDirectory(d, h)) \in AnyArgument
  BY <1>3, <1>4
<1>6. ASSUME NEW x \in Words PROVE Word(x) \in AnyArgument /\ Option(x) \in AnyArgument
  BY DEF Word, Option, AnyArgument
<1>7. Word(Policy(d.debug, d.level).level) \in AnyArgument
  <2>1. Policy(d.debug, d.level).level \in LogLevels
    BY DEF Policy, Documents, LogLevels
  <2> QED BY <1>6, <2>1 DEF Words
<1>8. Word(IF Policy(d.debug, d.level).debug THEN "true" ELSE "false") \in AnyArgument
  BY <1>6 DEF Words
<1>9. \A n \in OptionNames : Option(n) \in AnyArgument
  BY <1>6 DEF Words
<1> QED BY <1>2, <1>5, <1>7, <1>8, <1>9 DEF CommandLine, OptionNames, w

\* The pair at which the parser is.
LEMMA PairInHand ==
  ASSUME args \in Seq(AnyArgument), NEW k \in Nat, Taken(k), index <= Len(args)
  PROVE  /\ index = 2 * (k + 1) - 1 /\ index + 1 = 2 * (k + 1) /\ index \in 1 .. Len(args)
         /\ index = Len(args) => Len(args) % 2 # 0
         /\ index # Len(args) => 2 * (k + 1) <= Len(args)
         /\ Len(args) % 2 = 0 => k + 1 \in PairsOf(args)
         /\ \A i \in 1 .. k : i \in PairsOf(args)
<1>1. index = 2 * k + 1 /\ Len(args) \in Nat /\ 2 * k <= Len(args)
  BY DEF Taken
<1>2. index = Len(args) => Len(args) % 2 # 0
  BY <1>1
<1>3. Len(args) % 2 = 0 => k + 1 \in PairsOf(args)
  BY <1>1 DEF PairsOf
<1>4. \A i \in 1 .. k : i \in PairsOf(args)
  BY <1>1 DEF PairsOf
<1> QED BY <1>1, <1>2, <1>3, <1>4

\* A turn of the loop takes the pair, or refuses a line that is not admitted.
LEMMA AcceptParse ==
  ASSUME AcceptInv, NEW name \in OptionNames, Parse(name)
  PROVE  AcceptInv'
<1>1. /\ ReachInv' /\ ReachInv /\ args \in Seq(AnyArgument) /\ stage = "parsing"
      /\ entry \in Entries
  <2>1. Next
    BY DEF Next
  <2> QED BY <2>1, ReachStep DEF AcceptInv, Parse
<1>2. PICK k \in Nat : Taken(k)
  BY <1>1 DEF AcceptInv
<1> DEFINE m == k + 1
<1>3. /\ index <= Len(args) /\ args[index].is = "option" /\ args[index].of = name
      /\ args' = args /\ entry' = entry
  BY DEF Parse, Refuse, parser, inputs
<1>4. /\ index = 2 * m - 1 /\ index + 1 = 2 * m /\ index \in 1 .. Len(args)
      /\ index = Len(args) => Len(args) % 2 # 0
      /\ index # Len(args) => 2 * m <= Len(args)
      /\ Len(args) % 2 = 0 => m \in PairsOf(args)
      /\ \A i \in 1 .. k : i \in PairsOf(args)
  BY <1>1, <1>2, <1>3, PairInHand
<1>5. m \in Nat /\ k \in Nat /\ 1 .. m = (1 .. k) \cup {m} /\ m \notin 1 .. k
      /\ index + 2 = 2 * m + 1 /\ k \in 1 .. k \cup {0}
  BY <1>2, <1>4 DEF Taken
<1> HIDE DEF m
<1>6. NameAt(args, m) = name
  BY <1>3, <1>4 DEF NameAt
<1>7. CASE name \in DOMAIN options \/ index = Len(args) \/ ~IsValue(name, args[index + 1], entry)
  <2>1. stage' = "refused"
    BY <1>7 DEF Parse, Refuse
  <2>2. ~Admitted(args, entry)
    <3> SUFFICES ASSUME Admitted(args, entry) PROVE FALSE
      OBVIOUS
    <3>1. Len(args) % 2 = 0 /\ m \in PairsOf(args)
      BY <1>4, AdmittedIs
    <3>2. name \notin DOMAIN options
      <4> SUFFICES ASSUME name \in DOMAIN options PROVE FALSE
        OBVIOUS
      <4>1. PICK i \in 1 .. k : NameAt(args, i) = name
        BY <1>2 DEF Taken
      <4>2. i = m
        BY <1>4, <1>6, <3>1, <4>1, AdmittedIs
      <4> QED BY <1>5, <4>1, <4>2
    <3>3. index # Len(args)
      BY <1>4, <3>1
    <3>4. IsValue(name, args[index + 1], entry)
      BY <1>1, <1>4, <1>6, <3>1, AdmittedValues
    <3> QED BY <1>7, <3>2, <3>3, <3>4
  <2> QED BY <1>1, <1>3, <2>1, <2>2 DEF AcceptInv, AcceptsExactlyTheAdmitted
<1>8. CASE ~(name \in DOMAIN options \/ index = Len(args) \/ ~IsValue(name, args[index + 1], entry))
  <2>1. /\ options' = [n \in DOMAIN options \cup {name} |->
                          IF n = name THEN Value(name, args[index + 1]) ELSE options[n]]
        /\ index' = index + 2 /\ stage' = "parsing"
        /\ IsValue(name, args[2 * m], entry) /\ name \notin DOMAIN options /\ 2 * m <= Len(args)
    BY <1>1, <1>4, <1>8 DEF Parse
  <2>2. \A i \in 1 .. k : NameAt(args, i) \in DOMAIN options /\ NameAt(args, i) # name
    BY <1>2, <2>1 DEF Taken
  <2>3. ASSUME NEW i \in 1 .. m
        PROVE  /\ args[2 * i - 1].is = "option" /\ NameAt(args, i) \in OptionNames
               /\ IsValue(NameAt(args, i), args[2 * i], entry)
               /\ options'[NameAt(args, i)] = Value(NameAt(args, i), args[2 * i])
    <3>1. CASE i \in 1 .. k
      BY <1>2, <2>1, <2>2, <3>1 DEF Taken
    <3>2. CASE i = m
      BY <1>3, <1>4, <1>6, <2>1, <3>2
    <3> QED BY <1>5, <3>1, <3>2
  <2>4. ASSUME NEW i \in 1 .. m, NEW j \in 1 .. m, NameAt(args, i) = NameAt(args, j)
        PROVE  i = j
    <3>1. CASE i \in 1 .. k /\ j \in 1 .. k
      BY <1>2, <2>4, <3>1 DEF Taken
    <3>2. CASE i = m \/ j = m
      BY <1>5, <1>6, <2>2, <2>4, <3>2
    <3> QED BY <1>5, <3>1, <3>2
  <2>5. DOMAIN options' = {NameAt(args, i) : i \in 1 .. m}
    <3>1. DOMAIN options' = DOMAIN options \cup {name}
      BY <2>1
    <3>2. DOMAIN options = {NameAt(args, i) : i \in 1 .. k}
      BY <1>2 DEF Taken
    <3>3. {NameAt(args, i) : i \in (1 .. k) \cup {m}}
            = {NameAt(args, i) : i \in 1 .. k} \cup {NameAt(args, m)}
      OBVIOUS
    <3> QED BY <1>5, <1>6, <3>1, <3>2, <3>3
  <2>6. index' = 2 * m + 1
    BY <1>5, <2>1
  <2>7. Taken(m)'
    BY <1>3, <2>1, <2>3, <2>4, <2>5, <2>6 DEF Taken, NameAt
  <2> QED BY <1>1, <1>3, <1>5, <2>1, <2>7 DEF AcceptInv, AcceptsExactlyTheAdmitted
<1> QED BY <1>7, <1>8

\* A line with something else in an option's place is not admitted.
LEMMA AcceptUnknown ==
  ASSUME AcceptInv, ParseUnknown
  PROVE  AcceptInv'
<1>1. /\ ReachInv' /\ args \in Seq(AnyArgument) /\ stage = "parsing"
      /\ entry \in Entries
  <2>1. Next
    BY DEF Next
  <2> QED BY <2>1, ReachStep DEF AcceptInv, ParseUnknown
<1>2. PICK k \in Nat : Taken(k)
  BY <1>1 DEF AcceptInv
<1>3. /\ index <= Len(args) /\ stage' = "refused" /\ args' = args /\ entry' = entry
      /\ ~(args[index].is = "option" /\ args[index].of \in OptionNames)
  BY DEF ParseUnknown, Refuse, parser, inputs
<1>4. ~Admitted(args, entry)
  <2> SUFFICES ASSUME Admitted(args, entry) PROVE FALSE
    OBVIOUS
  <2>1. Len(args) % 2 = 0
    BY AdmittedIs
  <2>2. k + 1 \in PairsOf(args) /\ index = 2 * (k + 1) - 1
    BY <1>1, <1>2, <1>3, <2>1, PairInHand
  <2>3. args[index].is = "option" /\ args[index].of \in OptionNames
    BY <2>2, AdmittedIs DEF NameAt
  <2> QED BY <1>3, <2>3
<1> QED BY <1>1, <1>3, <1>4 DEF AcceptInv, AcceptsExactlyTheAdmitted

\* At the end of the line every pair is taken, and what is still asked of the options is
\* what is still asked of the line.
LEMMA AcceptEnd ==
  ASSUME AcceptInv, ParseEnd
  PROVE  AcceptInv'
<1>1. /\ ReachInv' /\ args \in Seq(AnyArgument) /\ stage = "parsing"
      /\ entry \in Entries
  <2>1. Next
    BY DEF Next
  <2> QED BY <2>1, ReachStep DEF AcceptInv, ParseEnd
<1>2. PICK k \in Nat : Taken(k)
  BY <1>1 DEF AcceptInv
<1>3. index > Len(args) /\ args' = args /\ entry' = entry /\ stage' \in {"accepted", "refused"}
  BY DEF ParseEnd, Refuse, parser, inputs
<1>4. Len(args) = 2 * k /\ Len(args) % 2 = 0 /\ PairsOf(args) = 1 .. k
  <2>1. index = 2 * k + 1 /\ 2 * k <= Len(args) /\ Len(args) \in Nat
    BY <1>1, <1>2 DEF Taken
  <2>2. Len(args) = 2 * k
    BY <1>2, <1>3, <2>1
  <2>3. Len(args) \div 2 = k /\ Len(args) % 2 = 0
    BY <1>2, <2>2
  <2> QED BY <2>2, <2>3 DEF PairsOf
<1> DEFINE Accepted == /\ "work" \in DOMAIN options => "plugin" \in DOMAIN options
                       /\ Required \subseteq DOMAIN options
                       /\ PolicyExists(options["debug"], options["level"])
<1>5. stage' = "accepted" <=> Accepted
  BY <1>3 DEF ParseEnd, Refuse
<1>6. \A i \in PairsOf(args) :
        /\ args[2 * i - 1].is = "option" /\ NameAt(args, i) \in OptionNames
        /\ IsValue(NameAt(args, i), args[2 * i], entry)
        /\ Named(args, NameAt(args, i)) = {i}
        /\ ValueOf(args, NameAt(args, i)) = args[2 * i]
        /\ options[NameAt(args, i)] = Value(NameAt(args, i), args[2 * i])
  <2>1. \A i, j \in PairsOf(args) : NameAt(args, i) = NameAt(args, j) => i = j
    BY <1>2, <1>4 DEF Taken
  <2> QED BY <1>2, <1>4, <2>1, OnlyPair DEF Taken
<1>7. ASSUME NEW n
      PROVE  /\ n \in DOMAIN options <=> Named(args, n) # {}
             /\ \A i \in Named(args, n) : i \in PairsOf(args) /\ NameAt(args, i) = n
  <2>1. \A i \in Named(args, n) : i \in PairsOf(args) /\ NameAt(args, i) = n
    BY DEF Named
  <2>2. \A i \in PairsOf(args) : NameAt(args, i) = n => i \in Named(args, n)
    BY <1>6 DEF Named
  <2> QED BY <1>2, <1>4, <2>1, <2>2 DEF Taken
<1>8. ASSUME NEW n, n \in DOMAIN options
      PROVE  /\ IsValue(n, ValueOf(args, n), entry) /\ ValueOf(args, n) \in AnyArgument
             /\ options[n] = Value(n, ValueOf(args, n))
  <2>1. PICK i \in PairsOf(args) : NameAt(args, i) = n
    BY <1>7, <1>8
  <2> QED BY <1>1, <1>6, <2>1, PairPlace
<1>9. ASSUME Required \subseteq DOMAIN options
      PROVE  PolicyExists(options["debug"], options["level"]) <=>
               (ValueOf(args, "level").of \in Verbose => ValueOf(args, "debug").of = "true")
  <2>1. "debug" \in DOMAIN options /\ "level" \in DOMAIN options
    BY <1>9 DEF Required
  <2>2. options["debug"] = ValueOf(args, "debug").of /\ options["level"] = ValueOf(args, "level").of
    BY <1>8, <2>1, ValueByName
  <2> QED BY <2>2 DEF PolicyExists
<1> HIDE DEF Accepted
<1>10. Accepted => Admitted(args, entry)
  <2> SUFFICES ASSUME Accepted PROVE Admitted(args, entry)
    OBVIOUS
  <2>1. /\ Required \subseteq DOMAIN options
        /\ "work" \in DOMAIN options => "plugin" \in DOMAIN options
        /\ PolicyExists(options["debug"], options["level"])
    BY DEF Accepted
  <2>2. "generation" \in DOMAIN options /\ "level" \in DOMAIN options /\ "debug" \in DOMAIN options
    BY <2>1 DEF Required
  <2>3. ValueOf(args, "generation").is = "digits"
        /\ NumberOf(ValueOf(args, "generation").of) \in 1 .. MaxWord
    BY <1>8, <2>2, DigitsByName
  <2>4. ValueOf(args, "level").is = "word" /\ ValueOf(args, "level").of \in LogLevels
    BY <1>8, <2>2, IsValueByName
  <2>5. ValueOf(args, "debug").is = "word" /\ ValueOf(args, "debug").of \in {"true", "false"}
    BY <1>8, <2>2, IsValueByName
  <2>6. ValueOf(args, "level").of \in Verbose => ValueOf(args, "debug").of = "true"
    BY <1>9, <2>1
  <2>7. ASSUME NEW n \in {"plugin", "directory"}, NEW i \in Named(args, n)
        PROVE  /\ args[2 * i].is = "path" /\ args[2 * i].of.absolute
               /\ args[2 * i].of.size \in 1 .. MaxPath
               /\ args[2 * i].of.unicode \/ entry = "main"
    <3>1. IsValue(n, args[2 * i], entry)
      BY <1>6, <1>7, <2>7
    <3> QED BY <1>1, <2>7, <3>1, IsValueByName DEF MakesPath, Entries
  <2>8. ASSUME NEW i \in Named(args, "work")
        PROVE  /\ args[2 * i].is = "digits" /\ args[2 * i].of # <<>>
               /\ NumberOf(args[2 * i].of) <= MaxWork
    <3>1. i \in PairsOf(args) /\ IsValue("work", args[2 * i], entry)
      BY <1>6, <1>7, <2>8
    <3>2. args[2 * i] \in AnyArgument
      BY <1>1, <3>1, PairPlace
    <3> QED BY <3>1, <3>2, DigitsByName
  <2>9. \A n \in Required : Named(args, n) # {}
    BY <1>7, <2>1
  <2>10. Named(args, "work") # {} => Named(args, "plugin") # {}
    BY <1>7, <2>1
  <2>11. \A i, j \in PairsOf(args) : NameAt(args, i) = NameAt(args, j) => i = j
    BY <1>2, <1>4 DEF Taken
  <2>12. \A i \in PairsOf(args) :
           args[2 * i - 1].is = "option" /\ NameAt(args, i) \in OptionNames
    BY <1>6
  <2> QED BY <1>4, <2>3, <2>4, <2>5, <2>6, <2>7, <2>8, <2>9, <2>10, <2>11, <2>12, AdmittedIs
<1>11. Admitted(args, entry) => Accepted
  <2> SUFFICES ASSUME Admitted(args, entry) PROVE Accepted
    OBVIOUS
  <2>1. /\ \A n \in Required : Named(args, n) # {}
        /\ Named(args, "work") # {} => Named(args, "plugin") # {}
        /\ ValueOf(args, "level").of \in Verbose => ValueOf(args, "debug").of = "true"
    BY AdmittedIs
  <2>2. Required \subseteq DOMAIN options
    BY <1>7, <2>1
  <2>3. PolicyExists(options["debug"], options["level"])
    BY <1>9, <2>1, <2>2
  <2>4. "work" \in DOMAIN options => "plugin" \in DOMAIN options
    BY <1>7, <2>1
  <2> QED BY <2>2, <2>3, <2>4 DEF Accepted
<1> QED BY <1>1, <1>3, <1>5, <1>10, <1>11 DEF AcceptInv, AcceptsExactlyTheAdmitted

\* Every step keeps the invariant.
LEMMA AcceptStep == AcceptInv /\ [Next]_vars => AcceptInv'
<1> SUFFICES ASSUME AcceptInv, [Next]_vars PROVE AcceptInv'
  OBVIOUS
<1>0. ReachInv' /\ ReachInv /\ args \in Seq(AnyArgument) /\ entry \in Entries
  BY ReachStep DEF AcceptInv
<1>1. CASE UNCHANGED vars
  <2>1. UNCHANGED <<stage, entry, args, index, options>>
    BY <1>1 DEF vars, parser, inputs
  <2> QED BY <1>0, <2>1 DEF AcceptInv, Taken, NameAt, AcceptsExactlyTheAdmitted
<1>2. CASE Initialize
  <2>1. stage' \in {"ready", "failed"} /\ args' = args /\ entry' = entry
    BY <1>2 DEF Initialize, parser, inputs
  <2> QED BY <1>0, <2>1 DEF AcceptInv, AcceptsExactlyTheAdmitted
<1>3. ASSUME NEW g \in 1 .. MaxWord, Spawn(g) PROVE AcceptInv'
  <2>1. /\ stage = "ready" /\ stage' = "parsing"
        /\ args' = CommandLine(document, host, g)
        /\ UNCHANGED <<entry, index, options>>
    BY <1>3 DEF Spawn, inputs
  <2>2. args' \in Seq(AnyArgument) /\ index = 1 /\ options = NoOptions
    BY <1>0, <2>1, LineType DEF ReachInv
  <2>3. Taken(0)'
    <3>1. 2 * 0 <= Len(args') /\ index' = 2 * 0 + 1
      BY <2>1, <2>2
    <3>2. DOMAIN options' = {} /\ 1 .. 0 = {}
      BY <2>1, <2>2 DEF NoOptions
    <3> QED BY <3>1, <3>2 DEF Taken
  <2> QED BY <1>0, <2>1, <2>2, <2>3 DEF AcceptInv, AcceptsExactlyTheAdmitted
<1>4. CASE \E name \in OptionNames : Parse(name)
  BY <1>4, AcceptParse
<1>5. CASE ParseUnknown
  BY <1>5, AcceptUnknown
<1>6. CASE ParseEnd
  BY <1>6, AcceptEnd
<1> QED BY <1>1, <1>2, <1>3, <1>4, <1>5, <1>6 DEF Next

\* Whatever the limits, the documents and the hosts: the Runtime refuses the command line
\* that spawn_process writes for a path with an unpaired surrogate under wmain, and for
\* nothing else, and the options it makes of every other are the configuration's, with the
\* level that DebugConfig calls effective.
THEOREM ConfigurationReachesRuntimeHolds ==
  ASSUME NEW documents \in SUBSET Documents, NEW hosts \in SUBSET Hosts, NEW lines,
         NEW shipped \in Documents, NEW installed \in Hosts
  PROVE  InitWith(documents, hosts, lines, shipped, installed) /\ [][Next]_vars
           => []ConfigurationReachesRuntime
BY ReachInit, ReachStep, ReachImplies, PTL

\* Whoever wrote it and however long it is, parse_options accepts a command line exactly
\* when it is one that the options' description admits, with the Unicode paths that it
\* asks for where there is a conversion to stop at others.
THEOREM AcceptsExactlyTheAdmittedHolds ==
  ASSUME NEW documents \in SUBSET Documents, NEW hosts \in SUBSET Hosts,
         NEW lines \in SUBSET Seq(AnyArgument),
         NEW shipped \in Documents, NEW installed \in Hosts
  PROVE  InitWith(documents, hosts, lines, shipped, installed) /\ [][Next]_vars
           => []AcceptsExactlyTheAdmitted
<1>1. AcceptInv => AcceptsExactlyTheAdmitted
  BY DEF AcceptInv
<1>2. InitWith(documents, hosts, lines, shipped, installed) => AcceptInv
  BY AcceptInit
<1> QED BY <1>1, <1>2, AcceptStep, PTL

=============================================================================
