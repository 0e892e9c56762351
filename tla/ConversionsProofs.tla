--------------------------- MODULE ConversionsProofs ---------------------------
(***************************************************************************)
(* Proofs about the conversions, for every input.  What a loop or a        *)
(* recursive function computes is proved by induction, which stands here   *)
(* on finite sets: a set of numbers up to n that is not empty has a least  *)
(* element and a greatest, those of the lowest and the highest rank.       *)
(***************************************************************************)
EXTENDS Conversions, FiniteSetTheorems, SequenceTheorems, TLAPS

-----------------------------------------------------------------------------
(* Induction and recursion over the numbers up to n *)

\* A set of numbers up to n that is not empty has a least element and a greatest.
LEMMA Extremes ==
  ASSUME NEW n \in Nat, NEW S \in SUBSET (1..n), S # {}
  PROVE  /\ \E i \in S : \A j \in S : i =< j
         /\ \E i \in S : \A j \in S : j =< i
  <1> DEFINE upto(i) == {j \in S : j =< i}
             N == Cardinality(S)
             rank == [i \in S |-> Cardinality(upto(i))]
  <1>0. /\ IsFiniteSet(S) /\ N \in Nat /\ N # 0
        /\ S \subseteq Nat
    <2>1. 1 \in Int /\ n \in Int
      OBVIOUS
    <2>2. IsFiniteSet(S)
      BY <2>1, FS_Interval, FS_Subset, Zenon
    <2> QED
      BY <2>2, FS_CardinalityType, FS_EmptySet
  <1>1. ASSUME NEW i \in S
        PROVE  /\ upto(i) \in SUBSET S /\ i \in upto(i)
               /\ IsFiniteSet(upto(i)) /\ Cardinality(upto(i)) \in 1..N
    <2>1. upto(i) \in SUBSET S /\ i \in upto(i)
      BY <1>0
    <2> HIDE DEF upto
    <2>2. /\ IsFiniteSet(upto(i)) /\ Cardinality(upto(i)) =< N
          /\ Cardinality(upto(i)) \in Nat /\ Cardinality(upto(i)) # 0
      BY <1>0, <2>1, FS_Subset, FS_CardinalityType, FS_EmptySet
    <2> QED
      BY <1>0, <2>1, <2>2
  <1>2. ASSUME NEW i \in S, NEW j \in S, rank[i] = rank[j], i < j
        PROVE  FALSE
    <2>1. upto(i) \in SUBSET upto(j) /\ j \in upto(j) /\ j \notin upto(i)
      <3>1. i \in Nat /\ j \in Nat /\ ~ (j =< i) /\ S \subseteq Nat
        BY <1>0, <1>2
      <3>2. \A k \in Nat : k =< i => k =< j
        BY <1>2, <3>1
      <3> QED
        BY <1>1, <3>1, <3>2
    <2>2. IsFiniteSet(upto(j)) /\ Cardinality(upto(i)) = Cardinality(upto(j))
      BY <1>1, <1>2
    <2> HIDE DEF upto
    <2> QED
      BY <2>1, <2>2, FS_Subset
  <1>3. rank \in [S -> 1..N] /\ \A i, j \in S : rank[i] = rank[j] => i = j
    <2>1. rank \in [S -> 1..N]
      BY <1>1
    <2>2. \A i, j \in S : i < j \/ j < i \/ i = j
      BY <1>0
    <2> HIDE DEF rank
    <2> QED
      BY <1>2, <2>1, <2>2
  <1>4. IsFiniteSet(1..N) /\ Cardinality(1..N) = N
    <2>1. 1 \in Int /\ N \in Int
      BY <1>0
    <2>2. IsFiniteSet(1..N) /\ Cardinality(1..N) = IF 1 > N THEN 0 ELSE N - 1 + 1
      BY <2>1, FS_Interval, Zenon
    <2> HIDE DEF N
    <2> QED
      BY <1>0, <2>2
  <1>5. \A k \in 1..N : \E i \in S : rank[i] = k
    <2> HIDE DEF rank
    <2>1. rank \in Injection(S, 1..N)
      BY <1>3 DEF Injection, IsInjective
    <2>2. rank \in Surjection(S, 1..N)
      BY <1>0, <1>4, <2>1, FS_Injection
    <2> QED
      BY <2>2 DEF Surjection
  <1>6. \E i \in S : \A j \in S : i =< j
    <2>1. PICK i \in S : rank[i] = 1
      BY <1>0, <1>5
    <2>2. ASSUME NEW j \in S, j < i PROVE FALSE
      <3>1. upto(j) \in SUBSET upto(i) /\ i \in upto(i) /\ i \notin upto(j)
        <4>1. i \in Nat /\ j \in Nat /\ ~ (i =< j) /\ S \subseteq Nat
          BY <1>0, <2>2
        <4>2. \A k \in Nat : k =< j => k =< i
          BY <2>2, <4>1
        <4> QED
          BY <1>1, <4>1, <4>2
      <3>2. Cardinality(upto(i)) = 1 /\ IsFiniteSet(upto(i)) /\ Cardinality(upto(j)) \in 1..N
        BY <1>1, <2>1
      <3> HIDE DEF upto, N
      <3>3. Cardinality(upto(j)) =< 1
        BY <3>1, <3>2, FS_Subset
      <3>4. Cardinality(upto(j)) = 1
        BY <1>0, <3>2, <3>3
      <3> QED
        BY <3>1, <3>2, <3>4, FS_Subset
    <2>3. \A j \in S : j < i \/ i =< j
      BY <1>0
    <2> QED
      BY <2>2, <2>3
  <1>7. \E i \in S : \A j \in S : j =< i
    <2>1. PICK i \in S : rank[i] = N
      BY <1>0, <1>5
    <2>2. upto(i) \in SUBSET S /\ Cardinality(upto(i)) = Cardinality(S)
      BY <1>1, <2>1
    <2>3. upto(i) = S
      <3> HIDE DEF upto
      <3> QED
        BY <1>0, <2>2, FS_Subset
    <2> QED
      BY <2>3
  <1> QED
    BY <1>6, <1>7

\* A set that holds 0 and with each number below n the next holds them all.
LEMMA Induction ==
  ASSUME NEW n \in Nat, NEW S, 0 \in S, \A i \in 1..n : i - 1 \in S => i \in S
  PROVE  0..n \subseteq S
  <1> DEFINE bad == {i \in 1..n : i \notin S}
  <1>1. CASE bad = {}
    <2>1. \A i \in 0..n : i = 0 \/ i \in 1..n
      OBVIOUS
    <2> QED
      BY <1>1, <2>1
  <1>2. CASE bad # {}
    <2>1. PICK i \in bad : \A j \in bad : i =< j
      <3>1. bad \in SUBSET (1..n)
        OBVIOUS
      <3> HIDE DEF bad
      <3> QED
        BY <1>2, <3>1, Extremes
    <2>2. i - 1 \in S
      <3>1. i - 1 = 0 \/ i - 1 \in 1..n
        OBVIOUS
      <3>2. ~ (i =< i - 1)
        OBVIOUS
      <3> QED
        BY <2>1, <3>1, <3>2
    <2> QED
      BY <2>2
  <1> QED
    BY <1>1, <1>2

\* A function that is defined by its first value and a step exists.
Follows(f, n, base, step) == f[0] = base /\ \A i \in 1..n : f[i] = step[<<i, f[i - 1]>>]

\* A recursive function over the numbers up to n exists; tlapm does not know that
\* of itself.
LEMMA Recursion ==
  ASSUME NEW n \in Nat, NEW V, NEW base \in V, NEW step \in [(1..n) \X V -> V]
  PROVE  \E f \in [0..n -> V] : Follows(f, n, base, step)
  <1> DEFINE Fits(k, f) == f[0] = base /\ \A i \in 1..k : f[i] = step[<<i, f[i - 1]>>]
             reached == {k \in 0..n : \E f \in [0..k -> V] : Fits(k, f)}
  <1>1. 0 \in reached
    <2> DEFINE f == [i \in 0..0 |-> base]
    <2>1. f \in [0..0 -> V] /\ Fits(0, f)
      OBVIOUS
    <2> HIDE DEF f, Fits
    <2>2. 0 \in 0..n
      OBVIOUS
    <2> QED
      BY <2>1, <2>2
  <1>2. ASSUME NEW k \in 1..n, k - 1 \in reached
        PROVE  k \in reached
    <2>1. PICK f \in [0..k - 1 -> V] : Fits(k - 1, f)
      BY <1>2
    <2> DEFINE g == [i \in 0..k |-> IF i = k THEN step[<<k, f[k - 1]>>] ELSE f[i]]
    <2>2. /\ k - 1 \in 0..k - 1 /\ k \in 0..n /\ 0 \in 0..k /\ 0 # k
          /\ \A i \in 0..k : i = k \/ i \in 0..k - 1
          /\ \A i \in 1..k : /\ i \in 0..k /\ i - 1 \in 0..k /\ i - 1 # k
                             /\ i = k \/ i \in 1..k - 1
      OBVIOUS
    <2>3. step[<<k, f[k - 1]>>] \in V
      BY <2>2
    <2>4. g \in [0..k -> V]
      BY <2>2, <2>3
    <2>5. Fits(k, g)
      <3>1. g[0] = base
        BY <2>1, <2>2
      <3>2. \A i \in 1..k : g[i] = step[<<i, g[i - 1]>>]
        <4> SUFFICES ASSUME NEW i \in 1..k PROVE g[i] = step[<<i, g[i - 1]>>]
          OBVIOUS
        <4>1. g[i - 1] = f[i - 1]
          BY <2>2
        <4>2. i = k => g[i] = step[<<k, f[k - 1]>>]
          BY <2>2
        <4>3. i # k => g[i] = f[i] /\ i \in 1..k - 1
          BY <2>2
        <4> QED
          BY <2>1, <4>1, <4>2, <4>3
      <3> QED
        BY <3>1, <3>2
    <2> QED
      BY <2>2, <2>4, <2>5
  <1>3. n \in reached
    <2> HIDE DEF reached
    <2>1. 0..n \subseteq reached
      BY <1>1, <1>2, Induction
    <2> QED
      BY <2>1
  <1> QED
    BY <1>3 DEF Follows

-----------------------------------------------------------------------------
(* Response codes *)

\* A category, once there is one, is that of the code.
Translated == category # "none" => category = translate_tss_rc(rc)

\* The category is the translation of the code.
LEMMA CodesAreTranslated == Spec => []Translated
  <1>1. Init => Translated
    BY DEF Init, Translated
  <1>2. Translated /\ [Next]_vars => Translated'
    BY DEF Translated, Next, Read, Value, Text, Code, translate, vars, codeVars,
           translate_tss_rc, rc_layer, rc_base
  <1> QED
    BY <1>1, <1>2, PTL DEF Spec

\* A format-one code of the TPM is cut down to its error.
LEMMA OnlyTheErrorCounts ==
  ASSUME NEW e \in 0..63, NEW p \in {0, 1}, NEW n \in 0..15
  PROVE  /\ FormatOne(e, p, n) # 0
         /\ rc_layer(FormatOne(e, p, n)) = TPM
         /\ rc_base(FormatOne(e, p, n), TPM) = 128 + e
  <1> DEFINE code == FormatOne(e, p, n)
  <1>1. /\ code \in 128..4095
        /\ code % 65536 = code
        /\ code \div 65536 = 0
    BY DEF FormatOne
  <1>2. FMT1(code) /\ code % 64 = e
    BY DEF FormatOne, FMT1
  <1>3. rc_layer(code) = TPM
    BY <1>1 DEF rc_layer, TPM
  <1> HIDE DEF code
  <1>4. rc_base(code, TPM) = 128 + e
    BY <1>1, <1>2 DEF rc_base, normalize_tpm_base
  <1>5. code # 0
    BY <1>1
  <1> USE DEF code
  <1> QED
    BY <1>3, <1>4, <1>5

\* Parameter, handle and session bits never change the category of an error, which is the
\* one documented for it.
THEOREM SelectorBitsAreIgnored == Spec => []SelectorBitsDoNotMatter
  <1>1. Translated => SelectorBitsDoNotMatter
    <2> SUFFICES ASSUME Translated, category # "none",
                        NEW e \in 0..63, NEW p \in {0, 1}, NEW n \in 0..15,
                        rc = FormatOne(e, p, n)
                 PROVE  category = translate_layer_base(TPM, 128 + e)
      BY DEF SelectorBitsDoNotMatter
    <2>1. translate_tss_rc(FormatOne(e, p, n)) = translate_layer_base(TPM, 128 + e)
      BY OnlyTheErrorCounts DEF translate_tss_rc
    <2> QED
      BY <2>1 DEF Translated
  <1> QED
    BY <1>1, CodesAreTranslated, PTL

\* No pair of a layer and a base is documented with two categories.
LEMMA CategoriesAreDisjoint ==
  /\ security_error \cap input_error = {}
  /\ security_error \cap resource_error = {}
  /\ input_error \cap resource_error = {}
  BY DEF security_error, input_error, resource_error, TPM, ESAPI, TCTI

\* The order of the table does not matter: each pair gets the category it is
\* documented with.
LEMMA TableIsExact ==
  ASSUME NEW layer, NEW base
  PROVE  LET c == translate_layer_base(layer, base)
         IN  /\ c = "security_failure" <=> <<layer, base>> \in security_error
             /\ c = "input_error" <=> <<layer, base>> \in input_error
             /\ c = "resource_error" <=> <<layer, base>> \in resource_error
  <1> DEFINE entry == <<layer, base>>
  <1>1. /\ entry \in security_error => entry \notin input_error \cup resource_error
        /\ entry \in input_error => entry \notin resource_error
    BY CategoriesAreDisjoint
  <1> QED
    BY <1>1 DEF translate_layer_base

\* Every code that is not in format one of the TPM is taken at face value.
THEOREM OtherCodesAreExact == Spec => []OtherCodesStandForThemselves
  <1>1. Translated => OtherCodesStandForThemselves
    <2> DEFINE layer == rc_layer(rc)
               base == rc % 65536
    <2> SUFFICES ASSUME Translated, category # "none", rc # 0,
                        layer # TPM \/ ~FMT1(base)
                 PROVE  /\ category = "security_failure" <=> <<layer, base>> \in security_error
                        /\ category = "input_error" <=> <<layer, base>> \in input_error
                        /\ category = "resource_error" <=> <<layer, base>> \in resource_error
      BY DEF OtherCodesStandForThemselves
    <2>1. rc_base(rc, layer) = base
      BY DEF rc_base, normalize_tpm_base
    <2>2. category = translate_layer_base(layer, base)
      BY <2>1 DEF Translated, translate_tss_rc
    <2> HIDE DEF layer, base
    <2> QED
      BY <2>2, TableIsExact
  <1> QED
    BY <1>1, CodesAreTranslated, PTL

\* Format one or not, whatever selectors a code carries: translate_tss_rc returns the
\* category documented for it.
THEOREM EveryCodeKeepsItsCategory == Spec => []CodesKeepTheirCategory
  <1>1. SelectorBitsDoNotMatter /\ OtherCodesStandForThemselves => CodesKeepTheirCategory
    BY DEF CodesKeepTheirCategory
  <1> QED
    BY <1>1, SelectorBitsAreIgnored, OtherCodesAreExact, PTL

-----------------------------------------------------------------------------
(* Values *)

\* A conversion has an input; the others stay as they were.
Inputs ==
    /\ doing = "value" => asked \in GivenValues
    /\ doing = "text" => given \in GivenTexts

\* The inputs of a conversion stay the ones it was given.
LEMMA InputsAreGiven == Spec => []Inputs
  <1>1. Init => Inputs
    BY DEF Init, InitValue, InitText, Inputs
  <1>2. Inputs /\ [Next]_vars => Inputs'
    <2>1. [Next]_vars => UNCHANGED <<doing, asked, given>>
      BY DEF Next, vars, Read, Value, Text, Code, valueVars, textVars, NextValue, NextText,
             MakeIndex, make_index_range, MakeBank, MakeSelection, MakeDigest, SendDigests,
             Ask, EncodeHex, DecodeHex, RenderFields, Describe, create_context_from_config,
             Convert
    <2> QED
      BY <2>1 DEF Inputs
  <1> QED
    BY <1>1, <1>2, PTL DEF Spec

\* RangesAreExact holds after every conversion of a value.
LEMMA RangeStep ==
  ASSUME asked \in GivenValues, NextValue
  PROVE  RangesAreExact'
  <1>0. /\ asked.first \in Nat /\ asked.first < WordSize
        /\ asked.count \in Nat /\ asked.count < WordSize
        /\ WordSize \in Nat /\ WordSize > 256
    BY ValueAssumption DEF Word
  <1>1. CASE MakeIndex
    <2>1. /\ asked.task = "index" /\ asked' = asked
          /\ value' = IF index_accepted(asked.first)
                      THEN [Fine EXCEPT !.indices = {asked.first % 256}] ELSE Thrown
      BY <1>1 DEF MakeIndex, Ask
    <2>2. CASE asked.first =< 31
      <3>1. asked.first % 256 = asked.first /\ asked.first \in 0..31
        BY <1>0, <2>2
      <3>2. value'.ok = TRUE /\ value'.indices = {asked.first}
        BY <2>1, <2>2, <3>1 DEF index_accepted, max_index, Fine, Thrown, Unmade
      <3> QED
        BY <2>1, <3>1, <3>2 DEF RangesAreExact, max_index
    <2>3. CASE ~ (asked.first =< 31)
      <3>1. asked.first \notin 0..31
        BY <1>0, <2>3
      <3>2. value'.ok = FALSE
        BY <2>1, <2>3 DEF index_accepted, max_index, Thrown, Unmade
      <3> QED
        BY <2>1, <3>1, <3>2 DEF RangesAreExact, max_index
    <2> QED
      BY <2>2, <2>3
  <1>2. CASE make_index_range
    <2> DEFINE f == asked.first
               n == asked.count
               made_of == {(f + offset) % WordSize : offset \in 0..n - 1}
               wanted == {f + offset : offset \in 0..n - 1}
               accepted == range_accepted(f, n) /\ \A v \in made_of : index_accepted(v)
    <2>1. /\ asked.task = "range" /\ asked' = asked
          /\ value' = IF accepted THEN [Fine EXCEPT !.indices = made_of] ELSE Thrown
      BY <1>2 DEF make_index_range, Ask
    <2>2. f =< 31 => (32 - f) % WordSize = 32 - f
      BY <1>0
    <2>3. range_accepted(f, n) <=> n = 0 \/ f + n =< 32
      BY <1>0, <2>2 DEF range_accepted, max_index
    <2>4. wanted \subseteq 0..31 <=> n = 0 \/ f + n =< 32
      <3>1. ASSUME wanted \subseteq 0..31, n # 0 PROVE f + n =< 32
        <4>1. f + (n - 1) \in wanted
          BY <1>0, <3>1
        <4>2. f + (n - 1) \in 0..31
          BY <3>1, <4>1
        <4> QED
          BY <1>0, <4>2
      <3>2. ASSUME n = 0 \/ f + n =< 32 PROVE wanted \subseteq 0..31
        BY <1>0, <3>2
      <3> QED
        BY <3>1, <3>2
    <2>5. ASSUME n = 0 \/ f + n =< 32 PROVE made_of = wanted
      <3>1. \A offset \in 0..n - 1 : (f + offset) % WordSize = f + offset
        <4> SUFFICES ASSUME NEW offset \in 0..n - 1
                     PROVE  (f + offset) % WordSize = f + offset
          OBVIOUS
        <4>1. f + offset \in 0..31
          BY <1>0, <2>5
        <4> QED
          BY <1>0, <4>1
      <3> QED
        BY <3>1
    <2>6. accepted <=> wanted \subseteq 0..31
      <3>1. ASSUME wanted \subseteq 0..31 PROVE accepted
        <4>1. made_of \subseteq 0..31
          BY <2>4, <2>5, <3>1
        <4> HIDE DEF made_of, wanted
        <4>2. \A v \in made_of : index_accepted(v)
          BY <4>1 DEF index_accepted, max_index
        <4> QED
          BY <2>3, <2>4, <3>1, <4>2
      <3>2. accepted => wanted \subseteq 0..31
        BY <2>3, <2>4
      <3> QED
        BY <3>1, <3>2
    <2>7. accepted => made_of = wanted
      BY <2>3, <2>5
    <2> HIDE DEF accepted, made_of
    <2>8. /\ value'.ok <=> wanted \subseteq 0..31
          /\ value'.ok => value'.indices = wanted
      BY <2>1, <2>6, <2>7 DEF Fine, Thrown, Unmade
    <2> QED
      BY <2>1, <2>8 DEF RangesAreExact, max_index
  <1>3. CASE ~ MakeIndex /\ ~ make_index_range
    <2>1. asked.task \notin {"index", "range"} /\ asked' = asked
      BY <1>3 DEF NextValue, MakeBank, MakeSelection, MakeDigest, SendDigests, Ask
    <2> QED
      BY <2>1 DEF RangesAreExact
  <1> QED
    BY <1>1, <1>2, <1>3

\* A range is made if and only if all of its indices exist, and has those and no other:
\* for words of any width over eight bits.
THEOREM RangesHold == Spec => []RangesAreExact
  <1>1. Init => RangesAreExact
    BY DEF Init, Unmade, RangesAreExact
  <1>2. Inputs /\ RangesAreExact /\ [Next]_vars => RangesAreExact'
    <2>1. ASSUME RangesAreExact, UNCHANGED valueVars PROVE RangesAreExact'
      BY <2>1 DEF RangesAreExact, valueVars
    <2> QED
      BY <2>1, RangeStep DEF Next, Read, Value, Text, Code, vars, Inputs
  <1> QED
    BY <1>1, <1>2, InputsAreGiven, PTL DEF Spec

\* What is kept of the first i digests of a list.
Taken(list, legacy) ==
    LET taken[i \in 0..Len(list)] ==
            IF i = 0 THEN <<>>
            ELSE IF skipped(list[i], legacy) THEN taken[i - 1] ELSE Append(taken[i - 1], list[i])
    IN  taken

\* The list grows as to_domain_digests goes through the digests.
LEMMA TakenIsDefined ==
  ASSUME NEW T, NEW list \in Seq(T), NEW legacy
  PROVE  LET taken == Taken(list, legacy)
         IN  /\ taken \in [0..Len(list) -> Seq(T)] /\ taken[0] = <<>>
             /\ \A i \in 1..Len(list) :
                   taken[i] = IF skipped(list[i], legacy) THEN taken[i - 1]
                              ELSE Append(taken[i - 1], list[i])
  <1> DEFINE n == Len(list)
             Next1(i, v) == IF skipped(list[i], legacy) THEN v ELSE Append(v, list[i])
             step == [p \in (1..n) \X Seq(T) |-> Next1(p[1], p[2])]
             Fits(f) == f = [i \in 0..n |-> IF i = 0 THEN <<>>
                                            ELSE IF skipped(list[i], legacy) THEN f[i - 1]
                                            ELSE Append(f[i - 1], list[i])]
  <1>1. n \in Nat /\ <<>> \in Seq(T)
    OBVIOUS
  <1>2. step \in [(1..n) \X Seq(T) -> Seq(T)]
    OBVIOUS
  <1>3. PICK f \in [0..n -> Seq(T)] : f[0] = <<>> /\ \A i \in 1..n : f[i] = step[<<i, f[i - 1]>>]
    <2> DEFINE V == Seq(T)
               none == <<>>
    <2>1. n \in Nat /\ none \in V /\ step \in [(1..n) \X V -> V]
      BY <1>1, <1>2
    <2> HIDE DEF step, n, V, none
    <2>2. \E f \in [0..n -> V] : Follows(f, n, none, step)
      BY <2>1, Recursion, Zenon
    <2> QED
      BY <2>2 DEF Follows, V, none
  <1>4. \A i \in 0..n : i = 0 \/ (i \in 1..n /\ i - 1 \in 0..n)
    BY <1>1
  <1>5. \A i \in 1..n : f[i] = Next1(i, f[i - 1])
    <2> SUFFICES ASSUME NEW i \in 1..n PROVE f[i] = Next1(i, f[i - 1])
      OBVIOUS
    <2>1. f[i - 1] \in Seq(T)
      BY <1>3, <1>4
    <2>2. step[<<i, f[i - 1]>>] = Next1(i, f[i - 1])
      BY <2>1
    <2> HIDE DEF step, Next1
    <2> QED
      BY <1>3, <2>2
  <1>6. Fits(f)
    <2>1. \A i \in 0..n : f[i] = IF i = 0 THEN <<>>
                                 ELSE IF skipped(list[i], legacy) THEN f[i - 1]
                                 ELSE Append(f[i - 1], list[i])
      BY <1>3, <1>4, <1>5
    <2> HIDE DEF n
    <2> QED
      BY <2>1
  <1>7. Fits(Taken(list, legacy))
    <2>1. Taken(list, legacy) = CHOOSE g : Fits(g)
      BY DEF Taken
    <2> QED
      BY <1>6, <2>1, Zenon
  <1> DEFINE g == Taken(list, legacy)
  <1>8. /\ DOMAIN g = 0..n /\ g[0] = <<>>
        /\ \A i \in 1..n : g[i] = Next1(i, g[i - 1])
    <2> HIDE DEF g
    <2>0. g = [i \in 0..n |-> IF i = 0 THEN <<>>
                              ELSE IF skipped(list[i], legacy) THEN g[i - 1]
                              ELSE Append(g[i - 1], list[i])]
      BY <1>7 DEF g
    <2>1. DOMAIN g = 0..n
      BY <2>0, Zenon
    <2>2. \A i \in 0..n : g[i] = IF i = 0 THEN <<>>
                                 ELSE IF skipped(list[i], legacy) THEN g[i - 1]
                                 ELSE Append(g[i - 1], list[i])
      BY <2>0, Zenon
    <2>3. 0 \in 0..n /\ \A i \in 1..n : i \in 0..n /\ i # 0
      BY <1>1
    <2> HIDE DEF n
    <2> QED
      BY <2>1, <2>2, <2>3
  <1>9. \A i \in 0..n : g[i] \in Seq(T)
    <2> DEFINE S == {i \in 0..n : g[i] \in Seq(T)}
    <2>1. 0 \in S
      <3> HIDE DEF g
      <3>1. 0 \in 0..n /\ g[0] = <<>> /\ <<>> \in Seq(T)
        BY <1>1, <1>8
      <3> QED
        BY <3>1
    <2>2. ASSUME NEW i \in 1..n, i - 1 \in S PROVE i \in S
      <3>1. list[i] \in T /\ i \in 0..n /\ g[i - 1] \in Seq(T)
        BY <2>2
      <3> HIDE DEF g
      <3>2. Next1(i, g[i - 1]) \in Seq(T)
        BY <3>1
      <3> HIDE DEF Next1
      <3> QED
        BY <1>8, <3>1, <3>2
    <2> HIDE DEF S, n
    <2>3. 0..n \subseteq S
      BY <1>1, <2>1, <2>2, Induction
    <2> QED
      BY <2>3 DEF S
  <1> HIDE DEF g
  <1>10. g \in [0..n -> Seq(T)]
    <2>1. g = [i \in 0..n |-> g[i]]
      <3>1. g = [i \in 0..n |-> IF i = 0 THEN <<>>
                                ELSE IF skipped(list[i], legacy) THEN g[i - 1]
                                ELSE Append(g[i - 1], list[i])]
        BY <1>7 DEF g
      <3> QED
        BY <3>1, Zenon
    <2> HIDE DEF n
    <2> QED
      BY <1>9, <2>1
  <1> QED
    BY <1>8, <1>10 DEF g

\* Of digests that are skipped, followed by digests that are not, the latter are kept.
LEMMA KeptOfTwo ==
  ASSUME NEW T, NEW a \in Seq(T), NEW b \in Seq(T), NEW legacy,
         \A i \in 1..Len(a) : skipped(a[i], legacy),
         \A i \in 1..Len(b) : ~ skipped(b[i], legacy)
  PROVE  kept_digests(a \o b, legacy) = b
  <1> DEFINE list == a \o b
             n == Len(list)
             m == Len(a)
             kept == Taken(list, legacy)
             S == {i \in 0..n : /\ Len(kept[i]) = IF i =< m THEN 0 ELSE i - m
                                /\ \A k \in 1..Len(kept[i]) : kept[i][k] = b[k]}
  <1>1. /\ list \in Seq(T) /\ n \in Nat /\ m \in Nat /\ n = m + Len(b) /\ Len(b) \in Nat
        /\ \A i \in 1..n : list[i] = IF i =< m THEN a[i] ELSE b[i - m]
    BY ConcatProperties
  <1> HIDE DEF list
  <1>2. /\ kept \in [0..n -> Seq(T)] /\ kept[0] = <<>>
        /\ \A i \in 1..n : kept[i] = IF skipped(list[i], legacy) THEN kept[i - 1]
                                     ELSE Append(kept[i - 1], list[i])
    BY <1>1, TakenIsDefined
  <1> HIDE DEF n, m, kept
  <1>3. 0 \in S
    <2>1. 0 \in 0..n /\ 0 =< m
      BY <1>1
    <2>2. Len(kept[0]) = 0 /\ 1..0 = {}
      BY <1>2
    <2> QED
      BY <2>1, <2>2
  <1>4. ASSUME NEW i \in 1..n, i - 1 \in S PROVE i \in S
    <2>0. /\ i \in 0..n /\ i - 1 \in 0..n /\ i \in Nat
      BY <1>1
    <2>1. /\ kept[i - 1] \in Seq(T)
          /\ Len(kept[i - 1]) = IF i - 1 =< m THEN 0 ELSE i - 1 - m
          /\ \A k \in 1..Len(kept[i - 1]) : kept[i - 1][k] = b[k]
      BY <1>2, <1>4, <2>0
    <2>2. CASE i =< m
      <3>1. i \in 1..Len(a) /\ list[i] = a[i]
        BY <1>1, <2>0, <2>2 DEF m
      <3>2. kept[i] = kept[i - 1] /\ i - 1 =< m
        BY <1>1, <1>2, <2>0, <2>2, <3>1
      <3> QED
        BY <2>0, <2>1, <2>2, <3>2
    <2>3. CASE ~ (i =< m)
      <3>1. i - m \in 1..Len(b) /\ list[i] = b[i - m]
        BY <1>1, <2>0, <2>3
      <3>2. kept[i] = Append(kept[i - 1], b[i - m]) /\ b[i - m] \in T
        <4>1. ~ skipped(list[i], legacy)
          BY <3>1
        <4>2. b[i - m] \in T
          BY <3>1, ElementOfSeq
        <4> QED
          BY <1>2, <3>1, <4>1, <4>2
      <3>3. Len(kept[i - 1]) = i - m - 1
        BY <1>1, <2>0, <2>1, <2>3
      <3> DEFINE s == kept[i - 1]
                 e == b[i - m]
      <3>4. /\ Len(Append(s, e)) = Len(s) + 1
            /\ \A k \in 1..Len(s) : Append(s, e)[k] = s[k]
            /\ Append(s, e)[Len(s) + 1] = e
            /\ \A k \in 1..Len(s) + 1 : k \in 1..Len(s) \/ k = Len(s) + 1
        <4>1. s \in Seq(T) /\ e \in T
          BY <2>1, <3>2
        <4> HIDE DEF s, e
        <4> QED
          BY <4>1
      <3>5. Len(s) + 1 = i - m
        BY <1>1, <2>0, <3>3
      <3>6. Len(kept[i]) = i - m
        BY <3>2, <3>4, <3>5
      <3>7. \A k \in 1..Len(kept[i]) : kept[i][k] = b[k]
        BY <2>1, <3>2, <3>4, <3>5, <3>6
      <3> QED
        BY <2>0, <2>3, <3>6, <3>7
    <2> QED
      BY <2>2, <2>3
  <1>5. n \in S
    <2> HIDE DEF S
    <2>1. 0..n \subseteq S
      BY <1>1, <1>3, <1>4, Induction
    <2> QED
      BY <1>1, <2>1
  <1>6. kept[n] \in Seq(T) /\ Len(kept[n]) = Len(b) /\ \A k \in 1..Len(b) : kept[n][k] = b[k]
    <2>1. n =< m <=> Len(b) = 0
      BY <1>1
    <2>2. Len(kept[n]) = Len(b)
      BY <1>1, <1>5, <2>1
    <2> QED
      BY <1>1, <1>2, <1>5, <2>2
  <1>7. kept[n] = b
    BY <1>6, SeqEqual
  <1>8. kept_digests(list, legacy) = kept[n]
    BY DEF kept_digests, Taken, kept, n
  <1> QED
    BY <1>7, <1>8 DEF list

\* What is kept is a list.
LEMMA KeptIsAList ==
  ASSUME NEW T, NEW list \in Seq(T), NEW legacy
  PROVE  kept_digests(list, legacy) \in Seq(T)
  <1>1. Len(list) \in 0..Len(list)
    OBVIOUS
  <1>2. Taken(list, legacy)[Len(list)] \in Seq(T)
    BY <1>1, TakenIsDefined
  <1> QED
    BY <1>2 DEF kept_digests, Taken

\* An algorithm with a size can be sent and comes back; what comes back has a size.
LEMMA AlgorithmsSurvive ==
  ASSUME NEW legacy \in BOOLEAN
  PROVE  /\ \A a \in hash_algorithm \cup {Unsupported} :
               LET t == algorithm_to_tpm(a, legacy)
               IN  /\ digest_size(a, legacy) > 0
                        <=> a \in hash_algorithm /\ algorithm_from_tpm(t, legacy) = a
                   /\ digest_size(a, legacy) > 0 =>
                         t = tpm_alg(a) /\ t # TPM2_ALG_ERROR /\ (a = "sha1" => legacy)
         /\ \A t : algorithm_from_tpm(t, legacy) # Unsupported =>
                      digest_size(algorithm_from_tpm(t, legacy), legacy) > 0
  <1>1. \A a \in hash_algorithm \cup {Unsupported} :
           digest_size(a, legacy) > 0 <=> a \in hash_algorithm /\ (a = "sha1" => legacy)
    BY DEF digest_size, hash_algorithm, Unsupported
  <1>2. \A a, b : tpm_alg(a) = tpm_alg(b) => a = b
    BY DEF tpm_alg
  <1>3. \A a \in hash_algorithm : tpm_alg(a) # TPM2_ALG_ERROR
    BY DEF tpm_alg, TPM2_ALG_ERROR, hash_algorithm
  <1>4. ASSUME NEW t
        PROVE  \/ algorithm_from_tpm(t, legacy) = Unsupported
               \/ /\ algorithm_from_tpm(t, legacy) \in hash_algorithm
                  /\ algorithm_from_tpm(t, legacy) = "sha1" => legacy
    BY Zenon DEF algorithm_from_tpm
  <1>5. ASSUME NEW a \in hash_algorithm, a = "sha1" => legacy
        PROVE  /\ algorithm_to_tpm(a, legacy) = tpm_alg(a)
               /\ algorithm_from_tpm(tpm_alg(a), legacy) = a
    <2>1. algorithm_to_tpm(a, legacy) = tpm_alg(a)
      BY <1>5 DEF algorithm_to_tpm, hash_algorithm, Unsupported
    <2>2. {x \in hash_algorithm : tpm_alg(a) = tpm_alg(x) /\ (x = "sha1" => legacy)} = {a}
      BY <1>2, <1>5
    <2>3. (CHOOSE x \in {a} : TRUE) = a
      BY Zenon
    <2> QED
      BY <2>1, <2>2, <2>3, Zenon DEF algorithm_from_tpm
  <1>6. ASSUME NEW a \in hash_algorithm, ~ (a = "sha1" => legacy)
        PROVE  algorithm_from_tpm(algorithm_to_tpm(a, legacy), legacy) # a
    <2>1. a = "sha1" /\ ~ legacy
      BY <1>6
    <2>2. algorithm_from_tpm(algorithm_to_tpm(a, legacy), legacy) # "sha1"
      BY <1>4, <2>1 DEF Unsupported
    <2> QED
      BY <2>1, <2>2
  <1>7. Unsupported \notin hash_algorithm
    BY DEF Unsupported, hash_algorithm
  <1> QED
    BY <1>1, <1>3, <1>4, <1>5, <1>6, <1>7

\* What concatenation makes.
Joined(s, a, b) ==
    /\ Len(s) = Len(a) + Len(b)
    /\ \A i \in 1..Len(s) : s[i] = IF i =< Len(a) THEN a[i] ELSE b[i - Len(a)]

\* Concatenation is what Joined says.
LEMMA Joining ==
  ASSUME NEW T, NEW a \in Seq(T), NEW b \in Seq(T)
  PROVE  Joined(a \o b, a, b)
  BY ConcatProperties DEF Joined

\* A sequence that ends with another one.
LEMMA SuffixOf ==
  ASSUME NEW T, NEW s \in Seq(T), NEW t \in Seq(T), NEW m \in Nat,
         Len(t) = m + Len(s), \A j \in 1..Len(s) : t[m + j] = s[j]
  PROVE  IsSuffix(s, t)
  <1> DEFINE n == Len(s)
             rs == [i \in 1..n |-> s[(n - i) + 1]]
             rt == [i \in 1..Len(t) |-> t[(Len(t) - i) + 1]]
  <1>1. n \in Nat /\ Len(t) \in Nat /\ n =< Len(t)
    OBVIOUS
  <1>2. rs \in Seq(T) /\ Len(rs) = n
    <2>1. \A i \in 1..n : s[(n - i) + 1] \in T
      OBVIOUS
    <2> QED
      BY <1>1, <2>1
  <1>3. rt \in Seq(T) /\ Len(rt) = Len(t)
    <2>1. \A i \in 1..Len(t) : t[(Len(t) - i) + 1] \in T
      OBVIOUS
    <2> QED
      BY <1>1, <2>1
  <1>4. \A i \in 1..n : rs[i] = rt[i]
    <2> SUFFICES ASSUME NEW i \in 1..n PROVE rs[i] = rt[i]
      OBVIOUS
    <2>1. /\ (n - i) + 1 \in 1..n /\ i \in 1..Len(t)
          /\ (Len(t) - i) + 1 = m + ((n - i) + 1)
      BY <1>1
    <2> QED
      BY <2>1
  <1>5. Reverse(s) = rs /\ Reverse(t) = rt
    BY DEF Reverse
  <1> HIDE DEF rs, rt
  <1>6. SubSeq(rs, 1, n) = SubSeq(rt, 1, n)
    <2>1. /\ SubSeq(rs, 1, n) \in Seq(T) /\ Len(SubSeq(rs, 1, n)) = n
          /\ \A i \in 1..n : SubSeq(rs, 1, n)[i] = rs[i]
      BY <1>1, <1>2
    <2>2. /\ SubSeq(rt, 1, n) \in Seq(T) /\ Len(SubSeq(rt, 1, n)) = n
          /\ \A i \in 1..n : SubSeq(rt, 1, n)[i] = rt[i]
      BY <1>1, <1>3
    <2> QED
      BY <1>4, <2>1, <2>2, SeqEqual
  <1> QED
    BY <1>1, <1>2, <1>3, <1>5, <1>6 DEF IsSuffix, IsPrefix

TpmDigest == [hashAlg : {tpm_alg(a) : a \in hash_algorithm} \cup {TPM2_ALG_ERROR},
              member : hash_algorithm, bytes : Nat]

\* AlgorithmsAgree holds after every conversion of a value.
LEMMA AgreementStep ==
  ASSUME asked \in GivenValues, NextValue
  PROVE  AlgorithmsAgree'
  <1> DEFINE legacy == asked.legacy
             given_digests == asked.digests
             sent == to_tpm_digest_values(asked.digests, asked.legacy)
             sha1 == [hashAlg |-> tpm_alg("sha1"), member |-> "sha1", bytes |-> 0]
             from(d) == algorithm_from_tpm(d.hashAlg, legacy)
  <1>0. /\ legacy \in BOOLEAN
        /\ asked.algorithm \in hash_algorithm \cup {Unsupported}
        /\ given_digests \in Seq([algorithm : hash_algorithm, bytes : Nat])
    BY ValueAssumption
  <1>1. /\ \A a \in hash_algorithm \cup {Unsupported} :
              LET t == algorithm_to_tpm(a, legacy)
              IN  /\ digest_size(a, legacy) > 0
                       <=> a \in hash_algorithm /\ algorithm_from_tpm(t, legacy) = a
                  /\ digest_size(a, legacy) > 0 =>
                        t = tpm_alg(a) /\ t # TPM2_ALG_ERROR /\ (a = "sha1" => legacy)
        /\ \A t : algorithm_from_tpm(t, legacy) # Unsupported =>
                     digest_size(algorithm_from_tpm(t, legacy), legacy) > 0
    BY <1>0, AlgorithmsSurvive
  <1>2. CASE MakeIndex \/ make_index_range
    <2>1. asked' = asked /\ asked.task \in {"index", "range"}
      BY <1>2 DEF MakeIndex, make_index_range, Ask
    <2> QED
      BY <2>1 DEF AlgorithmsAgree
  <1>3. CASE MakeBank \/ MakeSelection
    <2>1. /\ asked' = asked /\ asked.task \in {"bank", "selection"}
          /\ value' = IF digest_size(asked.algorithm, legacy) > 0 THEN Fine ELSE Thrown
      BY <1>3 DEF MakeBank, MakeSelection, Ask
    <2>2. value'.ok <=> digest_size(asked.algorithm, legacy) > 0
      BY <2>1 DEF Fine, Thrown, Unmade
    <2> QED
      BY <1>0, <1>1, <2>1, <2>2 DEF AlgorithmsAgree
  <1>4. CASE MakeDigest
    <2>1. /\ asked' = asked /\ asked.task = "digest"
          /\ value' = IF digest_accepted(asked.algorithm, asked.count, legacy)
                      THEN Fine ELSE Thrown
      BY <1>4 DEF MakeDigest, Ask
    <2>2. value'.ok => digest_size(asked.algorithm, legacy) > 0
      BY <2>1 DEF Fine, Thrown, Unmade, digest_accepted
    <2> QED
      BY <1>0, <1>1, <2>1, <2>2 DEF AlgorithmsAgree, is_supported_algorithm
  <1>5. CASE SendDigests
    <2>1. PICK extra \in {<<>>, <<sha1>>} :
             /\ asked' = asked /\ asked.task = "digests"
             /\ value' = to_domain_digests(extra \o sent, legacy)
      BY <1>5, Zenon DEF SendDigests, Ask
    <2> DEFINE list == extra \o sent
               kept == kept_digests(list, legacy)
               back == [i \in 1..Len(kept) |->
                          [algorithm |-> from(kept[i]),
                           bytes |-> IF from(kept[i]) = kept[i].member THEN kept[i].bytes ELSE 0]]
    <2>2. /\ sent \in Seq(TpmDigest) /\ Len(sent) = Len(given_digests)
          /\ Len(given_digests) \in Nat
          /\ \A i \in 1..Len(given_digests) :
                sent[i] = [hashAlg |-> algorithm_to_tpm(given_digests[i].algorithm, legacy),
                           member |-> given_digests[i].algorithm,
                           bytes |-> given_digests[i].bytes]
      <3>1. \A i \in 1..Len(given_digests) :
               given_digests[i].algorithm \in hash_algorithm /\ given_digests[i].bytes \in Nat
        <4> SUFFICES ASSUME NEW i \in 1..Len(given_digests)
                     PROVE  /\ given_digests[i].algorithm \in hash_algorithm
                            /\ given_digests[i].bytes \in Nat
          OBVIOUS
        <4>1. given_digests[i] \in [algorithm : hash_algorithm, bytes : Nat]
          BY <1>0, ElementOfSeq
        <4> QED
          BY <4>1
      <3>2. \A a \in hash_algorithm : algorithm_to_tpm(a, legacy) \in
                 {tpm_alg(b) : b \in hash_algorithm} \cup {TPM2_ALG_ERROR}
        BY DEF algorithm_to_tpm
      <3> DEFINE f(i) == [hashAlg |-> algorithm_to_tpm(given_digests[i].algorithm, legacy),
                          member |-> given_digests[i].algorithm,
                          bytes |-> given_digests[i].bytes]
      <3>3. \A i \in 1..Len(given_digests) : f(i) \in TpmDigest
        BY <3>1, <3>2 DEF TpmDigest
      <3>4. Len(given_digests) \in Nat
        BY <1>0
      <3>5. sent = [i \in 1..Len(given_digests) |-> f(i)]
        BY DEF to_tpm_digest_values
      <3> HIDE DEF f, sent
      <3>6. sent \in Seq(TpmDigest) /\ Len(sent) = Len(given_digests)
        BY <3>3, <3>4, <3>5
      <3>7. \A i \in 1..Len(given_digests) : sent[i] = f(i)
        BY <3>5
      <3> QED
        BY <3>4, <3>6, <3>7 DEF f
    <2>3. sha1 \in TpmDigest
      BY DEF TpmDigest, hash_algorithm
    <2> HIDE DEF sent, sha1
    <2>4. extra \in Seq(TpmDigest) /\ list \in Seq(TpmDigest)
      <3>1. <<sha1>> \in Seq(TpmDigest) /\ <<>> \in Seq(TpmDigest)
        BY <2>3
      <3>2. extra \in Seq(TpmDigest)
        BY <2>1, <3>1
      <3> QED
        BY <2>2, <3>2, ConcatProperties
    <2> HIDE DEF list
    <2>5. kept \in Seq(TpmDigest)
      BY <2>4, KeptIsAList
    <2> HIDE DEF kept
    <2>6. value' = IF \E i \in 1..Len(kept) : from(kept[i]) = Unsupported THEN Thrown
                   ELSE [Fine EXCEPT !.digests = back]
      BY <2>1, Zenon DEF to_domain_digests, kept, list
    <2>7. \A i \in 1..Len(value'.digests) :
             digest_size(value'.digests[i].algorithm, legacy) > 0
      <3>1. CASE \E i \in 1..Len(kept) : from(kept[i]) = Unsupported
        <4>1. value'.digests = <<>>
          BY <2>6, <3>1 DEF Thrown, Unmade
        <4> QED
          BY <4>1
      <3>2. CASE ~ \E i \in 1..Len(kept) : from(kept[i]) = Unsupported
        <4>1. value'.digests = back
          BY <2>6, <3>2 DEF Fine, Thrown, Unmade
        <4>2. Len(kept) \in Nat
          BY <2>5
        <4>3. Len(back) = Len(kept)
          BY <4>2
        <4>4. \A i \in 1..Len(kept) : back[i].algorithm = from(kept[i])
          BY <4>2
        <4> HIDE DEF back, from
        <4>5. \A i \in 1..Len(kept) : from(kept[i]) # Unsupported
          BY <3>2
        <4> QED
          BY <1>1, <4>1, <4>3, <4>4, <4>5 DEF from
      <3> QED
        BY <3>1, <3>2
    <2>8. ASSUME \A i \in 1..Len(given_digests) :
                    digest_size(given_digests[i].algorithm, legacy) > 0
          PROVE  /\ value'.ok
                 /\ IsSuffix(given_digests, value'.digests)
                 /\ Len(value'.digests) > Len(given_digests) => legacy
      <3> DEFINE pre == IF legacy THEN extra ELSE <<>>
      <3>1. \A i \in 1..Len(sent) :
               /\ ~ skipped(sent[i], legacy) /\ from(sent[i]) = sent[i].member
               /\ sent[i].member \in hash_algorithm
               /\ [algorithm |-> sent[i].member, bytes |-> sent[i].bytes] = given_digests[i]
        <4> SUFFICES ASSUME NEW i \in 1..Len(sent)
                     PROVE  /\ ~ skipped(sent[i], legacy) /\ from(sent[i]) = sent[i].member
                            /\ sent[i].member \in hash_algorithm
                            /\ [algorithm |-> sent[i].member, bytes |-> sent[i].bytes]
                                  = given_digests[i]
          OBVIOUS
        <4> DEFINE a == given_digests[i].algorithm
        <4>1. /\ i \in 1..Len(given_digests)
              /\ given_digests[i] \in [algorithm : hash_algorithm, bytes : Nat]
          BY <1>0, <2>2, ElementOfSeq
        <4>2. a \in hash_algorithm /\ digest_size(a, legacy) > 0
          BY <2>8, <4>1
        <4>3. /\ algorithm_to_tpm(a, legacy) = tpm_alg(a) /\ (a = "sha1" => legacy)
              /\ algorithm_from_tpm(tpm_alg(a), legacy) = a
          BY <1>1, <4>2
        <4>4. /\ sent[i].hashAlg = tpm_alg(a) /\ sent[i].member = a
              /\ sent[i].bytes = given_digests[i].bytes
          <5>1. sent[i] = [hashAlg |-> algorithm_to_tpm(a, legacy), member |-> a,
                           bytes |-> given_digests[i].bytes]
            BY <2>2, <4>1
          <5> HIDE DEF a, legacy, given_digests
          <5> QED
            BY <4>3, <5>1
        <4>5. ~ skipped(sent[i], legacy)
          BY <4>3, <4>4 DEF skipped, tpm_alg
        <4>6. [algorithm |-> a, bytes |-> given_digests[i].bytes] = given_digests[i]
          BY <4>1
        <4> QED
          BY <4>2, <4>3, <4>4, <4>5, <4>6
      <3>2. legacy => /\ ~ skipped(sha1, legacy) /\ from(sha1) = sha1.member
                      /\ sha1.member \in hash_algorithm
        <4>1. legacy => digest_size("sha1", legacy) > 0 /\ "sha1" \in hash_algorithm
          BY DEF digest_size, hash_algorithm
        <4>2. sha1.member = "sha1" /\ sha1.hashAlg = tpm_alg("sha1")
          BY DEF sha1
        <4> QED
          BY <1>1, <4>1, <4>2 DEF skipped
      <3>3. ~ legacy => skipped(sha1, legacy)
        BY DEF skipped, sha1
      <3>4. /\ extra \in Seq({sha1}) /\ Len(extra) \in Nat
            /\ \A i \in 1..Len(extra) : extra[i] = sha1
        <4>1. CASE extra = <<>>
          BY <4>1
        <4>2. CASE extra = <<sha1>>
          <5>1. <<sha1>> \in Seq({sha1}) /\ Len(<<sha1>>) = 1
            OBVIOUS
          <5>2. \A i \in 1..1 : <<sha1>>[i] = sha1
            OBVIOUS
          <5> QED
            BY <4>2, <5>1, <5>2
        <4> QED
          BY <2>1, <4>1, <4>2
      <3>5. pre \in Seq(TpmDigest) /\ Len(pre) \in Nat /\ (Len(pre) > 0 => legacy)
        BY <2>4, <3>4
      <3>6. kept = pre \o sent
        <4>1. CASE legacy
          <5>1. \A i \in 1..Len(list) : ~ skipped(list[i], legacy)
            <6> SUFFICES ASSUME NEW i \in 1..Len(list) PROVE ~ skipped(list[i], legacy)
              OBVIOUS
            <6>1. /\ Len(list) = Len(extra) + Len(sent)
                  /\ list[i] = IF i =< Len(extra) THEN extra[i] ELSE sent[i - Len(extra)]
              <7>1. Joined(list, extra, sent)
                BY <2>2, <2>4, Joining, Zenon DEF list
              <7> QED
                BY <7>1 DEF Joined
            <6>2. CASE i =< Len(extra)
              <7>1. i \in 1..Len(extra)
                BY <3>4, <6>2
              <7>2. list[i] = sha1
                BY <3>4, <6>1, <6>2, <7>1
              <7> QED
                BY <3>2, <4>1, <7>2
            <6>3. CASE ~ (i =< Len(extra))
              <7>1. i - Len(extra) \in 1..Len(sent)
                BY <2>2, <3>4, <6>1, <6>3
              <7> QED
                BY <3>1, <6>1, <6>3, <7>1
            <6> QED
              BY <6>2, <6>3
          <5>2. <<>> \in Seq(TpmDigest) /\ <<>> \o list = list /\ 1..Len(<<>>) = {}
            BY <2>4, ConcatEmptySeq
          <5>3. kept_digests(<<>> \o list, legacy) = list
            BY <2>4, <5>1, <5>2, KeptOfTwo
          <5> QED
            BY <4>1, <5>2, <5>3 DEF kept, list
        <4>2. CASE ~ legacy
          <5>1. \A i \in 1..Len(extra) : skipped(extra[i], legacy)
            BY <3>3, <3>4, <4>2
          <5>2. kept_digests(extra \o sent, legacy) = sent
            <6>1. \A i \in 1..Len(sent) : ~ skipped(sent[i], legacy)
              BY <3>1
            <6> HIDE DEF legacy
            <6> QED
              BY <2>2, <2>4, <5>1, <6>1, KeptOfTwo
          <5> QED
            BY <2>2, <4>2, <5>2, ConcatEmptySeq DEF kept, list
        <4> QED
          BY <4>1, <4>2
      <3>7. /\ Len(kept) = Len(pre) + Len(sent)
            /\ \A i \in 1..Len(kept) : kept[i] = IF i =< Len(pre) THEN pre[i]
                                               ELSE sent[i - Len(pre)]
        <4> HIDE DEF pre
        <4>1. /\ Len(pre \o sent) = Len(pre) + Len(sent)
              /\ \A i \in 1..Len(pre) + Len(sent) :
                    (pre \o sent)[i] = IF i <= Len(pre) THEN pre[i] ELSE sent[i - Len(pre)]
          BY <2>2, <3>5, ConcatProperties
        <4> QED
          BY <3>6, <4>1
      <3>8. \A i \in 1..Len(kept) : /\ from(kept[i]) = kept[i].member
                                   /\ kept[i].member \in hash_algorithm
        <4> SUFFICES ASSUME NEW i \in 1..Len(kept)
                     PROVE  /\ from(kept[i]) = kept[i].member
                            /\ kept[i].member \in hash_algorithm
          OBVIOUS
        <4>1. CASE i =< Len(pre)
          <5>1. legacy /\ i \in 1..Len(extra)
            BY <3>4, <3>5, <4>1
          <5>2. kept[i] = sha1
            BY <3>4, <3>7, <4>1, <5>1
          <5> QED
            BY <3>2, <5>1, <5>2
        <4>2. CASE ~ (i =< Len(pre))
          <5>1. i - Len(pre) \in 1..Len(sent)
            <6> HIDE DEF pre
            <6> QED
              BY <2>2, <3>5, <3>7, <4>2
          <5> HIDE DEF pre
          <5> QED
            BY <3>1, <3>7, <4>2, <5>1
        <4> QED
          BY <4>1, <4>2
      <3>9. value'.ok /\ value'.digests = back
        <4>1. Unsupported \notin hash_algorithm
          BY DEF Unsupported, hash_algorithm
        <4>2. ~ \E i \in 1..Len(kept) : from(kept[i]) = Unsupported
          BY <3>8, <4>1
        <4> HIDE DEF back
        <4> QED
          BY <2>6, <4>2 DEF Fine, Thrown, Unmade
      <3>10. /\ Len(kept) \in Nat
             /\ back = [i \in 1..Len(kept) |->
                          [algorithm |-> kept[i].member, bytes |-> kept[i].bytes]]
        BY <2>5, <3>8
      <3>11. /\ Len(back) = Len(pre) + Len(given_digests)
             /\ back \in Seq([algorithm : hash_algorithm, bytes : Nat])
             /\ \A j \in 1..Len(given_digests) : back[Len(pre) + j] = given_digests[j]
        <4> HIDE DEF back, pre
        <4>1. Len(back) = Len(pre) + Len(given_digests)
          BY <2>2, <3>7, <3>10
        <4>2. \A i \in 1..Len(kept) :
                 [algorithm |-> kept[i].member, bytes |-> kept[i].bytes]
                    \in [algorithm : hash_algorithm, bytes : Nat]
          <5> SUFFICES ASSUME NEW i \in 1..Len(kept)
                       PROVE  kept[i].member \in hash_algorithm /\ kept[i].bytes \in Nat
            OBVIOUS
          <5>1. kept[i] \in TpmDigest
            BY <2>5, ElementOfSeq
          <5> QED
            BY <5>1 DEF TpmDigest
        <4>3. back \in Seq([algorithm : hash_algorithm, bytes : Nat])
          BY <3>10, <4>2
        <4>4. ASSUME NEW j \in 1..Len(given_digests)
              PROVE  back[Len(pre) + j] = given_digests[j]
          <5>1. /\ Len(pre) + j \in 1..Len(kept) /\ ~ (Len(pre) + j =< Len(pre))
                /\ (Len(pre) + j) - Len(pre) = j /\ j \in 1..Len(sent)
            BY <2>2, <3>5, <3>7
          <5>2. kept[Len(pre) + j] = sent[j]
            BY <3>7, <5>1
          <5> QED
            BY <3>1, <3>10, <5>1, <5>2
        <4> QED
          BY <4>1, <4>3, <4>4
      <3> HIDE DEF back, pre, given_digests
      <3>12. IsSuffix(given_digests, back)
        BY <1>0, <3>5, <3>11, SuffixOf
      <3>13. Len(back) > Len(given_digests) => legacy
        <4>1. Len(given_digests) \in Nat
          BY <2>2
        <4> HIDE DEF legacy
        <4> QED
          BY <3>5, <3>11, <4>1
      <3> QED
        BY <3>9, <3>12, <3>13
    <2> QED
      BY <2>1, <2>7, <2>8 DEF AlgorithmsAgree
  <1> QED
    BY <1>2, <1>3, <1>4, <1>5 DEF NextValue

\* In either build, what can be made of an algorithm can be sent and comes back as
\* itself, in order, for any number of digests; no size of a digest throws.
THEOREM AgreementHolds == Spec => []AlgorithmsAgree
  <1>1. Init => AlgorithmsAgree
    BY DEF Init, Unmade, AlgorithmsAgree
  <1>2. Inputs /\ AlgorithmsAgree /\ [Next]_vars => AlgorithmsAgree'
    <2>1. ASSUME AlgorithmsAgree, UNCHANGED valueVars PROVE AlgorithmsAgree'
      BY <2>1, Zenon DEF AlgorithmsAgree, valueVars
    <2> QED
      BY <2>1, AgreementStep DEF Next, Read, Value, Text, Code, vars, Inputs
  <1> QED
    BY <1>1, <1>2, InputsAreGiven, PTL DEF Spec

-----------------------------------------------------------------------------
(* Texts *)

\* What FlattenSeq has joined of the first i sequences.
Flattened(seqs) ==
    LET flatten[i \in 1..Len(seqs)] ==
            IF i = 1 THEN seqs[i] ELSE flatten[i - 1] \o seqs[i]
    IN  flatten

\* FlattenSeq joins its sequences one after the other.
LEMMA FlattenedIsDefined ==
  ASSUME NEW T, NEW seqs \in Seq(Seq(T))
  PROVE  LET g == Flattened(seqs)
         IN  /\ \A i \in 1..Len(seqs) :
                   /\ g[i] \in Seq(T)
                   /\ g[i] = IF i = 1 THEN seqs[i] ELSE g[i - 1] \o seqs[i]
             /\ FlattenSeq(seqs) = IF Len(seqs) = 0 THEN <<>> ELSE g[Len(seqs)]
  <1> DEFINE n == Len(seqs)
             step == [p \in (1..n) \X Seq(T) |-> p[2] \o seqs[p[1]]]
             Fits(f) == f = [i \in 1..n |-> IF i = 1 THEN seqs[i] ELSE f[i - 1] \o seqs[i]]
  <1>1. n \in Nat /\ <<>> \in Seq(T) /\ \A i \in 1..n : seqs[i] \in Seq(T)
    <2>1. \A i \in 1..n : seqs[i] \in Seq(T)
      BY ElementOfSeq
    <2> QED
      BY <2>1
  <1>2. step \in [(1..n) \X Seq(T) -> Seq(T)]
    <2>1. \A i \in 1..n, v \in Seq(T) : v \o seqs[i] \in Seq(T)
      BY <1>1, ConcatProperties
    <2> QED
      BY <2>1
  <1>3. PICK f \in [0..n -> Seq(T)] : f[0] = <<>> /\ \A i \in 1..n : f[i] = step[<<i, f[i - 1]>>]
    <2> DEFINE V == Seq(T)
               none == <<>>
    <2>1. n \in Nat /\ none \in V /\ step \in [(1..n) \X V -> V]
      BY <1>1, <1>2
    <2> HIDE DEF step, n, V, none
    <2>2. \E f \in [0..n -> V] : Follows(f, n, none, step)
      BY <2>1, Recursion, Zenon
    <2> QED
      BY <2>2 DEF Follows, V, none
  <1>4. \A i \in 1..n : i - 1 \in 0..n /\ i \in 0..n /\ (i = 1 \/ i - 1 \in 1..n)
    BY <1>1
  <1>5. ASSUME NEW i \in 1..n
        PROVE  f[i] = IF i = 1 THEN seqs[i] ELSE f[i - 1] \o seqs[i]
    <2>1. f[i - 1] \in Seq(T)
      BY <1>3, <1>4
    <2>2. step[<<i, f[i - 1]>>] = f[i - 1] \o seqs[i]
      BY <2>1
    <2>3. <<>> \o seqs[i] = seqs[i]
      BY <1>1, ConcatEmptySeq
    <2>4. i = 1 => f[i - 1] = <<>>
      BY <1>3
    <2> HIDE DEF step
    <2> QED
      BY <1>3, <2>2, <2>3, <2>4
  <1>6. \E h : Fits(h)
    <2> DEFINE h == [i \in 1..n |-> f[i]]
    <2>1. \A i \in 1..n : h[i] = IF i = 1 THEN seqs[i] ELSE h[i - 1] \o seqs[i]
      BY <1>4, <1>5
    <2>2. h = [i \in 1..n |-> h[i]]
      OBVIOUS
    <2> HIDE DEF h, n
    <2>3. Fits(h)
      BY <2>1, <2>2
    <2> QED
      BY <2>3
  <1> DEFINE g == Flattened(seqs)
  <1>7. Fits(g)
    <2>1. g = CHOOSE h : Fits(h)
      BY DEF Flattened
    <2> QED
      BY <1>6, <2>1, Zenon
  <1>8. \A i \in 1..n : g[i] = IF i = 1 THEN seqs[i] ELSE g[i - 1] \o seqs[i]
    <2> HIDE DEF g
    <2> QED
      BY <1>7, Zenon
  <1> HIDE DEF g
  <1>9. \A i \in 1..n : g[i] \in Seq(T)
    <2> DEFINE S == {i \in 0..n : i = 0 \/ g[i] \in Seq(T)}
    <2>1. 0 \in S
      BY <1>1
    <2>2. ASSUME NEW i \in 1..n, i - 1 \in S PROVE i \in S
      <3>1. i \in 0..n /\ seqs[i] \in Seq(T)
        BY <1>1, <1>4
      <3>2. i # 1 => g[i - 1] \in Seq(T)
        BY <2>2, <1>4
      <3>3. i # 1 => g[i - 1] \o seqs[i] \in Seq(T)
        BY <3>1, <3>2, ConcatProperties
      <3> QED
        BY <1>8, <3>1, <3>3
    <2> HIDE DEF S, n
    <2>3. 0..n \subseteq S
      BY <1>1, <2>1, <2>2, Induction
    <2> QED
      BY <1>1, <2>3 DEF S
  <1>10. FlattenSeq(seqs) = IF n = 0 THEN <<>> ELSE g[n]
    <2>1. n = 0 => seqs = <<>>
      BY EmptySeq
    <2>2. FlattenSeq(seqs) = IF n = 0 THEN seqs ELSE g[n]
      BY Zenon DEF FlattenSeq, g, Flattened
    <2> QED
      BY <2>1, <2>2
  <1> QED
    BY <1>8, <1>9, <1>10 DEF g

\* A sequence of pairs is joined to one that is twice as long.
LEMMA FlattenPairs ==
  ASSUME NEW T, NEW pairs \in Seq(Seq(T)), \A i \in 1..Len(pairs) : Len(pairs[i]) = 2
  PROVE  LET joined == FlattenSeq(pairs)
         IN  /\ joined \in Seq(T) /\ Len(joined) = 2 * Len(pairs)
             /\ \A i \in 1..Len(pairs) :
                   joined[2 * i - 1] = pairs[i][1] /\ joined[2 * i] = pairs[i][2]
  <1> DEFINE n == Len(pairs)
             g == Flattened(pairs)
             Holds(i) == /\ Len(g[i]) = 2 * i
                         /\ \A k \in 1..i : g[i][2 * k - 1] = pairs[k][1]
                                            /\ g[i][2 * k] = pairs[k][2]
             S == {i \in 0..n : i = 0 \/ Holds(i)}
  <1>1. /\ n \in Nat /\ \A i \in 1..n : pairs[i] \in Seq(T) /\ Len(pairs[i]) = 2
        /\ \A i \in 1..n : /\ g[i] \in Seq(T)
                           /\ g[i] = IF i = 1 THEN pairs[i] ELSE g[i - 1] \o pairs[i]
        /\ FlattenSeq(pairs) = IF n = 0 THEN <<>> ELSE g[n]
    <2>1. \A i \in 1..n : pairs[i] \in Seq(T)
      BY ElementOfSeq
    <2> QED
      BY <2>1, FlattenedIsDefined
  <1> HIDE DEF n, g
  <1>2. ASSUME NEW i \in 1..n, i - 1 \in S PROVE i \in S
    <2>1. CASE i = 1
      BY <1>1, <2>1
    <2>2. CASE i # 1
      <3>1. i - 1 \in 1..n /\ i \in 0..n /\ i \in Nat
        BY <1>1, <2>2
      <3>2. Holds(i - 1)
        BY <1>2, <2>2
      <3>3. Joined(g[i], g[i - 1], pairs[i])
        BY <1>1, <2>2, <3>1, Joining
      <3>4. Len(g[i]) = 2 * i
        <4>1. Len(g[i - 1]) = 2 * (i - 1) /\ Len(pairs[i]) = 2
          BY <1>1, <3>2
        <4>2. Len(g[i]) = Len(g[i - 1]) + Len(pairs[i])
          BY <3>3 DEF Joined
        <4> HIDE DEF Holds
        <4> QED
          BY <3>1, <4>1, <4>2
      <3>5. ASSUME NEW k \in 1..i
            PROVE  g[i][2 * k - 1] = pairs[k][1] /\ g[i][2 * k] = pairs[k][2]
        <4>1. 2 * k - 1 \in 1..2 * i /\ 2 * k \in 1..2 * i
          BY <3>1
        <4>2. Len(g[i - 1]) = 2 * (i - 1)
          BY <3>2
        <4>3. CASE k = i
          <5>1. ~ (2 * k - 1 =< 2 * (i - 1)) /\ ~ (2 * k =< 2 * (i - 1))
            BY <3>1, <4>3
          <5>2. (2 * k - 1) - 2 * (i - 1) = 1 /\ 2 * k - 2 * (i - 1) = 2
            BY <3>1, <4>3
          <5> QED
            BY <3>3, <3>4, <4>1, <4>2, <4>3, <5>1, <5>2 DEF Joined
        <4>4. CASE k # i
          <5>1. k \in 1..i - 1 /\ 2 * k - 1 =< 2 * (i - 1) /\ 2 * k =< 2 * (i - 1)
            BY <3>1, <4>4
          <5>2. g[i][2 * k - 1] = g[i - 1][2 * k - 1] /\ g[i][2 * k] = g[i - 1][2 * k]
            BY <3>3, <3>4, <4>1, <4>2, <5>1 DEF Joined
          <5> QED
            BY <3>2, <5>1, <5>2
        <4> QED
          BY <4>3, <4>4
      <3> HIDE DEF Holds
      <3>6. Holds(i)
        BY <3>4, <3>5 DEF Holds
      <3> QED
        BY <3>1, <3>6
    <2> QED
      BY <2>1, <2>2
  <1>3. n = 0 \/ Holds(n)
    <2> HIDE DEF Holds
    <2>1. 0 \in S
      BY <1>1
    <2> HIDE DEF S
    <2>2. 0..n \subseteq S
      BY <1>1, <1>2, <2>1, Induction
    <2> QED
      BY <1>1, <2>2 DEF S
  <1>4. CASE n = 0
    <2>1. FlattenSeq(pairs) = <<>> /\ <<>> \in Seq(T) /\ Len(<<>>) = 0 /\ 1..n = {}
      BY <1>1, <1>4
    <2> QED
      BY <1>4, <2>1 DEF n
  <1>5. CASE n # 0
    <2>1. Holds(n) /\ FlattenSeq(pairs) = g[n] /\ g[n] \in Seq(T)
      BY <1>1, <1>3, <1>5
    <2> QED
      BY <2>1 DEF n
  <1> QED
    BY <1>4, <1>5

\* Two digits tell a byte, and a byte its digits.
LEMMA DigitComesBack ==
  ASSUME NEW v \in 0..15
  PROVE  hex_digit(v) \in 0..255 /\ decode_hex_digit(hex_digit(v)) = v
  BY DEF hex_digit, decode_hex_digit

\* A byte is its two halves,
LEMMA ByteHalves ==
  ASSUME NEW b \in 0..255
  PROVE  b \div 16 \in 0..15 /\ b % 16 \in 0..15 /\ 16 * (b \div 16) + (b % 16) = b
  OBVIOUS

\* and two halves are those of one byte.
LEMMA HalvesOfByte ==
  ASSUME NEW h \in 0..15, NEW l \in 0..15
  PROVE  /\ 16 * h + l \in 0..255
         /\ (16 * h + l) \div 16 = h /\ (16 * h + l) % 16 = l
  OBVIOUS

\* A character in the case that the digits are written in.
Lower(c) == IF c \in 65..70 THEN c + 32 ELSE c
HexCharacter == 48..57 \cup 65..70 \cup 97..102

\* Digits in either case, and no other character, are decoded; the digit written for
\* the result is the lower case one.
LEMMA CharacterComesBack ==
  ASSUME NEW c \in 0..255
  PROVE  /\ decode_hex_digit(c) # 16 <=> c \in HexCharacter
         /\ decode_hex_digit(c) # 16 =>
               decode_hex_digit(c) \in 0..15 /\ hex_digit(decode_hex_digit(c)) = Lower(c)
  <1>1. CASE c \in 48..57
    BY <1>1 DEF hex_digit, decode_hex_digit, Lower, HexCharacter
  <1>2. CASE c \in 65..70
    BY <1>2 DEF hex_digit, decode_hex_digit, Lower, HexCharacter
  <1>3. CASE c \in 97..102
    BY <1>3 DEF hex_digit, decode_hex_digit, Lower, HexCharacter
  <1>4. CASE c \notin HexCharacter
    <2>1. decode_hex_digit(c) = 16
      BY <1>4 DEF decode_hex_digit, HexCharacter
    <2> QED
      BY <1>4, <2>1
  <1> QED
    BY <1>1, <1>2, <1>3, <1>4 DEF HexCharacter

\* encode_hex writes two digits for each byte.
LEMMA Encoding ==
  ASSUME NEW bytes \in Seq(0..255)
  PROVE  /\ encode_hex(bytes) \in Seq(0..255)
         /\ Len(encode_hex(bytes)) = 2 * Len(bytes)
         /\ \A i \in 1..Len(bytes) :
               /\ encode_hex(bytes)[2 * i - 1] = hex_digit(bytes[i] \div 16)
               /\ encode_hex(bytes)[2 * i] = hex_digit(bytes[i] % 16)
  <1> DEFINE pair(i) == <<hex_digit(bytes[i] \div 16), hex_digit(bytes[i] % 16)>>
             pairs == [i \in 1..Len(bytes) |-> pair(i)]
  <1>1. \A i \in 1..Len(bytes) :
          /\ pair(i) \in Seq(0..255) /\ Len(pair(i)) = 2
          /\ pair(i)[1] = hex_digit(bytes[i] \div 16) /\ pair(i)[2] = hex_digit(bytes[i] % 16)
    <2> SUFFICES ASSUME NEW i \in 1..Len(bytes)
                 PROVE  /\ pair(i) \in Seq(0..255) /\ Len(pair(i)) = 2
                        /\ pair(i)[1] = hex_digit(bytes[i] \div 16)
                        /\ pair(i)[2] = hex_digit(bytes[i] % 16)
      OBVIOUS
    <2>1. bytes[i] \in 0..255
      BY ElementOfSeq
    <2>2. hex_digit(bytes[i] \div 16) \in 0..255 /\ hex_digit(bytes[i] % 16) \in 0..255
      BY <2>1, ByteHalves, DigitComesBack
    <2> QED
      BY <2>2
  <1>2. Len(bytes) \in Nat /\ encode_hex(bytes) = FlattenSeq(pairs)
    BY DEF encode_hex
  <1>3. pairs \in Seq(Seq(0..255)) /\ Len(pairs) = Len(bytes)
        /\ \A i \in 1..Len(bytes) : pairs[i] = pair(i)
    <2> HIDE DEF pair
    <2> QED
      BY <1>1, <1>2
  <1> HIDE DEF pair, pairs
  <1>4. \A i \in 1..Len(pairs) : Len(pairs[i]) = 2
    BY <1>1, <1>3
  <1>5. /\ encode_hex(bytes) \in Seq(0..255) /\ Len(encode_hex(bytes)) = 2 * Len(pairs)
        /\ \A i \in 1..Len(pairs) : /\ encode_hex(bytes)[2 * i - 1] = pairs[i][1]
                                    /\ encode_hex(bytes)[2 * i] = pairs[i][2]
    BY <1>2, <1>3, <1>4, FlattenPairs
  <1> QED
    BY <1>1, <1>3, <1>5

\* HexComesBack holds after every conversion of a text.
LEMMA HexStep ==
  ASSUME given \in GivenTexts, NextText
  PROVE  HexComesBack'
  <1>0. /\ given.texts \in Seq(Seq(0..255))
        /\ given.task # "fields" => Len(given.texts) = 1
    BY TextAssumption
  <1>1. CASE EncodeHex
    <2> DEFINE bytes == given.texts[1]
               text == encode_hex(bytes)
               decoded == [i \in 1..Len(text) \div 2 |->
                    16 * decode_hex_digit(text[2 * i - 1]) + decode_hex_digit(text[2 * i])]
    <2>1. given' = given /\ given.task = "bytes" /\ made' = Made(<<text>>)
      BY <1>1 DEF EncodeHex, Convert
    <2>2. bytes \in Seq(0..255) /\ given.texts = <<bytes>>
      BY <1>0, <2>1
    <2>3. /\ text \in Seq(0..255) /\ Len(text) = 2 * Len(bytes) /\ Len(bytes) \in Nat
          /\ \A i \in 1..Len(bytes) : /\ text[2 * i - 1] = hex_digit(bytes[i] \div 16)
                                      /\ text[2 * i] = hex_digit(bytes[i] % 16)
      <3>1. Len(bytes) \in Nat
        BY <2>2
      <3> HIDE DEF bytes
      <3> QED
        BY <2>2, <3>1, Encoding
    <2>4. made'.texts[1] = text
      BY <2>1 DEF Made
    <2> HIDE DEF bytes, text
    <2>5. Len(text) % 2 = 0 /\ Len(text) \div 2 = Len(bytes)
      BY <2>3
    <2>6. \A i \in 1..Len(bytes) : /\ bytes[i] \in 0..255
                                   /\ bytes[i] \div 16 \in 0..15 /\ bytes[i] % 16 \in 0..15
      <3> SUFFICES ASSUME NEW i \in 1..Len(bytes)
                   PROVE  /\ bytes[i] \in 0..255
                          /\ bytes[i] \div 16 \in 0..15 /\ bytes[i] % 16 \in 0..15
        OBVIOUS
      <3>1. bytes[i] \in 0..255
        BY <2>2, ElementOfSeq
      <3> QED
        BY <3>1, ByteHalves
    <2>7. \A i \in 1..Len(bytes) : /\ decode_hex_digit(text[2 * i - 1]) = bytes[i] \div 16
                                   /\ decode_hex_digit(text[2 * i]) = bytes[i] % 16
      BY <2>3, <2>6, DigitComesBack
    <2>8. \A j \in 1..Len(text) : decode_hex_digit(text[j]) # 16
      <3> SUFFICES ASSUME NEW j \in 1..Len(text) PROVE decode_hex_digit(text[j]) # 16
        OBVIOUS
      <3>1. PICK i \in 1..Len(bytes) : j = 2 * i - 1 \/ j = 2 * i
        <4> DEFINE i == (j + 1) \div 2
        <4>1. i \in 1..Len(bytes) /\ (j = 2 * i - 1 \/ j = 2 * i)
          BY <2>3
        <4> QED
          BY <4>1
      <3>2. bytes[i] \div 16 # 16 /\ bytes[i] % 16 # 16
        <4>1. bytes[i] \div 16 \in 0..15 /\ bytes[i] % 16 \in 0..15
          BY <2>6
        <4>2. \A v \in 0..15 : v # 16
          OBVIOUS
        <4> QED
          BY <4>1, <4>2, Zenon
      <3> QED
        BY <2>7, <3>1, <3>2
    <2>9. decoded = bytes
      <3>1. \A i \in 1..Len(bytes) :
               16 * decode_hex_digit(text[2 * i - 1]) + decode_hex_digit(text[2 * i]) = bytes[i]
        <4> SUFFICES ASSUME NEW i \in 1..Len(bytes)
                     PROVE  16 * decode_hex_digit(text[2 * i - 1])
                              + decode_hex_digit(text[2 * i]) = bytes[i]
          OBVIOUS
        <4>1. 16 * (bytes[i] \div 16) + (bytes[i] % 16) = bytes[i]
          BY <2>6, ByteHalves
        <4> QED
          BY <2>7, <4>1
      <3>2. bytes = [i \in 1..Len(bytes) |-> bytes[i]]
        BY <2>2
      <3> QED
        BY <2>5, <3>1, <3>2
    <2>10. decode_hex(text) = Made(<<bytes>>)
      <3> HIDE DEF decoded
      <3>1. decode_hex(text) = Made(<<decoded>>)
        BY <2>5, <2>8 DEF decode_hex, decoded
      <3> QED
        BY <2>9, <3>1
    <2> QED
      BY <2>1, <2>2, <2>4, <2>10 DEF HexComesBack
  <1>2. CASE DecodeHex
    <2> DEFINE text == given.texts[1]
               half == Len(text) \div 2
               hi(i) == decode_hex_digit(text[2 * i - 1])
               lo(i) == decode_hex_digit(text[2 * i])
               bytes == [i \in 1..half |-> 16 * hi(i) + lo(i)]
               lower == [i \in 1..Len(text) |-> Lower(text[i])]
               good == Len(text) % 2 = 0
                       /\ \A i \in 1..Len(text) : decode_hex_digit(text[i]) # 16
    <2>1. /\ given' = given /\ given.task = "hex"
          /\ made' = IF good THEN Made(<<bytes>>) ELSE Refused
      BY <1>2, Zenon DEF DecodeHex, Convert, decode_hex
    <2>2. text \in Seq(0..255) /\ Len(text) \in Nat
      BY <1>0, <2>1
    <2> HIDE DEF text
    <2>3. \A i \in 1..Len(text) : text[i] \in 0..255
      BY <2>2, ElementOfSeq
    <2>4. made'.ok <=> Len(text) % 2 = 0 /\ ToSet(text) \subseteq 48..57 \cup 65..70 \cup 97..102
      <3>1. made'.ok <=> good
        BY <2>1 DEF Made, Refused
      <3>2. ToSet(text) = {text[i] : i \in 1..Len(text)}
        BY <2>2 DEF ToSet
      <3> HIDE DEF good
      <3>3. good <=> Len(text) % 2 = 0
                     /\ \A i \in 1..Len(text) : text[i] \in HexCharacter
        BY <2>3, CharacterComesBack, Zenon DEF good
      <3>4. ToSet(text) \subseteq HexCharacter <=>
               \A i \in 1..Len(text) : text[i] \in HexCharacter
        BY <3>2
      <3> QED
        BY <3>1, <3>3, <3>4, Zenon DEF HexCharacter
    <2>5. ASSUME good
          PROVE  encode_hex(made'.texts[1]) = lower
      <3>1. /\ made'.texts[1] = bytes /\ half \in Nat /\ Len(text) = 2 * half
        BY <2>1, <2>2, <2>5 DEF Made
      <3>2. \A i \in 1..half : /\ 2 * i - 1 \in 1..Len(text) /\ 2 * i \in 1..Len(text)
        BY <3>1
      <3>3. \A i \in 1..half : /\ hi(i) \in 0..15 /\ lo(i) \in 0..15
                               /\ hex_digit(hi(i)) = Lower(text[2 * i - 1])
                               /\ hex_digit(lo(i)) = Lower(text[2 * i])
        <4> SUFFICES ASSUME NEW i \in 1..half
                     PROVE  /\ hi(i) \in 0..15 /\ lo(i) \in 0..15
                            /\ hex_digit(hi(i)) = Lower(text[2 * i - 1])
                            /\ hex_digit(lo(i)) = Lower(text[2 * i])
          OBVIOUS
        <4>1. hi(i) # 16 /\ lo(i) # 16
          BY <2>5, <3>2
        <4> QED
          BY <2>3, <3>2, <4>1, CharacterComesBack
      <3> HIDE DEF half, hi, lo
      <3>4. \A i \in 1..half : /\ 16 * hi(i) + lo(i) \in 0..255
                               /\ (16 * hi(i) + lo(i)) \div 16 = hi(i)
                               /\ (16 * hi(i) + lo(i)) % 16 = lo(i)
        BY <3>3, HalvesOfByte
      <3>5. bytes \in Seq(0..255) /\ Len(bytes) = half
            /\ \A i \in 1..half : bytes[i] = 16 * hi(i) + lo(i)
        BY <3>1, <3>4
      <3> HIDE DEF bytes
      <3> DEFINE encoded == encode_hex(bytes)
      <3>6. /\ encoded \in Seq(0..255) /\ Len(encoded) = Len(text)
            /\ \A i \in 1..half : /\ encoded[2 * i - 1] = Lower(text[2 * i - 1])
                                  /\ encoded[2 * i] = Lower(text[2 * i])
        <4>1. /\ encoded \in Seq(0..255) /\ Len(encoded) = 2 * half
              /\ \A i \in 1..half : /\ encoded[2 * i - 1] = hex_digit(bytes[i] \div 16)
                                    /\ encoded[2 * i] = hex_digit(bytes[i] % 16)
          BY <3>5, Encoding
        <4> HIDE DEF encoded
        <4>2. \A i \in 1..half : bytes[i] \div 16 = hi(i) /\ bytes[i] % 16 = lo(i)
          BY <3>4, <3>5, Zenon
        <4>3. \A i \in 1..half : /\ encoded[2 * i - 1] = Lower(text[2 * i - 1])
                                /\ encoded[2 * i] = Lower(text[2 * i])
          BY <3>3, <4>1, <4>2, Zenon
        <4> QED
          BY <3>1, <4>1, <4>3, Zenon
      <3> HIDE DEF encoded
      <3>7. \A j \in 1..Len(text) : encoded[j] = Lower(text[j])
        <4> SUFFICES ASSUME NEW j \in 1..Len(text) PROVE encoded[j] = Lower(text[j])
          OBVIOUS
        <4>1. PICK i \in 1..half : j = 2 * i - 1 \/ j = 2 * i
          <5> DEFINE i == (j + 1) \div 2
          <5>1. i \in 1..half /\ (j = 2 * i - 1 \/ j = 2 * i)
            BY <3>1
          <5> QED
            BY <5>1
        <4> QED
          BY <3>6, <4>1
      <3>8. encoded = [j \in 1..Len(text) |-> encoded[j]]
        <4>1. encoded \in [1..Len(encoded) -> 0..255]
          BY <3>6, LenProperties
        <4> QED
          BY <3>6, <4>1
      <3>9. encoded = lower
        BY <3>7, <3>8
      <3> QED
        BY <3>1, <3>9 DEF encoded
    <2>6. made'.ok => good
      BY <2>1 DEF Refused
    <2>7. lower = [i \in 1..Len(text) |-> IF text[i] \in 65..70 THEN text[i] + 32
                                          ELSE text[i]]
      BY DEF Lower
    <2> HIDE DEF lower, good, bytes
    <2> DEFINE told == given'.texts[1]
    <2>8. told = text /\ given'.task = "hex" /\ given'.task # "bytes"
      BY <2>1 DEF text
    <2> HIDE DEF told
    <2>9. /\ made'.ok <=> Len(told) % 2 = 0 /\ ToSet(told) \subseteq 48..57 \cup 65..70 \cup 97..102
          /\ made'.ok => encode_hex(made'.texts[1]) =
                            [i \in 1..Len(told) |-> IF told[i] \in 65..70 THEN told[i] + 32
                                                   ELSE told[i]]
      BY <2>4, <2>5, <2>6, <2>7, <2>8, Zenon
    <2> QED
      BY <2>8, <2>9, Zenon DEF HexComesBack, told
  <1>3. CASE ~ EncodeHex /\ ~ DecodeHex
    <2>1. given' = given /\ given.task \notin {"bytes", "hex"}
      BY <1>3 DEF NextText, RenderFields, Describe, create_context_from_config, Convert
    <2> QED
      BY <2>1 DEF HexComesBack
  <1> QED
    BY <1>1, <1>2, <1>3

\* Bytes of any length survive being written in hexadecimal, and text of any length is
\* read if and only if it is pairs of digits, which it then encodes to.
THEOREM HexSurvives == Spec => []HexComesBack
  <1>1. Init => HexComesBack
    BY DEF Init, Nothing, HexComesBack
  <1>2. Inputs /\ HexComesBack /\ [Next]_vars => HexComesBack'
    <2>1. ASSUME HexComesBack, UNCHANGED textVars PROVE HexComesBack'
      BY <2>1, Zenon DEF HexComesBack, textVars
    <2> QED
      BY <2>1, HexStep DEF Next, Read, Value, Text, Code, vars, Inputs
  <1> QED
    BY <1>1, <1>2, InputsAreGiven, PTL DEF Spec

\* Text that loses nothing when it is trimmed.
LEMMA TrimmedText ==
  ASSUME NEW text \in Seq(0..255), trim(text) # <<>>, Len(trim(text)) = Len(text)
  PROVE  trim(text) = text
  <1> DEFINE n == Len(text)
             kept == {i \in 1..n : ~ is_space(text[i])}
             lo == CHOOSE i \in kept : \A j \in kept : i =< j
             hi == CHOOSE i \in kept : \A j \in kept : j =< i
  <1>1. n \in Nat /\ kept \in SUBSET (1..n)
    OBVIOUS
  <1>2. trim(text) = IF kept = {} THEN <<>> ELSE SubSeq(text, lo, hi)
    BY Zenon DEF trim
  <1> HIDE DEF kept, n
  <1>3. kept # {}
    BY <1>2
  <1>4. /\ lo \in kept /\ \A j \in kept : lo =< j
        /\ hi \in kept /\ \A j \in kept : j =< hi
    <2>1. (\E i \in kept : \A j \in kept : i =< j) /\ (\E i \in kept : \A j \in kept : j =< i)
      BY <1>1, <1>3, Extremes, Zenon
    <2> QED
      BY <2>1, Zenon
  <1> HIDE DEF lo, hi
  <1>5. /\ lo \in 1..n /\ hi \in 1..n /\ lo =< hi
    BY <1>1, <1>4
  <1>6. trim(text) = SubSeq(text, lo, hi)
    BY <1>2, <1>3
  <1>7. Len(SubSeq(text, lo, hi)) = hi - lo + 1
    <2>1. \A i \in lo..hi : text[i] \in 0..255
      <3>1. lo..hi \subseteq 1..n
        BY <1>1, <1>5
      <3> QED
        BY <3>1, ElementOfSeq DEF n
    <2> QED
      BY <1>1, <1>5, <2>1, SubSeqProperties
  <1>8. lo = 1 /\ hi = n
    BY <1>1, <1>5, <1>6, <1>7 DEF n
  <1> QED
    BY <1>6, <1>8, SubSeqFull DEF n

\* The first colon is a colon.
LEMMA FirstColon ==
  ASSUME NEW text \in Seq(0..255)
  PROVE  colon(text) = 0 \/ (colon(text) \in 1..Len(text) /\ text[colon(text)] = COLON)
  <1> DEFINE I == {i \in 1..Len(text) : text[i] = COLON}
  <1>1. colon(text) = IF I # {} THEN Min(I) ELSE 0
    BY DEF colon, SelectInSeq
  <1>2. CASE I # {}
    <2>1. Len(text) \in Nat /\ I \in SUBSET (1..Len(text))
      OBVIOUS
    <2> HIDE DEF I
    <2>2. \E i \in I : \A j \in I : i =< j
      BY <1>2, <2>1, Extremes, Zenon
    <2>3. Min(I) \in I
      BY <2>2, Zenon DEF Min
    <2> QED
      BY <1>1, <1>2, <2>3 DEF I
  <1> QED
    BY <1>1, <1>2

\* ConfigurationsAgree holds after every conversion of a text.
LEMMA ConfigurationStep ==
  ASSUME given \in GivenTexts, NextText
  PROVE  ConfigurationsAgree'
  <1>1. CASE create_context_from_config
    <2> DEFINE config == given.texts[1]
               trimmed == trim(config)
               c == colon(trimmed)
               name == SubSeq(trimmed, 1, c - 1)
               valid == is_valid_startup_mode(given.startup)
               accepted == trimmed # <<>> /\ Len(trimmed) = Len(config) /\ c > 1
               shown == IF name \in KnownNames THEN name ELSE custom
    <2>1. /\ given' = given /\ given.task = "config"
          /\ made' = IF valid THEN resolve_tcti(config) ELSE Refused
      BY <1>1, Zenon DEF create_context_from_config, Convert
    <2>2. config \in Seq(0..255) /\ Len(config) \in Nat
      <3>1. given.texts \in Seq(Seq(0..255)) /\ Len(given.texts) = 1
        BY <2>1, TextAssumption
      <3> QED
        BY <3>1
    <2> HIDE DEF config
    <2>3. loader_accepts(config) = accepted /\ fake_accepts(config) = accepted
      BY Zenon DEF loader_accepts, fake_accepts
    <2>4. ASSUME trimmed # <<>>, Len(trimmed) = Len(config)
          PROVE  trimmed = config /\ c \in 0..Len(config) /\ (c # 0 => config[c] = COLON)
      <3>1. trimmed = config
        BY <2>2, <2>4, TrimmedText
      <3>2. c = 0 \/ (c \in 1..Len(config) /\ config[c] = COLON)
        BY <2>2, <3>1, FirstColon
      <3> QED
        BY <2>2, <3>1, <3>2
    <2>5. ASSUME accepted
          PROVE  /\ name \in Seq(0..255) /\ Len(name) = c - 1 /\ name # <<>>
                 /\ IsPrefix(Append(name, COLON), config)
      <3>1. /\ trimmed = config /\ c \in 2..Len(config) /\ config[c] = COLON
        BY <2>2, <2>4, <2>5
      <3> HIDE DEF c, trimmed
      <3>2. /\ name \in Seq(0..255) /\ Len(name) = c - 1
            /\ \A i \in 1..c - 1 : name[i] = config[i]
        <4>1. \A i \in 1..c - 1 : config[i] \in 0..255
          <5>1. 1..c - 1 \subseteq 1..Len(config)
            BY <2>2, <3>1
          <5> QED
            BY <2>2, <5>1, ElementOfSeq
        <4>2. 1 \in Int /\ c - 1 \in Int /\ 1 =< c - 1
          BY <3>1
        <4> QED
          BY <3>1, <4>1, <4>2, SubSeqProperties
      <3> HIDE DEF name
      <3> DEFINE app == Append(name, COLON)
      <3>3. /\ app \in Seq(0..255) /\ Len(app) = c
            /\ \A i \in 1..c : app[i] = config[i]
        <4>1. /\ app \in Seq(0..255) /\ Len(app) = Len(name) + 1
              /\ \A i \in 1..Len(name) : app[i] = name[i]
              /\ app[Len(name) + 1] = COLON
          BY <3>2 DEF COLON
        <4> HIDE DEF app
        <4>2. Len(name) + 1 = c /\ \A i \in 1..c : i \in 1..c - 1 \/ i = c
          BY <3>1, <3>2
        <4> QED
          BY <3>1, <3>2, <4>1, <4>2
      <3> HIDE DEF app
      <3>4. SubSeq(app, 1, c) = SubSeq(config, 1, c)
        <4>1. /\ 1 \in Int /\ c \in Int /\ 1 =< c
              /\ \A i \in 1..c : config[i] \in 0..255 /\ app[i] \in 0..255
          <5>1. 1..c \subseteq 1..Len(config)
            BY <2>2, <3>1
          <5>2. \A i \in 1..c : config[i] \in 0..255
            BY <2>2, <5>1, ElementOfSeq
          <5>3. 1 \in Int /\ c \in Int /\ 1 =< c
            BY <3>1
          <5> QED
            BY <3>3, <5>2, <5>3
        <4>2. /\ SubSeq(app, 1, c) \in Seq(0..255) /\ Len(SubSeq(app, 1, c)) = c
              /\ \A i \in 1..c : SubSeq(app, 1, c)[i] = app[i]
          BY <4>1, SubSeqProperties
        <4>3. /\ SubSeq(config, 1, c) \in Seq(0..255) /\ Len(SubSeq(config, 1, c)) = c
              /\ \A i \in 1..c : SubSeq(config, 1, c)[i] = config[i]
          BY <4>1, SubSeqProperties
        <4> QED
          BY <3>3, <4>2, <4>3, SeqEqual
      <3>5. IsPrefix(app, config)
        BY <2>2, <3>1, <3>3, <3>4 DEF IsPrefix
      <3>6. name # <<>>
        BY <3>1, <3>2
      <3> QED
        BY <3>2, <3>5, <3>6 DEF app
    <2>6. sanitized_tcti_name(config) = IF accepted THEN shown ELSE <<>>
      <3>1. accepted <=> ~ (\/ trimmed = <<>> \/ Len(trimmed) # Len(config) \/ c \in {0, 1})
        <4>1. CASE trimmed # <<>> /\ Len(trimmed) = Len(config)
          <5>1. c \in Nat
            BY <2>4, <4>1
          <5> HIDE DEF c
          <5> QED
            BY <4>1, <5>1
        <4>2. CASE ~ (trimmed # <<>> /\ Len(trimmed) = Len(config))
          BY <4>2
        <4> QED
          BY <4>1, <4>2
      <3>2. sanitized_tcti_name(config) =
               IF \/ trimmed = <<>> \/ Len(trimmed) # Len(config) \/ c \in {0, 1}
               THEN <<>> ELSE shown
        BY Zenon DEF sanitized_tcti_name
      <3> HIDE DEF accepted, shown, trimmed, c
      <3> QED
        BY <3>1, <3>2
    <2>7. accepted => shown # <<>>
      BY <2>5 DEF custom
    <2>8. /\ valid => /\ made'.ok = accepted
                      /\ made'.texts = IF accepted THEN <<shown>> ELSE <<>>
          /\ ~ valid => made'.ok = FALSE /\ made'.texts = <<>>
      <3> HIDE DEF accepted, shown, valid
      <3>1. resolve_tcti(config) = [ok |-> accepted, done |-> TRUE,
                                    texts |-> IF accepted THEN <<shown>> ELSE <<>>]
        BY <2>3, <2>6, <2>7 DEF resolve_tcti
      <3>2. /\ valid => made' = resolve_tcti(config)
            /\ ~ valid => made' = Refused
        BY <2>1, Zenon
      <3>3. /\ resolve_tcti(config).ok = accepted
            /\ resolve_tcti(config).texts = IF accepted THEN <<shown>> ELSE <<>>
        BY <3>1
      <3>4. Refused.ok = FALSE /\ Refused.texts = <<>>
        BY DEF Refused
      <3> QED
        BY <3>2, <3>3, <3>4, Zenon
    <2>9. fake_created(config, given.startup) <=> valid /\ accepted
      BY <2>3 DEF fake_created
    <2>10. shown = custom \/ (shown \in KnownNames /\ shown = name)
      OBVIOUS
    <2> HIDE DEF shown, name
    <2>11. /\ made'.ok <=> fake_created(config, given.startup)
           /\ made'.ok <=> made'.texts # <<>>
           /\ made'.texts # <<>> =>
                \/ made'.texts[1] = custom
                \/ /\ made'.texts[1] \in KnownNames
                   /\ IsPrefix(Append(made'.texts[1], COLON), config)
      <3> HIDE DEF accepted, valid
      <3>1. CASE valid /\ accepted
        <4>1. made'.ok = TRUE /\ made'.texts = <<shown>>
          BY <2>8, <3>1
        <4> QED
          BY <2>5, <2>9, <2>10, <3>1, <4>1
      <3>2. CASE ~ (valid /\ accepted)
        <4>1. made'.ok = FALSE /\ made'.texts = <<>>
          BY <2>8, <3>2
        <4> QED
          BY <2>9, <3>2, <4>1
      <3> QED
        BY <3>1, <3>2
    <2> QED
      BY <2>1, <2>11, Zenon DEF ConfigurationsAgree, config
  <1>2. CASE ~ create_context_from_config
    <2>1. given' = given /\ given.task # "config"
      BY <1>2 DEF NextText, EncodeHex, DecodeHex, RenderFields, Describe, Convert
    <2> QED
      BY <2>1 DEF ConfigurationsAgree
  <1> QED
    BY <1>1, <1>2

\* The log announces a TCTI exactly when the loader and the fake context accept the
\* configuration, and shows no more of it than a known name, whatever the text.
THEOREM ParsersAgree == Spec => []ConfigurationsAgree
  <1>1. Init => ConfigurationsAgree
    BY DEF Init, Nothing, ConfigurationsAgree
  <1>2. Inputs /\ ConfigurationsAgree /\ [Next]_vars => ConfigurationsAgree'
    <2>1. ASSUME ConfigurationsAgree, UNCHANGED textVars PROVE ConfigurationsAgree'
      BY <2>1, Zenon DEF ConfigurationsAgree, textVars
    <2> QED
      BY <2>1, ConfigurationStep DEF Next, Read, Value, Text, Code, vars, Inputs
  <1> QED
    BY <1>1, <1>2, InputsAreGiven, PTL DEF Spec

-----------------------------------------------------------------------------
(* Fields of a record *)

Chars == 0..255
Reader(mode, values, digit) == [mode |-> mode, values |-> values, digit |-> digit]

\* The states of a reader that starts in r, reads text, and is then in q.
Reading(f, r, text, q) ==
    /\ f = [i \in 0..Len(text) |-> f[i]]
    /\ f[0] = r /\ f[Len(text)] = q
    /\ \A i \in 1..Len(text) : f[i] = ReadChar(f[i - 1], text[i])

Reads(r, text, q) == \E f : Reading(f, r, text, q)

\* Nothing is read at no character, ...
LEMMA ReadsNone ==
  ASSUME NEW r
  PROVE  Reads(r, <<>>, r)
  <1> DEFINE f == [i \in 0..0 |-> r]
  <1>1. Len(<<>>) = 0 /\ 0 \in 0..0 /\ 1..0 = {}
    OBVIOUS
  <1>2. f[0] = r /\ f = [i \in 0..0 |-> f[i]]
    BY <1>1
  <1> HIDE DEF f
  <1>3. Reading(f, r, <<>>, r)
    BY <1>1, <1>2 DEF Reading
  <1> QED
    BY <1>3, Zenon DEF Reads

\* ... one character is read at one, ...
LEMMA ReadsOne ==
  ASSUME NEW r, NEW c
  PROVE  Reads(r, <<c>>, ReadChar(r, c))
  <1> DEFINE q == ReadChar(r, c)
             f == [i \in 0..1 |-> IF i = 0 THEN r ELSE q]
  <1>1. Len(<<c>>) = 1 /\ 0 \in 0..1 /\ 1 \in 0..1 /\ 1..1 = {1} /\ <<c>>[1] = c /\ 1 - 1 = 0
    OBVIOUS
  <1>2. f[0] = r /\ f[1] = q /\ f = [i \in 0..1 |-> f[i]]
    <2> HIDE DEF q
    <2> QED
      BY <1>1
  <1> HIDE DEF f
  <1>3. f[1] = ReadChar(f[1 - 1], <<c>>[1])
    BY <1>1, <1>2, Zenon
  <1>4. Reading(f, r, <<c>>, q)
    <2> HIDE DEF q
    <2> QED
      BY <1>1, <1>2, <1>3 DEF Reading
  <1> QED
    BY <1>4, Zenon DEF Reads

\* ... and what is joined is read one after the other.
LEMMA ReadsJoined ==
  ASSUME NEW T, NEW a \in Seq(T), NEW b \in Seq(T), NEW r, NEW q, NEW p,
         Reads(r, a, q), Reads(q, b, p)
  PROVE  Reads(r, a \o b, p)
  <1> DEFINE m == Len(a)
             n == Len(b)
             s == a \o b
  <1>1. m \in Nat /\ n \in Nat /\ Len(s) = m + n
        /\ \A i \in 1..m + n : s[i] = IF i =< m THEN a[i] ELSE b[i - m]
    BY ConcatProperties
  <1>2. PICK f : Reading(f, r, a, q)
    BY Zenon DEF Reads
  <1>3. PICK g : Reading(g, q, b, p)
    BY Zenon DEF Reads
  <1>4. /\ f[0] = r /\ f[m] = q /\ \A i \in 1..m : f[i] = ReadChar(f[i - 1], a[i])
        /\ g[0] = q /\ g[n] = p /\ \A i \in 1..n : g[i] = ReadChar(g[i - 1], b[i])
    BY <1>2, <1>3, Zenon DEF Reading
  <1> HIDE DEF m, n, s
  <1> DEFINE h == [i \in 0..m + n |-> IF i =< m THEN f[i] ELSE g[i - m]]
  <1>5. h = [i \in 0..m + n |-> h[i]]
    OBVIOUS
  <1>6. \A i \in 0..m + n : h[i] = IF i =< m THEN f[i] ELSE g[i - m]
    OBVIOUS
  <1> HIDE DEF h
  <1>7. h[0] = r
    BY <1>1, <1>4, <1>6
  <1>8. h[m + n] = p
    <2>1. CASE n = 0
      BY <1>1, <1>4, <1>6, <2>1
    <2>2. CASE n # 0
      <3>1. m + n \in 0..m + n /\ ~ (m + n =< m) /\ (m + n) - m = n
        BY <1>1, <2>2
      <3> QED
        BY <1>4, <1>6, <3>1
    <2> QED
      BY <2>1, <2>2
  <1>9. ASSUME NEW i \in 1..m + n
        PROVE  h[i] = ReadChar(h[i - 1], s[i])
    <2>1. i \in 0..m + n /\ i - 1 \in 0..m + n /\ i \in Nat
      BY <1>1
    <2>2. CASE i =< m
      <3>1. i - 1 =< m /\ i \in 1..m
        BY <1>1, <2>1, <2>2
      <3>2. h[i] = f[i] /\ h[i - 1] = f[i - 1] /\ s[i] = a[i]
        BY <1>1, <1>6, <2>1, <2>2, <3>1
      <3> QED
        BY <1>4, <3>1, <3>2
    <2>3. CASE i = m + 1
      <3>1. ~ (i =< m) /\ i - 1 = m /\ i - m = 1 /\ 1 \in 1..n /\ i - 1 =< m
        BY <1>1, <2>1, <2>3
      <3>2. h[i] = g[1] /\ h[i - 1] = q /\ s[i] = b[1]
        BY <1>1, <1>4, <1>6, <2>1, <3>1
      <3>3. g[1] = ReadChar(g[1 - 1], b[1]) /\ 1 - 1 = 0
        BY <1>4, <3>1
      <3> QED
        BY <1>4, <3>2, <3>3
    <2>4. CASE ~ (i =< m) /\ i # m + 1
      <3>1. ~ (i - 1 =< m) /\ i - m \in 1..n /\ (i - 1) - m = (i - m) - 1
        BY <1>1, <2>1, <2>4
      <3>2. h[i] = g[i - m] /\ h[i - 1] = g[(i - m) - 1] /\ s[i] = b[i - m]
        BY <1>1, <1>6, <2>1, <2>4, <3>1
      <3> QED
        BY <1>4, <3>1, <3>2
    <2> QED
      BY <2>2, <2>3, <2>4
  <1>10. Reading(h, r, s, p)
    BY <1>1, <1>5, <1>7, <1>8, <1>9 DEF Reading
  <1> QED
    BY <1>10, Zenon DEF Reads, s

\* Sequences that are joined are read one after the other.
LEMMA ReadsFlattened ==
  ASSUME NEW T, NEW seqs \in Seq(Seq(T)), NEW st,
         \A i \in 1..Len(seqs) : Reads(st[i - 1], seqs[i], st[i])
  PROVE  Reads(st[0], FlattenSeq(seqs), st[Len(seqs)])
  <1> DEFINE n == Len(seqs)
             g == Flattened(seqs)
             S == {i \in 0..n : i = 0 \/ Reads(st[0], g[i], st[i])}
  <1>1. /\ n \in Nat /\ \A i \in 1..n : seqs[i] \in Seq(T)
        /\ \A i \in 1..n : /\ g[i] \in Seq(T)
                           /\ g[i] = IF i = 1 THEN seqs[i] ELSE g[i - 1] \o seqs[i]
        /\ FlattenSeq(seqs) = IF n = 0 THEN <<>> ELSE g[n]
    <2>1. \A i \in 1..n : seqs[i] \in Seq(T)
      BY ElementOfSeq
    <2> QED
      BY <2>1, FlattenedIsDefined
  <1>2. \A i \in 1..n : Reads(st[i - 1], seqs[i], st[i])
    OBVIOUS
  <1> HIDE DEF n, g
  <1>3. ASSUME NEW i \in 1..n, i - 1 \in S PROVE i \in S
    <2>1. i \in 0..n /\ i \in Nat /\ i # 0
      BY <1>1
    <2>2. Reads(st[0], g[i], st[i])
      <3>1. CASE i = 1
        <4>1. i - 1 = 0 /\ g[i] = seqs[i]
          BY <1>1, <3>1
        <4> QED
          BY <1>2, <4>1, Zenon
      <3>2. CASE i # 1
        <4>1. i - 1 \in 1..n /\ i - 1 # 0
          BY <1>1, <2>1, <3>2
        <4>2. Reads(st[0], g[i - 1], st[i - 1])
          BY <1>3, <4>1, Zenon
        <4>3. g[i - 1] \in Seq(T) /\ seqs[i] \in Seq(T) /\ g[i] = g[i - 1] \o seqs[i]
          BY <1>1, <3>2, <4>1
        <4>4. Reads(st[0], g[i - 1] \o seqs[i], st[i])
          BY <1>2, <4>2, <4>3, ReadsJoined, Zenon
        <4> QED
          BY <4>3, <4>4
      <3> QED
        BY <3>1, <3>2
    <2> QED
      BY <2>1, <2>2
  <1>4. 0..n \subseteq S
    <2>1. 0 \in S
      BY <1>1
    <2> HIDE DEF S
    <2> QED
      BY <1>1, <1>3, <2>1, Induction
  <1>5. CASE n = 0
    BY <1>1, <1>5, ReadsNone DEF n
  <1>6. CASE n # 0
    <2>1. n \in S
      <3> HIDE DEF S
      <3> QED
        BY <1>1, <1>4
    <2> QED
      BY <1>1, <1>6, <2>1 DEF n
  <1> QED
    BY <1>5, <1>6

\* What FlattenSeq makes is a text.
LEMMA FlattenedIsText ==
  ASSUME NEW T, NEW seqs \in Seq(Seq(T))
  PROVE  FlattenSeq(seqs) \in Seq(T)
  <1> DEFINE n == Len(seqs)
             g == Flattened(seqs)
  <1>1. /\ n \in Nat /\ \A i \in 1..n : g[i] \in Seq(T)
        /\ FlattenSeq(seqs) = IF n = 0 THEN <<>> ELSE g[n]
    BY FlattenedIsDefined
  <1> HIDE DEF n, g
  <1>2. n = 0 \/ n \in 1..n
    BY <1>1
  <1> QED
    BY <1>1, <1>2

\* The last of the reader's states tells what it has read.
LEMMA FieldsRead ==
  ASSUME NEW T, NEW text \in Seq(T), NEW q, Reads(Reader("plain", <<>>, 0), text, q)
  PROVE  ReadFields(text) = IF q.mode \in {"plain", "start"} THEN q.values ELSE <<<<0>>>>
  <1> DEFINE n == Len(text)
             start == [mode |-> "plain", values |-> <<>>, digit |-> 0]
             Fits(f) == f = [i \in 0..n |-> IF i = 0 THEN start ELSE ReadChar(f[i - 1], text[i])]
             read == CHOOSE f : Fits(f)
  <1>0. n \in Nat
    OBVIOUS
  <1>1. PICK f : Reading(f, start, text, q)
    BY Zenon DEF Reads, Reader
  <1>2. /\ f = [i \in 0..n |-> f[i]] /\ f[0] = start /\ f[n] = q
        /\ \A i \in 1..n : f[i] = ReadChar(f[i - 1], text[i])
    BY <1>1, Zenon DEF Reading
  <1> HIDE DEF start, n
  <1>3. Fits(f)
    <2>1. \A i \in 0..n : f[i] = IF i = 0 THEN start ELSE ReadChar(f[i - 1], text[i])
      <3>1. \A i \in 0..n : i = 0 \/ i \in 1..n
        BY <1>0
      <3> QED
        BY <1>2, <3>1
    <2> QED
      BY <1>2, <2>1
  <1>4. Fits(read)
    BY <1>3, Zenon
  <1> HIDE DEF read
  <1>5. \A i \in 0..n : read[i] = IF i = 0 THEN start ELSE ReadChar(read[i - 1], text[i])
    BY <1>4, Zenon
  <1>6. \A i \in 0..n : read[i] = f[i]
    <2> DEFINE S == {i \in 0..n : read[i] = f[i]}
    <2>1. 0 \in S
      BY <1>0, <1>2, <1>5
    <2>2. ASSUME NEW i \in 1..n, i - 1 \in S PROVE i \in S
      <3>1. i \in 0..n /\ i # 0
        BY <1>0
      <3>2. read[i - 1] = f[i - 1]
        BY <2>2
      <3> QED
        BY <1>2, <1>5, <3>1, <3>2
    <2> HIDE DEF S
    <2>3. 0..n \subseteq S
      BY <1>0, <2>1, <2>2, Induction
    <2> QED
      BY <2>3 DEF S
  <1>7. read[n] = q
    BY <1>0, <1>2, <1>6
  <1>8. ReadFields(text) = IF read[n].mode \in {"plain", "start"} THEN read[n].values ELSE <<<<0>>>>
    BY Zenon DEF ReadFields, read, start, n
  <1> QED
    BY <1>7, <1>8

\* Where a reader goes that takes no character, ...
LEMMA ReaderMoves ==
  ASSUME NEW v, NEW d, NEW c
  PROVE  /\ \A m \in {"plain", "start"} :
               ReadChar(Reader(m, v, d), SPACE) = Reader("key", Append(v, <<>>), 0)
         /\ ReadChar(Reader("key", v, d), EQUALS) = Reader("start", v, d)
         /\ c # EQUALS => ReadChar(Reader("key", v, d), c) = Reader("key", v, d)
         /\ ReadChar(Reader("start", v, d), QUOTE) = Reader("quoted", v, d)
         /\ ReadChar(Reader("quoted", v, d), QUOTE) = Reader("plain", v, d)
         /\ ReadChar(Reader("quoted", v, d), BACKSLASH) = Reader("escape", v, d)
         /\ ReadChar(Reader("escape", v, d), 120) = Reader("high", v, d)
         /\ ReadChar(Reader("high", v, d), c) = Reader("low", v, decode_hex_digit(c))
  <1>1. \A m \in {"plain", "start"} :
           ReadChar(Reader(m, v, d), SPACE) = Reader("key", Append(v, <<>>), 0)
    BY DEF ReadChar, Reader, SPACE, QUOTE
  <1>2. /\ ReadChar(Reader("key", v, d), EQUALS) = Reader("start", v, d)
        /\ c # EQUALS => ReadChar(Reader("key", v, d), c) = Reader("key", v, d)
    BY DEF ReadChar, Reader
  <1>3. ReadChar(Reader("start", v, d), QUOTE) = Reader("quoted", v, d)
    BY DEF ReadChar, Reader, QUOTE, SPACE
  <1>4. /\ ReadChar(Reader("quoted", v, d), QUOTE) = Reader("plain", v, d)
        /\ ReadChar(Reader("quoted", v, d), BACKSLASH) = Reader("escape", v, d)
    BY DEF ReadChar, Reader, QUOTE, BACKSLASH
  <1>5. ReadChar(Reader("escape", v, d), 120) = Reader("high", v, d)
    BY DEF ReadChar, Reader
  <1>6. ReadChar(Reader("high", v, d), c) = Reader("low", v, decode_hex_digit(c))
    BY DEF ReadChar, Reader
  <1> QED
    BY <1>1, <1>2, <1>3, <1>4, <1>5, <1>6

Took(v, c) == [v EXCEPT ![Len(v)] = Append(@, c)]
Unescaped(c) == CASE c = 110 -> 10 [] c = 114 -> 13 [] c = 116 -> 9 [] OTHER -> c

\* ... and where one goes that does.
LEMMA ReaderTakes ==
  ASSUME NEW v, NEW d, NEW c
  PROVE  /\ \A m \in {"plain", "start"} : c # SPACE /\ c # QUOTE =>
               ReadChar(Reader(m, v, d), c) = Reader("plain", Took(v, c), d)
         /\ c # BACKSLASH /\ c # QUOTE =>
               ReadChar(Reader("quoted", v, d), c) = Reader("quoted", Took(v, c), d)
         /\ c # 120 =>
               ReadChar(Reader("escape", v, d), c) = Reader("quoted", Took(v, Unescaped(c)), d)
         /\ ReadChar(Reader("low", v, d), c) =
               Reader("quoted", Took(v, 16 * d + decode_hex_digit(c)), 0)
  <1>1. \A m \in {"plain", "start"} : c # SPACE /\ c # QUOTE =>
           ReadChar(Reader(m, v, d), c) = Reader("plain", Took(v, c), d)
    BY DEF ReadChar, Reader, Took
  <1>2. c # BACKSLASH /\ c # QUOTE =>
           ReadChar(Reader("quoted", v, d), c) = Reader("quoted", Took(v, c), d)
    BY DEF ReadChar, Reader, Took
  <1>3. c # 120 =>
           ReadChar(Reader("escape", v, d), c) = Reader("quoted", Took(v, Unescaped(c)), d)
    BY DEF ReadChar, Reader, Took, Unescaped
  <1>4. ReadChar(Reader("low", v, d), c) =
           Reader("quoted", Took(v, 16 * d + decode_hex_digit(c)), 0)
    BY DEF ReadChar, Reader, Took
  <1> QED
    BY <1>1, <1>2, <1>3, <1>4

\* What is taken goes to the end of the last value.
LEMMA LastGrows ==
  ASSUME NEW T, NEW vs \in Seq(Seq(T)), NEW w \in Seq(T), NEW c \in T
  PROVE  Took(Append(vs, w), c) = Append(vs, Append(w, c))
  <1> DEFINE v == Append(vs, w)
             u == Append(vs, Append(w, c))
             n == Len(vs)
             k == Took(v, c)
  <1>1. Append(w, c) \in Seq(T) /\ n \in Nat
    OBVIOUS
  <1>2. /\ v \in Seq(Seq(T)) /\ Len(v) = n + 1 /\ v[n + 1] = w
        /\ \A i \in 1..n : v[i] = vs[i]
    BY AppendProperties
  <1>3. /\ u \in Seq(Seq(T)) /\ Len(u) = n + 1 /\ u[n + 1] = Append(w, c)
        /\ \A i \in 1..n : u[i] = vs[i]
    BY <1>1, AppendProperties
  <1> HIDE DEF v, u, n
  <1>4. /\ k \in Seq(Seq(T)) /\ Len(k) = n + 1 /\ k[n + 1] = Append(w, c)
        /\ \A i \in 1..n + 1 : i # n + 1 => k[i] = v[i]
    BY <1>1, <1>2 DEF Took
  <1> HIDE DEF k
  <1>5. \A i \in 1..n + 1 : k[i] = u[i]
    <2> SUFFICES ASSUME NEW i \in 1..n + 1 PROVE k[i] = u[i]
      OBVIOUS
    <2>1. i = n + 1 \/ (i # n + 1 /\ i \in 1..n)
      BY <1>1
    <2> QED
      BY <1>2, <1>3, <1>4, <2>1
  <1>6. k = u
    BY <1>3, <1>4, <1>5, SeqEqual
  <1> QED
    BY <1>6 DEF k, u, v

\* Two characters, and more.
LEMMA ReadsTwo ==
  ASSUME NEW T, NEW a \in T, NEW b \in T, NEW r, NEW q, NEW p,
         q = ReadChar(r, a), p = ReadChar(q, b)
  PROVE  Reads(r, <<a, b>>, p)
  <1>1. <<a>> \in Seq(T) /\ <<b>> \in Seq(T) /\ <<a, b>> = <<a>> \o <<b>>
    <2> DEFINE s == <<a>> \o <<b>>
               t == <<a, b>>
    <2>1. <<a>> \in Seq(T) /\ <<b>> \in Seq(T)
      OBVIOUS
    <2>2. t \in Seq(T) /\ Len(t) = 2 /\ t[1] = a /\ t[2] = b
      OBVIOUS
    <2>3. /\ Len(<<a>>) = 1 /\ Len(<<b>>) = 1 /\ <<a>>[1] = a /\ <<b>>[1] = b
          /\ 1 \in 1..1 + 1 /\ 2 \in 1..1 + 1 /\ 1 =< 1 /\ ~ (2 =< 1) /\ 2 - 1 = 1 /\ 1 + 1 = 2
      OBVIOUS
    <2>4. /\ s \in Seq(T) /\ Len(s) = Len(<<a>>) + Len(<<b>>)
          /\ \A i \in 1..Len(<<a>>) + Len(<<b>>) :
                s[i] = IF i =< Len(<<a>>) THEN <<a>>[i] ELSE <<b>>[i - Len(<<a>>)]
      BY <2>1, ConcatProperties
    <2> HIDE DEF s
    <2>5. Len(s) = 2 /\ s[1] = a /\ s[2] = b
      BY <2>3, <2>4
    <2> HIDE DEF t
    <2>6. \A i \in 1..2 : i = 1 \/ i = 2
      OBVIOUS
    <2>7. s = t
      BY <2>2, <2>4, <2>5, <2>6, SeqEqual
    <2> QED
      BY <2>1, <2>7 DEF s, t
  <1>2. Reads(r, <<a>>, q) /\ Reads(q, <<b>>, p)
    BY ReadsOne, Zenon
  <1> QED
    BY <1>1, <1>2, ReadsJoined, Zenon

\* Every character comes back from what is written for it between quotes.
LEMMA EscapedIsRead ==
  ASSUME NEW vs \in Seq(Seq(Chars)), NEW w \in Seq(Chars), NEW c \in Chars
  PROVE  /\ escaped(c) \in Seq(Chars)
         /\ Reads(Reader("quoted", Append(vs, w), 0), escaped(c),
                  Reader("quoted", Append(vs, Append(w, c)), 0))
  <1> DEFINE v == Append(vs, w)
             u == Append(vs, Append(w, c))
             r == Reader("quoted", v, 0)
             p == Reader("quoted", u, 0)
             e == Reader("escape", v, 0)
  <1>0. Took(v, c) = u /\ ReadChar(r, BACKSLASH) = e
    <2>1. Took(v, c) = u
      BY LastGrows
    <2>2. ReadChar(r, BACKSLASH) = e
      BY ReaderMoves, Zenon
    <2> QED
      BY <2>1, <2>2
  <1> HIDE DEF v, u
  <1>1. CASE c \in {QUOTE, BACKSLASH}
    <2>1. escaped(c) = <<BACKSLASH, c>> /\ BACKSLASH \in Chars
      BY <1>1 DEF escaped, QUOTE, BACKSLASH, Chars
    <2>2. ReadChar(e, c) = p
      <3>0. c # 120
        BY <1>1 DEF QUOTE, BACKSLASH
      <3>1. Unescaped(c) = c
        BY <1>1 DEF QUOTE, BACKSLASH, Unescaped
      <3>2. ReadChar(e, c) = Reader("quoted", Took(v, Unescaped(c)), 0)
        BY <3>0, ReaderTakes
      <3> QED
        BY <1>0, <3>1, <3>2, Zenon
    <2> HIDE DEF r, p, e
    <2>3. Reads(r, <<BACKSLASH, c>>, p)
      BY <1>0, <2>1, <2>2, ReadsTwo, Zenon
    <2>4. <<BACKSLASH, c>> \in Seq(Chars)
      BY <2>1
    <2> QED
      BY <2>1, <2>3, <2>4, Zenon DEF r, p, u, v
  <1>2. CASE c \in {9, 10, 13}
    <2> DEFINE l == IF c = 10 THEN 110 ELSE IF c = 13 THEN 114 ELSE 116
    <2>1. escaped(c) = <<BACKSLASH, l>> /\ BACKSLASH \in Chars /\ l \in Chars
      BY <1>2 DEF escaped, QUOTE, BACKSLASH, Chars
    <2>2. ReadChar(e, l) = p
      <3>0. l # 120
        BY <1>2
      <3>1. Unescaped(l) = c
        BY <1>2 DEF Unescaped
      <3> HIDE DEF l
      <3>2. ReadChar(e, l) = Reader("quoted", Took(v, Unescaped(l)), 0)
        BY <3>0, ReaderTakes
      <3> QED
        BY <1>0, <3>1, <3>2, Zenon
    <2> HIDE DEF r, p, e, l
    <2>3. Reads(r, <<BACKSLASH, l>>, p)
      BY <1>0, <2>1, <2>2, ReadsTwo, Zenon
    <2>4. <<BACKSLASH, l>> \in Seq(Chars)
      BY <2>1
    <2> QED
      BY <2>1, <2>3, <2>4, Zenon DEF r, p, u, v
  <1>3. CASE c < 32 /\ c \notin {9, 10, 13}
    <2> DEFINE hi == c \div 16
               lo == c % 16
               x == hex_digit(hi)
               y == hex_digit(lo)
               h == Reader("high", v, 0)
               l == Reader("low", v, hi)
    <2>1. hi \in 0..15 /\ lo \in 0..15 /\ 16 * hi + lo = c
      BY ByteHalves DEF Chars
    <2>2. /\ x \in 0..255 /\ y \in 0..255
          /\ decode_hex_digit(x) = hi /\ decode_hex_digit(y) = lo
      BY <2>1, DigitComesBack
    <2>3. escaped(c) = <<BACKSLASH, 120, x, y>>
      BY <1>3 DEF escaped, QUOTE, BACKSLASH
    <2> HIDE DEF hi, lo, x, y
    <2>4. ReadChar(e, 120) = h /\ ReadChar(h, x) = l /\ ReadChar(l, y) = p
      <3>1. ReadChar(e, 120) = h /\ ReadChar(h, x) = l
        BY <2>2, ReaderMoves
      <3>2. ReadChar(l, y) = Reader("quoted", Took(v, c), 0)
        BY <2>1, <2>2, ReaderTakes
      <3> QED
        BY <1>0, <3>1, <3>2
    <2>5. BACKSLASH \in Chars /\ 120 \in Chars /\ x \in Chars /\ y \in Chars
      BY <2>2 DEF Chars, BACKSLASH
    <2> HIDE DEF r, p, e, h, l
    <2>6. Reads(r, <<BACKSLASH, 120>>, h) /\ Reads(h, <<x, y>>, p)
      BY <1>0, <2>4, <2>5, ReadsTwo
    <2>7. /\ <<BACKSLASH, 120>> \in Seq(Chars) /\ <<x, y>> \in Seq(Chars)
          /\ <<BACKSLASH, 120, x, y>> = <<BACKSLASH, 120>> \o <<x, y>>
          /\ <<BACKSLASH, 120, x, y>> \in Seq(Chars)
      BY <2>5
    <2>8. Reads(r, <<BACKSLASH, 120>> \o <<x, y>>, p)
      BY <2>6, <2>7, ReadsJoined, Zenon
    <2>9. Reads(r, escaped(c), p) /\ escaped(c) \in Seq(Chars)
      BY <2>3, <2>7, <2>8, Zenon
    <2> QED
      BY <2>9, Zenon DEF r, p, u, v
  <1>4. CASE c \notin {QUOTE, BACKSLASH} /\ c >= 32
    <2>0. c # 10 /\ c # 13 /\ c # 9 /\ ~ (c < 32)
      BY <1>4 DEF Chars
    <2>1. escaped(c) = <<c>>
      BY <1>4, <2>0, Zenon DEF escaped
    <2>2. ReadChar(r, c) = p
      <3>1. c # BACKSLASH /\ c # QUOTE
        BY <1>4
      <3>2. ReadChar(r, c) = Reader("quoted", Took(v, c), 0)
        BY <3>1, ReaderTakes
      <3> QED
        BY <1>0, <3>2, Zenon
    <2>3. Reads(r, <<c>>, ReadChar(r, c))
      BY ReadsOne, Zenon
    <2>4. <<c>> \in Seq(Chars)
      OBVIOUS
    <2> QED
      BY <2>1, <2>2, <2>3, <2>4, Zenon DEF r, p, u, v
  <1>5. \/ c \in {QUOTE, BACKSLASH} \/ c \in {9, 10, 13} \/ (c < 32 /\ c \notin {9, 10, 13})
        \/ (c \notin {QUOTE, BACKSLASH} /\ c >= 32)
    BY DEF Chars
  <1> QED
    BY <1>1, <1>2, <1>3, <1>4, <1>5 DEF u, v

\* A longer piece of a text.
LEMMA PrefixGrows ==
  ASSUME NEW T, NEW s \in Seq(T), NEW i \in 1..Len(s)
  PROVE  /\ SubSeq(s, 1, i - 1) \in Seq(T) /\ s[i] \in T
         /\ SubSeq(s, 1, i) = Append(SubSeq(s, 1, i - 1), s[i])
  <1> DEFINE a == SubSeq(s, 1, i - 1)
             b == SubSeq(s, 1, i)
  <1>0. i \in Nat /\ Len(s) \in Nat /\ \A k \in 1..i : s[k] \in T
    OBVIOUS
  <1>1. a \in Seq(T) /\ Len(a) = i - 1 /\ \A k \in 1..i - 1 : a[k] = s[k]
    <2>1. 1 \in Int /\ i - 1 \in Int /\ \A k \in 1..i - 1 : s[k] \in T
      BY <1>0
    <2>2. /\ a \in Seq(T) /\ Len(a) = IF 1 =< i - 1 THEN (i - 1) - 1 + 1 ELSE 0
          /\ \A k \in 1..(i - 1) - 1 + 1 : a[k] = s[1 + k - 1]
      BY <2>1, SubSeqProperties
    <2> HIDE DEF a
    <2> QED
      BY <1>0, <2>2
  <1>2. b \in Seq(T) /\ Len(b) = i /\ \A k \in 1..i : b[k] = s[k]
    <2>1. 1 \in Int /\ i \in Int
      BY <1>0
    <2>2. /\ b \in Seq(T) /\ Len(b) = IF 1 =< i THEN i - 1 + 1 ELSE 0
          /\ \A k \in 1..i - 1 + 1 : b[k] = s[1 + k - 1]
      BY <1>0, <2>1, SubSeqProperties
    <2> HIDE DEF b
    <2> QED
      BY <1>0, <2>2
  <1> HIDE DEF a, b
  <1>3. /\ Append(a, s[i]) \in Seq(T) /\ Len(Append(a, s[i])) = i
        /\ Append(a, s[i])[i] = s[i] /\ \A k \in 1..i - 1 : Append(a, s[i])[k] = a[k]
    <2>1. s[i] \in T
      BY <1>0
    <2> QED
      BY <1>0, <1>1, <2>1, AppendProperties
  <1>4. \A k \in 1..i : b[k] = Append(a, s[i])[k]
    <2>1. \A k \in 1..i : k = i \/ k \in 1..i - 1
      BY <1>0
    <2> QED
      BY <1>1, <1>2, <1>3, <2>1
  <1>5. b = Append(a, s[i])
    BY <1>2, <1>3, <1>4, SeqEqual
  <1> QED
    BY <1>0, <1>1, <1>5 DEF a, b

\* After an empty value a reader has not seen a character of it.
After(val) == IF val = <<>> THEN "start" ELSE "plain"

\* A value comes back from what escape_value makes of it.
LEMMA ValueIsRead ==
  ASSUME NEW vs \in Seq(Seq(Chars)), NEW val \in Seq(Chars)
  PROVE  /\ escape_value(val) \in Seq(Chars)
         /\ Reads(Reader("start", Append(vs, <<>>), 0), escape_value(val),
                  Reader(After(val), Append(vs, val), 0))
  <1> DEFINE n == Len(val)
             part(k) == SubSeq(val, 1, k)
             r == Reader("start", Append(vs, <<>>), 0)
             p == Reader(After(val), Append(vs, val), 0)
  <1>0. /\ n \in Nat /\ part(0) = <<>> /\ part(n) = val
        /\ \A i \in 1..n : /\ i - 1 \in 0..n /\ i \in 0..n /\ val[i] \in Chars
                           /\ part(i - 1) \in Seq(Chars)
                           /\ part(i) = Append(part(i - 1), val[i])
    <2>1. n \in Nat /\ \A i \in 1..n : i - 1 \in 0..n /\ i \in 0..n
      OBVIOUS
    <2>2. part(0) = <<>>
      <3>1. 1 \in Int /\ 0 \in Int /\ 0 < 1
        OBVIOUS
      <3> QED
        BY <3>1, SubSeqEmpty
    <2>3. part(n) = val
      BY SubSeqFull
    <2>4. \A i \in 1..n : /\ val[i] \in Chars /\ part(i - 1) \in Seq(Chars)
                          /\ part(i) = Append(part(i - 1), val[i])
      BY PrefixGrows
    <2> QED
      BY <2>1, <2>2, <2>3, <2>4
  <1>1. n = 0 <=> val = <<>>
    BY EmptySeq
  <1>2. CASE ~ needs_quoting(val)
    <2> DEFINE mode(k) == IF k = 0 THEN "start" ELSE "plain"
               st == [k \in 0..n |-> Reader(mode(k), Append(vs, part(k)), 0)]
    <2>1. escape_value(val) = val
      BY <1>2 DEF escape_value
    <2>2. \A i \in 1..n : val[i] \notin {SPACE, QUOTE}
      BY <1>2 DEF needs_quoting
    <2>3. \A i \in 0..n : st[i] = Reader(mode(i), Append(vs, part(i)), 0)
      OBVIOUS
    <2>4. st = [i \in 0..n |-> st[i]]
      OBVIOUS
    <2> HIDE DEF st
    <2>5. st[0] = r
      <3>1. 0 \in 0..n /\ mode(0) = "start"
        BY <1>0
      <3> HIDE DEF part, mode
      <3> QED
        BY <1>0, <2>3, <3>1
    <2>6. st[n] = p
      <3>1. st[n] = Reader(mode(n), Append(vs, val), 0)
        <4>1. n \in 0..n
          BY <1>0
        <4> HIDE DEF part, mode
        <4> QED
          BY <1>0, <2>3, <4>1
      <3>2. mode(n) = After(val)
        BY <1>1 DEF After
      <3> QED
        BY <3>1, <3>2
    <2>7. ASSUME NEW i \in 1..n
          PROVE  st[i] = ReadChar(st[i - 1], val[i])
      <3>1. /\ i \in 0..n /\ i - 1 \in 0..n /\ i # 0
            /\ part(i - 1) \in Seq(Chars) /\ val[i] \in Chars
            /\ part(i) = Append(part(i - 1), val[i])
        BY <1>0
      <3> HIDE DEF part
      <3>2. Took(Append(vs, part(i - 1)), val[i]) = Append(vs, part(i))
        BY <3>1, LastGrows
      <3>3. mode(i - 1) \in {"plain", "start"} /\ mode(i) = "plain"
        BY <3>1
      <3>4. /\ st[i] = Reader("plain", Append(vs, part(i)), 0)
            /\ st[i - 1] = Reader(mode(i - 1), Append(vs, part(i - 1)), 0)
        BY <2>3, <3>1, <3>3
      <3> HIDE DEF mode
      <3>5. ReadChar(Reader(mode(i - 1), Append(vs, part(i - 1)), 0), val[i]) =
               Reader("plain", Took(Append(vs, part(i - 1)), val[i]), 0)
        BY <2>2, <3>3, ReaderTakes
      <3> QED
        BY <3>2, <3>4, <3>5
    <2> HIDE DEF r, p
    <2>8. Reading(st, r, val, p)
      BY <2>4, <2>5, <2>6, <2>7 DEF Reading
    <2>9. Reads(r, val, p)
      BY <2>8, Zenon DEF Reads
    <2> QED
      BY <2>1, <2>9, Zenon DEF r, p
  <1>3. CASE needs_quoting(val)
    <2> DEFINE seqs == [i \in 1..n |-> escaped(val[i])]
               st == [k \in 0..n |-> Reader("quoted", Append(vs, part(k)), 0)]
               F == FlattenSeq(seqs)
    <2>1. escape_value(val) = <<QUOTE>> \o F \o <<QUOTE>>
      BY <1>3 DEF escape_value
    <2>2. val # <<>> /\ After(val) = "plain"
      BY <1>1, <1>3 DEF needs_quoting, After
    <2>3. \A i \in 1..n : escaped(val[i]) \in Seq(Chars)
      BY <1>0, EscapedIsRead, EmptySeq
    <2>4. seqs \in Seq(Seq(Chars)) /\ Len(seqs) = n /\ \A i \in 1..n : seqs[i] = escaped(val[i])
      BY <1>0, <2>3
    <2>5. /\ \A i \in 0..n : st[i] = Reader("quoted", Append(vs, part(i)), 0)
      OBVIOUS
    <2> HIDE DEF seqs, st
    <2>6. \A i \in 1..n : Reads(st[i - 1], seqs[i], st[i])
      <3> SUFFICES ASSUME NEW i \in 1..n PROVE Reads(st[i - 1], seqs[i], st[i])
        OBVIOUS
      <3>1. /\ i \in 0..n /\ i - 1 \in 0..n
            /\ part(i - 1) \in Seq(Chars) /\ val[i] \in Chars
            /\ part(i) = Append(part(i - 1), val[i])
        BY <1>0
      <3> HIDE DEF part
      <3>2. Reads(Reader("quoted", Append(vs, part(i - 1)), 0), escaped(val[i]),
                  Reader("quoted", Append(vs, Append(part(i - 1), val[i])), 0))
        BY <3>1, EscapedIsRead
      <3>3. /\ st[i - 1] = Reader("quoted", Append(vs, part(i - 1)), 0)
            /\ st[i] = Reader("quoted", Append(vs, Append(part(i - 1), val[i])), 0)
            /\ seqs[i] = escaped(val[i])
        BY <2>4, <2>5, <3>1
      <3> QED
        BY <3>2, <3>3
    <2>7. Reads(st[0], F, st[n])
      <3>1. Reads(st[0], FlattenSeq(seqs), st[Len(seqs)])
        <4>1. \A i \in 1..Len(seqs) : Reads(st[i - 1], seqs[i], st[i])
          BY <2>4, <2>6
        <4> QED
          BY <2>4, <4>1, ReadsFlattened
      <3> QED
        BY <2>4, <3>1
    <2>8. F \in Seq(Chars)
      BY <2>4, FlattenedIsText
    <2> HIDE DEF F
    <2>9. /\ ReadChar(r, QUOTE) = st[0] /\ ReadChar(st[n], QUOTE) = p
      <3>1. 0 \in 0..n /\ n \in 0..n
        BY <1>0
      <3>2. /\ st[0] = Reader("quoted", Append(vs, <<>>), 0)
            /\ st[n] = Reader("quoted", Append(vs, val), 0)
        BY <1>0, <2>5, <3>1
      <3>3. ReadChar(r, QUOTE) = Reader("quoted", Append(vs, <<>>), 0)
        BY ReaderMoves, Zenon
      <3>4. ReadChar(Reader("quoted", Append(vs, val), 0), QUOTE) =
               Reader("plain", Append(vs, val), 0)
        BY ReaderMoves, Zenon
      <3> QED
        BY <2>2, <3>2, <3>3, <3>4, Zenon
    <2> HIDE DEF r, p
    <2>10. <<QUOTE>> \in Seq(Chars)
      <3>1. QUOTE \in Chars
        BY DEF QUOTE, Chars
      <3> QED
        BY <3>1
    <2>11. Reads(r, <<QUOTE>>, st[0]) /\ Reads(st[n], <<QUOTE>>, p)
      BY <2>9, ReadsOne
    <2>12. Reads(r, <<QUOTE>> \o F, st[n]) /\ <<QUOTE>> \o F \in Seq(Chars)
      BY <2>7, <2>8, <2>10, <2>11, ReadsJoined, ConcatProperties
    <2>13. /\ Reads(r, (<<QUOTE>> \o F) \o <<QUOTE>>, p)
           /\ (<<QUOTE>> \o F) \o <<QUOTE>> \in Seq(Chars)
      BY <2>10, <2>11, <2>12, ReadsJoined, ConcatProperties
    <2> QED
      BY <2>1, <2>13, Zenon DEF r, p
  <1> QED
    BY <1>2, <1>3

\* The fields of a record come back, however many and whatever is in them.
LEMMA RecordIsRead ==
  ASSUME NEW values \in Seq(Seq(Chars))
  PROVE  ReadFields(rendered(values)) = values
  <1> DEFINE n == Len(values)
             part(k) == SubSeq(values, 1, k)
             lead == <<SPACE, key, EQUALS>>
             field(i) == lead \o escape_value(values[i])
             seqs == [i \in 1..n |-> field(i)]
             mode(k) == IF k = 0 THEN "plain" ELSE After(values[k])
             st == [k \in 0..n |-> Reader(mode(k), part(k), 0)]
  <1>0. /\ n \in Nat /\ part(0) = <<>> /\ part(n) = values
        /\ \A i \in 1..n : /\ i - 1 \in 0..n /\ i \in 0..n /\ values[i] \in Seq(Chars)
                           /\ part(i - 1) \in Seq(Seq(Chars))
                           /\ part(i) = Append(part(i - 1), values[i])
    <2>1. n \in Nat /\ \A i \in 1..n : i - 1 \in 0..n /\ i \in 0..n
      OBVIOUS
    <2>2. part(0) = <<>>
      <3>1. 1 \in Int /\ 0 \in Int /\ 0 < 1
        OBVIOUS
      <3> QED
        BY <3>1, SubSeqEmpty
    <2>3. part(n) = values
      BY SubSeqFull
    <2>4. \A i \in 1..n : /\ values[i] \in Seq(Chars) /\ part(i - 1) \in Seq(Seq(Chars))
                          /\ part(i) = Append(part(i - 1), values[i])
      BY PrefixGrows
    <2> QED
      BY <2>1, <2>2, <2>3, <2>4
  <1>1. \A k : mode(k) \in {"plain", "start"}
    BY DEF After
  <1>2. lead \in Seq(Chars)
    <2>1. SPACE \in Chars /\ key \in Chars /\ EQUALS \in Chars
      BY DEF SPACE, key, EQUALS, Chars
    <2> QED
      BY <2>1
  <1>3. rendered(values) = FlattenSeq(seqs)
    BY Zenon DEF rendered
  <1>4. \A i \in 0..n : st[i] = Reader(mode(i), part(i), 0)
    OBVIOUS
  <1> HIDE DEF st, part, n
  <1> HIDE DEF mode, lead
  <1>5. ASSUME NEW i \in 1..n
        PROVE  field(i) \in Seq(Chars) /\ Reads(st[i - 1], field(i), st[i])
    <2> DEFINE r == st[i - 1]
               k == Reader("key", Append(part(i - 1), <<>>), 0)
               s == Reader("start", Append(part(i - 1), <<>>), 0)
    <2>1. /\ i \in 0..n /\ i - 1 \in 0..n /\ i # 0 /\ values[i] \in Seq(Chars)
          /\ part(i - 1) \in Seq(Seq(Chars)) /\ part(i) = Append(part(i - 1), values[i])
      <3>1. i # 0
        BY <1>0
      <3> QED
        BY <1>0, <3>1, Zenon
    <2>2. st[i - 1] = Reader(mode(i - 1), part(i - 1), 0)
      BY <1>4, <2>1
    <2>3. st[i] = Reader(After(values[i]), Append(part(i - 1), values[i]), 0)
      <3>1. mode(i) = After(values[i])
        BY <2>1 DEF mode
      <3> QED
        BY <1>4, <2>1, <3>1
    <2>4. ReadChar(r, SPACE) = k /\ ReadChar(k, key) = k /\ ReadChar(k, EQUALS) = s
      <3>1. ReadChar(r, SPACE) = k
        BY <1>1, <2>2, ReaderMoves
      <3>2. key # EQUALS
        BY DEF key, EQUALS
      <3> QED
        BY <3>1, <3>2, ReaderMoves
    <2>5. /\ escape_value(values[i]) \in Seq(Chars)
          /\ Reads(s, escape_value(values[i]), st[i])
      BY <2>1, <2>3, ValueIsRead
    <2> HIDE DEF k, s
    <2>6. Reads(r, lead, s)
      <3>1. SPACE \in Chars /\ key \in Chars /\ EQUALS \in Chars
        BY DEF SPACE, key, EQUALS, Chars
      <3>2. Reads(r, <<SPACE, key>>, k)
        BY <2>4, <3>1, ReadsTwo
      <3>3. Reads(k, <<EQUALS>>, s)
        BY <2>4, ReadsOne
      <3>4. /\ <<SPACE, key>> \in Seq(Chars) /\ <<EQUALS>> \in Seq(Chars)
            /\ lead = <<SPACE, key>> \o <<EQUALS>>
        BY <3>1 DEF lead
      <3> QED
        BY <3>2, <3>3, <3>4, ReadsJoined, Zenon
    <2> QED
      BY <1>2, <2>5, <2>6, ReadsJoined, ConcatProperties
  <1> HIDE DEF field
  <1>6. seqs \in Seq(Seq(Chars)) /\ Len(seqs) = n /\ \A i \in 1..n : seqs[i] = field(i)
    BY <1>0, <1>5
  <1> HIDE DEF seqs
  <1>7. Reads(st[0], FlattenSeq(seqs), st[n])
    <2>1. \A i \in 1..Len(seqs) : Reads(st[i - 1], seqs[i], st[i])
      BY <1>5, <1>6
    <2>2. Reads(st[0], FlattenSeq(seqs), st[Len(seqs)])
      BY <1>6, <2>1, ReadsFlattened
    <2> QED
      BY <1>6, <2>2
  <1>8. FlattenSeq(seqs) \in Seq(Chars)
    BY <1>6, FlattenedIsText
  <1>9. st[0] = Reader("plain", <<>>, 0) /\ st[n] = Reader(mode(n), values, 0)
    <2>1. 0 \in 0..n /\ n \in 0..n
      BY <1>0
    <2>2. mode(0) = "plain"
      BY DEF mode
    <2> QED
      BY <1>0, <1>4, <2>1, <2>2
  <1>10. ReadFields(FlattenSeq(seqs)) =
            IF st[n].mode \in {"plain", "start"} THEN st[n].values ELSE <<<<0>>>>
    BY <1>7, <1>8, <1>9, FieldsRead
  <1>11. st[n].mode \in {"plain", "start"} /\ st[n].values = values
    BY <1>1, <1>9 DEF Reader
  <1> QED
    BY <1>3, <1>10, <1>11

\* FieldsComeApart holds after every conversion of a text.
LEMMA FieldStep ==
  ASSUME given \in GivenTexts, NextText
  PROVE  FieldsComeApart'
  <1>1. given' = given /\ given.texts \in Seq(Seq(Chars))
    BY TextAssumption, Zenon DEF NextText, EncodeHex, DecodeHex, RenderFields, Describe,
                                 create_context_from_config, Convert, Chars
  <1>2. CASE RenderFields
    <2>1. given.task = "fields" /\ made' = Made(<<rendered(given.texts)>>)
      BY <1>2, Zenon DEF RenderFields, Convert
    <2>2. made'.texts[1] = rendered(given.texts)
      BY <2>1 DEF Made
    <2> QED
      BY <1>1, <2>1, <2>2, RecordIsRead DEF FieldsComeApart
  <1>3. CASE Describe
    <2> DEFINE decoded == given.texts[1]
               max == max_backend_error_description_size
               n == IF Len(decoded) < max THEN Len(decoded) ELSE max
               d == sanitized_backend_error_description(decoded)
    <2>1. given.task = "description" /\ made' = Made(<<rendered(<<d>>)>>)
      BY <1>3, Zenon DEF Describe, Convert
    <2>2. decoded \in Seq(Chars) /\ Len(decoded) \in Nat /\ max \in Nat \ {0}
      <3>1. Len(given.texts) = 1 /\ max \in Nat \ {0}
        BY <2>1, TextAssumption
      <3> QED
        BY <1>1, <3>1
    <2>3. made'.texts[1] = rendered(<<d>>)
      BY <2>1 DEF Made
    <2>4. CASE decoded = <<>>
      <3>1. d = unavailable /\ d \in Seq(Chars) /\ Len(d) = 1
        BY <2>4 DEF sanitized_backend_error_description, unavailable, Chars
      <3> HIDE DEF d
      <3>2. <<d>> \in Seq(Seq(Chars)) /\ Len(<<d>>) = 1 /\ <<d>>[1] = d
        BY <3>1
      <3>3. ReadFields(made'.texts[1]) = <<d>>
        BY <2>3, <3>2, RecordIsRead
      <3>4. Len(d) \in 1..max
        BY <2>2, <3>1
      <3> HIDE DEF decoded
      <3> QED
        BY <1>1, <2>1, <2>4, <3>2, <3>3, <3>4 DEF FieldsComeApart, decoded
    <2>5. CASE decoded # <<>>
      <3> DEFINE shown(i) == IF is_printable_ascii(decoded[i]) THEN decoded[i] ELSE 95
      <3>1. d = [i \in 1..n |-> shown(i)]
        BY <2>5 DEF sanitized_backend_error_description
      <3>2. n \in 1..max /\ n =< Len(decoded)
        BY <2>2, <2>5
      <3> HIDE DEF n, d, decoded
      <3>3. \A i \in 1..n : decoded[i] \in Chars
        BY <2>2, <3>2
      <3>4. \A i \in 1..n : /\ shown(i) \in Chars /\ is_printable_ascii(shown(i))
                            /\ is_printable_ascii(decoded[i]) => shown(i) = decoded[i]
        BY <3>3 DEF is_printable_ascii, Chars
      <3> HIDE DEF shown
      <3>5. d \in Seq(Chars) /\ Len(d) = n /\ \A i \in 1..n : d[i] = shown(i)
        BY <2>2, <3>1, <3>2, <3>4
      <3>6. <<d>> \in Seq(Seq(Chars)) /\ Len(<<d>>) = 1 /\ <<d>>[1] = d
        BY <3>5
      <3>7. ReadFields(made'.texts[1]) = <<d>>
        BY <2>3, <3>6, RecordIsRead
      <3> QED
        BY <1>1, <2>1, <3>2, <3>4, <3>5, <3>6, <3>7 DEF FieldsComeApart, decoded
    <2> QED
      BY <2>4, <2>5
  <1>4. CASE ~ RenderFields /\ ~ Describe
    <2>1. given.task \notin {"fields", "description"}
      BY <1>4 DEF NextText, EncodeHex, DecodeHex, create_context_from_config, Convert
    <2> QED
      BY <1>1, <2>1 DEF FieldsComeApart
  <1> QED
    BY <1>2, <1>3, <1>4

\* The fields of any record come back as they were given, whatever is in them, and a
\* description of an error is one printable field within its bound.
THEOREM FieldsSurvive == Spec => []FieldsComeApart
  <1>1. Init => FieldsComeApart
    BY DEF Init, Nothing, FieldsComeApart
  <1>2. Inputs /\ FieldsComeApart /\ [Next]_vars => FieldsComeApart'
    <2>1. ASSUME FieldsComeApart, UNCHANGED textVars PROVE FieldsComeApart'
      BY <2>1, Zenon DEF FieldsComeApart, textVars
    <2> QED
      BY <2>1, FieldStep DEF Next, Read, Value, Text, Code, vars, Inputs
  <1> QED
    BY <1>1, <1>2, InputsAreGiven, PTL DEF Spec
=============================================================================
