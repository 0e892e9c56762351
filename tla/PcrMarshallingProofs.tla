-------------------------- MODULE PcrMarshallingProofs --------------------------
(* Proofs about PcrMarshalling, for every selection of PCRs 0 to 31. *)
EXTENDS PcrMarshalling, FiniteSetTheorems, TLAPS

\* Three bytes hold PCRs 0 to 23, four bytes hold them all.
LEMMA SizeOfOne ==
    ASSUME NEW i \in Index
    PROVE  /\ selection_size_for_pcr(i) \in 3..4
           /\ i \div 8 < selection_size_for_pcr(i)
           /\ i \div 8 \in ByteNumber
           /\ i % 8 \in 0..7
           /\ 8 * (i \div 8) + (i % 8) = i
  BY DEF Index, max_value, selection_size_for_pcr, pcr_select_min_size,
         ByteNumber, TPM2_PCR_SELECT_MAX

\* sizeofSelect is a size that every selected PCR fits into.
LEMMA SizeFits ==
    ASSUME NEW S \in SUBSET Index
    PROVE  /\ sizeofSelect(S) \in 3..4
           /\ \A i \in S : selection_size_for_pcr(i) =< sizeofSelect(S)
<1> DEFINE sizes == {pcr_select_min_size} \cup {selection_size_for_pcr(i) : i \in S}
<1>1. sizes \subseteq 3..4
  BY SizeOfOne DEF pcr_select_min_size
<1>2. \E n \in sizes : \A m \in sizes : m =< n
  <2>1. CASE 4 \in sizes
    BY <1>1, <2>1
  <2>2. CASE 4 \notin sizes
    <3>1. 3 \in sizes
      BY DEF pcr_select_min_size
    <3>2. \A m \in sizes : m = 3
      BY <1>1, <2>2
    <3> QED BY <3>1, <3>2
  <2> QED BY <2>1, <2>2
<1>3. sizeofSelect(S) \in sizes /\ \A m \in sizes : m =< sizeofSelect(S)
  BY <1>2 DEF sizeofSelect
<1> QED BY <1>1, <1>3

\* A selection survives its translation into a bitmap.
LEMMA BitmapIsExact ==
    ASSUME NEW s \in Selection
    PROVE  /\ Selected(to_tpm_selection(s)) = s.indices
           /\ to_tpm_selection(s).sizeofSelect \in 3..4
<1> DEFINE t == to_tpm_selection(s)
<1>1. s.indices \in SUBSET Index
  BY DEF Selection
<1>2. /\ t.sizeofSelect = sizeofSelect(s.indices)
      /\ t.pcrSelect = bitmap(s.indices)
  BY DEF to_tpm_selection
<1>3. \A i \in s.indices : selection_size_for_pcr(i) =< sizeofSelect(s.indices)
  BY <1>1, SizeFits
<1>4. sizeofSelect(s.indices) \in 3..4
  BY <1>1, SizeFits
<1>5. ASSUME NEW p \in Index
      PROVE  p \in Selected(t) <=> p \in s.indices
  <2>1. /\ selection_size_for_pcr(p) \in 3..4
        /\ p \div 8 < selection_size_for_pcr(p)
        /\ p \div 8 \in ByteNumber
        /\ p % 8 \in 0..7
        /\ 8 * (p \div 8) + (p % 8) = p
    BY SizeOfOne
  <2>2. bitmap(s.indices)[p \div 8] = {k \in 0..7 : 8 * (p \div 8) + k \in s.indices}
    BY <2>1 DEF bitmap
  <2>3. p % 8 \in t.pcrSelect[p \div 8] <=> p \in s.indices
    BY <1>2, <2>1, <2>2
  <2>4. p \in s.indices => p \div 8 < t.sizeofSelect
    <3> SUFFICES ASSUME p \in s.indices PROVE p \div 8 < t.sizeofSelect
      OBVIOUS
    <3>1. selection_size_for_pcr(p) =< sizeofSelect(s.indices)
      BY <1>3
    <3>2. p \div 8 \in 0..3
      BY <2>1 DEF ByteNumber, TPM2_PCR_SELECT_MAX
    <3> HIDE DEF t
    <3> QED BY <1>2, <1>4, <2>1, <3>1, <3>2
  <2> QED BY <2>3, <2>4 DEF Selected
<1> QED BY <1>1, <1>2, <1>4, <1>5 DEF Selected

\* select_all_pcrs names the 24 PCRs of a minimal bitmap.
LEMMA AllIsMinimal ==
    ASSUME NEW bank
    PROVE  Selected(select_all_pcrs(bank)) = 0..23
<1> DEFINE t == select_all_pcrs(bank)
<1>1. ASSUME NEW p \in Index
      PROVE  p \in Selected(t) <=> p \in 0..23
  <2>1. p \div 8 \in ByteNumber /\ p % 8 \in 0..7 /\ (p \div 8 < 3 <=> p < 24)
    BY DEF Index, max_value, ByteNumber, TPM2_PCR_SELECT_MAX
  <2>2. t.pcrSelect[p \div 8] = IF p \div 8 < 3 THEN 0..7 ELSE {}
    BY <2>1 DEF select_all_pcrs, pcr_select_min_size
  <2>3. t.sizeofSelect = 3
    BY DEF select_all_pcrs, pcr_select_min_size
  <2> HIDE DEF t
  <2>4. p \in Selected(t) <=> p \div 8 < 3 /\ p % 8 \in t.pcrSelect[p \div 8]
    BY <2>3 DEF Selected
  <2>5. p \in 0..23 <=> p < 24
    BY DEF Index, max_value
  <2> QED BY <2>1, <2>2, <2>4, <2>5
<1>2. Selected(t) \subseteq Index /\ 0..23 \subseteq Index
  BY DEF Selected, Index, max_value
<1> QED BY <1>1, <1>2

\* An allocation lists the banks of the caller in their order, each with PCRs 0 to
\* 23: PCRs 24 to 31 are never allocated.
THEOREM AllocationIsMinimal ==
    ASSUME NEW banks \in Seq(Supported)
    PROVE  /\ Len(to_tpm_allocation(banks)) = Len(banks)
           /\ \A k \in 1..Len(banks) :
                 /\ to_tpm_allocation(banks)[k].hash = banks[k]
                 /\ Selected(to_tpm_allocation(banks)[k]) = 0..23
<1>1. Len(to_tpm_allocation(banks)) = Len(banks)
  BY DEF to_tpm_allocation
<1>2. ASSUME NEW k \in 1..Len(banks)
      PROVE  /\ to_tpm_allocation(banks)[k].hash = banks[k]
             /\ Selected(to_tpm_allocation(banks)[k]) = 0..23
  <2>1. to_tpm_allocation(banks)[k] = select_all_pcrs(banks[k])
    BY DEF to_tpm_allocation
  <2>2. select_all_pcrs(banks[k]).hash = banks[k]
    BY DEF select_all_pcrs
  <2> QED BY <2>1, <2>2, AllIsMinimal
<1> QED BY <1>1, <1>2

\* The selection that was sent is the translation of the one asked for.
Sent == /\ request \in Selection
        /\ stage # "asked" => wire = <<to_tpm_selection(request)>>

LEMMA SentInvariant == ReadSpec => []Sent
<1>1. InitRead => Sent
  BY MarshallingAssumption DEF InitRead, Sent
<1>2. Sent /\ [NextRead]_readVars => Sent'
  BY DEF Sent, NextRead, Encode, TpmReads, AnswersOddly, Decode, readVars
<1> QED BY <1>1, <1>2, PTL DEF ReadSpec

\* The TPM is always asked for exactly the PCRs the caller selected.
THEOREM SelectionSurvives == ReadSpec => []NothingLostOnTheWire
<1>1. Sent => NothingLostOnTheWire
  <2> SUFFICES ASSUME Sent, stage # "asked"
               PROVE  /\ Selected(wire[1]) = request.indices
                      /\ wire[1].sizeofSelect \in pcr_select_min_size..TPM2_PCR_SELECT_MAX
    BY DEF NothingLostOnTheWire
  <2>1. wire[1] = to_tpm_selection(request)
    BY DEF Sent
  <2> QED BY <2>1, BitmapIsExact DEF Sent, pcr_select_min_size, TPM2_PCR_SELECT_MAX
<1> QED BY <1>1, SentInvariant, PTL

-----------------------------------------------------------------------------
(* Ranks *)

\* PCRs of a set are told apart by their ranks.
LEMMA Ranks ==
    ASSUME NEW S \in SUBSET Index
    PROVE  /\ IsFiniteSet(S) /\ Cardinality(S) \in Nat
           /\ \A i \in S : Rank(i, S) \in 1..Cardinality(S)
           /\ \A i, j \in S : i =< j => Rank(i, S) =< Rank(j, S)
           /\ \A i, j \in S : Rank(i, S) = Rank(j, S) => i = j
<1> DEFINE upto(i) == {j \in S : j =< i}
<1>0. IsFiniteSet(S) /\ Cardinality(S) \in Nat
  <2>1. 0 \in Int /\ 31 \in Int
    OBVIOUS
  <2>2. IsFiniteSet(Index)
    BY <2>1, FS_Interval, Zenon DEF Index, max_value
  <2> QED BY <2>2, FS_Subset, FS_CardinalityType
<1>1. ASSUME NEW i \in S
      PROVE  /\ IsFiniteSet(upto(i)) /\ Cardinality(upto(i)) =< Cardinality(S)
             /\ Cardinality(upto(i)) \in Nat /\ Cardinality(upto(i)) # 0
  <2>1. upto(i) \in SUBSET S /\ i \in upto(i)
    BY DEF Index
  <2> HIDE DEF upto
  <2>2. IsFiniteSet(upto(i)) /\ Cardinality(upto(i)) =< Cardinality(S)
    BY <1>0, <2>1, FS_Subset
  <2> QED BY <2>1, <2>2, FS_CardinalityType, FS_EmptySet
<1>2. ASSUME NEW i \in S, NEW j \in S, i < j
      PROVE  Cardinality(upto(i)) < Cardinality(upto(j))
  <2>1. upto(i) \in SUBSET upto(j) /\ j \in upto(j) /\ j \notin upto(i)
    <3>1. i \in Nat /\ j \in Nat /\ j =< j /\ ~ (j =< i) /\ S \subseteq Nat
      BY <1>2 DEF Index
    <3>2. \A k \in Nat : k =< i => k =< j
      BY <1>2, <3>1
    <3> QED BY <3>1, <3>2
  <2>2. IsFiniteSet(upto(j)) /\ Cardinality(upto(i)) \in Nat /\ Cardinality(upto(j)) \in Nat
    BY <1>1
  <2> HIDE DEF upto
  <2>3. Cardinality(upto(i)) =< Cardinality(upto(j)) /\ upto(i) # upto(j)
    BY <2>1, <2>2, FS_Subset
  <2>4. Cardinality(upto(i)) # Cardinality(upto(j))
    BY <2>1, <2>2, <2>3, FS_Subset
  <2> QED BY <2>2, <2>3, <2>4
<1>3. \A i : Rank(i, S) = Cardinality(upto(i))
  BY DEF Rank
<1> HIDE DEF upto
<1>4. \A i \in S : Rank(i, S) \in 1..Cardinality(S)
  BY <1>0, <1>1, <1>3
<1>5. \A i, j \in S : i < j => Rank(i, S) < Rank(j, S)
  BY <1>2, <1>3
<1>6. \A i, j \in S : i < j \/ j < i \/ i = j
  BY DEF Index
<1>7. \A i, j \in S : i =< j => Rank(i, S) =< Rank(j, S)
  <2> SUFFICES ASSUME NEW i \in S, NEW j \in S, i =< j PROVE Rank(i, S) =< Rank(j, S)
    OBVIOUS
  <2>1. i = j \/ i < j
    BY DEF Index
  <2>2. Rank(i, S) \in Nat /\ Rank(j, S) \in Nat
    BY <1>0, <1>4
  <2> QED BY <1>5, <2>1, <2>2
<1>8. \A i, j \in S : Rank(i, S) = Rank(j, S) => i = j
  <2> SUFFICES ASSUME NEW i \in S, NEW j \in S, Rank(i, S) = Rank(j, S) PROVE i = j
    OBVIOUS
  <2>1. Rank(i, S) \in Nat /\ Rank(j, S) \in Nat
    BY <1>0, <1>4
  <2> QED BY <1>5, <1>6, <2>1
<1> QED BY <1>0, <1>4, <1>7, <1>8

\* Every rank up to the size of the set is somebody's.
LEMMA RanksAreTaken ==
    ASSUME NEW S \in SUBSET Index, NEW k \in 1..Cardinality(S)
    PROVE  \E i \in S : Rank(i, S) = k
<1> DEFINE N == Cardinality(S)
           f == [i \in S |-> Rank(i, S)]
<1>0. IsFiniteSet(S) /\ N \in Nat
  BY Ranks
<1>1. f \in [S -> 1..N] /\ \A i, j \in S : f[i] = f[j] => i = j
  BY Ranks
<1>2. 1 \in Int /\ N \in Int
  BY <1>0
<1>3. IsFiniteSet(1..N) /\ Cardinality(1..N) = N
  <2>1. IsFiniteSet(1..N) /\ Cardinality(1..N) = IF 1 > N THEN 0 ELSE N - 1 + 1
    BY <1>2, FS_Interval, Zenon
  <2> HIDE DEF N
  <2> QED BY <1>0, <2>1
<1> HIDE DEF f
<1>4. f \in Injection(S, 1..N)
  BY <1>1 DEF Injection, IsInjective
<1>5. f \in Surjection(S, 1..N)
  BY <1>3, <1>4, FS_Injection
<1>6. \E i \in S : f[i] = k
  BY <1>5 DEF Surjection
<1> QED BY <1>6 DEF f

\* The lowest few of a set are as many as asked for, and keep their ranks.
LEMMA LowestFew ==
    ASSUME NEW S \in SUBSET Index, NEW n \in 0..Cardinality(S)
    PROVE  LET got == {i \in S : Rank(i, S) =< n}
           IN  /\ Cardinality(got) = n
               /\ \A i \in got : Rank(i, got) = Rank(i, S)
<1> DEFINE got == {i \in S : Rank(i, S) =< n}
           f == [i \in got |-> Rank(i, S)]
<1>0. /\ IsFiniteSet(S) /\ Cardinality(S) \in Nat /\ n \in Nat
      /\ \A i \in S : Rank(i, S) \in 1..Cardinality(S)
  BY Ranks
<1>1. f \in [got -> 1..n] /\ \A i, j \in got : f[i] = f[j] => i = j
  <2>1. \A i \in got : Rank(i, S) \in 1..n
    BY <1>0
  <2>2. \A i, j \in got : Rank(i, S) = Rank(j, S) => i = j
    BY Ranks
  <2> HIDE DEF got
  <2> QED BY <2>1, <2>2
<1>2. \A k \in 1..n : \E i \in got : f[i] = k
  <2> SUFFICES ASSUME NEW k \in 1..n PROVE \E i \in got : f[i] = k
    OBVIOUS
  <2>1. k \in 1..Cardinality(S)
    BY <1>0
  <2>2. PICK i \in S : Rank(i, S) = k
    BY <2>1, RanksAreTaken
  <2> QED BY <2>2
<1>3. IsFiniteSet(1..n) /\ Cardinality(1..n) = n
  <2>1. 1 \in Int /\ n \in Int
    BY <1>0
  <2>2. IsFiniteSet(1..n) /\ Cardinality(1..n) = IF 1 > n THEN 0 ELSE n - 1 + 1
    BY <2>1, FS_Interval, Zenon
  <2> QED BY <1>0, <2>2
<1>4. Cardinality(got) = n
  <2> HIDE DEF got, f
  <2>1. f \in Injection(got, 1..n) /\ f \in Surjection(got, 1..n)
    BY <1>1, <1>2 DEF Injection, IsInjective, Surjection
  <2> QED BY <1>3, <2>1, FS_Injection
<1>5. ASSUME NEW i \in got
      PROVE  Rank(i, got) = Rank(i, S)
  <2>1. \A j \in S : j =< i => Rank(j, S) =< n
    <3> SUFFICES ASSUME NEW j \in S, j =< i PROVE Rank(j, S) =< n
      OBVIOUS
    <3>1. Rank(j, S) =< Rank(i, S) /\ Rank(i, S) =< n
      BY Ranks
    <3>2. Rank(j, S) \in Nat /\ Rank(i, S) \in Nat
      BY <1>0
    <3> QED BY <1>0, <3>1, <3>2
  <2>2. {j \in got : j =< i} = {j \in S : j =< i}
    BY <2>1
  <2> HIDE DEF got
  <2> QED BY <2>2 DEF Rank
<1> QED BY <1>4, <1>5

-----------------------------------------------------------------------------
(* Decoding *)

\* The n lowest PCRs of a set, and the answer of a TPM that read them for a selection.
Lowest(S, n) == {i \in S : Rank(i, S) =< n}

Reading(t, n, got) ==
    [selections |-> <<[t EXCEPT !.pcrSelect = bitmap(got)]>>,
     digests |-> [k \in 1..n |-> [size |-> DigestSize[t.hash],
                                  of |-> CHOOSE i \in got : Rank(i, got) = k]]]

ReadFor(r, n) == Reading(to_tpm_selection(r), n, Lowest(r.indices, n))

Decoded ==
    LET s == to_domain_selection(answer.selections, request.algorithm) IN
    IF selection_accepted(answer.selections) /\ values_accepted(answer.digests, s)
    THEN [ok |-> TRUE, selection |-> s, values |-> to_domain_read_values(answer.digests, s)]
    ELSE Failure

\* What came back was read by the TPM for this request, or is odd, and what is returned
\* was decoded from it.
AnswerInv ==
    /\ stage \in {"answered", "returned"} =>
          \/ \E n \in 0..MaxListed :
                n =< Cardinality(request.indices) /\ answer = ReadFor(request, n)
          \/ ~honest /\ answer \in Odd
    /\ stage = "returned" => outcome = Decoded

LEMMA AnswerInvariant == ReadSpec => [](Sent /\ AnswerInv)
<1>1. InitRead => AnswerInv
  BY DEF InitRead, AnswerInv
<1>2. ASSUME Sent, AnswerInv, [NextRead]_readVars
      PROVE  AnswerInv'
  <2>1. CASE Encode
    BY <1>2, <2>1 DEF Encode, AnswerInv
  <2>2. CASE TpmReads
    <3>1. wire = <<to_tpm_selection(request)>> /\ request \in Selection
      BY <1>2, <2>2 DEF TpmReads, Sent
    <3>2. /\ wire[1] = to_tpm_selection(request) /\ wire[1].hash = request.algorithm
          /\ Selected(wire[1]) = request.indices
      BY <3>1, BitmapIsExact DEF to_tpm_selection
    <3>3. PICK n \in 0..MaxListed :
             /\ n =< Cardinality(Selected(wire[1]))
             /\ answer' = Reading(wire[1], n, Lowest(Selected(wire[1]), n))
      BY <2>2, Zenon DEF TpmReads, Lowest, Reading
    <3>4. stage' = "answered" /\ request' = request
      BY <2>2 DEF TpmReads
    <3>5. answer' = ReadFor(request', n) /\ n =< Cardinality(request'.indices)
      BY <3>2, <3>3, <3>4, Zenon DEF ReadFor
    <3> QED BY <3>3, <3>4, <3>5 DEF AnswerInv
  <2>3. CASE AnswersOddly
    BY <2>3 DEF AnswersOddly, AnswerInv
  <2>4. CASE Decode
    <3>1. /\ stage = "answered" /\ stage' = "returned" /\ UNCHANGED <<request, answer, honest>>
          /\ outcome' = Decoded
      BY <2>4, Zenon DEF Decode, Decoded
    <3>2. Decoded' = Decoded
      BY <3>1 DEF Decoded
    <3> QED BY <1>2, <3>1, <3>2 DEF AnswerInv
  <2>5. CASE UNCHANGED readVars
    BY <1>2, <2>5 DEF readVars, AnswerInv, Decoded
  <2> QED BY <1>2, <2>1, <2>2, <2>3, <2>4, <2>5 DEF NextRead
<1> QED BY <1>1, <1>2, SentInvariant, PTL DEF ReadSpec

\* Whatever list is accepted, the library can name the PCRs.
LEMMA AcceptedIsSelection ==
    ASSUME NEW list \in Seq(TpmSelection), NEW fallback \in Supported, selection_accepted(list)
    PROVE  to_domain_selection(list, fallback) \in Selection
<1>1. CASE list = <<>>
  BY <1>1 DEF to_domain_selection, Selection
<1>2. CASE list # <<>>
  <2>1. list[1] \in TpmSelection /\ list[1].hash \in Supported /\ list[1].sizeofSelect =< 4
    BY <1>2 DEF selection_accepted, TPM2_PCR_SELECT_MAX
  <2>2. list[1].sizeofSelect \in Nat
    BY <2>1 DEF TpmSelection
  <2>3. ASSUME NEW bk \in (0..list[1].sizeofSelect - 1) \X (0..7)
        PROVE  8 * bk[1] + bk[2] \in Index
    <3>1. PICK b \in 0..3, k \in 0..7 : bk[1] = b /\ bk[2] = k
      BY <2>1, <2>2
    <3>2. 8 * b + k \in 0..31
      OBVIOUS
    <3> QED BY <3>1, <3>2 DEF Index, max_value
  <2>4. {8 * bk[1] + bk[2] : bk \in {bk \in (0..list[1].sizeofSelect - 1) \X (0..7) :
                                       bk[2] \in list[1].pcrSelect[bk[1]]}} \subseteq Index
    BY <2>3
  <2> QED BY <1>2, <2>1, <2>4 DEF to_domain_selection, Selection
<1> QED BY <1>1, <1>2

\* A bitmap of PCRs comes back as those PCRs.
LEMMA BitmapComesBack ==
    ASSUME NEW S \in SUBSET Index, NEW got \in SUBSET S, NEW list, NEW fallback,
           Len(list) = 1, list # <<>>, list[1].sizeofSelect = sizeofSelect(S),
           list[1].pcrSelect = bitmap(got)
    PROVE  to_domain_selection(list, fallback) = [algorithm |-> list[1].hash, indices |-> got]
<1> DEFINE size == sizeofSelect(S)
           picked == {bk \in (0..size - 1) \X (0..7) : bk[2] \in bitmap(got)[bk[1]]}
<1>1. /\ size \in 3..4
      /\ \A i \in S : selection_size_for_pcr(i) =< size
  BY SizeFits
<1> HIDE DEF size
<1>2. ASSUME NEW b \in 0..size - 1, NEW k \in 0..7
      PROVE  k \in bitmap(got)[b] <=> 8 * b + k \in got
  <2>1. b \in ByteNumber
    BY <1>1 DEF ByteNumber, TPM2_PCR_SELECT_MAX
  <2> QED BY <2>1 DEF bitmap
<1>3. ASSUME NEW i \in got
      PROVE  i \div 8 \in 0..size - 1 /\ i % 8 \in 0..7 /\ 8 * (i \div 8) + (i % 8) = i
  <2>1. i \in Index /\ selection_size_for_pcr(i) =< size
    BY <1>1
  <2>2. /\ selection_size_for_pcr(i) \in 3..4 /\ i \div 8 < selection_size_for_pcr(i)
        /\ i \div 8 \in ByteNumber /\ i % 8 \in 0..7 /\ 8 * (i \div 8) + (i % 8) = i
    BY <2>1, SizeOfOne
  <2>3. i \div 8 \in 0..3
    BY <2>2 DEF ByteNumber, TPM2_PCR_SELECT_MAX
  <2> QED BY <1>1, <2>1, <2>2, <2>3
<1>4. {8 * bk[1] + bk[2] : bk \in picked} = got
  <2>1. ASSUME NEW bk \in picked PROVE 8 * bk[1] + bk[2] \in got
    BY <1>2
  <2>2. ASSUME NEW i \in got PROVE \E bk \in picked : 8 * bk[1] + bk[2] = i
    <3> DEFINE pair == <<i \div 8, i % 8>>
    <3>1. pair \in (0..size - 1) \X (0..7) /\ pair[1] = i \div 8 /\ pair[2] = i % 8
      BY <1>3
    <3>2. pair[2] \in bitmap(got)[pair[1]]
      BY <1>2, <1>3, <3>1
    <3> QED BY <1>3, <3>1, <3>2
  <2> QED BY <2>1, <2>2
<1> QED BY <1>4 DEF to_domain_selection, size

\* What an answer honestly read for a selection is decoded to.
LEMMA ReadIsDecoded ==
    ASSUME request \in Selection, NEW n \in 0..MaxListed, n =< Cardinality(request.indices),
           answer = ReadFor(request, n)
    PROVE  /\ Decoded.ok = TRUE
           /\ Decoded.selection = [algorithm |-> request.algorithm,
                                   indices |-> Lowest(request.indices, n)]
           /\ Len(answer.digests) = n /\ Cardinality(Lowest(request.indices, n)) = n
           /\ \A i \in Lowest(request.indices, n) : Decoded.values[i].of = i
<1> DEFINE S == request.indices
           got == Lowest(S, n)
           t == to_tpm_selection(request)
           list == answer.selections
           digests == answer.digests
           s == to_domain_selection(list, request.algorithm)
<1>0. S \in SUBSET Index /\ request.algorithm \in Supported /\ n \in Nat /\ MaxListed \in Nat
  BY MarshallingAssumption DEF Selection
<1>1. /\ got \in SUBSET S /\ got \in SUBSET Index
      /\ Cardinality(got) = n
  <2>1. n \in 0..Cardinality(S)
    BY <1>0, Ranks
  <2> QED BY <1>0, <2>1, LowestFew DEF Lowest
<1>2. t = [hash |-> request.algorithm, sizeofSelect |-> sizeofSelect(S), pcrSelect |-> bitmap(S)]
  BY DEF to_tpm_selection
<1>3. /\ list = <<[t EXCEPT !.pcrSelect = bitmap(got)]>>
      /\ digests = [k \in 1..n |-> [size |-> DigestSize[t.hash],
                                    of |-> CHOOSE i \in got : Rank(i, got) = k]]
  BY DEF ReadFor, Reading
<1> HIDE DEF got, t, list, digests
<1>4. /\ Len(list) = 1 /\ list # <<>> /\ list[1].hash = request.algorithm
      /\ list[1].sizeofSelect = sizeofSelect(S) /\ list[1].pcrSelect = bitmap(got)
  BY <1>2, <1>3
<1>5. s = [algorithm |-> request.algorithm, indices |-> got]
  BY <1>0, <1>1, <1>4, BitmapComesBack
<1>6. selection_accepted(list)
  <2>1. sizeofSelect(S) \in 3..4
    BY <1>0, SizeFits
  <2> QED BY <1>0, <1>4, <2>1 DEF selection_accepted, TPM2_PCR_SELECT_MAX
<1>7. Len(digests) = n /\ \A k \in 1..n : digests[k].size = DigestSize[request.algorithm]
  BY <1>0, <1>2, <1>3
<1> HIDE DEF s
<1>8. values_accepted(digests, s)
  BY <1>0, <1>1, <1>5, <1>7 DEF values_accepted
<1>9. Decoded = [ok |-> TRUE, selection |-> s, values |-> to_domain_read_values(digests, s)]
  BY <1>6, <1>8 DEF Decoded, s, list, digests
<1>10. ASSUME NEW i \in got
       PROVE  to_domain_read_values(digests, s)[i].of = i
  <2> DEFINE k == Rank(i, got)
  <2>1. k \in 1..n /\ \A j \in got : Rank(j, got) = k => j = i
    BY <1>1, Ranks
  <2>2. (CHOOSE j \in got : Rank(j, got) = k) = i
    BY <2>1
  <2>3. digests[k].of = i
    BY <1>3, <2>1, <2>2
  <2>4. to_domain_read_values(digests, s)[i] = digests[k]
    BY <1>5 DEF to_domain_read_values
  <2> QED BY <2>3, <2>4
<1> QED BY <1>1, <1>5, <1>7, <1>9, <1>10 DEF got, digests

\* What an honest TPM read, whether all of a selection or part of it, is returned with
\* every value beside the PCR it was read from, for every selection of PCRs 0 to 31 and
\* every number of them read (esys_pcr_provider::read).
THEOREM ValuesAreAttributed == ReadSpec => []ValuesStandByTheirPcr
<1>1. Sent /\ AnswerInv => ValuesStandByTheirPcr
  <2> SUFFICES ASSUME Sent, AnswerInv, stage = "returned", honest
               PROVE  /\ outcome.ok
                      /\ outcome.selection.algorithm = request.algorithm
                      /\ outcome.selection.indices \subseteq request.indices
                      /\ Cardinality(outcome.selection.indices) = Len(answer.digests)
                      /\ \A i \in outcome.selection.indices : outcome.values[i].of = i
    BY DEF ValuesStandByTheirPcr
  <2>1. PICK n \in 0..MaxListed :
           n =< Cardinality(request.indices) /\ answer = ReadFor(request, n)
    BY DEF AnswerInv
  <2>2. request \in Selection /\ outcome = Decoded
    BY DEF Sent, AnswerInv
  <2>3. /\ Decoded.ok = TRUE
        /\ Decoded.selection = [algorithm |-> request.algorithm,
                                indices |-> Lowest(request.indices, n)]
        /\ Len(answer.digests) = n /\ Cardinality(Lowest(request.indices, n)) = n
        /\ \A i \in Lowest(request.indices, n) : Decoded.values[i].of = i
    BY <2>1, <2>2, ReadIsDecoded
  <2>4. Lowest(request.indices, n) \subseteq request.indices
    BY DEF Lowest
  <2> QED BY <2>2, <2>3, <2>4
<1> QED BY <1>1, AnswerInvariant, PTL

\* Whatever the TPM sends back, a result that is not an error has one value of the right
\* size for each PCR of a selection the library can name.
THEOREM ResultsAreWellFormed == ReadSpec => []AcceptedResultsAreWellFormed
<1>1. Sent /\ AnswerInv => AcceptedResultsAreWellFormed
  <2> SUFFICES ASSUME Sent, AnswerInv, stage = "returned", outcome.ok
               PROVE  /\ outcome.selection \in Selection
                      /\ DOMAIN outcome.values = outcome.selection.indices
                      /\ Len(answer.digests) = Cardinality(outcome.selection.indices)
                      /\ Len(answer.digests) =< MaxListed
                      /\ \A i \in DOMAIN outcome.values :
                            outcome.values[i].size = DigestSize[outcome.selection.algorithm]
    BY DEF AcceptedResultsAreWellFormed
  <2> DEFINE s == to_domain_selection(answer.selections, request.algorithm)
  <2>1. request \in Selection /\ request.algorithm \in Supported /\ outcome = Decoded
    BY DEF Sent, AnswerInv, Selection
  <2>2. /\ selection_accepted(answer.selections) /\ values_accepted(answer.digests, s)
        /\ outcome = [ok |-> TRUE, selection |-> s,
                      values |-> to_domain_read_values(answer.digests, s)]
    BY <2>1 DEF Decoded, Failure
  <2>3. s \in Selection
    <3>1. CASE answer \in Odd
      <4>1. answer.selections \in Seq(TpmSelection)
        BY <3>1, MarshallingAssumption
      <4> QED BY <2>1, <2>2, <4>1, AcceptedIsSelection
    <3>2. CASE answer \notin Odd
      <4>1. PICK n \in 0..MaxListed :
               n =< Cardinality(request.indices) /\ answer = ReadFor(request, n)
        BY <3>2 DEF AnswerInv
      <4>2. Decoded.selection = [algorithm |-> request.algorithm,
                                 indices |-> Lowest(request.indices, n)]
        BY <2>1, <4>1, ReadIsDecoded
      <4>3. Lowest(request.indices, n) \in SUBSET Index
        BY <2>1 DEF Lowest, Selection
      <4> QED BY <2>1, <2>2, <4>2, <4>3 DEF Selection
    <3> QED BY <3>1, <3>2
  <2> HIDE DEF s
  <2>4. /\ Len(answer.digests) =< MaxListed
        /\ Len(answer.digests) = Cardinality(s.indices)
        /\ \A k \in 1..Len(answer.digests) : answer.digests[k].size = DigestSize[s.algorithm]
    BY <2>2 DEF values_accepted
  <2>5. s.indices \in SUBSET Index
    BY <2>3 DEF Selection
  <2>6. \A i \in s.indices : Rank(i, s.indices) \in 1..Len(answer.digests)
    BY <2>4, <2>5, Ranks
  <2>7. to_domain_read_values(answer.digests, s) =
           [i \in s.indices |-> answer.digests[Rank(i, s.indices)]]
    BY DEF to_domain_read_values
  <2> QED BY <2>2, <2>3, <2>4, <2>6, <2>7
<1> QED BY <1>1, AnswerInvariant, PTL
=============================================================================
