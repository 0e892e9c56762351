----------------------------- MODULE PcrMarshalling -----------------------------
(***************************************************************************)
(* One PCR_Read as the marshalling code sees it: a domain selection        *)
(* becomes a TPML_PCR_SELECTION, the TPM answers with a selection and a    *)
(* list of digests of its own making, and both become a read result or an  *)
(* error.  A byte of a selection bitmap is the set of its bits.            *)
(***************************************************************************)
EXTENDS Naturals, Sequences, FiniteSets

CONSTANTS
    Algorithm,   \* TPM hash algorithms
    Supported,   \* those with a hash_algorithm in this build
    DigestSize,  \* bytes of a digest of each supported algorithm
    Requested,   \* the selections callers make
    Odd,         \* answers that are none of a TPM asked for this
    MaxListed    \* digests in a TPML_DIGEST

max_value == 31              \* pcr::index::max_value
TPM2_PCR_SELECT_MAX == 4     \* bytes of a bitmap
pcr_select_min_size == 3

Index == 0..max_value
ByteNumber == 0..TPM2_PCR_SELECT_MAX - 1

\* pcr::selection, TPMS_PCR_SELECTION, and a digest.  It carries the PCR it is
\* the value of, which the library cannot see.
Selection == [algorithm : Supported, indices : SUBSET Index]
TpmSelection == [hash : Algorithm, sizeofSelect : Nat, pcrSelect : [ByteNumber -> SUBSET (0..7)]]
Digest == [size : Nat, of : Index]

ASSUME MarshallingAssumption ==
    /\ Supported \subseteq Algorithm
    /\ DigestSize \in [Supported -> Nat]
    /\ Requested \subseteq Selection
    /\ \A a \in Odd : a.selections \in Seq(TpmSelection) /\ a.digests \in Seq(Digest)
    /\ MaxListed \in Nat

VARIABLES
    stage,    \* "asked", "sent", "answered" or "returned"
    request,  \* the caller's selection
    wire,     \* the selection list sent
    answer,   \* what came back
    honest,   \* whether the TPM read the PCRs it says it read
    outcome   \* the read_result, or an error

readVars == <<stage, request, wire, answer, honest, outcome>>

NoAnswer == [selections |-> <<>>, digests |-> <<>>]
Failure == [ok |-> FALSE, selection |-> [algorithm |-> "none", indices |-> {}],
            values |-> [i \in {} |-> 0]]

InitRead ==
    /\ stage = "asked"
    /\ request \in Requested
    /\ wire = <<>>
    /\ answer = NoAnswer
    /\ honest = TRUE
    /\ outcome = Failure

-----------------------------------------------------------------------------
(* To the TPM.  A definition named ..._Fault is the one after it with a mistake
   a programmer could make; the checks are run against it too, to see that they
   notice. *)

\* The largest byte number instead of the number of bytes.
selection_size_Fault(pcr) ==
    IF pcr \div 8 > pcr_select_min_size THEN pcr \div 8 ELSE pcr_select_min_size

selection_size_for_pcr(pcr) ==
    IF pcr \div 8 + 1 > pcr_select_min_size THEN pcr \div 8 + 1 ELSE pcr_select_min_size

sizeofSelect(indices) ==
    LET sizes == {pcr_select_min_size} \cup {selection_size_for_pcr(i) : i \in indices}
    IN CHOOSE n \in sizes : \A m \in sizes : m =< n

bitmap(indices) == [b \in ByteNumber |-> {k \in 0..7 : 8 * b + k \in indices}]

to_tpm_selection(s) ==
    [hash |-> s.algorithm,
     sizeofSelect |-> sizeofSelect(s.indices),
     pcrSelect |-> bitmap(s.indices)]

\* One bank of to_tpm_allocation: every PCR of a bitmap of minimal size.
select_all_pcrs(bank) ==
    [hash |-> bank, sizeofSelect |-> pcr_select_min_size,
     pcrSelect |-> [b \in ByteNumber |-> IF b < pcr_select_min_size THEN 0..7 ELSE {}]]

to_tpm_allocation(banks) == [k \in 1..Len(banks) |-> select_all_pcrs(banks[k])]

Encode ==
    /\ stage = "asked"
    /\ stage' = "sent"
    /\ wire' = <<to_tpm_selection(request)>>
    /\ UNCHANGED <<request, answer, honest, outcome>>

-----------------------------------------------------------------------------
(* The TPM *)

\* The PCRs a bitmap selects, for whoever reads its first sizeofSelect bytes.
Selected(t) == {p \in Index : p \div 8 < t.sizeofSelect /\ p % 8 \in t.pcrSelect[p \div 8]}

Rank(i, indices) == Cardinality({j \in indices : j =< i})

\* The TPM reads the lowest few of the PCRs selected, no more than a digest list
\* holds, and says which.
TpmReads ==
    /\ stage = "sent"
    /\ \E n \in 0..MaxListed :
          /\ n =< Cardinality(Selected(wire[1]))
          /\ LET got == {i \in Selected(wire[1]) : Rank(i, Selected(wire[1])) =< n}
                 nth(k) == CHOOSE i \in got : Rank(i, got) = k
             IN answer' = [selections |-> <<[wire[1] EXCEPT !.pcrSelect = bitmap(got)]>>,
                           digests |-> [k \in 1..n |-> [size |-> DigestSize[wire[1].hash],
                                                        of |-> nth(k)]]]
    /\ stage' = "answered"
    /\ UNCHANGED <<request, wire, honest, outcome>>

AnswersOddly ==
    /\ stage = "sent"
    /\ answer' \in Odd
    /\ honest' = FALSE
    /\ stage' = "answered"
    /\ UNCHANGED <<request, wire, outcome>>

-----------------------------------------------------------------------------
(* From the TPM *)

\* No selection stands for an empty one; otherwise there must be one, of an
\* algorithm algorithm_from_tpm knows and with a bitmap that fits.  The test
\* for an index above 31 never fails after that.
selection_accepted(list) ==
    \/ list = <<>>
    \/ /\ Len(list) = 1
       /\ list[1].hash \in Supported
       /\ list[1].sizeofSelect =< TPM2_PCR_SELECT_MAX

\* The loop over bytes and bits.
to_domain_selection(list, fallback) ==
    IF list = <<>>
    THEN [algorithm |-> fallback, indices |-> {}]
    ELSE [algorithm |-> list[1].hash,
          indices |-> {8 * bk[1] + bk[2] : bk \in
                          {bk \in (0..list[1].sizeofSelect - 1) \X (0..7) :
                              bk[2] \in list[1].pcrSelect[bk[1]]}}]

\* Trusting the sizes.
values_accepted_Fault(digests, s) ==
    Len(digests) =< MaxListed /\ Len(digests) = Cardinality(s.indices)

values_accepted(digests, s) ==
    /\ Len(digests) =< MaxListed
    /\ Len(digests) = Cardinality(s.indices)
    /\ \A k \in 1..Len(digests) : digests[k].size = DigestSize[s.algorithm]

\* The last digest for the lowest index.
to_domain_read_values_Fault(digests, s) ==
    [i \in s.indices |-> digests[Len(digests) + 1 - Rank(i, s.indices)]]

\* The n-th digest belongs to the n-th selected index.
to_domain_read_values(digests, s) == [i \in s.indices |-> digests[Rank(i, s.indices)]]

\* The decoding half of esys_pcr_provider::read.
Decode ==
    /\ stage = "answered"
    /\ stage' = "returned"
    /\ LET s == to_domain_selection(answer.selections, request.algorithm) IN
       outcome' = IF /\ selection_accepted(answer.selections)
                     /\ values_accepted(answer.digests, s)
                  THEN [ok |-> TRUE, selection |-> s,
                        values |-> to_domain_read_values(answer.digests, s)]
                  ELSE Failure
    /\ UNCHANGED <<request, wire, answer, honest>>

NextRead == Encode \/ TpmReads \/ AnswersOddly \/ Decode

ReadSpec == InitRead /\ [][NextRead]_readVars

-----------------------------------------------------------------------------
(* Properties *)

\* The TPM is asked for exactly the PCRs the caller selected, also for those
\* above 23 that need a fourth byte: to_tpm_selection loses and adds nothing.
NothingLostOnTheWire ==
    stage # "asked" =>
        /\ Selected(wire[1]) = request.indices
        /\ wire[1].sizeofSelect \in pcr_select_min_size..TPM2_PCR_SELECT_MAX

\* What an honest TPM read, all or part of it, is returned, and every value
\* stands beside the PCR it was read from.
ValuesStandByTheirPcr ==
    stage = "returned" /\ honest =>
        /\ outcome.ok
        /\ outcome.selection.algorithm = request.algorithm
        /\ outcome.selection.indices \subseteq request.indices
        /\ Cardinality(outcome.selection.indices) = Len(answer.digests)
        /\ \A i \in outcome.selection.indices : outcome.values[i].of = i

\* Whatever comes back, a result has one value of the right size for each PCR
\* of one selection the library can name, and no other.
AcceptedResultsAreWellFormed ==
    stage = "returned" /\ outcome.ok =>
        /\ outcome.selection \in Selection
        /\ DOMAIN outcome.values = outcome.selection.indices
        /\ Len(answer.digests) = Cardinality(outcome.selection.indices)
        /\ Len(answer.digests) =< MaxListed
        /\ \A i \in DOMAIN outcome.values :
              outcome.values[i].size = DigestSize[outcome.selection.algorithm]
=============================================================================
