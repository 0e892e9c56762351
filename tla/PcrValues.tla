------------------------------- MODULE PcrValues -------------------------------
(***************************************************************************)
(* What a caller can make of numbers and bytes - indices, ranges of them,  *)
(* banks, digests, selections - and how digests and algorithms pass to the *)
(* TPM's structures and back, in builds with and without legacy SHA-1.     *)
(* Unsigned integers have WordSize values.                                 *)
(***************************************************************************)
EXTENDS Naturals, Sequences, SequencesExt

CONSTANTS
    WordSize,   \* 2^32
    GivenValues \* what callers hand over

max_index == 31   \* pcr::index::max_value
Word == 0..WordSize - 1

hash_algorithm == {"sha1", "sha256", "sha384", "sha512"}
Unsupported == "unsupported"   \* an enumerator out of range
TPM2_ALG_ERROR == <<"TPM2_ALG", "ERROR">>

\* A request is for an index ("index"), a range ("range"), a bank, a digest or a
\* selection of an algorithm ("bank", "digest", "selection"), or to send digests
\* and get them back ("digests").
Task == {"index", "range", "bank", "digest", "selection", "digests"}

ASSUME ValueAssumption ==
    /\ WordSize \in Nat /\ WordSize > 256
    /\ \A g \in GivenValues :
          /\ g.task \in Task
          /\ g.first \in Word /\ g.count \in Word
          /\ g.algorithm \in hash_algorithm \cup {Unsupported}
          /\ g.digests \in Seq([algorithm : hash_algorithm, bytes : Nat])
          /\ g.legacy \in BOOLEAN

VARIABLES asked, value   \* the request, and the value made of it
valueVars == <<asked, value>>

Unmade == [done |-> FALSE, ok |-> FALSE, indices |-> {}, digests |-> <<>>]
Thrown == [Unmade EXCEPT !.done = TRUE]
Fine == [Thrown EXCEPT !.ok = TRUE]

InitValue == asked \in GivenValues /\ value = Unmade

Ask(task, result) ==
    /\ asked.task = task /\ ~value.done
    /\ value' = result
    /\ UNCHANGED asked

-----------------------------------------------------------------------------
(* Indices.  A definition named ..._Fault is the one after it with a mistake a
   programmer could make; the checks are run against it too, to see that they
   notice. *)

\* Refusing a range that ends at the last index.
range_accepted_Fault(first, count) ==
    count = 0 \/ (first =< max_index /\ count =< (max_index - first) % WordSize)

range_accepted(first, count) ==
    count = 0 \/ (first =< max_index /\ count =< (max_index + 1 - first) % WordSize)

index_accepted(v) == v =< max_index

MakeIndex ==
    Ask("index", IF index_accepted(asked.first)
                 THEN [Fine EXCEPT !.indices = {asked.first % 256}] ELSE Thrown)

\* Each index of the range is checked again when it is made.
make_index_range ==
    LET made == {(asked.first + offset) % WordSize : offset \in 0..asked.count - 1}
    IN  Ask("range", IF /\ range_accepted(asked.first, asked.count)
                        /\ \A v \in made : index_accepted(v)
                     THEN [Fine EXCEPT !.indices = made] ELSE Thrown)

-----------------------------------------------------------------------------
(* Algorithms; 0 stands for a digest_size that throws *)

\* Leaving the build option out.
digest_size_Fault(a, legacy) ==
    CASE a = "sha1" -> 20
      [] a = "sha256" -> 32
      [] a = "sha384" -> 48
      [] a = "sha512" -> 64
      [] OTHER -> 0

digest_size(a, legacy) ==
    CASE a = "sha1" /\ legacy -> 20
      [] a = "sha256" -> 32
      [] a = "sha384" -> 48
      [] a = "sha512" -> 64
      [] OTHER -> 0

tpm_alg(a) == <<"TPM2_ALG", a>>

algorithm_to_tpm(a, legacy) ==
    IF a = Unsupported \/ (a = "sha1" /\ ~legacy) THEN TPM2_ALG_ERROR ELSE tpm_alg(a)

\* The algorithm with that identifier; "unsupported" stands for an error.
algorithm_from_tpm(alg, legacy) ==
    LET known == {a \in hash_algorithm : alg = tpm_alg(a) /\ (a = "sha1" => legacy)}
    IN  IF known = {} THEN Unsupported ELSE CHOOSE a \in known : TRUE

is_supported_algorithm(a, legacy) == algorithm_to_tpm(a, legacy) # TPM2_ALG_ERROR

\* The constructors of banks and selections only want the algorithm to have a size.
MakeBank == Ask("bank", IF digest_size(asked.algorithm, asked.legacy) > 0 THEN Fine ELSE Thrown)

MakeSelection ==
    Ask("selection", IF digest_size(asked.algorithm, asked.legacy) > 0 THEN Fine ELSE Thrown)

\* A digest of asked.count bytes.
digest_accepted(a, size, legacy) ==
    LET expected == digest_size(a, legacy) IN expected > 0 /\ size = expected

MakeDigest ==
    Ask("digest", IF digest_accepted(asked.algorithm, asked.count, asked.legacy)
                  THEN Fine ELSE Thrown)

-----------------------------------------------------------------------------
(* Digests to the TPM and back *)

\* A digest in a TPMT_HA: its bytes are in the member of the union for its algorithm.
to_tpm_digest_values(digests, legacy) ==
    [i \in 1..Len(digests) |->
        [hashAlg |-> algorithm_to_tpm(digests[i].algorithm, legacy),
         member |-> digests[i].algorithm, bytes |-> digests[i].bytes]]

skipped(d, legacy) == d.hashAlg = tpm_alg("sha1") /\ ~legacy

kept_digests(list, legacy) ==
    LET kept[i \in 0..Len(list)] ==
            IF i = 0 THEN <<>>
            ELSE IF skipped(list[i], legacy) THEN kept[i - 1] ELSE Append(kept[i - 1], list[i])
    IN  kept[Len(list)]

\* Digests of SHA-1 are skipped where it is disabled, of an unknown algorithm they
\* are an error; the others have the bytes in the member for their algorithm.
to_domain_digests(list, legacy) ==
    LET kept == kept_digests(list, legacy)
        from(d) == algorithm_from_tpm(d.hashAlg, legacy)
    IN  IF \E i \in 1..Len(kept) : from(kept[i]) = Unsupported THEN Thrown
        ELSE [Fine EXCEPT !.digests =
                [i \in 1..Len(kept) |->
                    [algorithm |-> from(kept[i]),
                     bytes |-> IF from(kept[i]) = kept[i].member THEN kept[i].bytes ELSE 0]]]

\* The TPM answers with the digests it got, perhaps after one of its SHA-1 bank.
SendDigests ==
    LET sent == to_tpm_digest_values(asked.digests, asked.legacy)
        sha1 == [hashAlg |-> tpm_alg("sha1"), member |-> "sha1", bytes |-> 0]
    IN  \E extra \in {<<>>, <<sha1>>} :
            Ask("digests", to_domain_digests(extra \o sent, asked.legacy))

NextValue ==
    MakeIndex \/ make_index_range \/ MakeBank \/ MakeSelection \/ MakeDigest \/ SendDigests

-----------------------------------------------------------------------------
(* Properties *)

\* Ranges are exact where unsigned arithmetic ends: a range is made if and only if
\* all of its indices exist, and has those and no other, whatever the width of the
\* words; so is a single index.
RangesAreExact ==
    /\ value.done /\ asked.task = "range" =>
          LET wanted == {asked.first + offset : offset \in 0..asked.count - 1} IN
          /\ value.ok <=> wanted \subseteq 0..max_index
          /\ value.ok => value.indices = wanted
    /\ value.done /\ asked.task = "index" =>
          /\ value.ok <=> asked.first \in 0..max_index
          /\ value.ok => value.indices = {asked.first}

\* In either build the value types and the marshalling know the same algorithms:
\* what can be made can be sent and comes back as itself, in order, and no digest
\* the marshalling lets through has a size that throws.
AlgorithmsAgree ==
    LET legacy == asked.legacy
        survives(a) == algorithm_from_tpm(algorithm_to_tpm(a, legacy), legacy) = a
        makeable == \A i \in 1..Len(asked.digests) :
                        digest_size(asked.digests[i].algorithm, legacy) > 0
    IN
    /\ value.done /\ asked.task \in {"bank", "selection"} =>
          (value.ok <=> asked.algorithm \in hash_algorithm /\ survives(asked.algorithm))
    /\ value.done /\ asked.task = "digest" /\ value.ok =>
          is_supported_algorithm(asked.algorithm, legacy)
    /\ value.done /\ asked.task = "digests" /\ makeable =>
          /\ value.ok
          /\ IsSuffix(asked.digests, value.digests)
          /\ Len(value.digests) > Len(asked.digests) => legacy
    /\ value.done /\ asked.task = "digests" =>
          \A i \in 1..Len(value.digests) : digest_size(value.digests[i].algorithm, legacy) > 0
=============================================================================
