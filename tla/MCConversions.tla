----------------------------- MODULE MCConversions -----------------------------
(* Inputs of the conversions for TLC. *)
EXTENDS Conversions

-----------------------------------------------------------------------------
(* Reads: every selection of up to two PCRs, and full bytes. *)

Sizes == [a \in {"sha256", "sha384"} |-> IF a = "sha256" THEN 32 ELSE 48]

Selections ==
    [algorithm : {"sha256"},
     indices : {{i, j} : i, j \in Index} \cup {{}, 0..7, 20..29, 24..31}]

Bitmap(hash, size, indices) ==
    [hash |-> hash, sizeofSelect |-> size, pcrSelect |-> bitmap(indices)]
Digests(size, pcrs) == [k \in 1..Len(pcrs) |-> [size |-> size, of |-> pcrs[k]]]

OddAnswers ==
    [selections : {<<>>,
                   <<Bitmap("sha256", 3, {0, 31})>>, <<Bitmap("sha256", 3, 0..8)>>,
                   <<Bitmap("sha256", 5, {0})>>,
                   <<Bitmap("sha384", 4, {0, 31})>>, <<Bitmap("sm3", 3, {0})>>,
                   <<Bitmap("sha256", 3, {0}), Bitmap("sha384", 3, {0})>>},
     digests : {<<>>, Digests(32, <<0>>), Digests(48, <<0>>), Digests(32, <<0, 31>>),
                Digests(48, <<0, 31>>), Digests(0, <<0>>),
                Digests(32, [k \in 1..9 |-> k])}]

-----------------------------------------------------------------------------
(* Error codes: every twelve-bit code of the layers met - TPM, ESAPI, SYS, MU, TCTI,
   resource managers - and some no layer should return. *)

AllCodes ==
    {65536 * layer + base : layer \in {0, 7, 8, 9, 10, 11, 12}, base \in 0..4095}
    \cup {4096 + 141, 32768 + 162, 65536 * 7 + 4096 + 11, 16777216, 65536 * 255 + 11}

-----------------------------------------------------------------------------
(* Values: every byte as an index, ranges around the limits and where words wrap,
   digests of every algorithm and size near those of algorithms. *)

Edges == 0..40 \cup 250..260 \cup 470..511
NoneGiven == [task |-> "index", first |-> 0, count |-> 0, algorithm |-> Unsupported,
              digests |-> <<>>, legacy |-> FALSE]
DigestLists == BoundedSeq([algorithm : hash_algorithm, bytes : 1..2], 2)

Values ==
    {[NoneGiven EXCEPT !.first = v] : v \in Word}
    \cup {[NoneGiven EXCEPT !.task = "range", !.first = f, !.count = c] : f, c \in Edges}
    \cup {[NoneGiven EXCEPT !.task = t, !.algorithm = a, !.legacy = l, !.count = n] :
            t \in {"bank", "selection", "digest"}, a \in hash_algorithm \cup {Unsupported},
            l \in BOOLEAN, n \in {0, 19, 20, 21, 32, 48, 64, 65}}
    \cup {[NoneGiven EXCEPT !.task = "digests", !.digests = d, !.legacy = l] :
            d \in DigestLists, l \in BOOLEAN}

-----------------------------------------------------------------------------
(* Texts: characters from both sides of every border the conversions draw. *)

Around == {0, 47, 48, 57, 58, 64, 65, 70, 71, 96, 97, 102, 103, 255}
Escapable == {0, 9, 10, 13, 31, SPACE, QUOTE, EQUALS, BACKSLASH, 48, 110, 120, 126, 127}

\* A name the log knows is one character.
Known == {<<109>>}

Given1(task, texts) == {[task |-> task, texts |-> <<t>>] : t \in texts}

TextsGiven ==
    Given1("bytes", BoundedSeq({0, 9, 10, 15, 16, 159, 160, 171, 255}, 3))
    \cup Given1("hex", BoundedSeq(Around, 3))
    \cup Given1("hex", [1..4 -> {48, 57, 64, 70, 102}])
    \cup Given1("fields", BoundedSeq(Escapable, 3))
    \cup {[task |-> "fields", texts |-> <<a, b>>] : a, b \in BoundedSeq({10, SPACE, QUOTE, EQUALS, BACKSLASH, 120}, 2)}
    \cup Given1("description", BoundedSeq({0, 31, 32, QUOTE, BACKSLASH, 126, 127}, 4))
    \cup {[task |-> "config", texts |-> <<t>>, startup |-> mode] :
            t \in BoundedSeq({10, SPACE, COLON, 109, 120}, 5), mode \in {"clear", "skip", "99"}}
=============================================================================
