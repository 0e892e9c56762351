---------------------------- MODULE MCSecretBuffer ----------------------------
(* Instances of SecretBuffer for TLC: two blocks on one page, and one block on two
   pages of its own. *)
EXTENDS SecretBuffer, TLC

CONSTANTS s1, s2, s3, p1, p2, p3

MCPagesOf == s1 :> {p1} @@ s2 :> {p1} @@ s3 :> {p2, p3}

Symmetry ==
    Permutations(Threads) \cup Permutations(Buffers) \cup Permutations(Impls)
    \cup Permutations({s1, s2})
=============================================================================
