----------------------------- MODULE MCPcrProvider -----------------------------
(* Small instances of PcrProvider for TLC. *)
EXTENDS PcrProvider, TLC

Extend(i, banks) == [op |-> "extend", index |-> i, banks |-> banks]
Event(i, size) == [op |-> "event", index |-> i, size |-> size]
Reset(i) == [op |-> "reset", index |-> i]
Read(bank, indices) == [op |-> "read", bank |-> bank, indices |-> indices]
Allocate(banks) == [op |-> "allocate", banks |-> banks]
SetAuth(i, auth) == [op |-> "set_auth_value", index |-> i, auth |-> auth]
SetPolicy(i, size) == [op |-> "set_auth_policy", index |-> i, size |-> size]

\* Two threads measuring into one PCR.
MeasureRequests ==
    {Extend(0, <<"sha256", "sha384">>), Extend(0, <<"sha256", "sha256">>),
     Event(0, "fits"), Reset(0)}
MeasuredBanks == {{"sha1", "sha256"}, {"sha256", "sm3"}}

\* Reads that do not fit one reply, while the PCRs change.
ReadRequests ==
    {Read("sha256", {0, 1, 2}), Read("sha256", {2}), Read("sha384", {0}),
     Read("sha256", {}), Extend(1, <<"sha256">>), Reset(2)}

\* Authorizations, and requests of every other kind.
AuthRequests ==
    {SetAuth(i, a) : i \in Index, a \in {"empty", "secret", "too_large"}}
    \cup {SetPolicy(0, s) : s \in {"exact", "wrong"}}
    \cup {Extend(0, <<"sha256">>), Event(0, "fits"), Reset(0), Read("sha256", {0}),
          Allocate(<<"sha256", "sha256">>), Allocate(<<"sha384">>)}
AuthBanks == {{"sha256"}}

\* Measurements with banks the build cannot decode, or leaves out.
EventRequests == {Event(0, "fits"), Extend(0, <<"sha256">>)}
UndecodableBanks == {{"sha256", "sm3"}}
LegacyBanks == {{"sha1", "sha256"}}

Symmetry == Permutations(User)
=============================================================================
