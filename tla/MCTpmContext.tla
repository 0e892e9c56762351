----------------------------- MODULE MCTpmContext -----------------------------
(* Instances of TpmContextRefinement for TLC. *)
EXTENDS TpmContextRefinement

Str(config, mode) == [kind |-> "string", config |-> config, mode |-> mode]
Own(config, mode) == [kind |-> "owned", config |-> config, mode |-> mode]

\* Every way a request can be refused, and one request per way of starting.
LifecycleRequests ==
    {Str("malformed", "clear"), Str("named", "clear"), Str("named", "skip"),
     Str("named", "invalid"), Own("null_handle", "clear"),
     Own("null_deleter", "clear"), Own("valid", "state"), Own("valid", "invalid")}

DeleterRequests == {Own(c, m) : c \in {"null_handle", "null_deleter", "valid"},
                                m \in {"clear", "invalid"}}
=============================================================================
