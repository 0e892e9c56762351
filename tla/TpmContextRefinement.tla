-------------------------- MODULE TpmContextRefinement --------------------------
(***************************************************************************)
(* TpmContext implements ContextContract.  Callers see a connection only   *)
(* through an object that owns it, and what a finished call left behind;   *)
(* the handles of a call in flight and of a teardown are hidden.           *)
(***************************************************************************)
EXTENDS TpmContext

Connected(a) == esys[a] = "open" /\ tcti[a] = "open"
HalfOpen(a) == esys[a] = "open" \/ tcti[a] \in {"pending", "open"}

PhaseOf(a) ==
    CASE pc[a] = "returned" -> "live"
      [] pc[a] = "teardown" -> "closing"
      [] pc[a] = "failed"   -> "refused"
      [] pc[a] = "gone"     -> "released"
      [] OTHER              -> "new"

\* A call that failed, or a teardown that ended, with a handle open counts as
\* open: the contract allows that in no state.
Contract == INSTANCE ContextContract WITH
    Context <- Attempt,
    owner <- object,
    phase <- [a \in Attempt |-> PhaseOf(a)],
    open <- {a \in Attempt :
               \/ pc[a] = "returned" /\ Connected(a)
               \/ pc[a] \in {"failed", "gone"} /\ HalfOpen(a)}

\* create() is atomic to its callers, and ownership and release of the
\* connection follow the contract, although both take many interleaved steps.
ImplementsContract == Contract!Spec
=============================================================================
