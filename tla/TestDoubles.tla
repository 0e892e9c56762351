------------------------------ MODULE TestDoubles ------------------------------
(***************************************************************************)
(* The doubles of the tests: fake_tcti under ESYS, and mock_pcr_provider,   *)
(* whose operations answer what they were programmed to.  A behaviour uses  *)
(* one of them.                                                            *)
(***************************************************************************)
EXTENDS FakeTcti, FiniteSets

CONSTANTS
    Programmed,   \* results tests give the mock
    MaxActs       \* what a test does with the mock

ASSUME DoublesAssumption == MaxActs \in Nat /\ "backend_error" \notin Programmed

VARIABLES
    using,        \* "tcti" or "mock"
    mock_result,  \* what each operation of the mock returns
    call_count,   \* how often it was called
    acts          \* what the test did, and got

mockVars == <<mock_result, call_count, acts>>
vars == <<using, tctiVars, mockVars>>

Operation == {"allocate", "event", "extend", "read", "reset", "set_auth_policy", "set_auth_value"}

Init ==
    /\ using \in {"tcti", "mock"}
    /\ InitTcti
    /\ mock_result = [op \in Operation |-> "backend_error"]
    /\ call_count = [op \in Operation |-> 0]
    /\ acts = <<>>

Act(what, op, answer) ==
    /\ using = "mock" /\ Len(acts) < MaxActs
    /\ acts' = Append(acts, [what |-> what, op |-> op, answer |-> answer])
    /\ UNCHANGED <<using, tctiVars>>

set_result(op, answer) ==
    /\ Act("program", op, answer)
    /\ mock_result' = [mock_result EXCEPT ![op] = answer]
    /\ UNCHANGED call_count

call(op) ==
    /\ Act("call", op, mock_result[op])
    /\ call_count' = [call_count EXCEPT ![op] = @ + 1]
    /\ UNCHANGED mock_result

\* Forgetting an operation.
clear_call_counts_Fault ==
    /\ Act("clear", "none", "none")
    /\ call_count' = [op \in Operation |-> IF op = "set_auth_value" THEN call_count[op] ELSE 0]
    /\ UNCHANGED mock_result

clear_call_counts ==
    /\ Act("clear", "none", "none")
    /\ call_count' = [op \in Operation |-> 0]
    /\ UNCHANGED mock_result

NextMock ==
    \/ \E op \in Operation : call(op) \/ \E r \in Programmed : set_result(op, r)
    \/ clear_call_counts

Next ==
    \/ using = "tcti" /\ NextTcti /\ UNCHANGED <<using, mockVars>>
    \/ NextMock

Spec == Init /\ [][Next]_vars

-----------------------------------------------------------------------------
(* Properties *)

\* The mock does what its history says: a call returns what was programmed last for
\* that operation, or an error, whatever was programmed for others and however often
\* counts were cleared; a count is that of the calls since.
MockAnswersAsProgrammed ==
    LET about(what, op) == {i \in 1..Len(acts) : acts[i].what = what /\ acts[i].op = op}
        cleared == {0} \cup about("clear", "none")
    IN
    /\ \A op \in Operation :
          call_count[op] = Cardinality({i \in about("call", op) : \A c \in cleared : c < i})
    /\ \A op \in Operation : \A i \in about("call", op) :
          LET before == {p \in about("program", op) : p < i} IN
          acts[i].answer = IF before = {} THEN "backend_error"
                           ELSE acts[CHOOSE p \in before : \A q \in before : q =< p].answer
=============================================================================
