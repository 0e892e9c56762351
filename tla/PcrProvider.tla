------------------------------ MODULE PcrProvider ------------------------------
(***************************************************************************)
(* PCR operations of esys_pcr_provider over one TPM.  An operation checks  *)
(* its arguments, hands one command to ESYS, and decodes the answer; event *)
(* and extend then tell the observer.  Providers belong to threads of      *)
(* their own; the TPM also serves other software, loses answers, and       *)
(* restarts.                                                               *)
(*                                                                         *)
(* A PCR value is a hash chain, so it is modelled by what went into it:    *)
(* the positions, in the TPM's history, of the updates folded into it.     *)
(***************************************************************************)
EXTENDS Naturals, Sequences, FiniteSets

CONSTANTS
    User,        \* provider objects, each used by one thread at a time
    Detached,    \* those built over a null ESYS context
    Watched,     \* those that were given an observer
    Index,       \* PCR indices
    Bank,        \* hash algorithms of the TPM
    Allocation,  \* the sets of active banks it may start with
    Supported,   \* those this build of the library can represent
    Skipped,     \* SHA-1 when legacy_sha1_pcr_enabled is off, else nothing
    Request,     \* the calls users make
    RcCategory,  \* error categories of the response codes met
    Fault,       \* what may go wrong with an answer; foreign authorizations
    MaxDigests,  \* digests one PCR_Read can return (TPML_DIGEST holds 8)
    MaxBanks,    \* TPM2_NUM_PCR_BANKS
    MaxUpdates,  \* bound on the length of the history
    Nobody       \* stands for no request, and for software outside the library

Category == {"input_error", "security_failure", "resource_error", "backend_error"}

Op == {"allocate", "event", "extend", "read", "reset", "set_auth_policy", "set_auth_value"}

ASSUME ProviderAssumption ==
    /\ Detached \subseteq User /\ Watched \subseteq User
    /\ Index \subseteq Nat /\ IsFiniteSet(Index)
    /\ Allocation \subseteq SUBSET Bank
    /\ Supported \subseteq Bank /\ Skipped \subseteq Bank
    /\ Supported \cap Skipped = {}
    /\ RcCategory \subseteq Category
    /\ Fault \subseteq {"lost", "null", "malformed", "foreign"}
    /\ MaxDigests \in Nat \ {0} /\ MaxBanks \in Nat /\ MaxUpdates \in Nat
    /\ Nobody \notin User \cup Request
    /\ \A r \in Request :
        /\ r.op \in Op
        /\ r.op \in {"allocate", "extend"} => r.banks \in Seq(Supported)
        /\ r.op = "read" => r.bank \in Supported /\ r.indices \in SUBSET Index
        /\ r.op \notin {"allocate", "read"} => r.index \in Index
        /\ r.op = "event" => r.size \in {"fits", "too_large"}
        /\ r.op = "set_auth_policy" => r.size \in {"exact", "wrong"}
        /\ r.op = "set_auth_value" => r.auth \in {"empty", "secret", "too_large"}

VARIABLES
    pc,        \* where the call of each user is
    call,      \* its request; Nobody before the first
    reply,     \* what the ESYS call returned, while the provider decodes it
    result,    \* the outcome handed to the caller
    applied,   \* positions of the updates the TPM made for the call
    since,     \* length of the history when a read began
    observed,  \* the records each observer was given
    logged,    \* the audit records of a user's last call
    reported,  \* positions of a user's updates whose call returned an error
    esysAuth,  \* authorization each ESYS context holds for a PCR handle
    tpmAuth,   \* authorization the TPM wants for a PCR
    active,    \* PCR banks in use
    pending,   \* PCR banks in use after the next restart
    history    \* every update of a PCR, and every restart

tpmVars == <<tpmAuth, active, pending, history>>
vars == <<pc, call, reply, result, applied, since, observed, logged, reported, esysAuth,
          tpmVars>>

Position == 1..MaxUpdates

Pc == {"idle", "set_current_auth", "sent", "replied", "observe", "update_auth"}

Update == [by : User \cup {Nobody}, kind : {"extend", "event", "reset", "restart"},
           index : Index, banks : SUBSET Bank]

Outcome == [status : Category \cup {"none", "ok"}, digests : SUBSET Bank,
            values : UNION {[s -> SUBSET Position] : s \in SUBSET Index},
            counter : 0..MaxUpdates]

Reply == [rc : Category \cup {"none", "ok"}, data : {"whole", "null", "malformed"},
          digests : SUBSET Bank, indices : SUBSET Index,
          values : Seq(SUBSET Position), counter : 0..MaxUpdates]

Record == [at : Position, kind : {"extend", "event"}, index : Index, banks : SUBSET Bank]

NoReply == [rc |-> "none", data |-> "whole", digests |-> {}, indices |-> {},
            values |-> <<>>, counter |-> 0]
NoOutcome == [status |-> "none", digests |-> {}, values |-> [i \in {} |-> {}], counter |-> 0]

TypeOK ==
    /\ pc \in [User -> Pc]
    /\ call \in [User -> Request \cup {Nobody}]
    /\ reply \in [User -> Reply]
    /\ result \in [User -> Outcome]
    /\ applied \in [User -> SUBSET Position]
    /\ since \in [User -> 0..MaxUpdates]
    /\ observed \in [User -> Seq(Record)]
    /\ \A u \in User : \A k \in 1..Len(logged[u]) : logged[u][k].level \in {"info", "error"}
    /\ reported \in [User -> SUBSET Position]
    /\ esysAuth \in [User -> [Index -> {"empty", "secret", "foreign"}]]
    /\ tpmAuth \in [Index -> {"empty", "secret", "foreign"}]
    /\ active \in SUBSET Bank
    /\ pending \in SUBSET Bank
    /\ history \in Seq(Update)
    /\ Len(history) =< MaxUpdates

Init ==
    /\ pc = [u \in User |-> "idle"]
    /\ call = [u \in User |-> Nobody]
    /\ reply = [u \in User |-> NoReply]
    /\ result = [u \in User |-> NoOutcome]
    /\ applied = [u \in User |-> {}]
    /\ since = [u \in User |-> 0]
    /\ observed = [u \in User |-> <<>>]
    /\ logged = [u \in User |-> <<>>]
    /\ reported = [u \in User |-> {}]
    /\ esysAuth = [u \in User |-> [i \in Index |-> "empty"]]
    /\ tpmAuth \in [Index -> {"empty"} \cup (Fault \cap {"foreign"})]
    /\ active \in Allocation
    /\ pending = active
    /\ history = <<>>

-----------------------------------------------------------------------------
(* Values and counters, read off the history *)

Wipes(p, i) ==
    history[p].kind = "restart" \/ (history[p].kind = "reset" /\ history[p].index = i)

\* The value PCR i of bank b had when the history was n long.
ValueAt(b, i, n) ==
    {p \in 1..n :
        /\ history[p].kind \in {"extend", "event"}
        /\ history[p].index = i /\ b \in history[p].banks
        /\ \A q \in p..n : ~ Wipes(q, i)}

\* pcrUpdateCounter at that time: updates since the last restart.
CounterAt(n) ==
    Cardinality({p \in 1..n : /\ history[p].banks # {}
                              /\ \A q \in p..n : history[q].kind # "restart"})

-----------------------------------------------------------------------------
(* Argument checks.  A definition named ..._Fault is the one after it with a
   mistake a programmer could make; the checks are run against it too, to see
   that they notice. *)

ensure_esys_available(u) == u \notin Detached

\* ensure_bank_count and ensure_digest_count: some, not too many, no duplicate.
ensure_count(banks) ==
    /\ banks # <<>>
    /\ Len(banks) =< MaxBanks
    /\ \A j, k \in 1..Len(banks) : banks[j] = banks[k] => j = k

ensure_event_size(size) == size = "fits"
ensure_policy_digest_size(size) == size = "exact"
ensure_sized_buffer_fits(auth) == auth # "too_large"
AnyAuth_Fault(auth) == TRUE
ensure_secure_auth_value_transport(auth) == auth = "empty"

-----------------------------------------------------------------------------
(* Records.  An event is named by its operation; of the fields, those are kept
   that tell one outcome from another. *)

emit_outcome_record(u, level, event, fields) ==
    logged' = [logged EXCEPT ![u] = Append(@, [level |-> level, event |-> event,
                                               fields |-> fields])]

\* log_..._completed of the operation, with what the call was handed and returned.
log_completed(u, outcome) ==
    LET r == call[u] IN
    emit_outcome_record(u, "info", r.op,
        CASE r.op = "allocate" -> [bank_count |-> Len(r.banks)]
          [] r.op = "event" -> [bank_count |-> Cardinality(outcome.digests), pcr_index |-> r.index]
          [] r.op = "extend" -> [bank_count |-> Len(r.banks), pcr_index |-> r.index]
          [] r.op = "read" -> [bank |-> r.bank, pcr_count |-> Cardinality(DOMAIN outcome.values)]
          [] r.op \in {"reset", "set_auth_policy", "set_auth_value"} -> [pcr_index |-> r.index])

log_tss_error(u, category) ==
    emit_outcome_record(u, "error", "tss_error", [error_category |-> category])

-----------------------------------------------------------------------------
(* Helpers *)

\* A call that ends before anything was sent.
Refuse(u, r, category) ==
    /\ call' = [call EXCEPT ![u] = r]
    /\ result' = [result EXCEPT ![u] = [NoOutcome EXCEPT !.status = category]]
    /\ applied' = [applied EXCEPT ![u] = {}]
    /\ UNCHANGED <<pc, since>>

Dispatch(u, r, to) ==
    /\ pc' = [pc EXCEPT ![u] = to]
    /\ call' = [call EXCEPT ![u] = r]
    /\ result' = [result EXCEPT ![u] = NoOutcome]
    /\ applied' = [applied EXCEPT ![u] = {}]
    /\ since' = [since EXCEPT ![u] = IF r.op = "read" THEN Len(history) ELSE 0]

\* Every operation starts the same way: a null ESYS context is resource_error,
\* then an argument check may refuse, and otherwise a command leaves.
Begin(u, r, valid, category, to) ==
    /\ pc[u] = "idle"
    /\ \/ ~ ensure_esys_available(u) /\ Refuse(u, r, "resource_error")
       \/ ensure_esys_available(u) /\ ~ valid /\ Refuse(u, r, category)
       \/ ensure_esys_available(u) /\ valid /\ Dispatch(u, r, to)
    /\ logged' = [logged EXCEPT ![u] = <<>>]
    /\ UNCHANGED <<reply, observed, reported, esysAuth, tpmVars>>

\* The operation returns: response buffers are freed with the locals.
Return(u, outcome) ==
    /\ pc' = [pc EXCEPT ![u] = "idle"]
    /\ result' = [result EXCEPT ![u] = outcome]
    /\ reply' = [reply EXCEPT ![u] = NoReply]
    /\ reported' = [reported EXCEPT ![u] =
                       IF outcome.status = "ok" THEN @ ELSE @ \cup applied[u]]

Complete(u, outcome) == Return(u, outcome) /\ log_completed(u, outcome)

\* An answer that cannot be used: nothing is logged.
ReturnError(u, category) == Return(u, [NoOutcome EXCEPT !.status = category]) /\ UNCHANGED logged

\* ... without a word in the log, as with a null logger.
ReturnTssError_Fault(u, category) == ReturnError(u, category)

\* translate_tss_rc: the code is logged and its category returned.
ReturnTssError(u, category) ==
    /\ Return(u, [NoOutcome EXCEPT !.status = category])
    /\ log_tss_error(u, category)

Answered(u, op) == pc[u] = "replied" /\ call[u].op = op

\* ... sending the command again.
AnsweredError_Fault(u) ==
    /\ reply[u].rc # "ok"
    /\ pc' = [pc EXCEPT ![u] = "sent"]
    /\ UNCHANGED <<reply, result, reported, logged>>

AnsweredError(u) == reply[u].rc # "ok" /\ ReturnTssError(u, reply[u].rc)

-----------------------------------------------------------------------------
(* The operations, up to the ESYS call *)

allocate(u, r) ==
    r.op = "allocate" /\ Begin(u, r, ensure_count(r.banks), "input_error", "sent")

event(u, r) ==
    r.op = "event" /\ Begin(u, r, ensure_event_size(r.size), "input_error", "sent")

extend(u, r) ==
    r.op = "extend" /\ Begin(u, r, ensure_count(r.banks), "input_error", "sent")

read(u, r) == r.op = "read" /\ Begin(u, r, TRUE, "input_error", "sent")

reset(u, r) == r.op = "reset" /\ Begin(u, r, TRUE, "input_error", "sent")

set_auth_policy(u, r) ==
    /\ r.op = "set_auth_policy"
    /\ Begin(u, r, ensure_policy_digest_size(r.size), "input_error", "sent")

set_auth_value(u, r) ==
    /\ r.op = "set_auth_value"
    /\ Begin(u, r,
             ensure_sized_buffer_fits(r.auth) /\ ensure_secure_auth_value_transport(r.auth),
             IF ensure_sized_buffer_fits(r.auth) THEN "resource_error" ELSE "input_error",
             "set_current_auth")

-----------------------------------------------------------------------------
(* ... and after it *)

FinishAllocate(u) ==
    /\ Answered(u, "allocate")
    /\ \/ AnsweredError(u)
       \/ reply[u].rc = "ok" /\ Complete(u, [NoOutcome EXCEPT !.status = "ok"])
    /\ UNCHANGED <<call, applied, since, observed, esysAuth, tpmVars>>

AllDigests_Fault(digests) == digests
\* What to_domain_digests can decode, and what it decodes to.
decodable(digests) == digests \subseteq Supported \cup Skipped
to_domain_digests(digests) == digests \ Skipped

FinishEvent(u) ==
    /\ Answered(u, "event")
    /\ LET whole == reply[u].data = "whole" /\ decodable(reply[u].digests) IN
       \/ AnsweredError(u)
       \/ reply[u].rc = "ok" /\ ~ whole /\ ReturnError(u, "backend_error")
       \/ /\ reply[u].rc = "ok" /\ whole
          /\ pc' = [pc EXCEPT ![u] = "observe"]
          /\ result' = [result EXCEPT ![u].digests = to_domain_digests(reply[u].digests)]
          /\ log_completed(u, result'[u])
          /\ UNCHANGED <<reply, reported>>
    /\ UNCHANGED <<call, applied, since, observed, esysAuth, tpmVars>>

\* ... without the observer.
SilentExtend_Fault(u) ==
    /\ Answered(u, "extend")
    /\ \/ AnsweredError(u)
       \/ reply[u].rc = "ok" /\ Complete(u, [NoOutcome EXCEPT !.status = "ok"])
    /\ UNCHANGED <<call, applied, since, observed, esysAuth, tpmVars>>

FinishExtend(u) ==
    /\ Answered(u, "extend")
    /\ \/ AnsweredError(u)
       \/ /\ reply[u].rc = "ok"
          /\ pc' = [pc EXCEPT ![u] = "observe"]
          /\ log_completed(u, result[u])
          /\ UNCHANGED <<reply, result, reported>>
    /\ UNCHANGED <<call, applied, since, observed, esysAuth, tpmVars>>

\* The banks the observer is told: those supplied to extend, those decoded
\* from the answer to event.
ToldBanks(u) ==
    IF call[u].op = "extend"
    THEN {call[u].banks[k] : k \in 1..Len(call[u].banks)}
    ELSE result[u].digests

\* The position of the update is carried in the record so that it can be
\* compared with the TPM's history.
UpdateOf(u) == IF applied[u] = {} THEN 0 ELSE CHOOSE p \in applied[u] : TRUE

\* make_event_record and make_extend_record.
make_record(u) ==
    [at |-> UpdateOf(u), kind |-> call[u].op, index |-> call[u].index, banks |-> ToldBanks(u)]

\* on_event or on_extend of an observer in memory.
TellObserver(u) == observed' = [observed EXCEPT ![u] = Append(@, make_record(u))]

\* The rest of event and extend, once they have logged.
Observe(u) ==
    /\ pc[u] = "observe"
    /\ IF u \in Watched THEN TellObserver(u) ELSE UNCHANGED observed
    /\ Return(u, [result[u] EXCEPT !.status = "ok"])
    /\ UNCHANGED <<call, applied, since, logged, esysAuth, tpmVars>>

\* ... in descending order.
ReversedValues_Fault(values, indices) ==
    [i \in indices |-> values[Cardinality({j \in indices : j >= i})]]

\* to_domain_read_values: the digests belong to the selected indices in
\* ascending order.
to_domain_read_values(values, indices) ==
    [i \in indices |-> values[Cardinality({j \in indices : j =< i})]]

FinishRead(u) ==
    /\ Answered(u, "read")
    /\ LET whole == /\ reply[u].data = "whole"
                    /\ Len(reply[u].values) = Cardinality(reply[u].indices) IN
       \/ AnsweredError(u)
       \/ reply[u].rc = "ok" /\ ~ whole /\ ReturnError(u, "backend_error")
       \/ /\ reply[u].rc = "ok" /\ whole
          /\ Complete(u, [status |-> "ok", digests |-> {}, counter |-> reply[u].counter,
                          values |-> to_domain_read_values(reply[u].values, reply[u].indices)])
    /\ UNCHANGED <<call, applied, since, observed, esysAuth, tpmVars>>

FinishReset(u) ==
    /\ Answered(u, "reset")
    /\ \/ AnsweredError(u)
       \/ reply[u].rc = "ok" /\ Complete(u, [NoOutcome EXCEPT !.status = "ok"])
    /\ UNCHANGED <<call, applied, since, observed, esysAuth, tpmVars>>

FinishSetAuthPolicy(u) ==
    /\ Answered(u, "set_auth_policy")
    /\ \/ AnsweredError(u)
       \/ reply[u].rc = "ok" /\ Complete(u, [NoOutcome EXCEPT !.status = "ok"])
    /\ UNCHANGED <<call, applied, since, observed, esysAuth, tpmVars>>

\* Esys_TR_SetAuth before the command: the empty authorization is assumed to
\* be the current one.
SetCurrentAuth(u) ==
    /\ pc[u] = "set_current_auth"
    /\ \/ /\ pc' = [pc EXCEPT ![u] = "sent"]
          /\ esysAuth' = [esysAuth EXCEPT ![u][call[u].index] = "empty"]
          /\ UNCHANGED <<reply, result, reported, logged>>
       \/ /\ \E c \in RcCategory : ReturnTssError(u, c)
          /\ UNCHANGED esysAuth
    /\ UNCHANGED <<call, applied, since, observed, tpmVars>>

FinishSetAuthValue(u) ==
    /\ Answered(u, "set_auth_value")
    /\ \/ AnsweredError(u)
       \/ /\ reply[u].rc = "ok"
          /\ pc' = [pc EXCEPT ![u] = "update_auth"]
          /\ UNCHANGED <<reply, result, reported, logged>>
    /\ UNCHANGED <<call, applied, since, observed, esysAuth, tpmVars>>

\* Esys_TR_SetAuth after it: an error here is returned although the TPM has
\* made the change.
UpdateAuth(u) ==
    /\ pc[u] = "update_auth"
    /\ \/ /\ esysAuth' = [esysAuth EXCEPT ![u][call[u].index] = "empty"]
          /\ Complete(u, [NoOutcome EXCEPT !.status = "ok"])
       \/ /\ \E c \in RcCategory : ReturnTssError(u, c)
          /\ UNCHANGED esysAuth
    /\ UNCHANGED <<call, applied, since, observed, tpmVars>>

-----------------------------------------------------------------------------
(* The TPM, ESYS and the transport between them *)

\* ESYS returns rep for the command user u sent.
Answer(u, rep) ==
    /\ pc' = [pc EXCEPT ![u] = "replied"]
    /\ reply' = [reply EXCEPT ![u] = rep]
    /\ UNCHANGED <<call, result, since, observed, logged, reported, esysAuth>>

\* What can come back for a command the TPM ran: its answer, whole or with
\* outputs missing or malformed, or an error because the answer was lost.
Delivered(rep) ==
    {[rep EXCEPT !.rc = "ok", !.data = d] : d \in {"whole"} \cup (Fault \cap {"null", "malformed"})}
    \cup {[NoReply EXCEPT !.rc = c] : c \in IF "lost" \in Fault THEN RcCategory ELSE {}}

Sent(u, op) == pc[u] = "sent" /\ call[u].op = op

Authorized(u) == esysAuth[u][call[u].index] = tpmAuth[call[u].index]

\* The update is made and remembered; digests is what PCR_Event reports.
Updates(u, kind, banks, digests) ==
    /\ Authorized(u)
    /\ Len(history) < MaxUpdates
    /\ history' = Append(history, [by |-> u, kind |-> kind, index |-> call[u].index,
                                   banks |-> banks])
    /\ applied' = [applied EXCEPT ![u] = @ \cup {Len(history) + 1}]
    /\ \E rep \in Delivered([NoReply EXCEPT !.digests = digests]) : Answer(u, rep)
    /\ UNCHANGED <<tpmAuth, active, pending>>

\* PCR_Extend ignores digests for banks that are not in use.
TpmExtends(u) ==
    /\ Sent(u, "extend")
    /\ Updates(u, "extend", active \cap {call[u].banks[k] : k \in 1..Len(call[u].banks)}, {})

TpmRunsEvent(u) == Sent(u, "event") /\ Updates(u, "event", active, active)

TpmResetsPcr(u) == Sent(u, "reset") /\ Updates(u, "reset", active, {})

\* PCR_Read returns as many digests as fit, of the lowest indices; the list is
\* empty for a bank not in use.
TpmReads(u) ==
    /\ Sent(u, "read")
    /\ LET r == call[u]
           got == IF r.bank \in active
                  THEN {i \in r.indices :
                            Cardinality({j \in r.indices : j =< i}) =< MaxDigests}
                  ELSE {}
           nth(k) == CHOOSE i \in got : Cardinality({j \in got : j =< i}) = k
       IN \E rep \in Delivered([NoReply EXCEPT
                 !.indices = got,
                 !.values = [k \in 1..Cardinality(got) |-> ValueAt(r.bank, nth(k), Len(history))],
                 !.counter = CounterAt(Len(history))]) : Answer(u, rep)
    /\ UNCHANGED <<applied, tpmVars>>

\* PCR_Allocate adds to the banks of the next restart, or answers
\* allocation_success = NO.
TpmAllocates(u) ==
    /\ Sent(u, "allocate")
    /\ pending' \in {pending, pending \cup {call[u].banks[k] : k \in 1..Len(call[u].banks)}}
    /\ \E rep \in Delivered(NoReply) : Answer(u, rep)
    /\ UNCHANGED <<applied, tpmAuth, active, history>>

TpmSetsPolicy(u) ==
    /\ Sent(u, "set_auth_policy")
    /\ \E rep \in Delivered(NoReply) : Answer(u, rep)
    /\ UNCHANGED <<applied, tpmVars>>

TpmSetsAuth(u) ==
    /\ Sent(u, "set_auth_value")
    /\ Authorized(u)
    /\ tpmAuth' = [tpmAuth EXCEPT ![call[u].index] = call[u].auth]
    /\ \E rep \in Delivered(NoReply) : Answer(u, rep)
    /\ UNCHANGED <<applied, active, pending, history>>

\* The TPM refuses the command (locality, authorization, a busy TPM, ...) or
\* never gets it.
TpmRefuses(u) ==
    /\ pc[u] = "sent"
    /\ \E c \in RcCategory : Answer(u, [NoReply EXCEPT !.rc = c])
    /\ UNCHANGED <<applied, tpmVars>>

\* Firmware and the operating system use the same PCRs.
ForeignUpdate(i, kind) ==
    /\ Len(history) < MaxUpdates
    /\ history' = Append(history, [by |-> Nobody, kind |-> kind, index |-> i,
                                   banks |-> active])
    /\ UNCHANGED <<pc, call, reply, result, applied, since, observed, logged, reported, esysAuth,
                   tpmAuth, active, pending>>

\* A restart clears the PCRs and their authorizations and brings a new
\* allocation into use.
Restart(i) ==
    /\ Len(history) < MaxUpdates
    /\ history' = Append(history, [by |-> Nobody, kind |-> "restart", index |-> i,
                                   banks |-> {}])
    /\ tpmAuth' = [j \in Index |-> "empty"]
    /\ active' = pending
    /\ UNCHANGED <<pc, call, reply, result, applied, since, observed, logged, reported, esysAuth,
                   pending>>

-----------------------------------------------------------------------------

\* What the thread of user u does by itself once it has called an operation.
Run(u) ==
    \/ FinishAllocate(u) \/ FinishEvent(u) \/ FinishExtend(u) \/ FinishRead(u)
    \/ FinishReset(u) \/ FinishSetAuthPolicy(u) \/ FinishSetAuthValue(u)
    \/ SetCurrentAuth(u) \/ UpdateAuth(u) \/ Observe(u)

Tpm(u) ==
    \/ TpmExtends(u) \/ TpmRunsEvent(u) \/ TpmResetsPcr(u) \/ TpmReads(u)
    \/ TpmAllocates(u) \/ TpmSetsPolicy(u) \/ TpmSetsAuth(u) \/ TpmRefuses(u)

Use(u, r) ==
    \/ allocate(u, r) \/ event(u, r) \/ extend(u, r) \/ read(u, r) \/ reset(u, r)
    \/ set_auth_policy(u, r) \/ set_auth_value(u, r)

Next ==
    \/ \E u \in User : Run(u) \/ Tpm(u) \/ \E r \in Request : Use(u, r)
    \/ \E i \in Index : Restart(i) \/ \E kind \in {"extend", "reset"} : ForeignUpdate(i, kind)

Spec == Init /\ [][Next]_vars

\* A thread inside the library keeps running, and the transport answers every
\* command, if only with an error.
Fairness == \A u \in User : WF_vars(Run(u)) /\ WF_vars(Tpm(u))

FairSpec == Spec /\ Fairness

-----------------------------------------------------------------------------
(* Properties *)

Measurements(u) ==
    {p \in 1..Len(history) : history[p].by = u /\ history[p].kind \in {"extend", "event"}}

Told(u) == {observed[u][k].at : k \in 1..Len(observed[u])}

\* What an observer is told happened, once, in the order the TPM did it: each
\* record of on_extend and on_event is one of the provider's own updates, of
\* that PCR, and names the banks the TPM extended, except those extend named
\* and the TPM does not use and those event cannot represent.
ObserverIsFaithful ==
    \A u \in User :
        /\ \A j, k \in 1..Len(observed[u]) : j < k => observed[u][j].at < observed[u][k].at
        /\ \A k \in 1..Len(observed[u]) :
              LET rec == observed[u][k] IN
              /\ rec.at \in Measurements(u)
              /\ LET upd == history[rec.at] IN
                 /\ upd.kind = rec.kind /\ upd.index = rec.index
                 /\ IF rec.kind = "extend" THEN upd.banks \subseteq rec.banks
                                           ELSE rec.banks = upd.banks \ Skipped

\* No measurement is lost without the caller knowing: every update a watched
\* provider made was either told to its observer, or its call returned an
\* error, or its call is still running -- and never two of these.
MeasurementsAreAccountedFor ==
    \A u \in Watched :
        LET running == IF pc[u] = "idle" THEN {} ELSE applied[u] IN
        /\ Measurements(u) \subseteq Told(u) \cup reported[u] \cup running
        /\ Told(u) \cap (reported[u] \cup running) = {}

\* A call updates the TPM at most once; exactly once when extend, event or
\* reset succeeds; never when an argument check refused it.
UpdatesHappenOnce ==
    \A u \in User :
        /\ \A p, q \in applied[u] : p = q
        /\ pc[u] = "idle" /\ result[u].status = "ok" =>
              (applied[u] # {} <=> call[u].op \in {"extend", "event", "reset"})
        /\ result[u].status = "input_error" /\ "input_error" \notin RcCategory => applied[u] = {}

\* A call whose arguments pass the checks, and one that never becomes a command.
Valid(r) ==
    /\ r.op \in {"allocate", "extend"} => ensure_count(r.banks)
    /\ r.op = "event" => r.size = "fits"
    /\ r.op = "set_auth_policy" => r.size = "exact"
    /\ r.op = "set_auth_value" => r.auth = "empty"

NotSent(u) == u \in Detached \/ ~ Valid(call[u])

\* What the log of a call says is so.  It never holds two records: it says success if and
\* only if the call succeeded, before the observer is told, and a record of failure names
\* the category the caller gets.  A call that leaves no record was refused before anything
\* was sent, which is never logged, or is an event or a read whose answer could not be
\* decoded; every other failure is recorded, also of a command that did not update the
\* TPM.  The record of an update is about the PCR the TPM updated and as many banks.
LogTellsWhatHappened ==
    \A u \in User : pc[u] \in {"idle", "observe"} /\ call[u] # Nobody =>
        /\ Len(logged[u]) =< 1
        /\ NotSent(u) => logged[u] = <<>>
        /\ logged[u] = <<>> =>
              \/ NotSent(u)
              \/ call[u].op \in {"event", "read"} /\ result[u].status = "backend_error"
        /\ result[u].status = "ok" \/ pc[u] = "observe" <=>
              \E k \in 1..Len(logged[u]) : logged[u][k].level = "info"
        /\ \A k \in 1..Len(logged[u]) :
              LET rec == logged[u][k] IN
              /\ rec.level = "error" => rec.fields.error_category = result[u].status
              /\ rec.level = "info" => \A p \in applied[u] :
                    /\ rec.event = history[p].kind /\ rec.fields.pcr_index = history[p].index
                    /\ rec.event = "extend" =>
                          rec.fields.bank_count >= Cardinality(history[p].banks)
                    /\ rec.event = "event" =>
                          rec.fields.bank_count = Cardinality(history[p].banks \ Skipped)

\* A successful read is a snapshot: one moment during the call explains the
\* counter and all the values, however the reply was cut short and whoever
\* extended or restarted meanwhile.
ReadsAreSnapshots ==
    \A u \in User :
        pc[u] = "idle" /\ call[u] # Nobody /\ result[u].status = "ok" =>
            (call[u].op = "read" =>
                /\ DOMAIN result[u].values \subseteq call[u].indices
                /\ \E n \in since[u]..Len(history) :
                      /\ result[u].counter = CounterAt(n)
                      /\ \A i \in DOMAIN result[u].values :
                            result[u].values[i] = ValueAt(call[u].bank, i, n))

\* The providers never lock themselves out of a PCR: unless other software set
\* its authorization, the one the TPM wants is the one every ESYS context
\* holds.  set_auth_value refuses the values that would break this.
AuthorizationsAgree ==
    \A u \in User, i \in Index :
        tpmAuth[i] # "foreign" => esysAuth[u][i] = tpmAuth[i]

\* Every operation returns.
OperationsReturn == \A u \in User : pc[u] # "idle" ~> pc[u] = "idle"

-----------------------------------------------------------------------------
(* What the documentation says and the code does not do *)

\* "Strong" exception safety of provider.h: an operation that reports failure
\* has not updated the TPM.
FailedCallsChangeNothing ==
    \A u \in User : pc[u] = "idle" /\ result[u].status \in Category => applied[u] = {}

\* provider.h on event(): one digest per active bank on success.
OneDigestPerActiveBank ==
    \A u \in User :
        pc[u] = "idle" /\ call[u] # Nobody /\ result[u].status = "ok" =>
            (call[u].op = "event" =>
                \A p \in applied[u] : result[u].digests = history[p].banks)

=============================================================================
