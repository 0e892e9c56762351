--------------------------- MODULE PcrProviderProofs ---------------------------
(***************************************************************************)
(* Proofs about PcrProvider for any number of providers, PCRs, banks and   *)
(* requests, whatever happens to the answers and to the TPM.  A step of a  *)
(* provider concerns that provider and the end of the TPM's history, so    *)
(* the invariants are about one provider each, and about the positions its *)
(* call, its observer and its errors have in the history.                  *)
(***************************************************************************)
EXTENDS PcrProvider, FiniteSetTheorems, TLAPS

Updating == {"extend", "event", "reset"}

\* The variables are functions of the providers.
Over(f) == f = [u \in User |-> f[u]]

Shape ==
    /\ pc \in [User -> Pc]
    /\ Over(call) /\ Over(reply) /\ Over(result) /\ Over(since) /\ Over(logged)
    /\ Over(observed)
    /\ applied \in [User -> SUBSET Nat]
    /\ reported \in [User -> SUBSET Nat]

\* The TPM, and the authorizations: only the empty one is ever in use.
TpmInv ==
    /\ esysAuth \in [User -> [Index -> {"empty"}]]
    /\ tpmAuth \in [Index -> {"empty", "foreign"}]
    /\ active \in SUBSET Bank /\ pending \in SUBSET Bank
    /\ history \in Seq(Update)

\* What a call is about, by its stages.
Control(u) ==
    /\ call[u] \in Request \cup {Nobody} /\ (pc[u] # "idle" => call[u] \in Request)
    /\ pc[u] \in {"set_current_auth", "update_auth"} => call[u].op = "set_auth_value"
    /\ pc[u] = "observe" => call[u].op \in {"extend", "event"}
    /\ pc[u] # "idle" /\ call[u].op = "set_auth_value" => call[u].auth = "empty"
    /\ pc[u] \notin {"idle", "observe"} => result[u] = NoOutcome
    /\ pc[u] = "observe" => result[u] = [NoOutcome EXCEPT !.digests = result[u].digests]
    /\ pc[u] = "replied" => reply[u].rc \in RcCategory \cup {"ok"}

Controlled == \A u \in User : Control(u)

\* A call has updated the TPM at most once, from the answer on if it went well;
\* what was answered to an event is carried to the observer.
UpdateInv(u) ==
    /\ applied[u] \subseteq 1..Len(history)
    /\ \A p, q \in applied[u] : p = q
    /\ \A p \in applied[u] :
          /\ call[u] \in Request /\ call[u].op \in Updating
          /\ history[p].by = u /\ history[p].kind = call[u].op
          /\ history[p].index = call[u].index
          /\ call[u].op = "extend" =>
                history[p].banks \subseteq {call[u].banks[k] : k \in 1..Len(call[u].banks)}
          /\ call[u].op = "event" =>
                /\ pc[u] = "replied" /\ reply[u].rc = "ok" => reply[u].digests = history[p].banks
                /\ pc[u] = "observe" => result[u].digests = history[p].banks \ Skipped
    /\ pc[u] \in {"set_current_auth", "sent"} => applied[u] = {}
    /\ pc[u] = "replied" /\ reply[u].rc = "ok" /\ call[u].op \in Updating => applied[u] # {}
    /\ pc[u] = "observe" => applied[u] # {}
    /\ pc[u] = "idle" /\ result[u].status = "ok" => (applied[u] # {} <=> call[u].op \in Updating)
    /\ result[u].status = "input_error" /\ "input_error" \notin RcCategory => applied[u] = {}

Entry == [at : Nat, kind : {"extend", "event"}, index : Index, banks : SUBSET Bank]

\* A record is of an update in the history h, ...
Faithful(u, rec, h) ==
    /\ rec.at \in 1..Len(h)
    /\ LET upd == h[rec.at] IN
       /\ upd.by = u /\ upd.kind = rec.kind /\ upd.index = rec.index
       /\ IF rec.kind = "extend" THEN upd.banks \subseteq rec.banks
                                 ELSE rec.banks = upd.banks \ Skipped

Running(u) == IF pc[u] = "idle" THEN {} ELSE applied[u]

\* ... older than the running call's, and never of an update reported as an error.
ToldInv(u) ==
    /\ observed[u] \in Seq(Entry)
    /\ \A k \in 1..Len(observed[u]) : Faithful(u, observed[u][k], history)
    /\ \A j, k \in 1..Len(observed[u]) : j < k => observed[u][j].at < observed[u][k].at
    /\ reported[u] \subseteq 1..Len(history)
    /\ \A k \in 1..Len(observed[u]) : observed[u][k].at \notin reported[u]
    /\ \A p \in Running(u) :
          p \notin reported[u] /\ \A k \in 1..Len(observed[u]) : observed[u][k].at < p
    /\ u \in Watched =>
          \A p \in 1..Len(history) :
              history[p].by = u /\ history[p].kind \in {"extend", "event"} =>
                  \/ \E k \in 1..Len(observed[u]) : observed[u][k].at = p
                  \/ p \in reported[u] \cup Running(u)

\* The log of a call that has ended, or is about to, says how: nothing, ...
Silent(u) ==
    /\ logged[u] = <<>> /\ result[u].status \in Category /\ pc[u] = "idle"
    /\ NotSent(u) \/ (call[u].op \in {"event", "read"} /\ result[u].status = "backend_error")

\* ... the error it returned, ...
Complaint(u) ==
    /\ ~ NotSent(u)
    /\ logged[u] = <<[level |-> "error", event |-> "tss_error",
                      fields |-> [error_category |-> result[u].status]]>>
    /\ result[u].status \in Category /\ pc[u] = "idle"

\* ... or its success.
Confirmation(u) ==
    /\ ~ NotSent(u)
    /\ Len(logged[u]) = 1 /\ logged[u][1].level = "info" /\ logged[u][1].event = call[u].op
    /\ \A p \in applied[u] :
          /\ logged[u][1].fields.pcr_index = history[p].index
          /\ call[u].op = "extend" =>
                logged[u][1].fields.bank_count >= Cardinality(history[p].banks)
          /\ call[u].op = "event" =>
                logged[u][1].fields.bank_count = Cardinality(history[p].banks \ Skipped)
    /\ pc[u] = "observe" \/ result[u].status = "ok"

LogInv(u) ==
    /\ pc[u] # "idle" => ~ NotSent(u)
    /\ pc[u] \notin {"idle", "observe"} => logged[u] = <<>>
    /\ pc[u] \in {"idle", "observe"} /\ call[u] # Nobody =>
          Silent(u) \/ Complaint(u) \/ Confirmation(u)

\* ValueAt and CounterAt of the history h, ...
ValueIn(h, b, i, n) ==
    {p \in 1..n :
        /\ h[p].kind \in {"extend", "event"}
        /\ h[p].index = i /\ b \in h[p].banks
        /\ \A q \in p..n : ~ (h[q].kind = "restart" \/ (h[q].kind = "reset" /\ h[q].index = i))}

CounterIn(h, n) ==
    Cardinality({p \in 1..n : /\ h[p].banks # {}
                              /\ \A q \in p..n : h[q].kind # "restart"})

\* ... which explain what a read returns, or is about to: values and counter are
\* those of bank b when the history was n long.
Snapshot(h, b, answer, n) ==
    /\ answer.counter = CounterIn(h, n)
    /\ \A i \in DOMAIN answer.values : answer.values[i] = ValueIn(h, b, i, n)

Returned(o) == [counter |-> o.counter, values |-> o.values]
Decoded(rep) == [counter |-> rep.counter, values |-> to_domain_read_values(rep.values, rep.indices)]

ReadInv(u) ==
    /\ since[u] \in 0..Len(history)
    /\ pc[u] = "replied" /\ call[u].op = "read" /\ reply[u].rc = "ok" =>
          /\ reply[u].indices \subseteq call[u].indices
          /\ \E n \in since[u]..Len(history) :
                Snapshot(history, call[u].bank, Decoded(reply[u]), n)
    /\ pc[u] = "idle" /\ call[u] \in Request /\ call[u].op = "read" /\ result[u].status = "ok" =>
          /\ DOMAIN result[u].values \subseteq call[u].indices
          /\ \E n \in since[u]..Len(history) :
                Snapshot(history, call[u].bank, Returned(result[u]), n)

IInv ==
    /\ Shape /\ TpmInv /\ Controlled
    /\ \A u \in User : UpdateInv(u) /\ ToldInv(u) /\ LogInv(u) /\ ReadInv(u)

-----------------------------------------------------------------------------
(* What each step does, as a user of the library sees it *)

Same(v) ==
    /\ pc'[v] = pc[v] /\ call'[v] = call[v] /\ reply'[v] = reply[v] /\ result'[v] = result[v]
    /\ applied'[v] = applied[v] /\ since'[v] = since[v] /\ observed'[v] = observed[v]
    /\ logged'[v] = logged[v] /\ reported'[v] = reported[v] /\ esysAuth'[v] = esysAuth[v]

Alone(u) == Shape' /\ \A v \in User : v # u => Same(v)

\* A call is refused before anything is sent, ...
Refused(u) ==
    /\ pc[u] = "idle" /\ pc'[u] = "idle" /\ call'[u] \in Request /\ NotSent(u)'
    /\ result'[u].status \in {"resource_error", "input_error"}
    /\ applied'[u] = {} /\ logged'[u] = <<>> /\ since'[u] = since[u]
    /\ observed'[u] = observed[u] /\ reported'[u] = reported[u]
    /\ UNCHANGED <<esysAuth, tpmVars>>

\* ... or it begins.
Begun(u) ==
    /\ pc[u] = "idle" /\ call'[u] \in Request /\ ~ NotSent(u)'
    /\ pc'[u] = IF call'[u].op = "set_auth_value" THEN "set_current_auth" ELSE "sent"
    /\ call'[u].op = "set_auth_value" => call'[u].auth = "empty"
    /\ result'[u] = NoOutcome /\ applied'[u] = {} /\ logged'[u] = <<>>
    /\ since'[u] = IF call'[u].op = "read" THEN Len(history) ELSE 0
    /\ observed'[u] = observed[u] /\ reported'[u] = reported[u]
    /\ UNCHANGED <<esysAuth, tpmVars>>

\* The command is answered without an update, ...
NoUpdate(u) ==
    /\ pc[u] = "sent" /\ pc'[u] = "replied" /\ call'[u] = call[u]
    /\ reply'[u].rc \in RcCategory \cup {"ok"}
    /\ reply'[u].rc = "ok" =>
          /\ call[u].op \notin Updating
          /\ call[u].op = "read" =>
                /\ reply'[u].indices \subseteq call[u].indices
                /\ Snapshot(history, call[u].bank, Decoded(reply'[u]), Len(history))
    /\ result'[u] = result[u] /\ applied'[u] = applied[u] /\ since'[u] = since[u]
    /\ observed'[u] = observed[u] /\ logged'[u] = logged[u] /\ reported'[u] = reported[u]
    /\ UNCHANGED <<esysAuth, active, history>>

\* ... or with one.
Updated(u) ==
    /\ pc[u] = "sent" /\ pc'[u] = "replied" /\ call'[u] = call[u]
    /\ call[u].op \in Updating
    /\ reply'[u].rc \in RcCategory \cup {"ok"}
    /\ result'[u] = result[u] /\ since'[u] = since[u]
    /\ applied'[u] = applied[u] \cup {Len(history) + 1}
    /\ observed'[u] = observed[u] /\ logged'[u] = logged[u] /\ reported'[u] = reported[u]
    /\ \E banks \in SUBSET Bank :
          /\ history' = Append(history, [by |-> u, kind |-> call[u].op, index |-> call[u].index,
                                         banks |-> banks])
          /\ call[u].op = "extend" =>
                banks \subseteq {call[u].banks[k] : k \in 1..Len(call[u].banks)}
          /\ call[u].op = "event" /\ reply'[u].rc = "ok" => reply'[u].digests = banks
    /\ UNCHANGED <<esysAuth, tpmAuth, active, pending>>

\* The call ends with an error, ...
Failed(u) ==
    /\ pc[u] \in {"replied", "set_current_auth", "update_auth"}
    /\ pc[u] = "replied" => reply[u].rc # "ok" \/ call[u].op \in {"event", "read"}
    /\ pc'[u] = "idle" /\ call'[u] = call[u] /\ applied'[u] = applied[u]
    /\ \E c \in Category :
          /\ result'[u] = [NoOutcome EXCEPT !.status = c]
          /\ \/ /\ c \in RcCategory
                /\ logged'[u] = Append(logged[u], [level |-> "error", event |-> "tss_error",
                                                   fields |-> [error_category |-> c]])
             \/ c = "backend_error" /\ call[u].op \in {"event", "read"} /\ logged'[u] = logged[u]
    /\ observed'[u] = observed[u] /\ reported'[u] = reported[u] \cup applied[u]
    /\ since'[u] = since[u]
    /\ UNCHANGED <<esysAuth, tpmVars>>

\* ... or it succeeds, ...
Succeeded(u) ==
    /\ \/ /\ pc[u] = "replied" /\ reply[u].rc = "ok"
          /\ call[u].op \in {"allocate", "read", "reset", "set_auth_policy"}
       \/ pc[u] = "update_auth"
    /\ pc'[u] = "idle" /\ call'[u] = call[u] /\ applied'[u] = applied[u]
    /\ result'[u].status = "ok"
    /\ call[u].op = "read" => Returned(result'[u]) = Decoded(reply[u])
    /\ \E fields :
          /\ logged'[u] = Append(logged[u], [level |-> "info", event |-> call[u].op,
                                             fields |-> fields])
          /\ call[u].op = "reset" => fields.pcr_index = call[u].index
    /\ since'[u] = since[u]
    /\ observed'[u] = observed[u] /\ reported'[u] = reported[u]
    /\ esysAuth' \in [User -> [Index -> {"empty"}]] /\ UNCHANGED tpmVars

\* ... or it has been logged and its observer is next, ...
Noted(u) ==
    /\ pc[u] = "replied" /\ reply[u].rc = "ok" /\ call[u].op \in {"extend", "event"}
    /\ pc'[u] = "observe" /\ call'[u] = call[u] /\ applied'[u] = applied[u]
    /\ since'[u] = since[u]
    /\ \E d : /\ result'[u] = [NoOutcome EXCEPT !.digests = d]
              /\ call[u].op = "event" => d = reply[u].digests \ Skipped
    /\ \E fields :
          /\ logged'[u] = Append(logged[u], [level |-> "info", event |-> call[u].op,
                                             fields |-> fields])
          /\ fields.pcr_index = call[u].index
          /\ call[u].op = "extend" => fields.bank_count = Len(call[u].banks)
          /\ call[u].op = "event" => fields.bank_count = Cardinality(reply[u].digests \ Skipped)
    /\ observed'[u] = observed[u] /\ reported'[u] = reported[u]
    /\ UNCHANGED <<esysAuth, tpmVars>>

\* ... who is told before it succeeds;
Announced(u) ==
    /\ pc[u] = "observe" /\ pc'[u] = "idle" /\ call'[u] = call[u] /\ applied'[u] = applied[u]
    /\ result'[u].status = "ok" /\ since'[u] = since[u]
    /\ observed'[u] = IF u \in Watched THEN Append(observed[u], make_record(u)) ELSE observed[u]
    /\ logged'[u] = logged[u] /\ reported'[u] = reported[u]
    /\ UNCHANGED <<esysAuth, tpmVars>>

\* or it goes on with the authorization of the handle.
GoesOn(u) ==
    /\ \/ pc[u] = "set_current_auth" /\ pc'[u] = "sent"
       \/ /\ pc[u] = "replied" /\ reply[u].rc = "ok" /\ call[u].op = "set_auth_value"
          /\ pc'[u] = "update_auth"
    /\ call'[u] = call[u] /\ result'[u] = result[u] /\ applied'[u] = applied[u]
    /\ since'[u] = since[u] /\ observed'[u] = observed[u] /\ logged'[u] = logged[u]
    /\ reported'[u] = reported[u]
    /\ esysAuth' \in [User -> [Index -> {"empty"}]] /\ UNCHANGED tpmVars

\* Other software updates a PCR, or the TPM restarts.
Elsewhere ==
    /\ UNCHANGED <<pc, call, reply, result, applied, since, observed, logged, reported, esysAuth>>
    /\ \E h \in Update : h.by = Nobody /\ history' = Append(history, h)

\* An operation that is called.
LEMMA UseDoes ==
  ASSUME Shape, NEW u \in User, NEW r \in Request, Use(u, r)
  PROVE  Alone(u) /\ (Refused(u) \/ Begun(u))
  <1>0. User = DOMAIN pc /\ "idle" \in Pc /\ "sent" \in Pc /\ "set_current_auth" \in Pc
    BY DEF Shape, Pc
  <1>1. PICK valid \in BOOLEAN, category \in {"input_error", "resource_error"},
             to \in {"sent", "set_current_auth"} :
           /\ Begin(u, r, valid, category, to)
           /\ to = IF r.op = "set_auth_value" THEN "set_current_auth" ELSE "sent"
           /\ valid <=> Valid(r)
    <2>1. CASE allocate(u, r)
      <3>1. ensure_count(r.banks) \in BOOLEAN
        BY DEF ensure_count
      <3> QED
        BY <2>1, <3>1 DEF allocate, Valid
    <2>2. CASE event(u, r)
      <3>1. ensure_event_size(r.size) \in BOOLEAN
        BY DEF ensure_event_size
      <3> QED
        BY <2>2, <3>1 DEF event, Valid, ensure_event_size
    <2>3. CASE extend(u, r)
      <3>1. ensure_count(r.banks) \in BOOLEAN
        BY DEF ensure_count
      <3> QED
        BY <2>3, <3>1 DEF extend, Valid
    <2>4. CASE read(u, r) \/ reset(u, r)
      BY <2>4 DEF read, reset, Valid
    <2>5. CASE set_auth_policy(u, r)
      <3>1. ensure_policy_digest_size(r.size) \in BOOLEAN
        BY DEF ensure_policy_digest_size
      <3> QED
        BY <2>5, <3>1 DEF set_auth_policy, Valid, ensure_policy_digest_size
    <2>6. CASE set_auth_value(u, r)
      <3> DEFINE fits == ensure_sized_buffer_fits(r.auth)
                 valid == fits /\ ensure_secure_auth_value_transport(r.auth)
                 category == IF fits THEN "resource_error" ELSE "input_error"
      <3>1. fits \in BOOLEAN /\ valid \in BOOLEAN /\ (valid <=> r.auth = "empty")
        BY DEF ensure_sized_buffer_fits, ensure_secure_auth_value_transport
      <3>2. Begin(u, r, valid, category, "set_current_auth") /\ r.op = "set_auth_value"
        BY <2>6 DEF set_auth_value
      <3>3. category \in {"input_error", "resource_error"}
        BY <3>1
      <3>4. valid <=> Valid(r)
        BY <3>1, <3>2 DEF Valid
      <3> HIDE DEF valid, category
      <3> QED
        BY <3>1, <3>2, <3>3, <3>4
    <2> QED
      BY <2>1, <2>2, <2>3, <2>4, <2>5, <2>6 DEF Use
  <1>2. /\ pc[u] = "idle" /\ logged' = [logged EXCEPT ![u] = <<>>]
        /\ UNCHANGED <<reply, observed, reported, esysAuth, tpmVars>>
    BY <1>1 DEF Begin
  <1>3. CASE \E c \in {"input_error", "resource_error"} :
                /\ Refuse(u, r, c)
                /\ u \in Detached \/ ~ valid
    <2>1. PICK c \in {"input_error", "resource_error"} :
              /\ Refuse(u, r, c)
              /\ u \in Detached \/ ~ valid
      BY <1>3
    <2>2. /\ call' = [call EXCEPT ![u] = r]
          /\ result' = [result EXCEPT ![u] = [NoOutcome EXCEPT !.status = c]]
          /\ applied' = [applied EXCEPT ![u] = {}]
          /\ UNCHANGED <<pc, since>>
      BY <2>1 DEF Refuse
    <2>3. [NoOutcome EXCEPT !.status = c].status = c
      BY DEF NoOutcome
    <2>4. NotSent(u)'
      BY <1>1, <2>1, <2>2 DEF NotSent, Shape, Over
    <2>5. Refused(u)
      BY <1>2, <2>2, <2>3, <2>4 DEF Refused, Shape, Over
    <2>6. Alone(u)
      BY <1>2, <2>2 DEF Alone, Same, Shape, Over
    <2> QED
      BY <2>5, <2>6
  <1>4. CASE u \notin Detached /\ valid /\ Dispatch(u, r, to)
    <2>1. /\ pc' = [pc EXCEPT ![u] = to]
          /\ call' = [call EXCEPT ![u] = r]
          /\ result' = [result EXCEPT ![u] = NoOutcome]
          /\ applied' = [applied EXCEPT ![u] = {}]
          /\ since' = [since EXCEPT ![u] = IF r.op = "read" THEN Len(history) ELSE 0]
      BY <1>4 DEF Dispatch
    <2>2. Valid(r) /\ (r.op = "set_auth_value" => r.auth = "empty")
      BY <1>1, <1>4 DEF Valid
    <2>3. ~ NotSent(u)'
      BY <1>4, <2>1, <2>2 DEF NotSent, Shape, Over
    <2>4. Begun(u)
      BY <1>1, <1>2, <1>4, <2>1, <2>2, <2>3 DEF Begun, Shape, Over
    <2>5. Alone(u)
      BY <1>0, <1>1, <1>2, <2>1 DEF Alone, Same, Shape, Over
    <2> QED
      BY <2>4, <2>5
  <1> QED
    BY <1>1, <1>3, <1>4 DEF Begin, ensure_esys_available

\* The pieces the rest of an operation is made of.
LEMMA ReturnDoes ==
  ASSUME Shape, NEW u \in User, NEW o, Return(u, o)
  PROVE  /\ pc' \in [User -> Pc] /\ Over(reply)' /\ Over(result)'
         /\ reported' \in [User -> SUBSET Nat]
         /\ pc'[u] = "idle" /\ result'[u] = o
         /\ reported'[u] = IF o.status = "ok" THEN reported[u] ELSE reported[u] \cup applied[u]
         /\ \A v \in User \ {u} : /\ pc'[v] = pc[v] /\ reply'[v] = reply[v]
                                  /\ result'[v] = result[v] /\ reported'[v] = reported[v]
  <1>1. /\ pc' = [pc EXCEPT ![u] = "idle"]
        /\ result' = [result EXCEPT ![u] = o]
        /\ reply' = [reply EXCEPT ![u] = NoReply]
        /\ reported' = [reported EXCEPT ![u] =
                            IF o.status = "ok" THEN @ ELSE @ \cup applied[u]]
    BY DEF Return
  <1>2. "idle" \in Pc
    BY DEF Pc
  <1> QED
    BY <1>1, <1>2 DEF Shape, Over

LEMMA LogDoes ==
  ASSUME Shape, NEW u \in User, NEW level, NEW name, NEW fields,
         emit_outcome_record(u, level, name, fields)
  PROVE  /\ Over(logged)'
         /\ logged'[u] = Append(logged[u], [level |-> level, event |-> name, fields |-> fields])
         /\ \A v \in User \ {u} : logged'[v] = logged[v]
  BY DEF emit_outcome_record, Shape, Over

Rest(u) ==
    /\ UNCHANGED <<call, applied, since, observed, tpmVars>>
    /\ esysAuth' \in [User -> [Index -> {"empty"}]]
    /\ \A v \in User \ {u} : esysAuth'[v] = esysAuth[v]

LEMMA ErrorDoes ==
  ASSUME Shape, NEW u \in User, NEW c \in RcCategory, ReturnTssError(u, c), Rest(u),
         UNCHANGED esysAuth,
         pc[u] \in {"replied", "set_current_auth", "update_auth"},
         pc[u] = "replied" => reply[u].rc # "ok"
  PROVE  Alone(u) /\ Failed(u)
  <1> DEFINE o == [NoOutcome EXCEPT !.status = c]
  <1>1. Return(u, o) /\ emit_outcome_record(u, "error", "tss_error", [error_category |-> c])
    BY DEF ReturnTssError, log_tss_error
  <1>2. o.status = c /\ c \in Category /\ c # "ok"
    BY ProviderAssumption DEF NoOutcome, Category
  <1> HIDE DEF o
  <1>3. /\ pc' \in [User -> Pc] /\ Over(reply)' /\ Over(result)'
        /\ reported' \in [User -> SUBSET Nat]
        /\ pc'[u] = "idle" /\ result'[u] = o
        /\ reported'[u] = reported[u] \cup applied[u]
        /\ \A v \in User \ {u} : /\ pc'[v] = pc[v] /\ reply'[v] = reply[v]
                                 /\ result'[v] = result[v] /\ reported'[v] = reported[v]
    BY <1>1, <1>2, ReturnDoes
  <1>4. /\ Over(logged)'
        /\ logged'[u] = Append(logged[u], [level |-> "error", event |-> "tss_error",
                                           fields |-> [error_category |-> c]])
        /\ \A v \in User \ {u} : logged'[v] = logged[v]
    BY <1>1, LogDoes
  <1>5. Alone(u)
    BY <1>3, <1>4 DEF Alone, Same, Shape, Over, Rest
  <1>6. Failed(u)
    BY <1>2, <1>3, <1>4 DEF Failed, Rest, o
  <1> QED
    BY <1>5, <1>6

LEMMA UndecodableDoes ==
  ASSUME Shape, NEW u \in User, ReturnError(u, "backend_error"), Rest(u), UNCHANGED esysAuth,
         pc[u] = "replied", call[u].op \in {"event", "read"}
  PROVE  Alone(u) /\ Failed(u)
  <1> DEFINE o == [NoOutcome EXCEPT !.status = "backend_error"]
  <1>1. Return(u, o) /\ logged' = logged
    BY DEF ReturnError
  <1>2. o.status = "backend_error" /\ "backend_error" \in Category
    BY DEF NoOutcome, Category
  <1> HIDE DEF o
  <1>3. /\ pc' \in [User -> Pc] /\ Over(reply)' /\ Over(result)'
        /\ reported' \in [User -> SUBSET Nat]
        /\ pc'[u] = "idle" /\ result'[u] = o
        /\ reported'[u] = reported[u] \cup applied[u]
        /\ \A v \in User \ {u} : /\ pc'[v] = pc[v] /\ reply'[v] = reply[v]
                                 /\ result'[v] = result[v] /\ reported'[v] = reported[v]
    BY <1>1, <1>2, ReturnDoes
  <1>5. Alone(u)
    BY <1>1, <1>3 DEF Alone, Same, Shape, Over, Rest
  <1>6. Failed(u)
    BY <1>1, <1>2, <1>3 DEF Failed, Rest, o
  <1> QED
    BY <1>5, <1>6

\* A success is logged under the operation's name, with its PCR.
LEMMA CompletedDoes ==
  ASSUME Shape, NEW u \in User, NEW o, log_completed(u, o),
         call[u].op \in Op
  PROVE  /\ Over(logged)' /\ \A v \in User \ {u} : logged'[v] = logged[v]
         /\ \E fields :
               /\ logged'[u] = Append(logged[u], [level |-> "info", event |-> call[u].op,
                                                  fields |-> fields])
               /\ call[u].op \in {"event", "extend", "reset"} => fields.pcr_index = call[u].index
               /\ call[u].op = "extend" => fields.bank_count = Len(call[u].banks)
               /\ call[u].op = "event" => fields.bank_count = Cardinality(o.digests)
  <1> DEFINE r == call[u]
             f == CASE r.op = "allocate" -> [bank_count |-> Len(r.banks)]
                    [] r.op = "event" -> [bank_count |-> Cardinality(o.digests),
                                          pcr_index |-> r.index]
                    [] r.op = "extend" -> [bank_count |-> Len(r.banks), pcr_index |-> r.index]
                    [] r.op = "read" -> [bank |-> r.bank,
                                         pcr_count |-> Cardinality(DOMAIN o.values)]
                    [] r.op \in {"reset", "set_auth_policy", "set_auth_value"} ->
                           [pcr_index |-> r.index]
  <1>1. emit_outcome_record(u, "info", r.op, f)
    BY DEF log_completed
  <1>2. /\ r.op \in {"event", "extend", "reset"} => f.pcr_index = r.index
        /\ r.op = "extend" => f.bank_count = Len(r.banks)
        /\ r.op = "event" => f.bank_count = Cardinality(o.digests)
    BY DEF Op
  <1> HIDE DEF f
  <1>3. PICK fields, name :
            emit_outcome_record(u, "info", name, fields) /\ fields = f /\ name = r.op
    BY <1>1
  <1>4. /\ Over(logged)'
        /\ logged'[u] = Append(logged[u], [level |-> "info", event |-> name, fields |-> fields])
        /\ \A v \in User \ {u} : logged'[v] = logged[v]
    BY <1>3, LogDoes
  <1> QED
    BY <1>2, <1>3, <1>4

LEMMA SuccessDoes ==
  ASSUME Shape, NEW u \in User, NEW o, Complete(u, o), o.status = "ok", Rest(u),
         call[u].op \in Op, call[u].op = "read" => Returned(o) = Decoded(reply[u]),
         \/ /\ pc[u] = "replied" /\ reply[u].rc = "ok"
            /\ call[u].op \in {"allocate", "read", "reset", "set_auth_policy"}
         \/ pc[u] = "update_auth"
  PROVE  Alone(u) /\ Succeeded(u)
  <1>1. Return(u, o) /\ log_completed(u, o)
    BY DEF Complete
  <1>2. /\ pc' \in [User -> Pc] /\ Over(reply)' /\ Over(result)'
        /\ reported' \in [User -> SUBSET Nat]
        /\ pc'[u] = "idle" /\ result'[u] = o
        /\ reported'[u] = reported[u]
        /\ \A v \in User \ {u} : /\ pc'[v] = pc[v] /\ reply'[v] = reply[v]
                                 /\ result'[v] = result[v] /\ reported'[v] = reported[v]
    BY <1>1, ReturnDoes
  <1>3. /\ Over(logged)' /\ \A v \in User \ {u} : logged'[v] = logged[v]
        /\ \E fields :
               /\ logged'[u] = Append(logged[u], [level |-> "info", event |-> call[u].op,
                                                  fields |-> fields])
               /\ call[u].op \in {"event", "extend", "reset"} => fields.pcr_index = call[u].index
    BY <1>1, CompletedDoes
  <1>4. Alone(u)
    BY <1>2, <1>3 DEF Alone, Same, Shape, Over, Rest
  <1>5. Succeeded(u)
    BY <1>2, <1>3 DEF Succeeded, Rest
  <1> QED
    BY <1>4, <1>5

LEMMA NotedDoes ==
  ASSUME Shape, NEW u \in User, NEW o, log_completed(u, o),
         pc[u] = "replied", reply[u].rc = "ok", call[u].op \in {"extend", "event"},
         pc' = [pc EXCEPT ![u] = "observe"],
         result' = [result EXCEPT ![u] = o],
         NEW d, o = [NoOutcome EXCEPT !.digests = d],
         call[u].op = "event" => d = reply[u].digests \ Skipped,
         UNCHANGED <<reply, reported, esysAuth>>, Rest(u)
  PROVE  Alone(u) /\ Noted(u)
  <1>1. o.digests = d
    BY DEF NoOutcome
  <1>2. pc'[u] = "observe" /\ result'[u] = o /\ pc' \in [User -> Pc] /\ Over(result)'
    BY DEF Shape, Over, Pc
  <1>3. /\ Over(logged)' /\ \A v \in User \ {u} : logged'[v] = logged[v]
        /\ \E fields :
               /\ logged'[u] = Append(logged[u], [level |-> "info", event |-> call[u].op,
                                                  fields |-> fields])
               /\ fields.pcr_index = call[u].index
               /\ call[u].op = "extend" => fields.bank_count = Len(call[u].banks)
               /\ call[u].op = "event" => fields.bank_count = Cardinality(d)
    <2>1. call[u].op \in Op
      BY DEF Op
    <2>2. /\ Over(logged)' /\ \A v \in User \ {u} : logged'[v] = logged[v]
          /\ \E fields :
                 /\ logged'[u] = Append(logged[u], [level |-> "info", event |-> call[u].op,
                                                    fields |-> fields])
                 /\ call[u].op \in {"event", "extend", "reset"} => fields.pcr_index = call[u].index
                 /\ call[u].op = "extend" => fields.bank_count = Len(call[u].banks)
                 /\ call[u].op = "event" => fields.bank_count = Cardinality(o.digests)
      BY <2>1, CompletedDoes
    <2>3. call[u].op \in {"event", "extend", "reset"}
      OBVIOUS
    <2> QED
      BY <1>1, <2>2, <2>3
  <1>4. Alone(u)
    BY <1>2, <1>3 DEF Alone, Same, Shape, Over, Rest
  <1>5. Noted(u)
    BY <1>1, <1>2, <1>3 DEF Noted, Rest
  <1> QED
    BY <1>4, <1>5

\* The operations, once they have been answered.
LEMMA RunDoes ==
  ASSUME Shape, TpmInv, Controlled, NEW u \in User, Run(u)
  PROVE  Alone(u) /\ (Failed(u) \/ Succeeded(u) \/ Noted(u) \/ Announced(u) \/ GoesOn(u))
  <1>0. /\ Control(u)
        /\ UNCHANGED esysAuth => esysAuth' \in [User -> [Index -> {"empty"}]]
        /\ UNCHANGED <<call, applied, since, observed, esysAuth, tpmVars>> => Rest(u)
    BY DEF Controlled, Rest, TpmInv
  <1>1. ASSUME pc[u] = "replied", AnsweredError(u),
               UNCHANGED <<call, applied, since, observed, esysAuth, tpmVars>>
        PROVE  Alone(u) /\ Failed(u)
    <2>1. PICK c \in RcCategory : reply[u].rc = c /\ c # "ok" /\ ReturnTssError(u, c)
      BY <1>0, <1>1 DEF Control, AnsweredError
    <2> QED
      BY <1>0, <1>1, <2>1, ErrorDoes
  <1>2. ASSUME pc[u] = "replied", reply[u].rc = "ok", call[u].op \in Op,
               call[u].op \in {"allocate", "read", "reset", "set_auth_policy"},
               NEW o, Complete(u, o), o.status = "ok",
               call[u].op = "read" => Returned(o) = Decoded(reply[u]),
               UNCHANGED <<call, applied, since, observed, esysAuth, tpmVars>>
        PROVE  Alone(u) /\ Succeeded(u)
    BY <1>0, <1>2, SuccessDoes
  <1>3. [NoOutcome EXCEPT !.status = "ok"].status = "ok"
    BY DEF NoOutcome
  <1>4. CASE FinishAllocate(u) \/ FinishReset(u) \/ FinishSetAuthPolicy(u)
    <2>1. /\ pc[u] = "replied" /\ call[u].op \in {"allocate", "reset", "set_auth_policy"}
          /\ call[u].op \in Op
          /\ \/ AnsweredError(u)
             \/ reply[u].rc = "ok" /\ Complete(u, [NoOutcome EXCEPT !.status = "ok"])
          /\ UNCHANGED <<call, applied, since, observed, esysAuth, tpmVars>>
      BY <1>4 DEF FinishAllocate, FinishReset, FinishSetAuthPolicy, Answered, Op
    <2>2. ASSUME Complete(u, [NoOutcome EXCEPT !.status = "ok"])
          PROVE  \E o : Complete(u, o) /\ o.status = "ok"
      BY <1>3, <2>2
    <2> QED
      BY <1>1, <1>2, <2>1, <2>2
  <1>5. CASE FinishEvent(u)
    <2> DEFINE whole == reply[u].data = "whole" /\ decodable(reply[u].digests)
    <2>1. /\ pc[u] = "replied" /\ call[u].op = "event"
          /\ \/ AnsweredError(u)
             \/ reply[u].rc = "ok" /\ ~ whole /\ ReturnError(u, "backend_error")
             \/ /\ reply[u].rc = "ok" /\ whole
                /\ pc' = [pc EXCEPT ![u] = "observe"]
                /\ result' = [result EXCEPT ![u].digests = to_domain_digests(reply[u].digests)]
                /\ log_completed(u, result'[u])
                /\ UNCHANGED <<reply, reported>>
          /\ UNCHANGED <<call, applied, since, observed, esysAuth, tpmVars>>
      BY <1>5 DEF FinishEvent, Answered
    <2>2. CASE reply[u].rc = "ok" /\ ReturnError(u, "backend_error")
      BY <1>0, <2>1, <2>2, UndecodableDoes
    <2>3. CASE /\ reply[u].rc = "ok"
               /\ pc' = [pc EXCEPT ![u] = "observe"]
               /\ result' = [result EXCEPT ![u].digests = to_domain_digests(reply[u].digests)]
               /\ log_completed(u, result'[u])
               /\ UNCHANGED <<reply, reported>>
      <3>1. PICK d : d = reply[u].digests \ Skipped
        OBVIOUS
      <3>2. PICK o : o = [NoOutcome EXCEPT !.digests = d]
        OBVIOUS
      <3>3. result' = [result EXCEPT ![u] = o]
        <4>1. result[u] = NoOutcome
          BY <1>0, <2>1 DEF Control
        <4>2. result' = [result EXCEPT ![u] = [@ EXCEPT !.digests = d]]
          BY <2>3, <3>1, Zenon DEF to_domain_digests
        <4> QED
          BY <3>2, <4>1, <4>2
      <3>4. result'[u] = o
        BY <3>3 DEF Shape, Over
      <3>5. log_completed(u, o)
        BY <2>3, <3>4
      <3> QED
        BY <1>0, <2>1, <2>3, <3>1, <3>2, <3>3, <3>5, NotedDoes
    <2> QED
      BY <1>1, <2>1, <2>2, <2>3
  <1>6. CASE FinishExtend(u)
    <2>1. /\ pc[u] = "replied" /\ call[u].op = "extend"
          /\ \/ AnsweredError(u)
             \/ /\ reply[u].rc = "ok"
                /\ pc' = [pc EXCEPT ![u] = "observe"]
                /\ log_completed(u, result[u])
                /\ UNCHANGED <<reply, result, reported>>
          /\ UNCHANGED <<call, applied, since, observed, esysAuth, tpmVars>>
      BY <1>6 DEF FinishExtend, Answered
    <2>2. CASE /\ reply[u].rc = "ok"
               /\ pc' = [pc EXCEPT ![u] = "observe"]
               /\ log_completed(u, result[u])
               /\ UNCHANGED <<reply, result, reported>>
      <3>1. PICK o : o = result[u]
        OBVIOUS
      <3>2. o = NoOutcome
        BY <1>0, <2>1, <3>1 DEF Control
      <3>3. PICK d : d = NoOutcome.digests
        OBVIOUS
      <3>4. o = [NoOutcome EXCEPT !.digests = d]
        BY <3>2, <3>3 DEF NoOutcome
      <3>5. result' = [result EXCEPT ![u] = o] /\ log_completed(u, o)
        BY <2>2, <3>1 DEF Shape, Over
      <3> QED
        BY <1>0, <2>1, <2>2, <3>4, <3>5, NotedDoes
    <2> QED
      BY <1>1, <2>1, <2>2
  <1>7. CASE FinishRead(u)
    <2> DEFINE whole == /\ reply[u].data = "whole"
                        /\ Len(reply[u].values) = Cardinality(reply[u].indices)
               o == [status |-> "ok", digests |-> {}, counter |-> reply[u].counter,
                     values |-> to_domain_read_values(reply[u].values, reply[u].indices)]
    <2>1. /\ pc[u] = "replied" /\ call[u].op = "read" /\ call[u].op \in Op
          /\ \/ AnsweredError(u)
             \/ reply[u].rc = "ok" /\ ~ whole /\ ReturnError(u, "backend_error")
             \/ reply[u].rc = "ok" /\ whole /\ Complete(u, o)
          /\ UNCHANGED <<call, applied, since, observed, esysAuth, tpmVars>>
      BY <1>7 DEF FinishRead, Answered, Op
    <2>2. CASE reply[u].rc = "ok" /\ ReturnError(u, "backend_error")
      BY <1>0, <2>1, <2>2, UndecodableDoes
    <2>3. o.status = "ok" /\ Returned(o) = Decoded(reply[u])
      BY DEF Returned, Decoded
    <2> HIDE DEF o
    <2>4. CASE reply[u].rc = "ok" /\ Complete(u, o)
      <3>1. PICK p : Complete(u, p) /\ p.status = "ok" /\ Returned(p) = Decoded(reply[u])
        BY <2>3, <2>4
      <3> QED
        BY <1>2, <2>1, <2>4, <3>1
    <2> QED
      BY <1>1, <2>1, <2>2, <2>4
  <1>8. CASE FinishSetAuthValue(u)
    <2>1. /\ pc[u] = "replied" /\ call[u].op = "set_auth_value"
          /\ \/ AnsweredError(u)
             \/ /\ reply[u].rc = "ok"
                /\ pc' = [pc EXCEPT ![u] = "update_auth"]
                /\ UNCHANGED <<reply, result, reported, logged>>
          /\ UNCHANGED <<call, applied, since, observed, esysAuth, tpmVars>>
      BY <1>8 DEF FinishSetAuthValue, Answered
    <2>2. CASE /\ reply[u].rc = "ok"
               /\ pc' = [pc EXCEPT ![u] = "update_auth"]
               /\ UNCHANGED <<reply, result, reported, logged>>
      <3>1. Alone(u)
        BY <2>1, <2>2 DEF Alone, Same, Shape, Over, Pc
      <3>2. GoesOn(u)
        BY <1>0, <2>1, <2>2 DEF GoesOn, Shape
      <3> QED
        BY <3>1, <3>2
    <2> QED
      BY <1>1, <2>1, <2>2
  <1>9. /\ esysAuth' = [esysAuth EXCEPT ![u][call[u].index] = "empty"] =>
               /\ esysAuth' \in [User -> [Index -> {"empty"}]]
               /\ \A v \in User \ {u} : esysAuth'[v] = esysAuth[v]
    <2> SUFFICES ASSUME esysAuth' = [esysAuth EXCEPT ![u] = [@ EXCEPT ![call[u].index] = "empty"]]
                 PROVE  /\ esysAuth' \in [User -> [Index -> {"empty"}]]
                        /\ \A v \in User \ {u} : esysAuth'[v] = esysAuth[v]
      BY Zenon
    <2>1. [esysAuth[u] EXCEPT ![call[u].index] = "empty"] \in [Index -> {"empty"}]
      BY DEF TpmInv
    <2> QED
      BY <2>1 DEF TpmInv
  <1>10. CASE SetCurrentAuth(u)
    <2>1. /\ pc[u] = "set_current_auth"
          /\ \/ /\ pc' = [pc EXCEPT ![u] = "sent"]
                /\ esysAuth' = [esysAuth EXCEPT ![u][call[u].index] = "empty"]
                /\ UNCHANGED <<reply, result, reported, logged>>
             \/ /\ \E c \in RcCategory : ReturnTssError(u, c)
                /\ UNCHANGED esysAuth
          /\ UNCHANGED <<call, applied, since, observed, tpmVars>>
      BY <1>10 DEF SetCurrentAuth
    <2>2. CASE /\ pc' = [pc EXCEPT ![u] = "sent"]
               /\ esysAuth' = [esysAuth EXCEPT ![u][call[u].index] = "empty"]
               /\ UNCHANGED <<reply, result, reported, logged>>
      <3>0. esysAuth' \in [User -> [Index -> {"empty"}]]
            /\ \A v \in User \ {u} : esysAuth'[v] = esysAuth[v]
        BY <1>9, <2>2, Zenon
      <3>a. /\ pc' = [pc EXCEPT ![u] = "sent"]
            /\ UNCHANGED <<reply, result, reported, logged>>
        BY <2>2
      <3>1. Alone(u)
        BY <2>1, <3>a, <3>0 DEF Alone, Same, Shape, Over, Pc
      <3>2. GoesOn(u)
        BY <2>1, <3>a, <3>0 DEF GoesOn, Shape
      <3> QED
        BY <3>1, <3>2
    <2>3. CASE UNCHANGED esysAuth /\ \E c \in RcCategory : ReturnTssError(u, c)
      BY <1>0, <2>1, <2>3, ErrorDoes
    <2> QED
      BY <2>1, <2>2, <2>3
  <1>11. CASE UpdateAuth(u)
    <2>1. /\ pc[u] = "update_auth"
          /\ \/ /\ esysAuth' = [esysAuth EXCEPT ![u][call[u].index] = "empty"]
                /\ Complete(u, [NoOutcome EXCEPT !.status = "ok"])
             \/ /\ \E c \in RcCategory : ReturnTssError(u, c)
                /\ UNCHANGED esysAuth
          /\ UNCHANGED <<call, applied, since, observed, tpmVars>>
      BY <1>11 DEF UpdateAuth
    <2>2. CASE /\ esysAuth' = [esysAuth EXCEPT ![u][call[u].index] = "empty"]
               /\ Complete(u, [NoOutcome EXCEPT !.status = "ok"])
      <3>0. esysAuth' \in [User -> [Index -> {"empty"}]]
            /\ \A v \in User \ {u} : esysAuth'[v] = esysAuth[v]
        BY <1>9, <2>2, Zenon
      <3>1. Rest(u)
        BY <2>1, <3>0 DEF Rest
      <3>2. PICK o : Complete(u, o) /\ o.status = "ok"
        BY <1>3, <2>2, Zenon
      <3>3. call[u].op \in Op /\ call[u].op # "read"
        BY <1>0, <2>1 DEF Control, Op
      <3> QED
        BY <2>1, <3>1, <3>2, <3>3, SuccessDoes
    <2>3. CASE UNCHANGED esysAuth /\ \E c \in RcCategory : ReturnTssError(u, c)
      BY <1>0, <2>1, <2>3, ErrorDoes
    <2> QED
      BY <2>1, <2>2, <2>3, Zenon
  <1>12. CASE Observe(u)
    <2>1. /\ pc[u] = "observe"
          /\ IF u \in Watched THEN TellObserver(u) ELSE UNCHANGED observed
          /\ Return(u, [result[u] EXCEPT !.status = "ok"])
          /\ UNCHANGED <<call, applied, since, logged, esysAuth, tpmVars>>
      BY <1>12 DEF Observe
    <2>2. PICK o : o = [result[u] EXCEPT !.status = "ok"]
      OBVIOUS
    <2>3. o.status = "ok"
      <3>1. PICK d : result[u] = [NoOutcome EXCEPT !.digests = d]
        BY <1>0, <2>1 DEF Control
      <3> QED
        BY <2>2, <3>1 DEF NoOutcome
    <2>4. /\ pc' \in [User -> Pc] /\ Over(reply)' /\ Over(result)'
          /\ reported' \in [User -> SUBSET Nat]
          /\ pc'[u] = "idle" /\ result'[u] = o
          /\ reported'[u] = reported[u]
          /\ \A v \in User \ {u} : /\ pc'[v] = pc[v] /\ reply'[v] = reply[v]
                                   /\ result'[v] = result[v] /\ reported'[v] = reported[v]
      <3>1. Return(u, o)
        BY <2>1, <2>2, Zenon
      <3> QED
        BY <2>3, <3>1, ReturnDoes
    <2>5. /\ Over(observed)'
          /\ observed'[u] = IF u \in Watched THEN Append(observed[u], make_record(u))
                                             ELSE observed[u]
          /\ \A v \in User \ {u} : observed'[v] = observed[v]
      BY <2>1 DEF Shape, Over, TellObserver
    <2>6. Alone(u)
      BY <2>1, <2>4, <2>5 DEF Alone, Same, Shape, Over
    <2>7. Announced(u)
      BY <2>1, <2>3, <2>4, <2>5 DEF Announced
    <2> QED
      BY <2>6, <2>7
  <1> QED
    BY <1>4, <1>5, <1>6, <1>7, <1>8, <1>10, <1>11, <1>12 DEF Run

\* A command is answered for the user who sent it.
LEMMA AnswerDoes ==
  ASSUME Shape, NEW u \in User, NEW rep, Answer(u, rep)
  PROVE  /\ pc' \in [User -> Pc] /\ Over(reply)' /\ pc'[u] = "replied" /\ reply'[u] = rep
         /\ UNCHANGED <<call, result, since, observed, logged, reported, esysAuth>>
         /\ \A v \in User \ {u} : pc'[v] = pc[v] /\ reply'[v] = reply[v]
  BY DEF Answer, Shape, Over, Pc

LEMMA DeliveredIs ==
  ASSUME NEW d, NEW rep \in Delivered([NoReply EXCEPT !.digests = d])
  PROVE  rep.rc \in RcCategory \cup {"ok"} /\ (rep.rc = "ok" => rep.digests = d)
  <1> DEFINE r == [NoReply EXCEPT !.digests = d]
  <1>1. \/ \E data : rep = [r EXCEPT !.rc = "ok", !.data = data]
        \/ \E c \in RcCategory : rep = [NoReply EXCEPT !.rc = c]
    BY DEF Delivered
  <1>2. \A data : /\ [r EXCEPT !.rc = "ok", !.data = data].rc = "ok"
                  /\ [r EXCEPT !.rc = "ok", !.data = data].digests = d
    BY DEF NoReply
  <1>3. \A c \in RcCategory : /\ [NoReply EXCEPT !.rc = c].rc = c
                              /\ c # "ok"
    BY ProviderAssumption DEF NoReply, Category
  <1> QED
    BY <1>1, <1>2, <1>3

\* An answer to anything else.
LEMMA DeliveredHas ==
  ASSUME NEW r, NEW rep \in Delivered(r), DOMAIN r = DOMAIN NoReply
  PROVE  rep.rc \in RcCategory \cup {"ok"}
  <1>1. \/ \E data : rep = [r EXCEPT !.rc = "ok", !.data = data]
        \/ \E c \in RcCategory : rep = [NoReply EXCEPT !.rc = c]
    BY DEF Delivered
  <1>2. "rc" \in DOMAIN r
    BY DEF NoReply
  <1>3. \A data : [r EXCEPT !.rc = "ok", !.data = data].rc = "ok"
    BY <1>2
  <1>4. \A c \in RcCategory : [NoReply EXCEPT !.rc = c].rc = c
    BY DEF NoReply
  <1> QED
    BY <1>1, <1>3, <1>4

LEMMA UpdatesDoes ==
  ASSUME Shape, TpmInv, NEW u \in User, call[u] \in Request, pc[u] = "sent",
         NEW kind \in Updating, NEW banks \in SUBSET Bank, NEW digests,
         call[u].op = kind, Updates(u, kind, banks, digests),
         kind = "extend" => banks \subseteq {call[u].banks[k] : k \in 1..Len(call[u].banks)},
         kind = "event" => digests = banks
  PROVE  Alone(u) /\ Updated(u) /\ TpmInv'
  <1> DEFINE h == [by |-> u, kind |-> kind, index |-> call[u].index, banks |-> banks]
  <1>1. PICK rep \in Delivered([NoReply EXCEPT !.digests = digests]) : Answer(u, rep)
    BY DEF Updates
  <1>2. /\ history' = Append(history, h)
        /\ applied' = [applied EXCEPT ![u] = @ \cup {Len(history) + 1}]
        /\ UNCHANGED <<tpmAuth, active, pending>>
    BY DEF Updates
  <1>3. rep.rc \in RcCategory \cup {"ok"} /\ (rep.rc = "ok" => rep.digests = digests)
    BY DeliveredIs
  <1>4. /\ pc' \in [User -> Pc] /\ Over(reply)' /\ pc'[u] = "replied" /\ reply'[u] = rep
        /\ UNCHANGED <<call, result, since, observed, logged, reported, esysAuth>>
        /\ \A v \in User \ {u} : pc'[v] = pc[v] /\ reply'[v] = reply[v]
    BY <1>1, AnswerDoes
  <1>5. call[u].index \in Index
    BY ProviderAssumption DEF Updating
  <1>6. h \in Update
    BY <1>5 DEF Update, Updating
  <1>7. Len(history) + 1 \in Nat
    BY DEF TpmInv
  <1>8. TpmInv'
    BY <1>2, <1>4, <1>6 DEF TpmInv
  <1> HIDE DEF h
  <1>9. Alone(u)
    <2>1. /\ applied' \in [User -> SUBSET Nat]
          /\ \A v \in User \ {u} : applied'[v] = applied[v]
      BY <1>2, <1>7 DEF Shape
    <2> QED
      BY <1>4, <2>1 DEF Alone, Same, Shape, Over
  <1>10. Updated(u)
    <2>1. applied'[u] = applied[u] \cup {Len(history) + 1}
      BY <1>2 DEF Shape
    <2> QED
      BY <1>2, <1>3, <1>4, <2>1 DEF Updated, h
  <1> QED
    BY <1>8, <1>9, <1>10

\* Elements of a set of numbers are told apart by how many are not above them.
LEMMA Ranks ==
  ASSUME NEW S \in SUBSET Nat, IsFiniteSet(S)
  PROVE  /\ \A i \in S : Cardinality({j \in S : j =< i}) \in 1..Cardinality(S)
         /\ \A i, j \in S : Cardinality({k \in S : k =< i}) =
                             Cardinality({k \in S : k =< j}) => i = j
  <1> DEFINE upto(i) == {j \in S : j =< i}
  <1>1. Cardinality(S) \in Nat
    BY FS_CardinalityType
  <1>2. ASSUME NEW i \in S
        PROVE  /\ IsFiniteSet(upto(i)) /\ Cardinality(upto(i)) =< Cardinality(S)
               /\ Cardinality(upto(i)) \in Nat /\ Cardinality(upto(i)) # 0
    <2>1. upto(i) \in SUBSET S /\ i \in upto(i)
      OBVIOUS
    <2> HIDE DEF upto
    <2>2. IsFiniteSet(upto(i)) /\ Cardinality(upto(i)) =< Cardinality(S)
      BY <2>1, FS_Subset
    <2> QED
      BY <2>1, <2>2, FS_CardinalityType, FS_EmptySet
  <1>3. ASSUME NEW i \in S, NEW j \in S, i < j
        PROVE  Cardinality(upto(i)) # Cardinality(upto(j))
    <2>1. upto(i) \in SUBSET upto(j) /\ j \in upto(j) /\ j \notin upto(i)
      <3>1. i \in Nat /\ j \in Nat /\ j =< j /\ ~ (j =< i)
        BY <1>3
      <3>2. \A k \in S : k =< i => k =< j
        <4>1. \A k \in Nat : k =< i => k =< j
          BY <1>3, <3>1
        <4> QED
          BY <4>1
      <3> QED
        BY <3>1, <3>2
    <2>2. IsFiniteSet(upto(j))
      BY <1>2
    <2> HIDE DEF upto
    <2> QED
      BY <2>1, <2>2, FS_Subset
  <1>4. \A i \in S : Cardinality(upto(i)) \in 1..Cardinality(S)
    <2> HIDE DEF upto
    <2> QED
      BY <1>1, <1>2
  <1>5. ASSUME NEW i \in S, NEW j \in S, Cardinality(upto(i)) = Cardinality(upto(j))
        PROVE  i = j
    <2>1. ~ (i < j) /\ ~ (j < i)
      BY <1>3, <1>5
    <2> QED
      BY <2>1
  <1> QED
    BY <1>4, <1>5

LEMMA ValuesAreIn ==
  /\ \A b, i, n : ValueAt(b, i, n) = ValueIn(history, b, i, n)
  /\ \A n : CounterAt(n) = CounterIn(history, n)
  BY DEF ValueAt, ValueIn, CounterAt, CounterIn, Wipes

\* What the TPM does for a user.
LEMMA TpmDoes ==
  ASSUME Shape, TpmInv, Controlled, NEW u \in User, Tpm(u)
  PROVE  Alone(u) /\ (NoUpdate(u) \/ Updated(u)) /\ TpmInv'
  <1>0. /\ Control(u) /\ pc[u] = "sent" /\ call[u] \in Request
    <2>1. pc[u] = "sent"
      BY DEF Tpm, TpmExtends, TpmRunsEvent, TpmResetsPcr, TpmReads, TpmAllocates,
             TpmSetsPolicy, TpmSetsAuth, TpmRefuses, Sent
    <2> QED
      BY <2>1 DEF Controlled, Control
  <1>1. CASE TpmExtends(u)
    <2> DEFINE named == {call[u].banks[k] : k \in 1..Len(call[u].banks)}
    <2>1. call[u].op = "extend" /\ Updates(u, "extend", active \cap named, {})
      BY <1>1 DEF TpmExtends, Sent
    <2>2. active \cap named \in SUBSET Bank /\ active \cap named \subseteq named
      BY DEF TpmInv
    <2> HIDE DEF named
    <2>3. PICK banks, digests :
              banks \in SUBSET Bank /\ Updates(u, "extend", banks, digests) /\ banks \subseteq named
      BY <2>1, <2>2
    <2>4. "extend" \in Updating
      BY DEF Updating
    <2> QED
      BY <1>0, <2>1, <2>3, <2>4, UpdatesDoes DEF named
  <1>2. CASE TpmRunsEvent(u)
    <2>1. PICK banks, digests :
              /\ banks \in SUBSET Bank /\ Updates(u, "event", banks, digests)
              /\ digests = banks /\ call[u].op = "event" /\ "event" \in Updating
      BY <1>2 DEF Updating, TpmRunsEvent, Sent, TpmInv
    <2> QED
      BY <1>0, <2>1, UpdatesDoes
  <1>3. CASE TpmResetsPcr(u)
    <2>1. PICK banks, digests :
              /\ banks \in SUBSET Bank /\ Updates(u, "reset", banks, digests)
              /\ call[u].op = "reset" /\ "reset" \in Updating
      BY <1>3 DEF Updating, TpmResetsPcr, Sent, TpmInv
    <2> QED
      BY <1>0, <2>1, UpdatesDoes
  <1>4. ASSUME NEW rep, Answer(u, rep), rep.rc \in RcCategory \cup {"ok"},
               rep.rc = "ok" =>
                  /\ call[u].op \notin Updating
                  /\ call[u].op = "read" =>
                        /\ rep.indices \subseteq call[u].indices
                        /\ Snapshot(history, call[u].bank, Decoded(rep), Len(history)),
               UNCHANGED <<applied, active, history>>,
               tpmAuth' \in [Index -> {"empty", "foreign"}], pending' \in SUBSET Bank
        PROVE  Alone(u) /\ NoUpdate(u) /\ TpmInv'
    <2>1. /\ pc' \in [User -> Pc] /\ Over(reply)' /\ pc'[u] = "replied" /\ reply'[u] = rep
          /\ UNCHANGED <<call, result, since, observed, logged, reported, esysAuth>>
          /\ \A v \in User \ {u} : pc'[v] = pc[v] /\ reply'[v] = reply[v]
      BY <1>4, AnswerDoes
    <2>2. Alone(u)
      BY <1>4, <2>1 DEF Alone, Same, Shape, Over
    <2>3. NoUpdate(u)
      BY <1>0, <1>4, <2>1 DEF NoUpdate
    <2>4. TpmInv'
      BY <1>4, <2>1 DEF TpmInv
    <2> QED
      BY <2>2, <2>3, <2>4
  <1>5. CASE TpmReads(u)
    <2> DEFINE r == call[u]
               got == IF r.bank \in active
                      THEN {i \in r.indices :
                                Cardinality({j \in r.indices : j =< i}) =< MaxDigests}
                      ELSE {}
               nth(k) == CHOOSE i \in got : Cardinality({j \in got : j =< i}) = k
               told == [NoReply EXCEPT
                  !.indices = got,
                  !.values = [k \in 1..Cardinality(got) |->
                                  ValueAt(r.bank, nth(k), Len(history))],
                  !.counter = CounterAt(Len(history))]
    <2>1. /\ \E rep \in Delivered(told) : Answer(u, rep)
          /\ UNCHANGED <<applied, tpmVars>> /\ call[u].op = "read"
      BY <1>5 DEF TpmReads, Sent
    <2>2. DOMAIN told = DOMAIN NoReply
      BY DEF NoReply
    <2> HIDE DEF told
    <2>3. PICK rep \in Delivered(told) : Answer(u, rep)
      BY <2>1
    <2>4. rep.rc \in RcCategory \cup {"ok"}
      BY <2>2, DeliveredHas
    <2>5. ASSUME rep.rc = "ok"
          PROVE  /\ rep.indices \subseteq call[u].indices
                 /\ Snapshot(history, call[u].bank, Decoded(rep), Len(history))
      <3>1. PICK data : rep = [told EXCEPT !.rc = "ok", !.data = data]
        <4>1. \A c \in RcCategory : [NoReply EXCEPT !.rc = c].rc # "ok"
          BY ProviderAssumption DEF NoReply, Category
        <4> QED
          BY <2>5, <4>1 DEF Delivered
      <3>2. /\ rep.indices = got /\ rep.counter = CounterAt(Len(history))
            /\ rep.values = [k \in 1..Cardinality(got) |->
                                ValueAt(r.bank, nth(k), Len(history))]
        BY <3>1 DEF told, NoReply
      <3>3. got \subseteq r.indices /\ r.indices \subseteq Index
        BY <1>0, <2>1, ProviderAssumption
      <3> HIDE DEF got
      <3>4. /\ \A i \in got : Cardinality({j \in got : j =< i}) \in 1..Cardinality(got)
            /\ \A i, j \in got : Cardinality({k \in got : k =< i}) =
                                  Cardinality({k \in got : k =< j}) => i = j
        <4>1. got \in SUBSET Nat /\ IsFiniteSet(got)
          BY <3>3, ProviderAssumption, FS_Subset
        <4> QED
          BY <4>1, Ranks
      <3>5. ASSUME NEW i \in got
            PROVE  rep.values[Cardinality({j \in got : j =< i})] = ValueAt(r.bank, i, Len(history))
        <4>1. nth(Cardinality({j \in got : j =< i})) = i
          BY <3>4
        <4> HIDE DEF nth
        <4> QED
          BY <3>2, <3>4, <4>1
      <3>6. \A i \in got : Decoded(rep).values[i] = ValueIn(history, r.bank, i, Len(history))
        BY <3>2, <3>5, ValuesAreIn DEF Decoded, to_domain_read_values
      <3>7. /\ DOMAIN Decoded(rep).values = got
            /\ Decoded(rep).counter = CounterIn(history, Len(history))
        BY <3>2, ValuesAreIn DEF Decoded, to_domain_read_values
      <3> QED
        BY <3>2, <3>3, <3>6, <3>7 DEF Snapshot
    <2> QED
      BY <1>4, <2>1, <2>3, <2>4, <2>5 DEF tpmVars, Updating, TpmInv
  <1>6. CASE TpmAllocates(u)
    <2> DEFINE named == {call[u].banks[k] : k \in 1..Len(call[u].banks)}
    <2>1. /\ \E rep \in Delivered(NoReply) : Answer(u, rep)
          /\ UNCHANGED <<applied, tpmAuth, active, history>> /\ call[u].op = "allocate"
          /\ pending' \in {pending, pending \cup named}
      BY <1>6 DEF TpmAllocates, Sent
    <2>2. named \subseteq Bank
      <3>1. call[u].banks \in Seq(Supported)
        BY <1>0, <2>1, ProviderAssumption
      <3> QED
        BY <3>1, ProviderAssumption
    <2>3. \E rep : Answer(u, rep) /\ rep.rc \in RcCategory \cup {"ok"}
      BY <2>1, DeliveredHas
    <2> QED
      BY <1>4, <2>1, <2>2, <2>3 DEF Updating, TpmInv
  <1>7. CASE TpmSetsPolicy(u)
    <2>1. /\ \E rep \in Delivered(NoReply) : Answer(u, rep)
          /\ UNCHANGED <<applied, tpmVars>> /\ call[u].op = "set_auth_policy"
      BY <1>7 DEF TpmSetsPolicy, Sent
    <2>2. \E rep : Answer(u, rep) /\ rep.rc \in RcCategory \cup {"ok"}
      BY <2>1, DeliveredHas
    <2> QED
      BY <1>4, <2>1, <2>2 DEF tpmVars, Updating, TpmInv
  <1>8. CASE TpmSetsAuth(u)
    <2>1. /\ \E rep \in Delivered(NoReply) : Answer(u, rep)
          /\ UNCHANGED <<applied, active, pending, history>> /\ call[u].op = "set_auth_value"
          /\ tpmAuth' = [tpmAuth EXCEPT ![call[u].index] = call[u].auth]
      BY <1>8 DEF TpmSetsAuth, Sent
    <2>2. \E rep : Answer(u, rep) /\ rep.rc \in RcCategory \cup {"ok"}
      BY <2>1, DeliveredHas
    <2>3. tpmAuth' \in [Index -> {"empty", "foreign"}]
      <3>1. call[u].auth = "empty"
        BY <1>0, <2>1 DEF Control
      <3> QED
        BY <2>1, <3>1 DEF TpmInv
    <2> QED
      BY <1>4, <2>1, <2>2, <2>3 DEF Updating, TpmInv
  <1>9. CASE TpmRefuses(u)
    <2>1. /\ \E c \in RcCategory : Answer(u, [NoReply EXCEPT !.rc = c])
          /\ UNCHANGED <<applied, tpmVars>>
      BY <1>9 DEF TpmRefuses
    <2>2. \A c \in RcCategory : [NoReply EXCEPT !.rc = c].rc = c /\ c # "ok"
      BY ProviderAssumption DEF NoReply, Category
    <2>3. \E rep : Answer(u, rep) /\ rep.rc \in RcCategory \cup {"ok"} /\ rep.rc # "ok"
      BY <2>1, <2>2
    <2> QED
      BY <1>4, <2>1, <2>3 DEF tpmVars, TpmInv
  <1> QED
    BY <1>1, <1>2, <1>3, <1>5, <1>6, <1>7, <1>8, <1>9 DEF Tpm

\* Other software, and restarts.
LEMMA ElsewhereDoes ==
  ASSUME Shape, TpmInv, NEW i \in Index,
         Restart(i) \/ \E kind \in {"extend", "reset"} : ForeignUpdate(i, kind)
  PROVE  Elsewhere /\ Shape' /\ TpmInv'
  <1>1. CASE Restart(i)
    <2> DEFINE h == [by |-> Nobody, kind |-> "restart", index |-> i, banks |-> {}]
    <2>1. /\ history' = Append(history, h)
          /\ tpmAuth' = [j \in Index |-> "empty"]
          /\ active' = pending
          /\ UNCHANGED <<pc, call, reply, result, applied, since, observed, logged, reported,
                         esysAuth, pending>>
      BY <1>1 DEF Restart
    <2>2. h \in Update /\ h.by = Nobody
      BY DEF Update
    <2> HIDE DEF h
    <2>3. Elsewhere
      BY <2>1, <2>2 DEF Elsewhere
    <2>4. Shape'
      BY <2>1 DEF Shape, Over
    <2>5. TpmInv'
      BY <2>1, <2>2 DEF TpmInv
    <2> QED
      BY <2>3, <2>4, <2>5
  <1>2. ASSUME NEW kind \in {"extend", "reset"}, ForeignUpdate(i, kind)
        PROVE  Elsewhere /\ Shape' /\ TpmInv'
    <2> DEFINE h == [by |-> Nobody, kind |-> kind, index |-> i, banks |-> active]
    <2>1. /\ history' = Append(history, h)
          /\ UNCHANGED <<pc, call, reply, result, applied, since, observed, logged, reported,
                         esysAuth, tpmAuth, active, pending>>
      BY <1>2 DEF ForeignUpdate
    <2>2. h \in Update /\ h.by = Nobody
      BY DEF Update, TpmInv
    <2> HIDE DEF h
    <2>3. Elsewhere
      BY <2>1, <2>2 DEF Elsewhere
    <2>4. Shape'
      BY <2>1 DEF Shape, Over
    <2>5. TpmInv'
      BY <2>1, <2>2 DEF TpmInv
    <2> QED
      BY <2>3, <2>4, <2>5
  <1> QED
    BY <1>1, <1>2

-----------------------------------------------------------------------------
(* A provider that takes no part in a step *)

Step(u) ==
    \/ Refused(u) \/ Begun(u) \/ NoUpdate(u) \/ Updated(u) \/ Failed(u)
    \/ Succeeded(u) \/ Noted(u) \/ Announced(u) \/ GoesOn(u)

\* The history is only added to, ...
Extended ==
    /\ Len(history) \in Nat /\ Len(history') \in Nat /\ Len(history) =< Len(history')
    /\ \A p \in 1..Len(history) : p \in 1..Len(history') /\ history'[p] = history[p]

\* ... and not by v.
NotBy(v) == \A p \in 1..Len(history') : p \in 1..Len(history) \/ history'[p].by # v

LEMMA Added ==
  ASSUME TpmInv, NEW h, h \in Update, history' = Append(history, h)
  PROVE  /\ Extended /\ Len(history') = Len(history) + 1
         /\ history'[Len(history) + 1] = h
         /\ Len(history) + 1 \in 1..Len(history') /\ Len(history) + 1 \notin 1..Len(history)
         /\ \A p \in 1..Len(history') : p \in 1..Len(history) \/ p = Len(history) + 1
  <1>1. history \in Seq(Update) /\ Len(history) \in Nat
    BY DEF TpmInv
  <1>2. /\ Len(history') = Len(history) + 1 /\ history'[Len(history) + 1] = h
        /\ \A p \in 1..Len(history) : history'[p] = history[p]
    BY <1>1
  <1> QED
    BY <1>1, <1>2 DEF Extended

LEMMA Unchanged ==
  ASSUME TpmInv, UNCHANGED history, NEW v
  PROVE  Extended /\ NotBy(v)
  BY DEF TpmInv, Extended, NotBy

LEMMA BystanderControl ==
  ASSUME NEW v \in User, Same(v), Control(v)
  PROVE  Control(v)'
  BY DEF Same, Control

LEMMA BystanderUpdate ==
  ASSUME NEW v \in User, Same(v), Extended, UpdateInv(v)
  PROVE  UpdateInv(v)'
  <1>1. \A p \in applied[v] : p \in 1..Len(history) /\ history'[p] = history[p]
                              /\ p \in 1..Len(history')
    BY DEF UpdateInv, Extended
  <1> QED
    BY <1>1 DEF Same, UpdateInv

LEMMA FaithfulStays ==
  ASSUME NEW v, NEW rec, Extended, Faithful(v, rec, history)
  PROVE  Faithful(v, rec, history')
  BY DEF Faithful, Extended

LEMMA BystanderTold ==
  ASSUME NEW v \in User, Same(v), Extended, NotBy(v), ToldInv(v)
  PROVE  ToldInv(v)'
  <1>1. observed'[v] = observed[v] /\ reported'[v] = reported[v] /\ Running(v)' = Running(v)
    BY DEF Same, Running
  <1>2. \A k \in 1..Len(observed[v]) : Faithful(v, observed[v][k], history')
    BY FaithfulStays DEF ToldInv
  <1>3. \A k \in 1..Len(observed[v]) : Faithful(v, observed'[v][k], history')
    BY <1>1, <1>2
  <1>4. reported[v] \subseteq 1..Len(history')
    BY DEF Extended, ToldInv
  <1>5. v \in Watched =>
          \A p \in 1..Len(history') :
              history'[p].by = v /\ history'[p].kind \in {"extend", "event"} =>
                  \/ \E k \in 1..Len(observed[v]) : observed[v][k].at = p
                  \/ p \in reported[v] \cup Running(v)
    BY DEF Extended, NotBy, ToldInv
  <1> QED
    BY <1>1, <1>3, <1>4, <1>5 DEF ToldInv

LEMMA BystanderLog ==
  ASSUME NEW v \in User, Same(v), Extended, UpdateInv(v), LogInv(v)
  PROVE  LogInv(v)'
  <1>1. \A p \in applied[v] : history'[p] = history[p]
    BY DEF UpdateInv, Extended
  <1>2. NotSent(v)' <=> NotSent(v)
    BY DEF Same, NotSent
  <1>3. (Silent(v) => Silent(v)') /\ (Complaint(v) => Complaint(v)')
    BY <1>2 DEF Same, Silent, Complaint
  <1>4. Confirmation(v) => Confirmation(v)'
    BY <1>1, <1>2 DEF Same, Confirmation
  <1> QED
    BY <1>2, <1>3, <1>4 DEF LogInv, Same

-----------------------------------------------------------------------------
(* The provider that takes the step *)

LEMMA KeepsControl ==
  ASSUME NEW u \in User, Control(u), Step(u)
  PROVE  Control(u)'
  <1>1. CASE Refused(u) \/ Failed(u) \/ Succeeded(u) \/ Announced(u)
    <2>1. pc'[u] = "idle" /\ call'[u] \in Request \cup {Nobody}
      BY <1>1 DEF Refused, Failed, Succeeded, Announced, Control
    <2> QED
      BY <2>1 DEF Control
  <1>2. CASE Begun(u)
    BY <1>2 DEF Begun, Control
  <1>3. CASE NoUpdate(u)
    BY <1>3 DEF NoUpdate, Control
  <1>4. CASE Updated(u)
    BY <1>4 DEF Updated, Control
  <1>5. CASE Noted(u)
    <2>1. /\ pc[u] = "replied" /\ call[u].op \in {"extend", "event"}
          /\ pc'[u] = "observe" /\ call'[u] = call[u]
      BY <1>5 DEF Noted
    <2>2. PICK d : result'[u] = [NoOutcome EXCEPT !.digests = d]
      BY <1>5 DEF Noted
    <2>3. result'[u].digests = d
      BY <2>2 DEF NoOutcome
    <2> QED
      BY <2>1, <2>2, <2>3 DEF Control
  <1>6. CASE GoesOn(u)
    BY <1>6 DEF GoesOn, Control
  <1> QED
    BY <1>1, <1>2, <1>3, <1>4, <1>5, <1>6 DEF Step

\* Only an answer to extend, event or reset adds to a call's updates.
LEMMA KeepsUpdate ==
  ASSUME NEW u \in User, TpmInv, Shape, Control(u), UpdateInv(u), Step(u)
  PROVE  UpdateInv(u)'
  <1>0. /\ "ok" \notin {"none", "input_error"} /\ "none" # "input_error"
        /\ NoOutcome.status = "none"
        /\ \A d : [NoOutcome EXCEPT !.digests = d].status = "none"
        /\ \A d : [NoOutcome EXCEPT !.digests = d].digests = d
        /\ \A c : [NoOutcome EXCEPT !.status = c].status = c
    BY DEF NoOutcome
  <1>1. CASE Refused(u) \/ Begun(u)
    <2>1. applied'[u] = {} /\ pc'[u] \in {"idle", "set_current_auth", "sent"}
      BY <1>1 DEF Refused, Begun
    <2>2. pc'[u] = "idle" => result'[u].status # "ok"
      BY <1>1 DEF Refused, Begun
    <2> QED
      BY <2>1, <2>2 DEF UpdateInv
  <1>2. CASE NoUpdate(u)
    <2>1. /\ pc'[u] = "replied" /\ call'[u] = call[u] /\ history' = history
          /\ reply'[u].rc = "ok" => call[u].op \notin Updating
          /\ applied'[u] = applied[u] /\ applied[u] = {} /\ result'[u] = result[u]
      BY <1>2 DEF NoUpdate, UpdateInv
    <2> QED
      BY <2>1 DEF UpdateInv
  <1>3. CASE Updated(u)
    <2>1. PICK banks \in SUBSET Bank :
              /\ history' = Append(history, [by |-> u, kind |-> call[u].op,
                                             index |-> call[u].index, banks |-> banks])
              /\ call[u].op = "extend" =>
                    banks \subseteq {call[u].banks[k] : k \in 1..Len(call[u].banks)}
              /\ call[u].op = "event" /\ reply'[u].rc = "ok" => reply'[u].digests = banks
      BY <1>3 DEF Updated
    <2>2. PICK h : h = [by |-> u, kind |-> call[u].op, index |-> call[u].index, banks |-> banks]
      OBVIOUS
    <2>3. PICK p : p = Len(history) + 1
      OBVIOUS
    <2>4. /\ call[u] \in Request /\ call[u].op \in Updating /\ pc[u] = "sent"
          /\ pc'[u] = "replied" /\ call'[u] = call[u] /\ result'[u] = result[u]
          /\ applied[u] = {}
          /\ applied'[u] = applied[u] \cup {Len(history) + 1}
      BY <1>3 DEF Updated, Control, UpdateInv
    <2>5. applied'[u] = {p}
      BY <2>3, <2>4
    <2>6. h \in Update
      <3>1. call[u].index \in Index
        BY <2>4, ProviderAssumption DEF Updating
      <3> QED
        BY <2>2, <2>4, <3>1 DEF Update, Updating
    <2>7. history'[p] = h /\ p \in 1..Len(history')
      <3>1. history' = Append(history, h)
        BY <2>1, <2>2
      <3> QED
        BY <2>3, <2>6, <3>1, Added
    <2>8. history'[p].by = u /\ history'[p].kind = call[u].op
          /\ history'[p].index = call[u].index /\ history'[p].banks = banks
      BY <2>2, <2>7
    <2>9. result[u].status = "none"
      BY <1>0, <2>4 DEF Control
    <2> QED
      BY <1>0, <2>1, <2>4, <2>5, <2>7, <2>8, <2>9 DEF UpdateInv
  <1>4. CASE Failed(u)
    <2>1. /\ pc'[u] = "idle" /\ call'[u] = call[u] /\ applied'[u] = applied[u]
          /\ history' = history /\ pc[u] \in {"replied", "set_current_auth", "update_auth"}
      BY <1>4 DEF Failed, tpmVars
    <2>2. PICK c \in Category : result'[u].status = c /\ (c \in RcCategory \/ c = "backend_error")
      BY <1>0, <1>4 DEF Failed
    <2>3. /\ result'[u].status # "ok"
          /\ result'[u].status = "input_error" => "input_error" \in RcCategory
      BY <2>2 DEF Category
    <2> QED
      BY <2>1, <2>3 DEF UpdateInv
  <1>5. CASE Succeeded(u)
    <2>1. /\ pc'[u] = "idle" /\ call'[u] = call[u] /\ applied'[u] = applied[u]
          /\ history' = history /\ result'[u].status = "ok"
          /\ \/ pc[u] = "replied" /\ reply[u].rc = "ok"
             \/ pc[u] = "update_auth"
      BY <1>5 DEF Succeeded, tpmVars
    <2>2. applied[u] # {} <=> call[u].op \in Updating
      BY <2>1 DEF UpdateInv, Control, Updating
    <2> QED
      BY <1>0, <2>1, <2>2 DEF UpdateInv
  <1>6. CASE Noted(u)
    <2>1. /\ pc[u] = "replied" /\ reply[u].rc = "ok" /\ call[u].op \in {"extend", "event"}
          /\ pc'[u] = "observe" /\ call'[u] = call[u] /\ applied'[u] = applied[u]
          /\ history' = history
          /\ \E d : /\ result'[u] = [NoOutcome EXCEPT !.digests = d]
                    /\ call[u].op = "event" => d = reply[u].digests \ Skipped
      BY <1>6 DEF Noted, tpmVars
    <2>2. applied[u] # {}
      BY <2>1 DEF UpdateInv, Updating
    <2>3. /\ result'[u].status = "none"
          /\ call[u].op = "event" => result'[u].digests = reply[u].digests \ Skipped
      BY <1>0, <2>1
    <2> QED
      BY <1>0, <2>1, <2>2, <2>3 DEF UpdateInv
  <1>7. CASE Announced(u)
    <2>1. /\ pc[u] = "observe" /\ pc'[u] = "idle" /\ call'[u] = call[u]
          /\ applied'[u] = applied[u] /\ history' = history /\ result'[u].status = "ok"
      BY <1>7 DEF Announced, tpmVars
    <2>2. applied[u] # {} /\ call[u].op \in Updating
      BY <2>1 DEF UpdateInv, Control, Updating
    <2> QED
      BY <1>0, <2>1, <2>2 DEF UpdateInv
  <1>8. CASE GoesOn(u)
    <2>1. /\ call'[u] = call[u] /\ result'[u] = result[u] /\ applied'[u] = applied[u]
          /\ history' = history /\ pc'[u] \in {"sent", "update_auth"}
          /\ pc[u] = "set_current_auth" \/ call[u].op = "set_auth_value"
      BY <1>8 DEF GoesOn, tpmVars
    <2>2. applied[u] = {}
      BY <2>1 DEF UpdateInv, Updating
    <2> QED
      BY <2>1, <2>2 DEF UpdateInv
  <1> QED
    BY <1>1, <1>2, <1>3, <1>4, <1>5, <1>6, <1>7, <1>8 DEF Step

\* Nothing of what an observer knows, or of what it is to know, changes.
LEMMA KeepsToldAlike ==
  ASSUME NEW u \in User, ToldInv(u), history' = history, observed'[u] = observed[u],
         reported'[u] = reported[u],
         Running(u)' = Running(u)
  PROVE  ToldInv(u)'
  BY DEF ToldInv

\* An update is told, or reported, by the end of its call.
LEMMA KeepsTold ==
  ASSUME NEW u \in User, TpmInv, Shape, Control(u), UpdateInv(u), ToldInv(u), Step(u)
  PROVE  ToldInv(u)'
  <1>1. CASE Refused(u) \/ Begun(u)
    <2>1. /\ observed'[u] = observed[u] /\ reported'[u] = reported[u] /\ history' = history
          /\ pc[u] = "idle" /\ applied'[u] = {}
      BY <1>1 DEF Refused, Begun, tpmVars
    <2>2. Running(u) = {} /\ Running(u)' = {}
      BY <2>1 DEF Running
    <2> QED
      BY <2>1, <2>2, KeepsToldAlike
  <1>2. CASE NoUpdate(u) \/ Noted(u) \/ GoesOn(u)
    <2>1. /\ observed'[u] = observed[u] /\ reported'[u] = reported[u] /\ history' = history
          /\ pc[u] # "idle" /\ pc'[u] # "idle" /\ applied'[u] = applied[u]
      BY <1>2 DEF NoUpdate, Noted, GoesOn, tpmVars
    <2>2. Running(u)' = Running(u)
      BY <2>1 DEF Running
    <2> QED
      BY <2>1, <2>2, KeepsToldAlike
  <1>3. CASE Updated(u)
    <2>1. PICK banks \in SUBSET Bank :
              history' = Append(history, [by |-> u, kind |-> call[u].op,
                                          index |-> call[u].index, banks |-> banks])
      BY <1>3 DEF Updated
    <2>2. PICK h : h = [by |-> u, kind |-> call[u].op, index |-> call[u].index, banks |-> banks]
      OBVIOUS
    <2>3. PICK p : p = Len(history) + 1
      OBVIOUS
    <2>4. /\ call[u] \in Request /\ call[u].op \in Updating /\ pc[u] = "sent"
          /\ pc'[u] = "replied" /\ applied[u] = {} /\ applied'[u] = {p}
          /\ observed'[u] = observed[u] /\ reported'[u] = reported[u]
      BY <1>3, <2>3 DEF Updated, Control, UpdateInv
    <2>5. h \in Update
      <3>1. call[u].index \in Index
        BY <2>4, ProviderAssumption DEF Updating
      <3> QED
        BY <2>2, <2>4, <3>1 DEF Update, Updating
    <2>6. /\ Extended /\ history'[p] = h /\ p \in 1..Len(history') /\ p \notin 1..Len(history)
          /\ \A q \in 1..Len(history') : q \in 1..Len(history) \/ q = p
      <3>1. history' = Append(history, h)
        BY <2>1, <2>2
      <3> QED
        BY <2>3, <2>5, <3>1, Added
    <2>7. Running(u) = {} /\ Running(u)' = {p}
      BY <2>4 DEF Running
    <2>8. \A k \in 1..Len(observed[u]) : Faithful(u, observed[u][k], history')
      BY <2>6, FaithfulStays DEF ToldInv
    <2>9. reported[u] \subseteq 1..Len(history') /\ p \notin reported[u]
      BY <2>6 DEF ToldInv, Extended
    <2>10. \A k \in 1..Len(observed[u]) : observed[u][k].at < p
      <3>1. \A k \in 1..Len(observed[u]) : observed[u][k].at \in 1..Len(history)
        BY DEF ToldInv, Faithful
      <3>2. Len(history) \in Nat
        BY DEF TpmInv
      <3> QED
        BY <2>3, <3>1, <3>2
    <2>11. u \in Watched =>
          \A q \in 1..Len(history') :
              history'[q].by = u /\ history'[q].kind \in {"extend", "event"} =>
                  \/ \E k \in 1..Len(observed[u]) : observed[u][k].at = q
                  \/ q \in reported[u] \cup {p}
      BY <2>6, <2>7 DEF ToldInv, Extended
    <2> QED
      BY <2>4, <2>7, <2>8, <2>9, <2>10, <2>11 DEF ToldInv
  <1>4. CASE Failed(u)
    <2>1. /\ observed'[u] = observed[u] /\ reported'[u] = reported[u] \cup applied[u]
          /\ history' = history /\ pc[u] # "idle" /\ pc'[u] = "idle"
      BY <1>4 DEF Failed, tpmVars
    <2>2. Running(u) = applied[u] /\ Running(u)' = {}
      BY <2>1 DEF Running
    <2>3. \A k \in 1..Len(observed[u]) : observed[u][k].at \notin applied[u]
      <3>1. \A k \in 1..Len(observed[u]) : observed[u][k].at \in Nat
        BY DEF ToldInv, Faithful
      <3>2. \A k \in 1..Len(observed[u]), q \in applied[u] : observed[u][k].at < q
        BY <2>2 DEF ToldInv
      <3>3. \A q \in Nat : ~ (q < q)
        OBVIOUS
      <3> QED
        BY <3>1, <3>2, <3>3, Zenon
    <2>4. applied[u] \subseteq 1..Len(history)
      BY DEF UpdateInv
    <2> QED
      BY <2>1, <2>2, <2>3, <2>4 DEF ToldInv
  <1>5. CASE Succeeded(u)
    <2>1. /\ observed'[u] = observed[u] /\ reported'[u] = reported[u] /\ history' = history
          /\ pc[u] # "idle" /\ pc'[u] = "idle" /\ call[u].op \notin {"extend", "event"}
      BY <1>5 DEF Succeeded, Control, tpmVars
    <2>2. Running(u) = applied[u] /\ Running(u)' = {}
      BY <2>1 DEF Running
    <2>3. \A p \in applied[u] : history[p].kind \notin {"extend", "event"}
      BY <2>1 DEF UpdateInv
    <2> QED
      BY <2>1, <2>2, <2>3 DEF ToldInv
  <1>6. CASE Announced(u)
    <2>1. /\ reported'[u] = reported[u] /\ history' = history
          /\ pc[u] = "observe" /\ pc'[u] = "idle"
          /\ observed'[u] = IF u \in Watched THEN Append(observed[u], make_record(u))
                                             ELSE observed[u]
      BY <1>6 DEF Announced, tpmVars
    <2>2. Running(u) = applied[u] /\ Running(u)' = {}
      BY <2>1 DEF Running
    <2>3. CASE u \notin Watched
      BY <2>1, <2>2, <2>3 DEF ToldInv
    <2>4. CASE u \in Watched
      <3>1. PICK p : applied[u] = {p} /\ p \in 1..Len(history)
        <4>1. applied[u] # {} /\ applied[u] \subseteq 1..Len(history)
              /\ \A p, q \in applied[u] : p = q
          BY <2>1 DEF UpdateInv
        <4> QED
          BY <4>1
      <3>2. PICK rec : rec = make_record(u)
        OBVIOUS
      <3>3. UpdateOf(u) = p
        BY <3>1 DEF UpdateOf
      <3>4. rec = [at |-> p, kind |-> call[u].op, index |-> call[u].index, banks |-> ToldBanks(u)]
        BY <3>2, <3>3 DEF make_record
      <3>5. /\ call[u] \in Request /\ call[u].op \in {"extend", "event"}
            /\ history[p].by = u /\ history[p].kind = call[u].op
            /\ history[p].index = call[u].index
            /\ call[u].op = "extend" =>
                  history[p].banks \subseteq {call[u].banks[k] : k \in 1..Len(call[u].banks)}
            /\ call[u].op = "event" => result[u].digests = history[p].banks \ Skipped
        BY <2>1, <3>1 DEF UpdateInv, Control
      <3>6. Faithful(u, rec, history)
        BY <3>1, <3>4, <3>5 DEF Faithful, ToldBanks
      <3>7. rec \in Entry
        <4>1. history[p] \in Update
          BY <3>1 DEF TpmInv
        <4>2. call[u].index \in Index
          BY <3>5, ProviderAssumption
        <4>3. ToldBanks(u) \subseteq Bank
          <5>1. CASE call[u].op = "extend"
            <6>1. call[u].banks \in Seq(Supported)
              BY <3>5, <5>1, ProviderAssumption
            <6> QED
              BY <5>1, <6>1, ProviderAssumption DEF ToldBanks
          <5>2. CASE call[u].op = "event"
            BY <3>5, <4>1, <5>2 DEF ToldBanks, Update
          <5> QED
            BY <3>5, <5>1, <5>2
        <4> QED
          BY <3>1, <3>4, <3>5, <4>2, <4>3 DEF Entry
      <3>8. observed[u] \in Seq(Entry) /\ observed'[u] = Append(observed[u], rec)
        BY <2>1, <2>4, <3>2 DEF ToldInv
      <3>9. PICK n \in Nat : n = Len(observed[u])
        BY <3>8
      <3>10. /\ observed'[u] \in Seq(Entry) /\ Len(observed'[u]) = n + 1
             /\ observed'[u][n + 1] = rec
             /\ \A k \in 1..n : observed'[u][k] = observed[u][k]
             /\ \A k \in 1..(n + 1) : k \in 1..n \/ k = n + 1
             /\ \A k \in 1..n : k \in 1..(n + 1)
             /\ n + 1 \in 1..(n + 1)
        BY <3>7, <3>8, <3>9
      <3>11. /\ \A k \in 1..n : Faithful(u, observed[u][k], history)
             /\ \A j, k \in 1..n : j < k => observed[u][j].at < observed[u][k].at
             /\ \A k \in 1..n : observed[u][k].at \notin reported[u]
             /\ \A k \in 1..n : observed[u][k].at < p
             /\ p \notin reported[u]
        BY <2>2, <3>1, <3>9 DEF ToldInv
      <3>12. rec.at = p
        BY <3>4
      <3>13. \A k \in 1..(n + 1) : Faithful(u, observed'[u][k], history)
        BY <3>6, <3>10, <3>11
      <3>14. \A j, k \in 1..(n + 1) : j < k => observed'[u][j].at < observed'[u][k].at
        <4> SUFFICES ASSUME NEW j \in 1..(n + 1), NEW k \in 1..(n + 1), j < k
                     PROVE  observed'[u][j].at < observed'[u][k].at
          OBVIOUS
        <4>1. j \in 1..n
          BY <3>9
        <4>2. CASE k \in 1..n
          BY <3>10, <3>11, <4>1, <4>2
        <4>3. CASE k = n + 1
          BY <3>10, <3>11, <3>12, <4>1, <4>3
        <4> QED
          BY <3>10, <4>2, <4>3
      <3>15. \A k \in 1..(n + 1) : observed'[u][k].at \notin reported[u]
        BY <3>10, <3>11, <3>12
      <3>16. \A q \in 1..Len(history) :
              history[q].by = u /\ history[q].kind \in {"extend", "event"} =>
                  \/ \E k \in 1..(n + 1) : observed'[u][k].at = q
                  \/ q \in reported[u]
        <4> SUFFICES ASSUME NEW q \in 1..Len(history), history[q].by = u,
                            history[q].kind \in {"extend", "event"}, q \notin reported[u]
                     PROVE  \E k \in 1..(n + 1) : observed'[u][k].at = q
          OBVIOUS
        <4>1. (\E k \in 1..n : observed[u][k].at = q) \/ q = p
          BY <2>2, <2>4, <3>1, <3>9 DEF ToldInv
        <4> QED
          BY <3>10, <3>12, <4>1
      <3>17. reported[u] \subseteq 1..Len(history)
        BY DEF ToldInv
      <3> QED
        BY <2>1, <2>2, <3>10, <3>13, <3>14, <3>15, <3>16, <3>17 DEF ToldInv
    <2> QED
      BY <2>3, <2>4
  <1> QED
    BY <1>1, <1>2, <1>3, <1>4, <1>5, <1>6 DEF Step

\* A list names no more banks than it is long.
LEMMA Named ==
  ASSUME NEW s, NEW n \in Nat, NEW B, B \subseteq {s[k] : k \in 1..n}
  PROVE  Cardinality(B) \in Nat /\ n >= Cardinality(B)
  <1> DEFINE f == [b \in B |-> CHOOSE k \in 1..n : s[k] = b]
  <1>1. \A b \in B : f[b] \in 1..n /\ s[f[b]] = b
    OBVIOUS
  <1>2. f \in Injection(B, 1..n)
    <2>1. f \in [B -> 1..n] /\ \A a, b \in B : f[a] = f[b] => a = b
      BY <1>1
    <2> HIDE DEF f
    <2> QED
      BY <2>1 DEF Injection, IsInjective
  <1> HIDE DEF f
  <1>3. IsFiniteSet(1..n) /\ Cardinality(1..n) = n
    <2>1. 1 \in Int /\ n \in Int
      OBVIOUS
    <2>2. IsFiniteSet(1..n) /\ Cardinality(1..n) = IF 1 > n THEN 0 ELSE n - 1 + 1
      BY <2>1, FS_Interval, Zenon
    <2> QED
      BY <2>2
  <1>4. IsFiniteSet(B) /\ Cardinality(B) =< n
    BY <1>2, <1>3, FS_Injection
  <1> QED
    BY <1>4, FS_CardinalityType

\* A call leaves its record when it ends, or before its observer is told.
LEMMA KeepsLog ==
  ASSUME NEW u \in User, TpmInv, Shape, Control(u), UpdateInv(u), LogInv(u), Step(u)
  PROVE  LogInv(u)'
  <1>0. \A r : Append(<<>>, r) = <<r>> /\ Len(<<r>>) = 1 /\ <<r>>[1] = r
    OBVIOUS
  <1>8. ASSUME pc[u] # "idle", call'[u] = call[u]
           PROVE  ~ NotSent(u)'
    BY <1>8 DEF NotSent, LogInv
  <1>1. CASE Refused(u)
    <2>1. logged'[u] = <<>> /\ pc'[u] = "idle" /\ NotSent(u)'
          /\ result'[u].status \in Category
      BY <1>1 DEF Refused, Category
    <2>2. Silent(u)'
      BY <2>1 DEF Silent
    <2> QED
      BY <2>1, <2>2 DEF LogInv
  <1>2. CASE Begun(u)
    BY <1>2 DEF Begun, LogInv
  <1>3. CASE NoUpdate(u) \/ Updated(u) \/ GoesOn(u)
    <2>1. /\ logged'[u] = logged[u] /\ pc[u] \notin {"idle", "observe"}
          /\ pc'[u] \notin {"idle", "observe"} /\ call'[u] = call[u]
      BY <1>3 DEF NoUpdate, Updated, GoesOn
    <2> QED
      BY <1>8, <2>1 DEF LogInv
  <1>4. CASE Failed(u)
    <2>1. /\ pc[u] \in {"replied", "set_current_auth", "update_auth"}
          /\ pc'[u] = "idle" /\ call'[u] = call[u] /\ applied'[u] = applied[u]
      BY <1>4 DEF Failed
    <2>2. PICK c \in Category :
              /\ result'[u] = [NoOutcome EXCEPT !.status = c]
              /\ \/ logged'[u] = Append(logged[u], [level |-> "error", event |-> "tss_error",
                                                    fields |-> [error_category |-> c]])
                 \/ /\ c = "backend_error" /\ call[u].op \in {"event", "read"}
                    /\ logged'[u] = logged[u]
      BY <1>4 DEF Failed
    <2>3. result'[u].status = c
      BY <2>2 DEF NoOutcome
    <2>4. logged[u] = <<>>
      BY <2>1 DEF LogInv
    <2>5. CASE logged'[u] = Append(logged[u], [level |-> "error", event |-> "tss_error",
                                               fields |-> [error_category |-> c]])
      <3>1. logged'[u] = <<[level |-> "error", event |-> "tss_error",
                            fields |-> [error_category |-> c]]>>
        BY <1>0, <2>4, <2>5
      <3>2. Complaint(u)'
        BY <1>8, <2>1, <2>3, <3>1 DEF Complaint
      <3> QED
        BY <2>1, <3>2 DEF LogInv
    <2>6. CASE /\ c = "backend_error" /\ call[u].op \in {"event", "read"}
               /\ logged'[u] = logged[u]
      <3>1. Silent(u)'
        BY <2>1, <2>3, <2>4, <2>6 DEF Silent
      <3> QED
        BY <2>1, <3>1 DEF LogInv
    <2> QED
      BY <2>2, <2>5, <2>6
  <1>5. CASE Succeeded(u)
    <2>1. /\ pc[u] \in {"replied", "update_auth"}
          /\ pc[u] = "replied" => call[u].op \in {"allocate", "read", "reset", "set_auth_policy"}
          /\ pc'[u] = "idle" /\ call'[u] = call[u] /\ applied'[u] = applied[u]
          /\ result'[u].status = "ok" /\ history' = history
      BY <1>5 DEF Succeeded, tpmVars
    <2>2. PICK fields :
            /\ logged'[u] = Append(logged[u], [level |-> "info", event |-> call[u].op,
                                               fields |-> fields])
            /\ call[u].op = "reset" => fields.pcr_index = call[u].index
      BY <1>5 DEF Succeeded
    <2>3. logged[u] = <<>>
      BY <2>1 DEF LogInv
    <2>4. /\ Len(logged'[u]) = 1 /\ logged'[u][1].level = "info"
          /\ logged'[u][1].event = call[u].op /\ logged'[u][1].fields = fields
      BY <1>0, <2>2, <2>3
    <2>5. \A p \in applied[u] : call[u].op = "reset" /\ history[p].index = call[u].index
      BY <2>1 DEF UpdateInv, Control, Updating
    <2>6. Confirmation(u)'
      BY <1>8, <2>1, <2>2, <2>4, <2>5 DEF Confirmation
    <2> QED
      BY <2>1, <2>6 DEF LogInv
  <1>6. CASE Noted(u)
    <2>1. /\ pc[u] = "replied" /\ reply[u].rc = "ok" /\ call[u].op \in {"extend", "event"}
          /\ pc'[u] = "observe" /\ call'[u] = call[u] /\ applied'[u] = applied[u]
          /\ history' = history /\ call[u] \in Request
      BY <1>6 DEF Noted, Control, tpmVars
    <2>2. PICK fields :
            /\ logged'[u] = Append(logged[u], [level |-> "info", event |-> call[u].op,
                                               fields |-> fields])
            /\ fields.pcr_index = call[u].index
            /\ call[u].op = "extend" => fields.bank_count = Len(call[u].banks)
            /\ call[u].op = "event" => fields.bank_count = Cardinality(reply[u].digests \ Skipped)
      BY <1>6 DEF Noted
    <2>3. logged[u] = <<>>
      BY <2>1 DEF LogInv
    <2>4. /\ Len(logged'[u]) = 1 /\ logged'[u][1].level = "info"
          /\ logged'[u][1].event = call[u].op /\ logged'[u][1].fields = fields
      BY <1>0, <2>2, <2>3
    <2>5. ASSUME NEW p \in applied[u]
          PROVE  /\ fields.pcr_index = history[p].index
                 /\ call[u].op = "extend" => fields.bank_count >= Cardinality(history[p].banks)
                 /\ call[u].op = "event" =>
                       fields.bank_count = Cardinality(history[p].banks \ Skipped)
      <3>1. /\ history[p].index = call[u].index
            /\ call[u].op = "extend" =>
                  history[p].banks \subseteq {call[u].banks[k] : k \in 1..Len(call[u].banks)}
            /\ call[u].op = "event" => reply[u].digests = history[p].banks
        BY <2>1 DEF UpdateInv
      <3>2. CASE call[u].op = "extend"
        <4>1. call[u].banks \in Seq(Supported)
          BY <2>1, <3>2, ProviderAssumption
        <4>2. Len(call[u].banks) \in Nat
          BY <4>1
        <4>3. Len(call[u].banks) >= Cardinality(history[p].banks)
          BY <3>1, <3>2, <4>2, Named
        <4> QED
          BY <2>2, <3>1, <3>2, <4>3
      <3> QED
        BY <2>1, <2>2, <3>1, <3>2
    <2>6. Confirmation(u)'
      BY <1>8, <2>1, <2>4, <2>5 DEF Confirmation
    <2> QED
      BY <1>8, <2>1, <2>6 DEF LogInv
  <1>7. CASE Announced(u)
    <2>1. /\ pc[u] = "observe" /\ pc'[u] = "idle" /\ call'[u] = call[u]
          /\ applied'[u] = applied[u] /\ result'[u].status = "ok" /\ logged'[u] = logged[u]
          /\ history' = history /\ call[u] # Nobody
      BY <1>7, ProviderAssumption DEF Announced, Control, tpmVars
    <2>2. Confirmation(u)
      BY <2>1 DEF LogInv, Silent, Complaint
    <2>3. Confirmation(u)'
      BY <1>8, <2>1, <2>2 DEF Confirmation
    <2> QED
      BY <2>1, <2>3 DEF LogInv
  <1> QED
    BY <1>1, <1>2, <1>3, <1>4, <1>5, <1>6, <1>7 DEF Step

\* What the history was when it was n long does not change.
LEMMA ThePastStays ==
  ASSUME Extended, NEW n \in 0..Len(history)
  PROVE  /\ \A b, i : ValueIn(history', b, i, n) = ValueIn(history, b, i, n)
         /\ CounterIn(history', n) = CounterIn(history, n)
         /\ n \in 0..Len(history')
  <1>1. \A p \in 1..n : history'[p] = history[p] /\ \A q \in p..n : history'[q] = history[q]
    BY DEF Extended
  <1>2. ASSUME NEW b, NEW i
        PROVE  ValueIn(history', b, i, n) = ValueIn(history, b, i, n)
    <2>1. \A p \in 1..n : p \in ValueIn(history', b, i, n) <=> p \in ValueIn(history, b, i, n)
      BY <1>1, Zenon DEF ValueIn
    <2>2. ValueIn(history', b, i, n) \subseteq 1..n /\ ValueIn(history, b, i, n) \subseteq 1..n
      BY DEF ValueIn
    <2> QED
      BY <2>1, <2>2, Zenon
  <1>3. CounterIn(history', n) = CounterIn(history, n)
    <2> DEFINE now == {p \in 1..n : /\ history[p].banks # {}
                                    /\ \A q \in p..n : history[q].kind # "restart"}
               then == {p \in 1..n : /\ history'[p].banks # {}
                                     /\ \A q \in p..n : history'[q].kind # "restart"}
    <2>1. now = then
      <3>1. \A p \in 1..n : p \in now <=> p \in then
        BY <1>1, Zenon
      <3> QED
        BY <3>1, Zenon
    <2> QED
      BY <2>1, Zenon DEF CounterIn
  <1>4. n \in 0..Len(history')
    BY DEF Extended
  <1> QED
    BY <1>2, <1>3, <1>4

LEMMA SnapshotStays ==
  ASSUME Extended, NEW b, NEW answer, NEW n \in 0..Len(history), Snapshot(history, b, answer, n)
  PROVE  Snapshot(history', b, answer, n)
  BY ThePastStays DEF Snapshot

\* ... nor what it was during a call.
LEMMA MomentStays ==
  ASSUME Extended, NEW b, NEW answer, NEW from \in 0..Len(history),
         \E n \in from..Len(history) : Snapshot(history, b, answer, n)
  PROVE  /\ from \in 0..Len(history')
         /\ \E n \in from..Len(history') : Snapshot(history', b, answer, n)
  <1>1. PICK n \in from..Len(history) : Snapshot(history, b, answer, n)
    OBVIOUS
  <1>2. n \in 0..Len(history) /\ n \in from..Len(history') /\ from \in 0..Len(history')
    BY DEF Extended
  <1> QED
    BY <1>1, <1>2, SnapshotStays

LEMMA BystanderRead ==
  ASSUME NEW v \in User, Same(v), Extended, ReadInv(v)
  PROVE  ReadInv(v)'
  <1>1. PICK b, decoded, returned, from :
            /\ b = call[v].bank /\ decoded = Decoded(reply[v]) /\ returned = Returned(result[v])
            /\ from = since[v]
    OBVIOUS
  <1>2. /\ b = call'[v].bank /\ decoded = Decoded(reply'[v]) /\ returned = Returned(result'[v])
        /\ from = since'[v]
    BY <1>1 DEF Same
  <1>3. from \in 0..Len(history)
    BY <1>1 DEF ReadInv
  <1>4. from \in 0..Len(history')
    BY <1>3 DEF Extended
  <1>5. pc'[v] = "replied" /\ call'[v].op = "read" /\ reply'[v].rc = "ok" =>
          /\ reply'[v].indices \subseteq call'[v].indices
          /\ \E n \in from..Len(history') : Snapshot(history', b, decoded, n)
    BY <1>1, <1>3, MomentStays DEF ReadInv, Same
  <1>6. (pc'[v] = "idle" /\ call'[v] \in Request /\ call'[v].op = "read"
            /\ result'[v].status = "ok") =>
          /\ DOMAIN result'[v].values \subseteq call'[v].indices
          /\ \E n \in from..Len(history') : Snapshot(history', b, returned, n)
    BY <1>1, <1>3, MomentStays DEF ReadInv, Same
  <1> QED
    BY <1>2, <1>4, <1>5, <1>6 DEF ReadInv

\* A read is explained by the moment the TPM ran it.
LEMMA KeepsRead ==
  ASSUME NEW u \in User, TpmInv, Control(u), ReadInv(u), Step(u), Extended
  PROVE  ReadInv(u)'
  <1>0. Len(history) \in Nat
    BY DEF TpmInv
  <1>1. CASE Refused(u)
    <2>1. /\ pc'[u] = "idle" /\ result'[u].status # "ok" /\ since'[u] = since[u]
          /\ history' = history
      BY <1>1 DEF Refused, tpmVars
    <2> QED
      BY <2>1 DEF ReadInv
  <1>2. CASE Begun(u)
    <2>1. pc'[u] \notin {"idle", "replied"} /\ since'[u] \in {0, Len(history)} /\ history' = history
      BY <1>2 DEF Begun, tpmVars
    <2>2. since'[u] \in 0..Len(history')
      BY <1>0, <2>1
    <2> QED
      BY <2>1, <2>2 DEF ReadInv
  <1>3. CASE NoUpdate(u)
    <2>1. /\ pc'[u] = "replied" /\ call'[u] = call[u] /\ history' = history
          /\ reply'[u].rc = "ok" /\ call[u].op = "read" =>
                /\ reply'[u].indices \subseteq call[u].indices
                /\ Snapshot(history, call[u].bank, Decoded(reply'[u]), Len(history))
          /\ since'[u] = since[u]
      BY <1>3 DEF NoUpdate
    <2>2. since[u] \in 0..Len(history) /\ Len(history) \in since[u]..Len(history)
      BY <1>0 DEF ReadInv
    <2> QED
      BY <2>1, <2>2 DEF ReadInv
  <1>4. CASE Updated(u)
    <2>1. /\ pc'[u] = "replied" /\ call'[u] = call[u] /\ call[u].op # "read"
          /\ since'[u] = since[u]
      BY <1>4 DEF Updated, Updating
    <2>2. since[u] \in 0..Len(history')
      BY DEF ReadInv, Extended
    <2> QED
      BY <2>1, <2>2 DEF ReadInv
  <1>5. CASE Failed(u)
    <2>1. /\ pc'[u] = "idle" /\ since'[u] = since[u] /\ history' = history
      BY <1>5 DEF Failed, tpmVars
    <2>2. result'[u].status # "ok"
      <3>1. \A c \in Category : [NoOutcome EXCEPT !.status = c].status # "ok"
        BY DEF NoOutcome, Category
      <3> QED
        BY <1>5, <3>1 DEF Failed
    <2> QED
      BY <2>1, <2>2 DEF ReadInv
  <1>6. CASE Succeeded(u)
    <2>1. /\ pc'[u] = "idle" /\ since'[u] = since[u] /\ history' = history /\ call'[u] = call[u]
          /\ call[u].op = "read" => Returned(result'[u]) = Decoded(reply[u])
      BY <1>6 DEF Succeeded, tpmVars
    <2>2. ASSUME call[u].op = "read"
          PROVE  /\ DOMAIN result'[u].values \subseteq call[u].indices
                 /\ \E n \in since[u]..Len(history) :
                       Snapshot(history, call[u].bank, Returned(result'[u]), n)
      <3>1. pc[u] = "replied" /\ reply[u].rc = "ok"
        BY <1>6, <2>2 DEF Succeeded, Control
      <3>2. DOMAIN result'[u].values = reply[u].indices
        BY <2>1, <2>2 DEF Returned, Decoded, to_domain_read_values
      <3> QED
        BY <2>1, <2>2, <3>1, <3>2 DEF ReadInv
    <2> QED
      BY <2>1, <2>2 DEF ReadInv
  <1>7. CASE Noted(u) \/ GoesOn(u)
    <2>1. /\ pc'[u] \notin {"idle", "replied"} /\ since'[u] = since[u] /\ history' = history
      BY <1>7 DEF Noted, GoesOn, tpmVars
    <2> QED
      BY <2>1 DEF ReadInv
  <1>8. CASE Announced(u)
    <2>1. /\ pc'[u] = "idle" /\ since'[u] = since[u] /\ history' = history /\ call'[u] = call[u]
          /\ call[u].op # "read"
      BY <1>8 DEF Announced, Control, tpmVars
    <2> QED
      BY <2>1 DEF ReadInv
  <1> QED
    BY <1>1, <1>2, <1>3, <1>4, <1>5, <1>6, <1>7, <1>8 DEF Step

-----------------------------------------------------------------------------
(* Every step is of one provider, or of none *)

LEMMA Steps ==
  ASSUME Shape, TpmInv, Controlled, Next
  PROVE  /\ Shape' /\ TpmInv' /\ Extended
         /\ \/ \A v \in User : Same(v) /\ NotBy(v)
            \/ \E u \in User : /\ Step(u)
                               /\ \A v \in User : v # u => Same(v) /\ NotBy(v)
  <1>1. ASSUME NEW u \in User, Alone(u), Step(u), TpmInv', UNCHANGED history
        PROVE  /\ Shape' /\ TpmInv' /\ Extended
               /\ \A v \in User : v # u => Same(v) /\ NotBy(v)
    BY <1>1, Unchanged DEF Alone
  <1>2. ASSUME NEW u \in User, NEW r \in Request, Use(u, r)
        PROVE  Alone(u) /\ Step(u) /\ TpmInv' /\ UNCHANGED history
    <2>1. Alone(u) /\ (Refused(u) \/ Begun(u))
      BY <1>2, UseDoes
    <2>2. UNCHANGED <<esysAuth, tpmVars>>
      BY <2>1 DEF Refused, Begun
    <2> QED
      BY <2>1, <2>2 DEF Step, TpmInv, tpmVars
  <1>3. ASSUME NEW u \in User, Run(u)
        PROVE  Alone(u) /\ Step(u) /\ TpmInv' /\ UNCHANGED history
    <2>1. Alone(u) /\ (Failed(u) \/ Succeeded(u) \/ Noted(u) \/ Announced(u) \/ GoesOn(u))
      BY <1>3, RunDoes
    <2>2. UNCHANGED tpmVars
          /\ (UNCHANGED esysAuth \/ esysAuth' \in [User -> [Index -> {"empty"}]])
      BY <2>1 DEF Failed, Succeeded, Noted, Announced, GoesOn
    <2> QED
      BY <2>1, <2>2 DEF Step, TpmInv, tpmVars
  <1>4. ASSUME NEW u \in User, Tpm(u)
        PROVE  /\ Shape' /\ TpmInv' /\ Extended /\ Step(u)
               /\ \A v \in User : v # u => Same(v) /\ NotBy(v)
    <2>1. Alone(u) /\ (NoUpdate(u) \/ Updated(u)) /\ TpmInv'
      BY <1>4, TpmDoes
    <2>2. CASE NoUpdate(u)
      BY <1>1, <2>1, <2>2 DEF NoUpdate, Step
    <2>3. CASE Updated(u)
      <3>1. PICK h : h.by = u /\ history' = Append(history, h)
        BY <2>3 DEF Updated
      <3>2. Extended /\ \A v \in User : v # u => NotBy(v)
        <4>1. history \in Seq(Update) /\ history' \in Seq(Update)
          BY <2>1 DEF TpmInv
        <4>2. PICK g : g = history'[Len(history) + 1]
          OBVIOUS
        <4>3. Len(history') = Len(history) + 1 /\ g = h
          BY <3>1, <4>1, <4>2
        <4>4. g \in Update
          <5>1. Len(history) + 1 \in 1..Len(history')
            BY <4>1, <4>3
          <5> QED
            BY <4>1, <4>2, <5>1
        <4> QED
          BY <3>1, <4>3, <4>4, Added DEF NotBy
      <3> QED
        BY <2>1, <2>3, <3>2 DEF Alone, Step
    <2> QED
      BY <2>1, <2>2, <2>3
  <1>5. ASSUME NEW i \in Index,
               Restart(i) \/ \E kind \in {"extend", "reset"} : ForeignUpdate(i, kind)
        PROVE  /\ Shape' /\ TpmInv' /\ Extended
               /\ \A v \in User : Same(v) /\ NotBy(v)
    <2>1. Elsewhere /\ Shape' /\ TpmInv'
      BY <1>5, ElsewhereDoes
    <2>2. PICK h \in Update : h.by = Nobody /\ history' = Append(history, h)
      BY <2>1 DEF Elsewhere
    <2>3. Extended /\ \A v \in User : NotBy(v)
      BY <2>2, Added, ProviderAssumption DEF NotBy
    <2>4. \A v \in User : Same(v)
      BY <2>1 DEF Elsewhere, Same
    <2> QED
      BY <2>1, <2>3, <2>4
  <1>6. ASSUME NEW u \in User, Run(u) \/ Tpm(u) \/ \E r \in Request : Use(u, r)
        PROVE  /\ Shape' /\ TpmInv' /\ Extended /\ Step(u)
               /\ \A v \in User : v # u => Same(v) /\ NotBy(v)
    BY <1>1, <1>2, <1>3, <1>4, <1>6
  <1> QED
    BY <1>5, <1>6 DEF Next

\* The invariant, for any providers, requests and faults: what a call, its
\* observer, its log and its result say agrees with the TPM's history, whatever the
\* other providers and other software do meanwhile.
THEOREM Invariance == Spec => []IInv
  <1>1. Init => IInv
    <2> SUFFICES ASSUME Init
                 PROVE  IInv
      OBVIOUS
    <2>1. Shape
      BY DEF Init, Shape, Over, Pc
    <2>2. TpmInv
      BY ProviderAssumption DEF Init, TpmInv
    <2>3. Controlled
      BY DEF Init, Controlled, Control
    <2>4. ASSUME NEW u \in User
          PROVE  UpdateInv(u) /\ ToldInv(u) /\ LogInv(u) /\ ReadInv(u)
      <3>1. /\ pc[u] = "idle" /\ call[u] = Nobody /\ result[u] = NoOutcome /\ applied[u] = {}
            /\ since[u] = 0 /\ observed[u] = <<>> /\ reported[u] = {} /\ history = <<>>
        BY DEF Init
      <3>2. result[u].status = "none"
        BY <3>1 DEF NoOutcome
      <3>3. Len(history) = 0 /\ Len(observed[u]) = 0 /\ observed[u] \in Seq(Entry)
        BY <3>1
      <3>4. UpdateInv(u)
        BY <3>1, <3>2 DEF UpdateInv
      <3>5. ToldInv(u)
        BY <3>1, <3>3 DEF ToldInv, Running
      <3>6. LogInv(u)
        BY <3>1 DEF LogInv
      <3>7. ReadInv(u)
        BY <3>1, <3>2, <3>3 DEF ReadInv
      <3> QED
        BY <3>4, <3>5, <3>6, <3>7
    <2> QED
      BY <2>1, <2>2, <2>3, <2>4 DEF IInv
  <1>2. IInv /\ [Next]_vars => IInv'
    <2> SUFFICES ASSUME IInv, [Next]_vars
                 PROVE  IInv'
      OBVIOUS
    <2> USE DEF IInv
    <2>1. CASE Next
      <3>1. /\ Shape' /\ TpmInv' /\ Extended
            /\ \/ \A v \in User : Same(v) /\ NotBy(v)
               \/ \E u \in User : /\ Step(u)
                                  /\ \A v \in User : v # u => Same(v) /\ NotBy(v)
        BY <2>1, Steps
      <3>2. ASSUME NEW v \in User, Same(v), NotBy(v)
            PROVE  Control(v)' /\ UpdateInv(v)' /\ ToldInv(v)' /\ LogInv(v)' /\ ReadInv(v)'
        BY <3>1, <3>2, BystanderControl, BystanderUpdate, BystanderTold, BystanderLog,
           BystanderRead DEF Controlled
      <3>3. ASSUME NEW u \in User, Step(u)
            PROVE  Control(u)' /\ UpdateInv(u)' /\ ToldInv(u)' /\ LogInv(u)' /\ ReadInv(u)'
        BY <3>1, <3>3, KeepsControl, KeepsUpdate, KeepsTold, KeepsLog, KeepsRead
           DEF Controlled
      <3>4. \A v \in User :
                Control(v)' /\ UpdateInv(v)' /\ ToldInv(v)' /\ LogInv(v)' /\ ReadInv(v)'
        BY <3>1, <3>2, <3>3
      <3> QED
        BY <3>1, <3>4 DEF Controlled
    <2>2. CASE UNCHANGED vars
      <3>1. Shape'
        BY <2>2 DEF vars, tpmVars, Shape, Over
      <3>2. TpmInv' /\ Extended
        BY <2>2, Unchanged DEF vars, tpmVars, TpmInv
      <3>3. \A v \in User : Same(v) /\ NotBy(v)
        BY <2>2, Unchanged DEF vars, tpmVars, Same
      <3>4. \A v \in User :
                Control(v)' /\ UpdateInv(v)' /\ ToldInv(v)' /\ LogInv(v)' /\ ReadInv(v)'
        BY <3>2, <3>3, BystanderControl, BystanderUpdate, BystanderTold, BystanderLog,
           BystanderRead DEF Controlled
      <3> QED
        BY <3>1, <3>2, <3>4 DEF Controlled
    <2> QED
      BY <2>1, <2>2
  <1> QED
    BY <1>1, <1>2, PTL DEF Spec

-----------------------------------------------------------------------------
(* The theorems *)

\* The providers never lock themselves out of a PCR, because set_auth_value refuses
\* every authorization but the empty one, for every context and every TPM restart.
THEOREM NoLockout == Spec => []AuthorizationsAgree
  <1>1. IInv => AuthorizationsAgree
    BY DEF IInv, TpmInv, AuthorizationsAgree
  <1> QED
    BY <1>1, Invariance, PTL

\* A call of event, extend or reset updates the TPM at most once, exactly once when
\* it succeeds, and never when an argument check refused it.
THEOREM UpdatesOnce == Spec => []UpdatesHappenOnce
  <1>1. IInv => UpdatesHappenOnce
    BY DEF IInv, UpdateInv, UpdatesHappenOnce, Updating
  <1> QED
    BY <1>1, Invariance, PTL

\* Of every measurement of a watched provider, the observer is told or the caller is
\* warned by an error, and never both.
THEOREM NothingIsLost == Spec => []MeasurementsAreAccountedFor
  <1>1. IInv => MeasurementsAreAccountedFor
    <2> SUFFICES ASSUME IInv, NEW u \in Watched
                 PROVE  /\ Measurements(u) \subseteq Told(u) \cup reported[u] \cup Running(u)
                        /\ Told(u) \cap (reported[u] \cup Running(u)) = {}
      BY DEF MeasurementsAreAccountedFor, Running
    <2>1. u \in User /\ ToldInv(u)
      BY ProviderAssumption DEF IInv
    <2>2. Measurements(u) \subseteq Told(u) \cup reported[u] \cup Running(u)
      BY <2>1 DEF ToldInv, Measurements, Told
    <2>3. ASSUME NEW k \in 1..Len(observed[u])
          PROVE  observed[u][k].at \notin reported[u] \cup Running(u)
      <3>1. observed[u][k].at \in Nat /\ observed[u][k].at \notin reported[u]
        BY <2>1 DEF ToldInv, Faithful
      <3>2. \A p \in Running(u) : observed[u][k].at < p
        BY <2>1 DEF ToldInv
      <3>3. \A n \in Nat : ~ (n < n)
        OBVIOUS
      <3> QED
        BY <3>1, <3>2, <3>3, Zenon
    <2> QED
      BY <2>2, <2>3 DEF Told
  <1> QED
    BY <1>1, Invariance, PTL

\* What an observer is told by on_extend and on_event happened, once, as told, in the
\* order the TPM did it.
THEOREM ObserversAreTold == Spec => []ObserverIsFaithful
  <1>1. IInv => ObserverIsFaithful
    <2> SUFFICES ASSUME IInv, NEW u \in User
                 PROVE  /\ \A j, k \in 1..Len(observed[u]) :
                               j < k => observed[u][j].at < observed[u][k].at
                        /\ \A k \in 1..Len(observed[u]) :
                              LET rec == observed[u][k] IN
                              /\ rec.at \in Measurements(u)
                              /\ LET upd == history[rec.at] IN
                                 /\ upd.kind = rec.kind /\ upd.index = rec.index
                                 /\ IF rec.kind = "extend" THEN upd.banks \subseteq rec.banks
                                                           ELSE rec.banks = upd.banks \ Skipped
      BY DEF ObserverIsFaithful
    <2>1. ToldInv(u)
      BY DEF IInv
    <2>2. \A j, k \in 1..Len(observed[u]) : j < k => observed[u][j].at < observed[u][k].at
      BY <2>1 DEF ToldInv
    <2>3. ASSUME NEW k \in 1..Len(observed[u])
          PROVE  LET rec == observed[u][k] IN
                 /\ rec.at \in Measurements(u)
                 /\ LET upd == history[rec.at] IN
                    /\ upd.kind = rec.kind /\ upd.index = rec.index
                    /\ IF rec.kind = "extend" THEN upd.banks \subseteq rec.banks
                                              ELSE rec.banks = upd.banks \ Skipped
      <3>1. PICK rec \in Entry : rec = observed[u][k]
        BY <2>1 DEF ToldInv
      <3>2. Faithful(u, rec, history) /\ rec.kind \in {"extend", "event"}
        BY <2>1, <3>1 DEF ToldInv, Entry
      <3> QED
        BY <3>1, <3>2 DEF Faithful, Measurements
    <2> QED
      BY <2>2, <2>3
  <1> QED
    BY <1>1, Invariance, PTL

\* The log of a call is empty when nothing was sent or an answer could not be decoded, and
\* else one record: of success if it succeeded, of the returned category if it failed,
\* about the PCR the TPM updated.
THEOREM LogIsTrue == Spec => []LogTellsWhatHappened
  <1>1. IInv => LogTellsWhatHappened
    <2> SUFFICES ASSUME IInv, NEW u \in User, pc[u] \in {"idle", "observe"}, call[u] # Nobody
                 PROVE  /\ Len(logged[u]) =< 1
                        /\ NotSent(u) => logged[u] = <<>>
                        /\ logged[u] = <<>> =>
                              \/ NotSent(u)
                              \/ /\ call[u].op \in {"event", "read"}
                                 /\ result[u].status = "backend_error"
                        /\ result[u].status = "ok" \/ pc[u] = "observe" <=>
                              \E k \in 1..Len(logged[u]) : logged[u][k].level = "info"
                        /\ \A k \in 1..Len(logged[u]) :
                              LET rec == logged[u][k] IN
                              /\ rec.level = "error" => rec.fields.error_category = result[u].status
                              /\ rec.level = "info" => \A p \in applied[u] :
                                    /\ rec.event = history[p].kind
                                    /\ rec.fields.pcr_index = history[p].index
                                    /\ rec.event = "extend" =>
                                          rec.fields.bank_count >= Cardinality(history[p].banks)
                                    /\ rec.event = "event" =>
                                          rec.fields.bank_count =
                                              Cardinality(history[p].banks \ Skipped)
      BY DEF LogTellsWhatHappened
    <2>1. Silent(u) \/ Complaint(u) \/ Confirmation(u)
      BY DEF IInv, LogInv
    <2>2. UpdateInv(u) /\ "ok" \notin Category
      BY DEF IInv, Category
    <2>3. CASE Silent(u)
      BY <2>2, <2>3 DEF Silent
    <2>4. CASE Complaint(u)
      <3>1. PICK rec : /\ rec = [level |-> "error", event |-> "tss_error",
                                 fields |-> [error_category |-> result[u].status]]
                       /\ logged[u] = <<rec>>
        BY <2>4 DEF Complaint
      <3>2. rec.level = "error" /\ rec.fields.error_category = result[u].status
        BY <3>1
      <3>3. /\ Len(logged[u]) = 1 /\ logged[u][1] = rec /\ logged[u] # <<>>
            /\ \A k \in 1..Len(logged[u]) : k = 1
        BY <3>1
      <3> QED
        BY <2>2, <2>4, <3>2, <3>3 DEF Complaint
    <2>5. CASE Confirmation(u)
      <3>1. /\ Len(logged[u]) = 1 /\ logged[u][1].level = "info"
            /\ logged[u][1].event = call[u].op
            /\ pc[u] = "observe" \/ result[u].status = "ok"
            /\ \A p \in applied[u] :
                  /\ logged[u][1].fields.pcr_index = history[p].index
                  /\ call[u].op = "extend" =>
                        logged[u][1].fields.bank_count >= Cardinality(history[p].banks)
                  /\ call[u].op = "event" =>
                        logged[u][1].fields.bank_count = Cardinality(history[p].banks \ Skipped)
        BY <2>5 DEF Confirmation
      <3>2. \A p \in applied[u] : history[p].kind = call[u].op
        BY <2>2 DEF UpdateInv
      <3>3. (\A k \in 1..Len(logged[u]) : k = 1) /\ 1 \in 1..Len(logged[u]) /\ logged[u] # <<>>
        BY <3>1
      <3>4. PICK rec : rec = logged[u][1]
        OBVIOUS
      <3>5. /\ rec.level # "error"
            /\ \A p \in applied[u] :
                  /\ rec.event = history[p].kind /\ rec.fields.pcr_index = history[p].index
                  /\ rec.event = "extend" => rec.fields.bank_count >= Cardinality(history[p].banks)
                  /\ rec.event = "event" =>
                        rec.fields.bank_count = Cardinality(history[p].banks \ Skipped)
        BY <3>1, <3>2, <3>4
      <3>6. \A k \in 1..Len(logged[u]) : logged[u][k] = rec
        BY <3>3, <3>4
      <3>7. \E k \in 1..Len(logged[u]) : logged[u][k].level = "info"
        BY <3>1, <3>3
      <3>8. Len(logged[u]) =< 1
        BY <3>1
      <3>9. \A k \in 1..Len(logged[u]) :
              /\ logged[u][k].level # "error"
              /\ \A p \in applied[u] :
                    /\ logged[u][k].event = history[p].kind
                    /\ logged[u][k].fields.pcr_index = history[p].index
                    /\ logged[u][k].event = "extend" =>
                          logged[u][k].fields.bank_count >= Cardinality(history[p].banks)
                    /\ logged[u][k].event = "event" =>
                          logged[u][k].fields.bank_count =
                              Cardinality(history[p].banks \ Skipped)
        BY <3>5, <3>6
      <3>10. ~ NotSent(u)
        BY <2>5 DEF Confirmation
      <3> QED
        BY <3>1, <3>3, <3>7, <3>8, <3>9, <3>10
    <2> QED
      BY <2>1, <2>3, <2>4, <2>5
  <1> QED
    BY <1>1, Invariance, PTL

\* A successful read is a snapshot of the PCRs and of their update counter, taken at
\* one moment between the call and its return.
THEOREM ReadsExplained == Spec => []ReadsAreSnapshots
  <1>1. IInv => ReadsAreSnapshots
    <2> SUFFICES ASSUME IInv, NEW u \in User, pc[u] = "idle", call[u] # Nobody,
                        result[u].status = "ok", call[u].op = "read"
                 PROVE  /\ DOMAIN result[u].values \subseteq call[u].indices
                        /\ \E n \in since[u]..Len(history) :
                              /\ result[u].counter = CounterAt(n)
                              /\ \A i \in DOMAIN result[u].values :
                                    result[u].values[i] = ValueAt(call[u].bank, i, n)
      BY DEF ReadsAreSnapshots
    <2>1. call[u] \in Request
      BY DEF IInv, Controlled, Control
    <2>2. /\ DOMAIN result[u].values \subseteq call[u].indices
          /\ \E n \in since[u]..Len(history) :
                Snapshot(history, call[u].bank, Returned(result[u]), n)
      BY <2>1 DEF IInv, ReadInv
    <2> QED
      BY <2>2, ValuesAreIn DEF Snapshot, Returned
  <1> QED
    BY <1>1, Invariance, PTL
=============================================================================
