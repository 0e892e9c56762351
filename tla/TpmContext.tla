------------------------------ MODULE TpmContext ------------------------------
(***************************************************************************)
(* The life of tpm_context objects: creation from a TCTI string or from an *)
(* owned TCTI handle, moves, PCR providers that borrow the connection, and *)
(* teardown.  Every call of create()/create_context() is an attempt and    *)
(* owns at most one TCTI context, one ESYS context and one heap impl, so   *)
(* the attempt names them.  Attempts run in threads of their own and       *)
(* interleave at every call that leaves the library; the TPM behind them   *)
(* is shared and may be reset at any time.                                 *)
(***************************************************************************)
EXTENDS Naturals

CONSTANTS
    Attempt,      \* calls of create() / create_context()
    Object,       \* storage for tpm_context objects
    Provider,     \* storage for the outcome of create_pcr_provider()
    Request,      \* the arguments callers pass
    TssCategory,  \* error categories translate_tss_rc() gives to the codes met
    MaxResets,    \* bound on TPM resets
    Absent,       \* no object lives in that storage
    Null          \* a tpm_context whose impl_ is null; a refused provider

Category == {"input_error", "security_failure", "resource_error", "backend_error"}

ValidMode == {"clear", "state", "skip"}

AnyRequest ==
    [kind : {"string"}, config : {"malformed", "named"}, mode : ValidMode \cup {"invalid"}]
    \cup
    [kind : {"owned"}, config : {"null_handle", "null_deleter", "valid"},
     mode : ValidMode \cup {"invalid"}]

ASSUME ContextAssumption ==
    /\ Request \subseteq AnyRequest
    /\ TssCategory \subseteq Category
    /\ MaxResets \in Nat
    /\ Absent \notin Attempt \cup Object
    /\ Null \notin Attempt \cup Object
    /\ Absent # Null

VARIABLES
    pc,        \* where the call, or the context it made, is
    req,       \* the arguments of the call; Null before it
    result,    \* "none" until decided, then "ok", an error category or "bad_alloc"
    tcti,      \* the TCTI context of the attempt
    esys,      \* the ESYS context of the attempt
    owned,     \* the unique_ptrs of the attempt, locals or members, that are not null
    reply,     \* the response code of Startup waiting for the caller
    epoch,     \* resets seen by the TPM when it ran this attempt's Startup
    logged,    \* event descriptors the logger received for this attempt
    site,      \* object a creation builds or a teardown vacates; Null if neither
    object,    \* impl_ of each object, by attempt
    provider,  \* impl whose ESYS context each provider borrows
    tpm,       \* the device: started or not, and how often it was reset
    crashed    \* a null function pointer was called

callVars == <<req, result, reply, epoch, logged>>
vars == <<pc, callVars, tcti, esys, owned, site, object, provider, tpm, crashed>>

CreatePc == {"validate", "check_handle", "resolve", "get_info", "allocate",
             "init_tcti", "init_esys", "start", "startup", "startup_reply",
             "construct", "unwind"}
Pc == CreatePc \cup {"idle", "returned", "failed", "teardown", "gone"}
Event == {"tcti_configuring", "tcti_configured", "esys_initialized",
          "startup_invoked", "startup_completed", "finalized", "tss_error"}

TypeOK ==
    /\ pc \in [Attempt -> Pc]
    /\ req \in [Attempt -> Request \cup {Null}]
    /\ result \in [Attempt -> Category \cup {"none", "ok", "bad_alloc"}]
    /\ tcti \in [Attempt -> {"absent", "pending", "open", "closed", "released", "misused"}]
    /\ esys \in [Attempt -> {"absent", "open", "closed", "misused"}]
    /\ owned \in [Attempt -> SUBSET {"tcti", "esys"}]
    /\ reply \in [Attempt -> TssCategory \cup {"none", "ok", "initialize"}]
    /\ epoch \in [Attempt -> 0..MaxResets]
    /\ logged \in [Attempt -> SUBSET Event]
    /\ site \in [Attempt -> Object \cup {Null}]
    /\ object \in [Object -> Attempt \cup {Null, Absent}]
    /\ provider \in [Provider -> Attempt \cup {Null, Absent}]
    /\ tpm \in [started : BOOLEAN, resets : 0..MaxResets]
    /\ crashed \in BOOLEAN

Init ==
    /\ pc = [a \in Attempt |-> "idle"]
    /\ req = [a \in Attempt |-> Null]
    /\ result = [a \in Attempt |-> "none"]
    /\ tcti = [a \in Attempt |-> "absent"]
    /\ esys = [a \in Attempt |-> "absent"]
    /\ owned = [a \in Attempt |-> {}]
    /\ reply = [a \in Attempt |-> "none"]
    /\ epoch = [a \in Attempt |-> 0]
    /\ logged = [a \in Attempt |-> {}]
    /\ site = [a \in Attempt |-> Null]
    /\ object = [o \in Object |-> Absent]
    /\ provider = [p \in Provider |-> Absent]
    /\ tpm \in [started : BOOLEAN, resets : {0}]
    /\ crashed = FALSE

-----------------------------------------------------------------------------
(* Helpers.  A definition named ..._Fault is the one after it with a mistake a
   programmer could make; the checks are run against it too, to see that they
   notice. *)

At(a, from) == pc[a] = from
Goto(a, to) == pc' = [pc EXCEPT ![a] = to]

\* emit_success_record / log_tss_error: each event at most once per attempt.
Log(a, events) == logged' = [logged EXCEPT ![a] = @ \cup events]

\* return tl::unexpected(...): the locals of the call are destroyed next.
Fail(a, category) ==
    /\ Goto(a, "unwind")
    /\ result' = [result EXCEPT ![a] = category]

\* ... without the tss_error record.
FailTss_Fault(a, category) == Fail(a, category) /\ UNCHANGED logged

\* An error code of the TSS: logged, and returned as its category.
FailTss(a, category) == Fail(a, category) /\ Log(a, {"tss_error"})

\* A handle becomes the object of a unique_ptr, or is given up with release().
Acquire(a, pointer) == owned' = [owned EXCEPT ![a] = @ \cup {pointer}]
Disown(a, pointer) == owned' = [owned EXCEPT ![a] = @ \ {pointer}]

\* What Tss2_TctiLdr_Finalize, Esys_Finalize or a caller's deleter makes of a handle: it
\* is closed, or it was not there to close.
Close(handle) == IF handle \in {"pending", "open"} THEN "closed" ELSE "misused"

\* Storage no creation or teardown is working on.
Quiet(o) == \A a \in Attempt : site[a] # o

Borrowed(a) == \E p \in Provider : provider[p] = a

-----------------------------------------------------------------------------
(* Creation *)

\* A caller enters create() or create_context(); an owned handle becomes the
\* call's to finalize as it is passed by value.
Call(a, r, o) ==
    /\ At(a, "idle")
    /\ object[o] = Absent /\ Quiet(o)
    /\ Goto(a, "validate")
    /\ req' = [req EXCEPT ![a] = r]
    /\ site' = [site EXCEPT ![a] = o]
    /\ tcti' = [tcti EXCEPT ![a] =
                  IF r.config \in {"null_deleter", "valid"} THEN "open" ELSE "absent"]
    /\ owned' = [owned EXCEPT ![a] =
                   IF r.config \in {"null_deleter", "valid"} THEN {"tcti"} ELSE {}]
    /\ UNCHANGED <<result, reply, epoch, logged, esys, object, provider, tpm, crashed>>

ValidateStartupMode(a) ==
    /\ At(a, "validate")
    /\ \/ /\ req[a].mode = "invalid"
          /\ Fail(a, "input_error")
       \/ /\ req[a].mode \in ValidMode
          /\ Goto(a, IF req[a].kind = "string" THEN "resolve" ELSE "check_handle")
          /\ UNCHANGED result
    /\ UNCHANGED <<req, reply, epoch, logged, tcti, esys, owned, site, object, provider, tpm, crashed>>

CheckOwnedHandle(a) ==
    /\ At(a, "check_handle")
    /\ \/ /\ req[a].config = "null_handle"
          /\ Fail(a, "input_error")
          /\ UNCHANGED <<tcti, owned, logged>>
       \/ /\ req[a].config = "null_deleter"
          /\ Fail(a, "input_error")
          /\ tcti' = [tcti EXCEPT ![a] = "released"]
          /\ Disown(a, "tcti")
          /\ UNCHANGED logged
       \/ /\ req[a].config = "valid"
          /\ Goto(a, "init_esys")
          /\ Log(a, {"tcti_configuring", "tcti_configured"})
          /\ UNCHANGED <<result, tcti, owned>>
    /\ UNCHANGED <<req, reply, epoch, esys, site, object, provider, tpm, crashed>>

\* resolve_tcti up to the first loader call: the name is logged only when the
\* string has the name:args shape, and validate_config rejects the others.
ResolveTcti(a) ==
    /\ At(a, "resolve")
    /\ \/ /\ req[a].config = "malformed"
          /\ Fail(a, "input_error")
          /\ UNCHANGED logged
       \/ /\ req[a].config = "named"
          /\ Goto(a, "get_info")
          /\ Log(a, {"tcti_configuring"})
          /\ UNCHANGED result
    /\ UNCHANGED <<req, reply, epoch, tcti, esys, owned, site, object, provider, tpm, crashed>>

\* get_info, and free_info whatever it returned; an error code is logged under
\* its own category but the caller gets input_error.
GetTctiInfo(a) ==
    /\ At(a, "get_info")
    /\ \/ Goto(a, "allocate") /\ UNCHANGED <<result, logged>>
       \/ FailTss(a, "input_error")
    /\ UNCHANGED <<req, reply, epoch, tcti, esys, owned, site, object, provider, tpm, crashed>>

AllocateLoaderContext(a) ==
    /\ At(a, "allocate")
    /\ \/ /\ \E c \in TssCategory : FailTss(a, c)                 \* the size probe fails
          /\ UNCHANGED <<tcti, owned>>
       \/ /\ \E c \in {"backend_error", "resource_error"} : Fail(a, c)  \* size 0; no memory
          /\ UNCHANGED <<tcti, owned, logged>>
       \/ /\ Goto(a, "init_tcti")
          /\ tcti' = [tcti EXCEPT ![a] = "pending"]
          /\ Acquire(a, "tcti")
          /\ UNCHANGED <<result, logged>>
    /\ UNCHANGED <<req, reply, epoch, esys, site, object, provider, tpm, crashed>>

\* ... with get() in place of release(), so that the loader's own pointer finalizes the
\* context it returns.
InitTcti_Fault(a) ==
    /\ At(a, "init_tcti")
    /\ Goto(a, "init_esys")
    /\ tcti' = [tcti EXCEPT ![a] = Close(@)]
    /\ Log(a, {"tcti_configured"})
    /\ UNCHANGED <<req, result, reply, epoch, esys, owned, site, object, provider, tpm, crashed>>

\* The pending pointer, whose deleter was that of a failed initialization, hands the
\* context over to the pointer that is returned.
InitTcti(a) ==
    /\ At(a, "init_tcti")
    /\ \/ /\ \E c \in TssCategory : FailTss(a, c)
          /\ UNCHANGED tcti
       \/ /\ Goto(a, "init_esys")
          /\ tcti' = [tcti EXCEPT ![a] = "open"]
          /\ Log(a, {"tcti_configured"})
          /\ UNCHANGED result
    /\ UNCHANGED <<req, reply, epoch, esys, owned, site, object, provider, tpm, crashed>>

\* ... going on after an error of Esys_Initialize.
InitializeEsys_Fault(a) ==
    /\ At(a, "init_esys")
    /\ Goto(a, "start")
    /\ \/ UNCHANGED <<esys, owned>>
       \/ esys' = [esys EXCEPT ![a] = "open"] /\ Acquire(a, "esys")
    /\ Log(a, {"esys_initialized"})
    /\ UNCHANGED <<req, result, reply, epoch, tcti, site, object, provider, tpm, crashed>>

InitializeEsys(a) ==
    /\ At(a, "init_esys")
    /\ \/ /\ \E c \in TssCategory : FailTss(a, c)
          /\ UNCHANGED <<esys, owned>>
       \/ /\ Goto(a, "start")
          /\ esys' = [esys EXCEPT ![a] = "open"]
          /\ Acquire(a, "esys")
          /\ Log(a, {"esys_initialized"})
          /\ UNCHANGED result
    /\ UNCHANGED <<req, reply, epoch, tcti, site, object, provider, tpm, crashed>>

StartTpm(a) ==
    /\ At(a, "start")
    /\ \/ /\ req[a].mode = "skip"
          /\ Goto(a, "construct")
          /\ Log(a, {"startup_invoked", "startup_completed"})
       \/ /\ req[a].mode # "skip"
          /\ Goto(a, "startup")
          /\ Log(a, {"startup_invoked"})
    /\ UNCHANGED <<req, result, reply, epoch, tcti, esys, owned, site, object, provider, tpm, crashed>>

\* ... accepting every code, and none.
AnyCode_Fault(rc) == TRUE
NoCode_Fault(rc) == FALSE

is_startup_already_initialized(rc) == rc = "initialize"

\* Esys_Startup returned.  The response may be lost on the way, after the TPM
\* ran the command.
FinishStartup(a) ==
    /\ At(a, "startup_reply")
    /\ \E rc \in {reply[a]} \cup TssCategory :
          \/ /\ rc = "ok" \/ is_startup_already_initialized(rc)
             /\ Goto(a, "construct")
             /\ Log(a, {"startup_completed"})
             /\ UNCHANGED result
          \/ /\ ~ (rc = "ok" \/ is_startup_already_initialized(rc))
             /\ FailTss(a, rc)
    /\ reply' = [reply EXCEPT ![a] = "none"]
    /\ UNCHANGED <<req, epoch, tcti, esys, owned, site, object, provider, tpm, crashed>>

\* make_unique<impl> and the return of the context, or bad_alloc thrown by it.
ConstructImpl(a) ==
    /\ At(a, "construct")
    /\ \/ /\ Goto(a, "returned")
          /\ result' = [result EXCEPT ![a] = "ok"]
          /\ object' = [object EXCEPT ![site[a]] = a]
          /\ site' = [site EXCEPT ![a] = Null]
       \/ /\ Fail(a, "bad_alloc")
          /\ UNCHANGED <<object, site>>
    /\ UNCHANGED <<req, reply, epoch, logged, tcti, esys, owned, provider, tpm, crashed>>

-----------------------------------------------------------------------------
(* Failure: the unique_ptr locals of the call are destroyed, innermost first *)

UnwindEsys(a) ==
    /\ At(a, "unwind")
    /\ "esys" \in owned[a]
    /\ esys' = [esys EXCEPT ![a] = Close(@)]
    /\ Disown(a, "esys")
    /\ UNCHANGED <<pc, callVars, tcti, site, object, provider, tpm, crashed>>

\* The handle's deleter: release_failed_tcti_init, finalize_loaded_tcti or the
\* caller's.  unique_ptr calls it without looking whether it is null.
UnwindTcti(a) ==
    /\ At(a, "unwind")
    /\ owned[a] = {"tcti"}
    /\ \/ /\ req[a].config = "null_deleter"
          /\ crashed' = TRUE
          /\ UNCHANGED <<tcti, owned>>
       \/ /\ req[a].config # "null_deleter"
          /\ tcti' = [tcti EXCEPT ![a] = Close(@)]
          /\ Disown(a, "tcti")
          /\ UNCHANGED crashed
    /\ UNCHANGED <<pc, callVars, esys, site, object, provider, tpm>>

\* ... with no deleter on a loader context whose initialization failed, and
\* with one that waits for a TCTI that was never there.
LeakedTcti_Fault(a) ==
    /\ At(a, "unwind")
    /\ "esys" \notin owned[a] /\ tcti[a] # "open"
    /\ Goto(a, "failed")
    /\ site' = [site EXCEPT ![a] = Null]
    /\ UNCHANGED <<callVars, tcti, esys, owned, object, provider, tpm, crashed>>
AwaitedTcti_Fault(a) ==
    /\ At(a, "unwind")
    /\ owned[a] = {} /\ tcti[a] = "closed"
    /\ Goto(a, "failed")
    /\ site' = [site EXCEPT ![a] = Null]
    /\ UNCHANGED <<callVars, tcti, esys, owned, object, provider, tpm, crashed>>

ReturnError(a) ==
    /\ At(a, "unwind")
    /\ owned[a] = {}
    /\ Goto(a, "failed")
    /\ site' = [site EXCEPT ![a] = Null]
    /\ UNCHANGED <<callVars, tcti, esys, owned, object, provider, tpm, crashed>>

-----------------------------------------------------------------------------
(* Contexts and the providers that borrow them.  A provider must not outlive
   its context, so its user destroys it before the impl goes away; whether the
   context object is moved meanwhile is left to the user. *)

\* unique_ptr<impl>::reset(next): the pointer is replaced, then the old impl is
\* destroyed by the same thread (Vacate starts that).
Vacate(o) ==
    LET a == object[o] IN
    \/ /\ a \in Attempt
       /\ ~ Borrowed(a)
       /\ Goto(a, "teardown")
       /\ site' = [site EXCEPT ![a] = o]
    \/ /\ a \notin Attempt
       /\ UNCHANGED <<pc, site>>

\* ... copying the pointer.
MoveConstruct_Fault(from, to) ==
    /\ object[from] # Absent /\ Quiet(from)
    /\ object[to] = Absent /\ Quiet(to)
    /\ object' = [object EXCEPT ![to] = object[from]]
    /\ UNCHANGED <<pc, callVars, tcti, esys, owned, site, provider, tpm, crashed>>

MoveConstruct(from, to) ==
    /\ object[from] # Absent /\ Quiet(from)
    /\ object[to] = Absent /\ Quiet(to)
    /\ object' = [object EXCEPT ![to] = object[from], ![from] = Null]
    /\ UNCHANGED <<pc, callVars, tcti, esys, owned, site, provider, tpm, crashed>>

\* ... resetting the pointer that was moved in.
MoveAssign_Fault(from, to) ==
    /\ from # to
    /\ object[from] \in Attempt /\ Quiet(from)
    /\ object[to] = Null /\ Quiet(to)
    /\ Goto(object[from], "teardown")
    /\ site' = [site EXCEPT ![object[from]] = to]
    /\ object' = [object EXCEPT ![from] = Null]
    /\ UNCHANGED <<callVars, tcti, esys, owned, provider, tpm, crashed>>

MoveAssign(from, to) ==
    /\ from # to
    /\ object[from] # Absent /\ Quiet(from)
    /\ object[to] # Absent /\ Quiet(to)
    /\ Vacate(to)
    /\ object' = [object EXCEPT ![to] = object[from], ![from] = Null]
    /\ UNCHANGED <<callVars, tcti, esys, owned, provider, tpm, crashed>>

Destroy(o) ==
    /\ object[o] # Absent /\ Quiet(o)
    /\ Vacate(o)
    /\ object' = [object EXCEPT ![o] = Absent]
    /\ UNCHANGED <<callVars, tcti, esys, owned, provider, tpm, crashed>>

\* The provider keeps the raw ESYS pointer of the impl; a moved-from context
\* is refused with resource_error.
CreatePcrProvider(o, p) ==
    /\ object[o] # Absent /\ Quiet(o)
    /\ provider[p] = Absent
    /\ provider' = [provider EXCEPT ![p] = object[o]]
    /\ UNCHANGED <<pc, callVars, tcti, esys, owned, site, object, tpm, crashed>>

DestroyProvider(p) ==
    /\ provider[p] # Absent
    /\ provider' = [provider EXCEPT ![p] = Absent]
    /\ UNCHANGED <<pc, callVars, tcti, esys, owned, site, object, tpm, crashed>>

\* ~impl: the record first, then log_, esys_ and tcti_, the reverse of their
\* declaration.
LogFinalized(a) ==
    /\ At(a, "teardown")
    /\ "finalized" \notin logged[a]
    /\ Log(a, {"finalized"})
    /\ UNCHANGED <<pc, req, result, reply, epoch, tcti, esys, owned, site, object, provider, tpm, crashed>>

DestroyEsysMember(a) ==
    /\ At(a, "teardown")
    /\ "finalized" \in logged[a]
    /\ "esys" \in owned[a]
    /\ esys' = [esys EXCEPT ![a] = Close(@)]
    /\ Disown(a, "esys")
    /\ UNCHANGED <<pc, callVars, tcti, site, object, provider, tpm, crashed>>

DestroyTctiMember(a) ==
    /\ At(a, "teardown")
    /\ "finalized" \in logged[a]
    /\ owned[a] = {"tcti"}
    /\ tcti' = [tcti EXCEPT ![a] = Close(@)]
    /\ Disown(a, "tcti")
    /\ Goto(a, "gone")
    /\ site' = [site EXCEPT ![a] = Null]
    /\ UNCHANGED <<callVars, esys, object, provider, tpm, crashed>>

-----------------------------------------------------------------------------
(* The device *)

\* TPM2_Startup reaches the TPM, which runs it, answers that it is running
\* already, or refuses it; or it never gets there.
TpmStartup(a) ==
    /\ At(a, "startup")
    /\ \/ /\ reply' = [reply EXCEPT ![a] = IF tpm.started THEN "initialize" ELSE "ok"]
          /\ tpm' = [started |-> TRUE, resets |-> tpm.resets]
          /\ epoch' = [epoch EXCEPT ![a] = tpm.resets]
       \/ /\ \E c \in TssCategory : reply' = [reply EXCEPT ![a] = c]
          /\ UNCHANGED <<tpm, epoch>>
    /\ Goto(a, "startup_reply")
    /\ UNCHANGED <<req, result, logged, tcti, esys, owned, site, object, provider, crashed>>

TpmReset ==
    /\ tpm.resets < MaxResets
    /\ tpm' = [started |-> FALSE, resets |-> tpm.resets + 1]
    /\ UNCHANGED <<pc, callVars, tcti, esys, owned, site, object, provider, crashed>>

-----------------------------------------------------------------------------

\* What the thread of attempt a, or of the operation destroying its impl, does
\* by itself once it has entered the library.
Run(a) ==
    \/ ValidateStartupMode(a) \/ CheckOwnedHandle(a) \/ ResolveTcti(a)
    \/ GetTctiInfo(a) \/ AllocateLoaderContext(a) \/ InitTcti(a)
    \/ InitializeEsys(a) \/ StartTpm(a) \/ FinishStartup(a) \/ ConstructImpl(a)
    \/ UnwindEsys(a) \/ UnwindTcti(a) \/ ReturnError(a)
    \/ LogFinalized(a) \/ DestroyEsysMember(a) \/ DestroyTctiMember(a)

Use ==
    \/ \E a \in Attempt, r \in Request, o \in Object : Call(a, r, o)
    \/ \E from, to \in Object : MoveConstruct(from, to) \/ MoveAssign(from, to)
    \/ \E o \in Object : Destroy(o)
    \/ \E o \in Object, p \in Provider : CreatePcrProvider(o, p)
    \/ \E p \in Provider : DestroyProvider(p)

\* A call through a null function pointer ends the process.
Next ==
    /\ ~ crashed
    /\ \/ \E a \in Attempt : Run(a) \/ TpmStartup(a)
       \/ Use
       \/ TpmReset

Spec == Init /\ [][Next]_vars

\* A thread inside the library keeps running, and the transport answers.
Fairness == \A a \in Attempt : WF_vars(~crashed /\ Run(a)) /\ WF_vars(~crashed /\ TpmStartup(a))

FairSpec == Spec /\ Fairness

-----------------------------------------------------------------------------
(* Properties *)

Held(a) == \E o \in Object : object[o] = a

\* Ownership is linear: however contexts are moved, overwritten and destroyed,
\* a returned impl is in exactly one object and every other impl in none.
LinearOwnership ==
    \A a \in Attempt :
        /\ Held(a) <=> pc[a] = "returned"
        /\ \A o1, o2 \in Object : object[o1] = a /\ object[o2] = a => o1 = o2

\* TSS teardown contract of impl.h: in every state an ESYS context that is open
\* runs over a TCTI context that is open too, in failing creations as well.
EsysOverOpenTcti == \A a \in Attempt : esys[a] = "open" => tcti[a] = "open"

\* A context that callers can reach is whole: both handles open, Startup
\* accounted for in the log, no failure logged on the way to it.
HeldContextIsWhole ==
    \A a \in Attempt : Held(a) =>
        /\ esys[a] = "open" /\ tcti[a] = "open"
        /\ {"esys_initialized", "startup_completed"} \subseteq logged[a]
        /\ logged[a] \cap {"tss_error", "finalized"} = {}

\* When create() has failed or the context is destroyed nothing is left open,
\* whichever of the steps failed.
NothingLeaks ==
    \A a \in Attempt : pc[a] \in {"failed", "gone"} =>
        /\ esys[a] # "open"
        /\ tcti[a] \notin {"pending", "open"}

\* A context created with mode clear or state sits on a started TPM unless the
\* TPM was reset since it ran that Startup, also when another thread started
\* it first and the answer was TPM2_RC_INITIALIZE.
StartedWhenHeld ==
    \A a \in Attempt :
        /\ Held(a) /\ req[a].mode # "skip" /\ epoch[a] = tpm.resets
        => tpm.started

\* A provider's borrowed connection stays open for as long as the provider
\* lives, even when the context object it came from has been moved.
ProviderConnected ==
    \A p \in Provider : provider[p] \in Attempt =>
        esys[provider[p]] = "open" /\ tcti[provider[p]] = "open"

\* No failure of the TSS is silent, neither in the TCTI loader nor in Esys_Initialize nor in
\* Startup: a creation whose arguments were accepted ends without a tss_error record only
\* for want of memory or over a context size of 0, which are found before there is a TCTI.
\* And a record means a failure.
Accepted(r) == r.mode \in ValidMode /\ r.config \in {"named", "valid"}

NoTssFailure(a) ==
    \/ ~ Accepted(req[a])
    \/ result[a] = "bad_alloc"
    \/ tcti[a] = "absent" /\ result[a] \in {"backend_error", "resource_error"}

FailuresAreAudited ==
    \A a \in Attempt :
        /\ pc[a] = "failed" /\ ~ NoTssFailure(a) => "tss_error" \in logged[a]
        /\ "tss_error" \in logged[a] => pc[a] \in {"unwind", "failed"}

\* The finalizer of a handle runs at most once, and on a handle that is there: what the
\* loader, a creation and an impl hand to each other by release() and std::move has one
\* pointer to it at a time, in success and in every failure.
HandlesAreClosedOnce == \A a \in Attempt : tcti[a] # "misused" /\ esys[a] # "misused"

\* No TCTI or ESYS context is ever reopened or finalized again: each handle only moves
\* forward, to its one end.  A TCTI is never closed under an open ESYS context, and an open ESYS context is closed by its own
\* attempt, in a failing creation or after the record of its teardown.
HandleStep ==
    \A a \in Attempt :
        /\ tcti[a] \in {"closed", "released"} => tcti'[a] = tcti[a]
        /\ esys[a] = "closed" => esys'[a] = "closed"
        /\ tcti[a] = "open" /\ tcti'[a] = "closed" => esys[a] # "open"
        /\ esys[a] = "open" /\ esys'[a] = "closed" =>
              pc[a] = "unwind" \/ "finalized" \in logged[a]

HandlesMoveForward == [][HandleStep /\ HandlesAreClosedOnce']_vars

\* The finalizer of a handle that has no deleter is never called.
NullDeleterNeverInvoked == ~ crashed

\* Every call of create() returns and every teardown ends.
CallsReturn ==
    \A a \in Attempt :
        /\ pc[a] \in CreatePc ~> (pc[a] \in {"returned", "failed"} \/ crashed)
        /\ pc[a] = "teardown" ~> (pc[a] = "gone" \/ crashed)

-----------------------------------------------------------------------------
(* The inductive invariant behind the safety properties *)

BeforeEsys == {"idle", "validate", "check_handle", "resolve", "get_info",
               "allocate", "init_tcti", "init_esys"}
AfterEsys == {"start", "startup", "startup_reply", "construct", "returned"}

\* The handles each stage of a call or teardown holds.
ResourceInv ==
    \A a \in Attempt :
        /\ pc[a] # "idle" => req[a] \in Request
        /\ pc[a] \in {"idle", "resolve", "get_info", "allocate"} => tcti[a] = "absent"
        /\ pc[a] \in {"validate", "check_handle"} =>
              tcti[a] = IF req[a].config \in {"null_deleter", "valid"} THEN "open" ELSE "absent"
        /\ pc[a] = "init_tcti" => tcti[a] = "pending"
        /\ pc[a] \in {"init_esys", "teardown"} => tcti[a] = "open"
        /\ pc[a] \in BeforeEsys => esys[a] = "absent"
        /\ pc[a] \in AfterEsys => esys[a] = "open"
        /\ esys[a] = "open" => tcti[a] = "open"
        /\ pc[a] \in {"failed", "gone"} => esys[a] # "open" /\ tcti[a] \notin {"pending", "open"}
        /\ "tcti" \in owned[a] <=> tcti[a] \in {"pending", "open"}
        /\ "esys" \in owned[a] <=> esys[a] = "open"
        /\ tcti[a] # "misused" /\ esys[a] # "misused"

\* Who owns a returned impl, and the storage a creation has to itself.
OwnerInv ==
    /\ LinearOwnership
    /\ \A a \in Attempt : pc[a] \in CreatePc =>
            site[a] \in Object /\ object[site[a]] = Absent
    /\ \A a, b \in Attempt : site[a] \in Object /\ site[a] = site[b] => a = b
    /\ \A p \in Provider : provider[p] \in Attempt => pc[provider[p]] = "returned"

\* What the log of each stage holds.
AuditInv ==
    \A a \in Attempt :
        /\ pc[a] \in AfterEsys => "esys_initialized" \in logged[a]
        /\ pc[a] \in {"construct", "returned"} => "startup_completed" \in logged[a]
        /\ pc[a] \in CreatePc \cup {"idle", "returned"} => "finalized" \notin logged[a]
        /\ "tss_error" \in logged[a] => pc[a] \in {"unwind", "failed"}

\* A creation that fails over the TSS has the record when it starts to unwind.
SilenceInv ==
    \A a \in Attempt :
        pc[a] \in {"unwind", "failed"} /\ ~ NoTssFailure(a) => "tss_error" \in logged[a]

\* A Startup answered with success or TPM2_RC_INITIALIZE found the TPM started.
StartInv ==
    \A a \in Attempt :
        /\ epoch[a] =< tpm.resets
        /\ /\ \/ pc[a] = "startup_reply" /\ reply[a] \in {"ok", "initialize"}
              \/ pc[a] \in {"construct", "returned"} /\ req[a].mode # "skip"
           /\ epoch[a] = tpm.resets
           => tpm.started

IInv == TypeOK /\ ResourceInv /\ OwnerInv /\ AuditInv /\ SilenceInv /\ StartInv

=============================================================================
