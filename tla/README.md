# tpmkit: specification, model checking and proofs

tpmkit is a C++17 library over the TPM2 TSS.  An application creates a
`tpm_context` (a TCTI transport, an ESYS context on top of it, a started TPM),
asks it for a PCR provider, and reads, extends, resets and configures PCRs
through it.  Everything is synchronous: the library has no threads of its own.
What makes it hard is what surrounds a call: creation that may fail at each of
its stages with handles half made, objects that move, providers that borrow raw
pointers, several threads and other software on one TPM, answers that are lost
after the TPM has done the work, and a TPM that restarts.

Paths below are relative to the repository; `esys/` stands for
`src/adapters/tpm2_esys/`.

## 1. The system

| component | state | operations | what makes it correct | module |
|---|---|---|---|---|
| context lifecycle, `esys/context/` | TCTI handle, ESYS handle, impl pointer of each `tpm_context`, logger | `create`, `create_context`, move, move assignment, destruction, `create_pcr_provider` | a context is whole or not there; ESYS is closed before its TCTI; nothing leaks on any failure; moves neither copy nor lose the impl; failures are in the log | TpmContext |
| PCR provider, `esys/pcr/esys_pcr_provider.cpp` | none but borrowed pointers; the state is the TPM's and the observer's | `allocate`, `event`, `extend`, `read`, `reset`, `set_auth_policy`, `set_auth_value` | refused calls never reach the TPM; one command per call; observer and log hear of what happened, once, in order; a read is a snapshot | PcrProvider |
| PCR marshalling and validation, `esys/pcr/pcr_marshalling.cpp`, `pcr_validation.cpp` | none | conversions between domain values and TSS structures | selections survive the round trip; malformed answers are refused | PcrMarshalling, PcrValues |
| error translation, `esys/support/error_translation.cpp` | none | `translate_tss_rc`, the sanitized description | parameter, handle and session bits do not change the category; nothing unprintable is shown | ErrorTranslation, Texts |
| event records, `esys/support/log_*.h`, `pcr_logging.cpp` | none | one record per milestone or failure | a failure is never silent, and the log does not contradict the TPM | TpmContext, PcrProvider |
| secret buffer, `src/domain/secret_buffer.cpp` | bytes, lock flag, locks of pages | construct, move, view, destroy | cleansed whatever way it ends; no page stays locked behind its last buffer | SecretBuffer |
| value types, `src/domain/pcr/`, `hash_algorithm.cpp` | immutable | constructors, `make_index_range` | no index above 31, also where words wrap | PcrValues |
| hex and escaping, `src/domain/encoding/hex.cpp`, `src/adapters/common/escape_value.h` | none | encode, decode, escape | decode inverts encode; a field cannot forge another | Texts |
| stdio and spdlog loggers, `src/adapters/logging/` | streams or sink, minimum level, buffer, mutex | `log`, `flush`, move, move assignment | records are not interleaved; a sink is serialized; moves between two threads do not deadlock | Loggers |
| fake TCTI, `src/adapters/mock/fake_tcti.cpp` | queued answers, recorded commands | transmit, receive, finalize and the rest of a TCTI | it follows its script, and keeps to the sizes it announces of scripted responses | FakeTcti |
| mock provider and fake context, `src/adapters/mock/` | programmed results, counts | program, call, clear | an operation answers what it was told to last | TestDoubles, Texts |
| recording logger and in-memory observer, `src/adapters/mock/` | recorded calls | record, snapshot, clear | what is recorded is what happened | PcrProvider (recording only) |
| scripts, `scripts/` | container, daemons, `/run/dbus`, NVChip | build, run, exec, stop and status on the host; start and stop inside | exit codes tell the truth; a start repairs what a crash left | DevStack |
| build files, examples, documentation | none | | | not modelled |

Interaction: the context owns TCTI and ESYS through `unique_ptr`s with custom
deleters and passes ESYS and logger to providers as raw pointers; a provider
calls ESYS, which calls the TPM over the TCTI and blocks; the observer is a
callback run by the thread that made the PCR call; loggers are called at each
milestone and may be shared by any number of contexts and threads; the scripts
provide the simulator that examples and integration tests connect to.

The hard behaviours are listed, each at its line, under `hazards` in
`PROJECT.json`, with the properties that would notice them.

## 2. The modules

### TpmContext: creation, moves, teardown

Every call of `create()` or `create_context()` is an *attempt*; it owns at most
one TCTI, one ESYS and one impl, so these are named after it.  `pc[a]` says
which call the thread of the attempt makes next; `tcti[a]`, `esys[a]` are the
handles, `owned[a]` the `unique_ptr`s of the attempt that are not null, be they
locals of a creation or members of an impl, `object[o]` is the `impl_` pointer of a `tpm_context`, `provider[p]`
the impl whose connection a provider borrows, `logged[a]` the event records.

| action | code |
|---|---|
| `Call`, `ValidateStartupMode`, `CheckOwnedHandle` | `tpm_context.cpp` 108-127, 293-320, 361-377 |
| `ResolveTcti`, `GetTctiInfo`, `AllocateLoaderContext`, `InitTcti` | `tcti_loader.cpp` 62-199 |
| `InitializeEsys`, `StartTpm`, `FinishStartup`, `ConstructImpl` | `tpm_context.cpp` 168-266 |
| `UnwindEsys`, `UnwindTcti`, `ReturnError` | the `unique_ptr` locals of a failing creation |
| `MoveConstruct`, `MoveAssign`, `Destroy` | `tpm_context.cpp` 351-355 |
| `LogFinalized`, `DestroyEsysMember`, `DestroyTctiMember` | `~impl` and the members of `impl.h` |
| `CreatePcrProvider`, `DestroyProvider` | `tpm_context.cpp` 379-389 |
| `TpmStartup`, `TpmReset` | the TPM (external) |

A destructor runs where a pointer is in `owned[a]`, whatever the handle is like, and
`Close` is what a finalizer makes of a handle: closed if it was there, `"misused"` if
it was closed before or never made.  So a pointer that is not given up when its handle
passes to another one closes it twice.  `HandlesMoveForward` says that this never
happens (`HandlesAreClosedOnce`), and in which order handles are closed and by whom.

`FailuresAreAudited` covers every failure of the TSS: in the loader, in
`Esys_Initialize` and in Startup.  What leaves no `tss_error` record are arguments that
are refused, a loader context of size 0 or one that cannot be allocated, and
`std::bad_alloc`.

An action is one stretch of code between two calls that leave the library, so
attempts interleave where threads can.  The user is held to the documented
lifetime rule (a provider is gone before the impl it borrows from is
destroyed), but not to the stronger rule that a context is not moved while a
provider lives: the model shows that moving alone is harmless.

A creation from a string is modelled from the configuration being accepted or
not; which configurations are, and what is logged of them, is in Texts.

`ContextContract` says what the component promises: an attempt is idle, working,
held by one owner, or over, and its resources are open only while it is working
or held.  `TpmContextRefinement` maps `TpmContext` to it.

### PcrProvider: PCR operations

Each operation has an action for the part before the ESYS call (checks and
dispatch), and one for the part after it (translation, decoding, return);
`Observe` is the callback and the return of `extend` and `event`, and
`set_auth_value` has its two `Esys_TR_SetAuth` calls as steps of their own.
Between the two parts the TPM runs the command, refuses it, or runs it and
loses the answer; other software extends, resets and sets authorizations; the
TPM restarts with the banks allocated for it.

A PCR value is a hash chain; the model keeps the *history* of all updates and
takes the value of a PCR to be the set of positions of the updates folded into
it since it was last wiped.  Two values are equal exactly when the chains are.
The update counter counts the updates since the last restart: the increments of
real TPMs differ (one per bank, some PCRs not counted), only that a change shows
in the counter matters here.  `PCR_Extend` ignores digests of banks not in use,
`PCR_Read` returns at most `MaxDigests` digests of the lowest selected indices.
`PCR_Allocate` leaves the banks it does not name as they are.  All this is
external to the repository and stated in one section of the module.

The log of a provider is what it says of its calls: which operation ended how, on
which PCR, with which banks.  `LogTellsWhatHappened` compares it with the TPM and with
what the caller gets.  A call has one record at most, and three kinds of calls have
none: those refused by an argument check or without a context, before anything was sent; a
read whose answer cannot be decoded; and an event whose digests cannot be decoded, which
updates the TPM without a trace - the second of the disagreements below seen from
the audit log.  Every other failure is recorded, also of calls that update nothing.

The variables `applied`, `since` and `reported` and the field `at` of a record
exist only to state properties: they tell which updates the TPM made for a call.

### Conversions: everything that computes without state

`Conversions` puts four modules side by side; a behaviour performs one
conversion of one of them.  They share a run and nothing else.

**PcrMarshalling**, one read, bit by bit.  `Encode` turns a selection into the
bitmap that is sent (`to_tpm_selection`), `TpmReads` is a TPM that answers with
all or the lowest of the selected PCRs, `AnswersOddly` is anything else that a
transport may deliver, and `Decode` is what `read()` makes of the answer
(`to_domain_selection`, `to_domain_read_values`).  A byte of a bitmap is the set
of its bits, a digest is its size and, unseen by the library, the PCR it came
from; the domain's index range 0 to 31 and the four bytes of
`TPMS_PCR_SELECTION` are the real ones.  PcrProvider uses the same conversions on
whole sets; this module shows that the bits do what the sets say.
`select_all_pcrs` and `to_tpm_allocation` are the bitmaps of an allocation.

**PcrValues**, the constructors of `pcr::index`, ranges, banks, digests and
selections, `make_index_range` with its unsigned arithmetic, and algorithms on their way
to the TPM and back in builds with and without legacy SHA-1.

**ErrorTranslation**, `translate_tss_rc` as an operator on numbers: layer byte,
16-bit base, the normalization of TPM format-one codes, and the table.  Entries
that say `backend_error` are left out, since that is the default.

**Texts**, character by character: hexadecimal, quoting and escaping of field
values, the bounded and sanitized description of a TSS error, and a TCTI
configuration as the loader, the log and the fake context of the tests parse
it, each with code of its own.

### Loggers: many threads, moving buffers

Both loggers in one module, for they lock alike.  Each call of `log`, `flush`, move
construction or move assignment is a sequence of steps of its thread: taking the
mutex, `Format` (filter, choice of stream, record put together, in the shared
`record_` of a stdio logger or in a local of an spdlog one), `WriteRecord` and
`WriteNewline` as the two insertions they are.  `std::lock` is external: one
mutex, then the other if it is free, or back to the start with neither.  An
allocation may fail while the record is made; a stream or sink fails at any
point and writes nothing afterwards, which a `std::ostream` with its bad bit set
does by itself and which for an spdlog sink, external too, is an assumption.
The header of the stdio logger asks users to keep moves to one thread, but the code locks for
more than that, and the model moves loggers while others log.  A stream or sink
is given to one logger: two loggers on one are the user's to serialize.

### SecretBuffer: one heap

Vectors of secret bytes sit in blocks of a heap that several threads use;
a buffer points to an impl that owns a block.  Constructing is one step, since it
touches nothing others can see; clearing is the code's four (look, unlock, cleanse, release), so
that blocks are given away and filled again between them.  Locking may fail.

`mlock` and `munlock` (`secret_buffer.cpp` 47 and 67) act on pages and do not nest, so
`mlocked` is a set of pages and `PagesOf` says on which pages a block lies.  Two small
secrets usually share a page: the end of one then lifts the lock of the other, which
goes on holding its secret in memory that may be swapped out, with its flag set.  What
is left of the promise of a lock is `LocksEndWithTheirBuffer`: a page is locked only
while some buffer on it holds a lock, and a buffer that shares no page with others
is locked as long as it holds one.

### FakeTcti and TestDoubles: what the tests rely on

The test's threads push answers at any time; one client calls the handle.
`receive` goes to the end of its first locked section, `receive_next` is the
rest, with the factory called in between.  A factory is an arbitrary function that is
called anew for every receive, size queries included: it may throw, and it may make a
response of another size each time, so that a size asked of a factory binds nobody.
`AnnouncedSizesHold` is therefore about the responses of the script.  `consumed` and
`announced` exist for the properties.  A handle may be finalized more than once; the fake counts the
first only, so tests that compare its count with one would not see a second.
`TestDoubles` adds the mock provider; a behaviour uses one of the two.  Of the recording
logger and the in-memory observer, what they record is the log and the observer of
PcrProvider; their `clear` and `snapshot` are single assignments and copies and are not
modelled, nor is that recorders drop what they cannot allocate.

### DevStack: scripts over processes

A script of the host is the sequence of `docker` commands it waits for, run
from several terminals on one container; `tpm-start.sh` and `tpm-stop.sh` are
the commands they run inside it, over a simulator, a D-Bus daemon and the
resource manager (the broker).  Between two commands daemons crash, obey
signals late, the container dies and Docker becomes unreachable.  The fifteen polls of
`tpm-stop.sh` are one step that finds the daemon gone or gives up.  A build may fail
for a missing Dockerfile or of itself; `exec` first asks whether the repository is
mounted in the container, which it need not be; a run in the foreground is attached until
its container ends or the user detaches.  A script that execs becomes the command it
executes: its code 0 in the model says that the command began, and how that ends is the
code of `inner`.

`lost` holds the daemons that died since the starts of `tpm-start.sh` were over, and
afterwards since the last check looked at them.  It is emptied by reaching the last checks
and not by making them, so that leaving a check out is noticed
(`StartIsTruthful`).

Assumptions about what is external: one script at a time inside the container,
which runs with an init process, so that a dead daemon is not seen as a process;
`dbus-daemon` refuses to start over its pid file; the broker exits at once
without a bus or a simulator, but is not modelled to lose its connection when
the simulator is replaced under it.

### Definitions ending in `_Fault`

A definition `..._Fault` is the definition that follows it with a mistake a
programmer could make in that code: a dropped check, a swapped order, a missing
call.  No specification uses them.  Replacing the one by the other must violate
the property paired with it under `mutants` in `PROJECT.json`, which shows that
the property depends on that code.

## 3. The runs

| run | question | bounds |
|---|---|---|
| `context_lifecycle` | ownership, teardown order, handles closed once, leaks, startup, audit log under two racing threads; does the staged code implement the contract, and does every creation and teardown end | 2 attempts, 2 objects, 1 provider, 1 reset, 8 requests |
| `context_null_deleter` | is a null deleter ever called | 1 attempt; **violated** |
| `pcr_measure` | what observers and callers are told against what the TPM did | 2 providers, 1 PCR, 3 updates, 4 banks |
| `pcr_read` | are reads snapshots | 2 providers (one without context), 3 PCRs, 2 digests per reply, 3 updates |
| `pcr_auth` | do authorizations stay usable, is every operation logged as it ended, and does each return | 2 providers, 1 PCR, 1 update, all operations |
| `pcr_failed_event` | does a failed call leave the TPM alone | 1 provider, SM3 bank active; **violated** |
| `pcr_event_digests` | one digest per active bank | 1 provider, SHA-1 bank active; **violated** |
| `conversions` | do bitmaps, digests, indices, response codes, ranges, algorithms and texts survive their conversions | every selection of up to two PCRs, eight and ten in a row, 8 digests per reply, 49 odd answers; every 12-bit code of 7 layers; words of 9 bits; texts of up to 5 characters of both sides of every border |
| `loggers` | are lines whole, single and where they belong, sinks serialized, and does every call return | 2 threads, 3 calls, 4 loggers (1 stdio, 2 spdlog, 1 to be made), 4 streams, 3 of 5 levels |
| `test_doubles` | do fake TCTI and mock provider follow their script | 3 answers of all kinds, 5 calls, scripted sizes 0 and 2, factories that make 1 or 2 bytes, buffers of 0 to 2; 4 acts on the mock |
| `secret_buffers` | does any secret or lock outlive its buffer | 2 threads, 3 buffers, 3 impls, 3 blocks (two on one page, one on two pages), 4 secrets |
| `dev_stack` | do exit codes tell the truth, and does a start repair what a crash left | 2 terminals, 4 scripts, 2 faults |

Why the bounds are enough.

- Attempts share only the TPM's started flag and the objects, so a conflict needs two
  of them; a move needs a source and a destination object; a startup race needs
  one reset between two startups.
- For PCRs, order needs two updates of one provider and one of somebody else in
  between (3 updates); pairing of read values needs three selected indices of which
  one is cut off.  `TssCategory` and `RcCategory` have one member where nothing
  depends on which category an error has.
- A bitmap treats its PCRs one by one, so that pairs of PCRs exercise its sizes and
  the order of values; the eight in a row fill bytes and a reply, the ten overfill
  it.  A response code has twelve bits and a layer in every TSS layer met.  Words of
  nine bits (`WordSize`) leave room for indices far above 31 and wrap like those of 32;
  `Edges` has the limits of both.  A character matters by the class the code puts it
  in; the texts have members of every class and the characters next to its borders.
- A logger needs two threads to break a line, a chain of moves needs three loggers
  of which one moves to another, and three calls make two records around a move or a
  record after two moves.
- The fake needs a failure behind a response behind another answer, and a query, a
  short buffer and a command before the receive.
- A secret is lost or kept twice by two buffers; the third is there to be moved into,
  and the fourth vector to fill a block that was given back.  Two blocks on one page
  lift each other's lock, and a block on two pages has more than one to lift.
- A script of the host races one other script at a time; four of them make run, exec, stop
  and a second run.  Two faults are a daemon and the container, or Docker going and
  coming back.

Symmetry is used for users, terminals, threads and memory, never in a liveness run.

Deadlock checking is off where a behaviour really ends: in the context runs when
all attempts have been used and every object is gone, in `conversions` when the one
conversion is done, and in `loggers`, `test_doubles`, `secret_buffers` and
`dev_stack` when the bounded number of calls, vectors or scripts has been used.
That no thread waits for ever before that is what `CallsReturn` is for.

Fairness.  In TpmContext and PcrProvider `Run` is weakly fair: a thread inside
the library keeps running, and nothing in the library waits for another thread.
The TPM's answer is weakly fair: the TSS blocks until the transport answers or
reports an error; a transport that blocks for ever is outside the model, because
the library sets no timeout of its own and would block with it.  Callers are not
fair: nobody has to destroy a context.  In the loggers, threads inside a call are
weakly fair, and `LockBoth` is strongly fair: a thread that tries its second mutex
again and again will one time find it free.  The C++ standard promises no more than
the absence of deadlock there; without that fairness two threads could back off in
step for ever.  No liveness is claimed of the scripts: a broken daemon may never start.

### Disagreements found

1. `create_context_from_owned_tcti` (`tpm_context.cpp:298`) checks the startup
   mode before the deleter, so an owned handle with a null deleter and an
   invalid mode is destroyed through a null function pointer; the unit test at
   `tests/unit/tpm2_esys/tpm_context_lifecycle_test.cpp:231` says such handles
   are rejected without finalizing.
2. `event()` decodes the TPM's answer after the PCR was extended: a bank the
   build cannot represent makes it fail with the PCR changed and the observer
   not told, where `provider.h:98` documents the strong guarantee.
3. `event()` returns no digest for an active SHA-1 bank in default builds, where
   `provider.h:93` documents one digest per active bank.
4. The move assignment of `secret_buffer` is that of `unique_ptr`
   (`secret_buffer.cpp:139`): it installs the impl of the source and deletes the old one,
   whose destructor cleanses the bytes, afterwards.  `secret_buffer.h:83` documents
   "clearing existing contents first", and
   `tests/unit/domain/secret_buffer_test.cpp:134` says that it verifies this, but looks only
   after the assignment.  The old bytes are cleansed all the same
   (`NothingIsLeftBehind`); only the order differs.  `MoveAssign` of SecretBuffer is
   written that way round; a run shows the three others, and none is about this one.

Smaller remarks, which no run is about.  The header of `tpm-stop.sh` speaks of
"related daemons", but the D-Bus daemon is never stopped.  The test of `$?` at
`tpm-start.sh:95` is never reached with a failure, because `set -e` has ended the script.
When a container vanishes between the two inspects of `status` or `stop`, the
scripts exit with 1, which for `stop` is not a documented code; when Docker dies
between `docker info` and the inspect, `stop` says that the container does not
exist and exits with 0.  `CodesTellTheState` states what the codes mean with
this taken into account.

## 4. The proofs

Every theorem holds for all values of the constants, where a run checks a small
instance.  Each proof has the same plan: an inductive invariant `IInv`,
stated part by part before the proof, is true initially and preserved by every action
(`Invariance`), and the properties follow from it.

### TpmContextProofs

`TpmContextProofs` proves, for every number of attempts, objects, providers,
resets and every set of requests, the type invariant, the safety invariants of
`context_lifecycle`, that an open ESYS context sits on an open TCTI
(`EsysOverOpenTcti`), that none is closed twice (`NoDoubleClose`), and the action
property `HandlesMoveForward`.
The only assumption is `ContextAssumption`: `Absent` and `Null` are distinct and
not attempts or objects, requests are of the two kinds, `MaxResets` is a number.

None of the safety properties is inductive alone; `IInv` strengthens them with

- `ResourceInv`: which handles each stage of a call or teardown holds, and that exactly
  the handles that are there have a pointer.  It is what makes the unwind of every
  stage right;
- `OwnerInv`: `LinearOwnership`, the exclusive storage of a running creation,
  and that a borrowed impl is held;
- `AuditInv`: what the log of each stage holds;
- `SilenceInv`: that a failure of the TSS is in the log when the unwinding starts;
- `StartInv`: an accepted Startup answer implies that the TPM was started in
  the epoch of the answer.

`InitInv` shows that they hold initially; `TypeStep`, `ResourceStep`,
`OwnerStep`, `AuditStep`, `SilenceStep` and `StartStep` that each is preserved, one step per
action, each using only the conjuncts it needs; `Invariance` combines them, and
the other theorems are consequences.

`ContractIsImplemented` is the refinement.  `Effect` lists what a step can do to
attempts and objects: nothing, a stage of a creation begins, an impl is put into its
object, a failed creation or a teardown ends, an object moves or is destroyed.
`StepHasEffect` shows under `IInv` that every action of TpmContext has one of these
effects, and `EffectIsContract` that each of them is a step of `ContextContract`
under the refinement mapping, or a stutter.

### PcrProviderProofs

All invariants of the PCR runs, for any number of providers, PCRs, banks,
requests and updates, and whatever happens to answers and TPM.  A step of a
provider changes its own variables and at most appends to the TPM's history, so
the proof is in three parts.  `Steps` and the lemmas before it say of each action
what it does to the provider (is refused, is sent, is answered, ends, tells its observer);
bystanders keep everything, since their positions in the history do not move when it
grows; and the actor keeps each of the invariants.  `IInv` consists of
`Shape` and `TpmInv` (types; `set_auth_value` lets only the empty authorization through, on which
`AuthorizationsAgree` rests), `Controlled` (what each stage of a call
has been given), `UpdateInv` (at most one update per call, from the answer on),
`ToldInv` (observations are positions in rising order, older than the running call's
update and disjoint from the reported ones), `LogInv` (an ended call was silent
for one of the reasons above, complained or confirmed) and `ReadInv` (a moment since the start of the call
explains an answer).  `ReadInv` needs that a value at a moment does not change when
the history grows, and that the lowest selected indices that fit into an answer are
the ones decoded (`Ranks`).

### LoggersProofs

`WholeLines`, `RecordsAppearOnce`, `SinksAreSerialized` and `RoutedAsConfigured` for
any number of threads, loggers, streams and calls, any configuration and any chain of
moves.  The argument: a stream belongs to one logger (`StreamInv`), also over
moves; a thread in a stream holds the mutex of its logger and found the stream there
(`LockInv`, `InsideInv`); hence a stream has one thread in it.  `LineInv` adds that a stream
that works ends in the middle of a line exactly while a thread is about to end it,
`OnceInv` that no record in a stream is one that a call still has to write, `CallInv`
that no two threads have the same record or construct the same logger, and
`RoutedInv` is `RoutedAsConfigured` without its last part.

### SecretBufferProofs

`BuffersKeepTheirSecrets`, `NothingIsLeftBehind` and `LocksEndWithTheirBuffer` for any
number of threads, buffers, impls and blocks, and any pages the blocks lie on.  `OwnerInv`
says that an impl is
with one buffer or with one thread that clears it and with nobody else, `BlockInv` that
a block and its impl know each other, `ClearInv` how far a clearing thread
is, and `SecretInv` that a secret is in one block and is the one its buffer was given.
`LocksEndWithTheirBuffer` is preserved given the others (`LockStep`): a page that stays
locked has the lock of a block whose impl did not change, and unlocking a block
touches no page of one that shares none with it.

### DevStackProofs

`StartIsTruthful`, `StopIsComplete` and `CodesTellTheState` for any number of
terminals, scripts and faults.  Each stage of `tpm-start.sh` has found or brought up
some daemons, which are up still if nothing died since it began (`StartInv`);
`tpm-stop.sh` goes on when the daemon before is gone (`StopInv`); only a running
container has processes (`Lodged`), and a bus that is up has its socket (`BusInv`).
On the host, `Witnessed(t)` says what a script has seen of the container by the
stage it has reached, which is what its exit code will say.

### TestDoublesProofs

`ScriptIsFollowed`, the action property `AnnouncedSizesHold` and
`MockAnswersAsProgrammed`, for scripts of any length.  The queue holds the answers
still to be given, numbered after those that were (`ScriptInv`); what a receive has
found or announced is true of the head of the queue (`HeadInv`, `AnnouncedInv`), which
changes only at the end of a receive, and what was announced is the size of a scripted
response; commands are numbered in order (`CommandInv`).
`MockInv` says that the mock's results and counts are those its history gives.

### PcrMarshallingProofs

`SelectionSurvives` (`NothingLostOnTheWire`): for every selection of PCRs 0 to 31 the
bitmap sent selects exactly its PCRs.  The invariant `Sent` says that the wire carries
the translation of the request; `SizeFits` and `BitmapIsExact` do the arithmetic
of bytes and bits.  `ValuesAreAttributed` (`ValuesStandByTheirPcr`) and
`ResultsAreWellFormed` (`AcceptedResultsAreWellFormed`) are about every answer of a TPM to every
selection, and every odd answer: `AnswerInv` says which of the selected PCRs an honest answer
is about, and the k-th digest is that of the PCR of rank k, both when the TPM reads and when
the library decodes (`Ranks`, `LowestFew`, `BitmapComesBack`).
`AllocationIsMinimal` is a fact about `allocate()` worth knowing: it lists the
banks of the caller in order, each with PCRs 0 to 23 and never with PCRs 24 to 31,
for every list of banks; it rests on `AllIsMinimal`, about one bank.

### ConversionsProofs

All invariants of the values, codes and texts of `conversions`, for every input.

- `SelectorBitsAreIgnored`, that an error in format one has the category of its six bits,
  from the arithmetic of that format (`OnlyTheErrorCounts`),
  and `OtherCodesAreExact`, that every other code has the category the table gives it and
  backend error otherwise, from the table naming no pair twice
  (`CategoriesAreDisjoint`, `TableIsExact`); together they are `EveryCodeKeepsItsCategory`.
- `RangesHold`: ranges are exact for words of every width over eight bits.
- `AgreementHolds`: algorithms survive in both builds, for digests in any number.
- `HexSurvives` and `FieldsSurvive`: bytes survive hexadecimal, and fields of a
  record survive quoting and escaping, for any text.  `Reads(r, text, q)` says that a
  reader in state r is in state q after a text; it is composed along `\o` and `FlattenSeq`, so that
  `EscapedIsRead` about one character gives `ValueIsRead` about a value and that
  `RecordIsRead` about a record.
- `ParsersAgree`: the three parsers of a configuration agree on every text.

Loops and recursive functions are reasoned about by induction over *sets* of
numbers: `Extremes` derives from the cardinalities of finite sets that a set of numbers up to n that is not
empty has a least and a greatest element, `Induction` that a set with 0 and all
successors holds every number up to n, and `Recursion` that a function given by its
first value and a step exists.  `TakenIsDefined` and `FlattenedIsDefined` apply it to
the loop of `to_domain_digests` and to `FlattenSeq`.  `kept_digests` and `ReadFields`
are written as recursive functions for that reason: tlapm cannot expand
`SelectSeq`, nor the fold of an operator.

### Assumptions

Each module's theorems rest on the assumption about its constants and on nothing else:
`ContextAssumption`, `ProviderAssumption`, `LoggerAssumption`, `BufferAssumption`,
`PagesAssumption` (every block lies on a page), `FakeAssumption`, `MarshallingAssumption`, `ValueAssumption` and `TextAssumption`
(those of DevStack and of response codes need none).  They give the constants their
types, keep markers such as `Null` apart from everything else, and say what a user
guarantees: that two loggers have no stream in common, for one.  No bound is a
particular number.

### Model-checked only

- Liveness: `CallsReturn` of TpmContext and of Loggers, and `OperationsReturn`, since
  temporal reasoning under fairness is beyond the prover.
- The first three disagreements, which are counterexamples.

Every invariant and action property of a passing run, and the refinement, is also a
theorem.

## 5. Not modelled

- Wording, layout and timestamps of records and messages, the text of exceptions, the
  bytes of TSS structures beyond selections, digests and response codes.
- Allocation failure while a log record or error message of the library is built, or
  while a test double records.  `std::bad_alloc` is modelled in `ConstructImpl`,
  in the TCTI loader, in the loggers and in SecretBuffer's construction.
- Comparison operators and accessors of value types, which change nothing; `clear` and
  `snapshot` of the recording logger and the in-memory observer.
- The inside of the TSS, the TPM, spdlog, Docker, D-Bus and the resource manager:
  modelled from how the code uses them, and marked external.
- Build files, examples and documentation, which keep no state of their own.
- What one terminal's interrupt does to a script, and two scripts at once inside
  the container.

## 6. Plan

All components that keep state are modelled (of the recorders, the recording), and all safety properties of the runs are
proved.  What is left:

1. What liveness rests on and is safety: that a thread in Loggers which waits for a
   mutex waits for one that waits for none, and that in TpmContext and PcrProvider a
   call under way always has a step to take, as invariants with theorems.
2. That the whole-set conversions PcrProvider uses (`to_domain_read_values`,
   `to_domain_digests`) are what PcrMarshalling and PcrValues compute bit by bit,
   as a lemma that joins the two modules.
3. A broker that survives its simulator, in DevStack (the one hazard without a property).
