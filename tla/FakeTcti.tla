-------------------------------- MODULE FakeTcti --------------------------------
(***************************************************************************)
(* fake_tcti: the transport that stands for a TPM in tests.  The test, on  *)
(* threads of its own, puts answers into a queue; one ESYS context calls   *)
(* the handle.  A response of a factory is made while the mutex is not     *)
(* held, so that the queue may grow before it is taken out; it is made     *)
(* anew for every receive, a size query included, and need not be the same *)
(* twice.                                                                  *)
(***************************************************************************)
EXTENDS Naturals, Sequences

CONSTANTS
    ResponseSizes,   \* bytes of the responses queued
    FactorySizes,    \* bytes a factory may make when it is run
    Capacities,      \* sizes of the buffers that receive is given
    MaxPushes,       \* answers queued
    MaxCalls         \* calls of the handle

ASSUME FakeAssumption ==
    /\ ResponseSizes \subseteq Nat /\ FactorySizes \subseteq Nat /\ Capacities \subseteq Nat
    /\ MaxPushes \in Nat /\ MaxCalls \in Nat

VARIABLES
    queue_,                  \* answers the test has scripted
    transmitted_commands_,   \* commands seen, by the number of their call
    finalizes_observed_,     \* finalizations seen
    owned,                   \* whether the handle still leads to the fake
    receiving,               \* locals of the receive that is running
    result,                  \* what the last call of the handle returned
    \* for the properties
    pushed,                  \* answers queued so far, by number
    consumed,                \* answers the handle has given away, in order
    announced,               \* size reported of the scripted response at the head
    calls

tctiVars == <<queue_, transmitted_commands_, finalizes_observed_, owned, receiving, result,
             pushed, consumed, announced, calls>>

Kinds == {"response", "factory", "failure", "transmit_failure"}
Answer == [id : 1..MaxPushes, kind : Kinds, size : ResponseSizes \cup {0}]
\* With a destination; asking for the size; without a place for the size either.
Modes == {"buffer", "query", "no_size"}
NotReceiving == [on |-> FALSE, mode |-> "buffer", capacity |-> 0, id |-> 0, size |-> 0, for |-> 0]
Unknown == [known |-> FALSE, size |-> 0]
Results == {"none", "success", "size", "BAD_REFERENCE", "IO_ERROR", "BAD_SEQUENCE",
            "INSUFFICIENT_BUFFER", "GENERAL_FAILURE", "scripted"}
NoResult == [rc |-> "none", size |-> 0, for |-> 0]

InitTcti ==
    /\ queue_ = <<>>
    /\ transmitted_commands_ = <<>>
    /\ finalizes_observed_ = 0
    /\ owned = TRUE
    /\ receiving = NotReceiving
    /\ result = NoResult
    /\ pushed = 0
    /\ consumed = <<>>
    /\ announced = Unknown
    /\ calls = 0

Returns(rc) == result' = [NoResult EXCEPT !.rc = rc]

-----------------------------------------------------------------------------
(* The test: push_response, push_response_factory, push_failure and
   push_transmit_failure *)

Push(kind, size) ==
    /\ pushed < MaxPushes
    /\ pushed' = pushed + 1
    /\ queue_' = Append(queue_, [id |-> pushed + 1, kind |-> kind, size |-> size])
    /\ UNCHANGED <<transmitted_commands_, finalizes_observed_, owned, receiving, result,
                   consumed, announced, calls>>

-----------------------------------------------------------------------------
(* The handle.  A definition named ..._Fault is the one after it with a mistake
   a programmer could make; the checks are run against it too, to see that they
   notice. *)

Called == ~receiving.on /\ calls < MaxCalls /\ calls' = calls + 1

Take == /\ queue_' = Tail(queue_)
        /\ consumed' = Append(consumed, Head(queue_).id)

KeepQueue == UNCHANGED <<queue_, consumed>>

\* Seen also when nothing has been scripted for it.  bytes is FALSE for a size
\* without a command.
transmit(bytes) ==
    /\ Called
    /\ IF ~owned \/ ~bytes
       THEN Returns("BAD_REFERENCE") /\ KeepQueue /\ UNCHANGED transmitted_commands_
       ELSE /\ transmitted_commands_' = Append(transmitted_commands_, calls')
            /\ IF queue_ = <<>> THEN Returns("IO_ERROR") /\ KeepQueue
               ELSE IF Head(queue_).kind = "transmit_failure" THEN Returns("scripted") /\ Take
               ELSE Returns("success") /\ KeepQueue
    /\ UNCHANGED <<finalizes_observed_, owned, receiving, pushed, announced>>

\* The command the answer of a factory is made for.
last_command ==
    IF transmitted_commands_ = <<>> THEN 0
    ELSE transmitted_commands_[Len(transmitted_commands_)]

\* The answer as it is queued, or as the factory makes it this time.
Materialize(mode, capacity) ==
    LET made == Head(queue_).kind = "factory" IN
    \E size \in IF made THEN FactorySizes ELSE {Head(queue_).size} :
        receiving' = [on |-> TRUE, mode |-> mode, capacity |-> capacity, id |-> Head(queue_).id,
                      size |-> size, for |-> IF made THEN last_command ELSE 0]

\* Taking the answer out before it is made.
KeepHead_Fault == queue_' = Tail(queue_) /\ UNCHANGED consumed

KeepHead == KeepQueue

\* receive as far as the end of the first locked section.
receive(mode, capacity) ==
    /\ Called
    /\ IF ~owned THEN Returns("BAD_REFERENCE") /\ KeepQueue /\ UNCHANGED receiving
       ELSE IF queue_ = <<>> THEN Returns("IO_ERROR") /\ KeepQueue /\ UNCHANGED receiving
       ELSE IF Head(queue_).kind = "failure" THEN Returns("scripted") /\ Take /\ UNCHANGED receiving
       ELSE IF Head(queue_).kind = "transmit_failure"
       THEN Returns("BAD_SEQUENCE") /\ KeepQueue /\ UNCHANGED receiving
       ELSE Materialize(mode, capacity) /\ KeepHead /\ UNCHANGED result
    /\ UNCHANGED <<transmitted_commands_, finalizes_observed_, owned, pushed, announced>>

\* A buffer of just the right size is refused.
copy_response_Fault(size, capacity) == size < capacity

copy_response(size, capacity) == size =< capacity

\* Asking for the size uses the answer up.
used_up_Fault(r) == r.mode = "query" \/ (r.mode = "buffer" /\ copy_response(r.size, r.capacity))

used_up(r) == r.mode = "buffer" /\ copy_response(r.size, r.capacity)

Answered(rc) == result' = [rc |-> rc, size |-> receiving.size, for |-> receiving.for]

\* What a factory has made binds nobody.
Announce ==
    announced' = IF Head(queue_).kind = "response" THEN [known |-> TRUE, size |-> receiving.size]
                 ELSE Unknown

\* The rest of it: refuse, or tell the size, or copy and only then take the answer
\* out of the queue, which cannot be empty by now.
receive_next ==
    /\ receiving.on
    /\ \/ receiving.mode = "no_size" /\ Returns("BAD_REFERENCE") /\ UNCHANGED announced
       \/ receiving.mode = "query" /\ Answered("size") /\ Announce
       \/ /\ receiving.mode = "buffer" /\ ~copy_response(receiving.size, receiving.capacity)
          /\ Answered("INSUFFICIENT_BUFFER") /\ Announce
       \/ /\ receiving.mode = "buffer" /\ copy_response(receiving.size, receiving.capacity)
          /\ Answered("success") /\ announced' = Unknown
    /\ queue_' = IF used_up(receiving) THEN Tail(queue_) ELSE queue_
    /\ consumed' = IF result'.rc = "success" THEN Append(consumed, receiving.id) ELSE consumed
    /\ receiving' = NotReceiving
    /\ UNCHANGED <<transmitted_commands_, finalizes_observed_, owned, pushed, calls>>

\* The factory throws.
FactoryThrows ==
    /\ receiving.on
    /\ Head(queue_).kind = "factory"
    /\ Returns("GENERAL_FAILURE")
    /\ receiving' = NotReceiving
    /\ UNCHANGED <<queue_, transmitted_commands_, finalizes_observed_, owned, pushed, consumed,
                   announced, calls>>

finalize ==
    /\ Called
    /\ finalizes_observed_' = IF owned THEN finalizes_observed_ + 1 ELSE finalizes_observed_
    /\ owned' = FALSE
    /\ result' = NoResult
    /\ announced' = Unknown
    /\ UNCHANGED <<queue_, transmitted_commands_, receiving, pushed, consumed>>

\* cancel, get_poll_handles and set_locality have no effect, not even on the owner.
ignored ==
    /\ Called
    /\ Returns("success")
    /\ UNCHANGED <<queue_, transmitted_commands_, finalizes_observed_, owned, receiving, pushed,
                   consumed, announced>>

NextTcti ==
    \/ \E n \in ResponseSizes : Push("response", n)
    \/ \E kind \in Kinds \ {"response"} : Push(kind, 0)
    \/ \E bytes \in BOOLEAN : transmit(bytes)
    \/ \E mode \in {"query", "no_size"} : receive(mode, 0)
    \/ \E n \in Capacities : receive("buffer", n)
    \/ receive_next
    \/ FactoryThrows
    \/ finalize
    \/ ignored

TctiSpec == InitTcti /\ [][NextTcti]_tctiVars

-----------------------------------------------------------------------------
(* Properties *)

\* Every answer the test has queued is given away once, in the order of the
\* queue, whatever is pushed while a factory runs; a size query, a short buffer or
\* a factory that throws uses none up, and a receive that is making its answer still
\* finds it at the head of the queue.
ScriptIsFollowed ==
    /\ consumed \o [i \in 1..Len(queue_) |-> queue_[i].id] = [i \in 1..pushed |-> i]
    /\ receiving.on => queue_ # <<>> /\ Head(queue_).id = receiving.id

\* The size of a scripted response that a size query or a short buffer was told is right
\* until the response is given away or the handle finalized, whatever is queued and
\* transmitted meanwhile: no call fails for what the script holds, and a receive finds
\* that very size and succeeds exactly when its buffer has the place.  (A factory makes
\* no such promise: it may throw after it was asked for a size, or make another size.)
\* What a factory makes is for the last command.
AnnouncedSizesHold ==
    [][/\ announced.known /\ result' # result =>
             result'.rc \notin {"IO_ERROR", "BAD_SEQUENCE", "GENERAL_FAILURE", "scripted"}
       /\ announced.known /\ receiving.on /\ ~receiving'.on /\ receiving.mode # "no_size" =>
             /\ result'.size = announced.size
             /\ result'.rc = IF receiving.mode = "query" THEN "size"
                             ELSE IF receiving.capacity >= announced.size THEN "success"
                             ELSE "INSUFFICIENT_BUFFER"
       /\ receiving.on /\ ~receiving'.on /\ result'.for # 0 =>
             \A i \in 1..Len(transmitted_commands_) : transmitted_commands_[i] =< result'.for
      ]_tctiVars
=============================================================================
