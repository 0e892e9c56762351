--------------------------- MODULE TestDoublesProofs ---------------------------
(***************************************************************************)
(* Proofs about the fake TCTI and the mock provider, for scripts of any    *)
(* length.  The queue holds the answers that are still to be given away,   *)
(* numbered after those that were; what a receive has found or announced   *)
(* of a scripted response is true of the head of the queue.                *)
(***************************************************************************)
EXTENDS TestDoubles, FiniteSetTheorems, SequenceTheorems, TLAPS

-----------------------------------------------------------------------------
(* The fake TCTI *)

QueuedAnswer == [id : Nat, kind : Kinds, size : Nat]
Receiving == [on : BOOLEAN, mode : Modes, capacity : Nat, id : Nat, size : Nat, for : Nat]
Announcement == [known : BOOLEAN, size : Nat]

TctiShape ==
    /\ queue_ \in Seq(QueuedAnswer) /\ consumed \in Seq(Nat) /\ pushed \in Nat
    /\ transmitted_commands_ \in Seq(Nat) /\ calls \in 0..MaxCalls
    /\ receiving \in Receiving /\ announced \in Announcement

\* What was given away comes before what is still queued.
ScriptInv ==
    /\ pushed = Len(consumed) + Len(queue_)
    /\ \A i \in 1..Len(consumed) : consumed[i] = i
    /\ \A i \in 1..Len(queue_) : queue_[i].id = Len(consumed) + i

\* The commands are numbered in their order.
CommandInv ==
    \A i \in 1..Len(transmitted_commands_) :
        transmitted_commands_[i] \in 1..calls /\ transmitted_commands_[i] =< last_command

\* The command the head of the queue is answered for.
HeadFor == IF queue_[1].kind = "factory" THEN last_command ELSE 0

HeadInv ==
    receiving.on = TRUE =>
        /\ queue_ # <<>> /\ queue_[1].id = receiving.id
        /\ queue_[1].kind = "response" => receiving.size = queue_[1].size
        /\ receiving.for = HeadFor

AnnouncedInv ==
    announced.known = TRUE =>
        queue_ # <<>> /\ queue_[1].kind = "response" /\ announced.size = queue_[1].size

TctiInv == TctiShape /\ ScriptInv /\ CommandInv /\ HeadInv /\ AnnouncedInv

\* What a step does to the queue: nothing, or an answer is added or given away.
Waits == UNCHANGED <<queue_, consumed, pushed>>
Grows == \E a \in QueuedAnswer :
            /\ a.id = pushed + 1 /\ pushed' = pushed + 1 /\ queue_' = Append(queue_, a)
            /\ UNCHANGED consumed
Gives == /\ queue_ # <<>> /\ Take /\ UNCHANGED pushed

LEMMA QueueStep ==
  ASSUME TctiShape, ScriptInv, Waits \/ Grows \/ Gives
  PROVE  /\ queue_' \in Seq(QueuedAnswer) /\ consumed' \in Seq(Nat) /\ pushed' \in Nat
         /\ ScriptInv'
         /\ Grows /\ queue_ # <<>> => queue_' # <<>> /\ queue_'[1] = queue_[1]
  <1>0. queue_ \in Seq(QueuedAnswer) /\ consumed \in Seq(Nat) /\ pushed \in Nat
    BY DEF TctiShape
  <1>1. CASE Waits
    <2>1. ~ Grows
      BY <1>0, <1>1 DEF Waits, Grows
    <2> QED
      BY <1>0, <1>1, <2>1 DEF Waits, ScriptInv
  <1>2. CASE Grows
    <2>1. PICK a \in QueuedAnswer :
             /\ a.id = pushed + 1 /\ pushed' = pushed + 1 /\ queue_' = Append(queue_, a)
             /\ UNCHANGED consumed
      BY <1>2 DEF Grows
    <2>2. /\ queue_' \in Seq(QueuedAnswer) /\ Len(queue_') = Len(queue_) + 1
          /\ \A i \in 1..Len(queue_) : queue_'[i] = queue_[i]
          /\ queue_'[Len(queue_) + 1] = a
      BY <1>0, <2>1
    <2>3. ScriptInv'
      <3>1. pushed' = Len(consumed') + Len(queue_')
        BY <1>0, <2>1, <2>2 DEF ScriptInv
      <3>2. \A i \in 1..Len(queue_') : queue_'[i].id = Len(consumed') + i
        <4> SUFFICES ASSUME NEW i \in 1..Len(queue_')
                     PROVE  queue_'[i].id = Len(consumed') + i
          OBVIOUS
        <4>1. CASE i = Len(queue_) + 1
          BY <1>0, <2>1, <2>2, <4>1 DEF ScriptInv
        <4>2. CASE i # Len(queue_) + 1
          <5>1. i \in 1..Len(queue_)
            BY <1>0, <2>2, <4>2
          <5> QED
            BY <2>1, <2>2, <5>1 DEF ScriptInv
        <4> QED
          BY <4>1, <4>2
      <3> QED
        BY <2>1, <3>1, <3>2 DEF ScriptInv
    <2>4. queue_ # <<>> => queue_' # <<>> /\ queue_'[1] = queue_[1]
      BY <1>0, <2>2
    <2> QED
      BY <1>0, <2>1, <2>2, <2>3, <2>4
  <1>3. CASE Gives
    <2>0. queue_ # <<>> /\ queue_' = Tail(queue_) /\ pushed' = pushed
          /\ consumed' = Append(consumed, queue_[1].id)
      BY <1>0, <1>3 DEF Gives, Take
    <2>1. /\ queue_' \in Seq(QueuedAnswer) /\ Len(queue_') = Len(queue_) - 1
          /\ \A i \in 1..Len(queue_') : queue_'[i] = queue_[i + 1]
          /\ queue_[1] \in QueuedAnswer /\ Len(queue_) \in Nat \ {0}
      BY <1>0, <2>0
    <2>2. queue_[1].id = Len(consumed) + 1 /\ queue_[1].id \in Nat
      BY <2>1 DEF ScriptInv, QueuedAnswer
    <2>3. /\ consumed' \in Seq(Nat) /\ Len(consumed') = Len(consumed) + 1
          /\ \A i \in 1..Len(consumed) : consumed'[i] = consumed[i]
          /\ consumed'[Len(consumed) + 1] = Len(consumed) + 1
      BY <1>0, <2>0, <2>2
    <2>4. ScriptInv'
      <3>1. pushed' = Len(consumed') + Len(queue_')
        BY <1>0, <2>0, <2>1, <2>3 DEF ScriptInv
      <3>2. \A i \in 1..Len(consumed') : consumed'[i] = i
        <4> SUFFICES ASSUME NEW i \in 1..Len(consumed') PROVE consumed'[i] = i
          OBVIOUS
        <4>1. i = Len(consumed) + 1 \/ i \in 1..Len(consumed)
          BY <1>0, <2>3
        <4> QED
          BY <2>3, <4>1 DEF ScriptInv
      <3>3. \A i \in 1..Len(queue_') : queue_'[i].id = Len(consumed') + i
        <4> SUFFICES ASSUME NEW i \in 1..Len(queue_')
                     PROVE  queue_'[i].id = Len(consumed') + i
          OBVIOUS
        <4>1. i + 1 \in 1..Len(queue_) /\ i \in Nat /\ Len(consumed) \in Nat
          BY <1>0, <2>1
        <4>2. queue_[i + 1].id = Len(consumed) + (i + 1)
          BY <4>1 DEF ScriptInv
        <4> QED
          BY <2>1, <2>3, <4>1, <4>2
      <3> QED
        BY <3>1, <3>2, <3>3 DEF ScriptInv
    <2>5. ~ Grows
      BY <1>0, <2>0 DEF Grows
    <2> QED
      BY <1>0, <2>0, <2>1, <2>3, <2>4, <2>5
  <1> QED
    BY <1>1, <1>2, <1>3

LEMMA LastCommand ==
  ASSUME TctiShape, CommandInv
  PROVE  /\ last_command \in 0..calls
         /\ queue_ # <<>> => /\ queue_[1] \in QueuedAnswer /\ HeadFor \in Nat
                             /\ Head(queue_) = queue_[1]
  <1>1. last_command \in 0..calls
    <2>1. CASE transmitted_commands_ = <<>>
      BY <2>1 DEF TctiShape, last_command
    <2>2. CASE transmitted_commands_ # <<>>
      <3>1. Len(transmitted_commands_) \in 1..Len(transmitted_commands_)
        BY <2>2 DEF TctiShape
      <3>2. last_command = transmitted_commands_[Len(transmitted_commands_)]
        BY <2>2 DEF last_command
      <3>3. last_command \in 1..calls
        BY <3>1, <3>2 DEF CommandInv
      <3> QED
        BY <3>3 DEF TctiShape
    <2> QED
      BY <2>1, <2>2
  <1>2. last_command \in Nat
    BY <1>1, FakeAssumption DEF TctiShape
  <1>3. queue_ # <<>> => queue_[1] \in QueuedAnswer /\ Head(queue_) = queue_[1]
    BY DEF TctiShape
  <1> QED
    BY <1>1, <1>2, <1>3 DEF HeadFor

\* What a step does to the rest: the handle is called or not, a command is seen or not.
Silent == UNCHANGED <<transmitted_commands_, calls>>
Uncommanded == /\ UNCHANGED transmitted_commands_
               /\ calls < MaxCalls /\ calls' = calls + 1 /\ receiving.on # TRUE
Commanded == /\ transmitted_commands_' = Append(transmitted_commands_, calls')
             /\ calls < MaxCalls /\ calls' = calls + 1 /\ receiving.on # TRUE

LEMMA CommandStep ==
  ASSUME TctiShape, CommandInv, Silent \/ Uncommanded \/ Commanded
  PROVE  /\ transmitted_commands_' \in Seq(Nat) /\ calls' \in 0..MaxCalls
         /\ CommandInv'
         /\ ~ Commanded => last_command' = last_command
  <1>0. transmitted_commands_ \in Seq(Nat) /\ calls \in 0..MaxCalls /\ MaxCalls \in Nat
    BY FakeAssumption DEF TctiShape
  <1>1. CASE Silent
    BY <1>0, <1>1 DEF Silent, CommandInv, last_command
  <1>2. CASE Uncommanded
    <2>1. calls' \in 0..MaxCalls /\ 1..calls \subseteq 1..calls'
      BY <1>0, <1>2 DEF Uncommanded
    <2>2. transmitted_commands_' = transmitted_commands_
      BY <1>2 DEF Uncommanded
    <2> QED
      BY <1>0, <2>1, <2>2 DEF CommandInv, last_command
  <1>3. CASE Commanded
    <2>1. calls' \in 0..MaxCalls /\ 1..calls \subseteq 1..calls' /\ calls' \in 1..calls'
          /\ \A n \in 1..calls : n =< calls'
      BY <1>0, <1>3 DEF Commanded
    <2>2. transmitted_commands_' = Append(transmitted_commands_, calls') /\ calls' \in Nat
      BY <1>0, <1>3 DEF Commanded
    <2>3. /\ transmitted_commands_' \in Seq(Nat)
          /\ Len(transmitted_commands_') = Len(transmitted_commands_) + 1
          /\ \A i \in 1..Len(transmitted_commands_) :
                transmitted_commands_'[i] = transmitted_commands_[i]
          /\ transmitted_commands_'[Len(transmitted_commands_) + 1] = calls'
          /\ transmitted_commands_' # <<>>
      BY <1>0, <2>2
    <2>4. last_command' = calls'
      BY <2>3 DEF last_command
    <2>5. ASSUME NEW i \in 1..Len(transmitted_commands_')
          PROVE  transmitted_commands_'[i] \in 1..calls' /\ transmitted_commands_'[i] =< calls'
      <3>1. i = Len(transmitted_commands_) + 1 \/ i \in 1..Len(transmitted_commands_)
        BY <1>0, <2>3
      <3>2. CASE i = Len(transmitted_commands_) + 1
        BY <2>1, <2>2, <2>3, <3>2
      <3>3. CASE i \in 1..Len(transmitted_commands_)
        BY <2>1, <2>3, <3>3 DEF CommandInv
      <3> QED
        BY <3>1, <3>2, <3>3
    <2> QED
      BY <1>3, <2>1, <2>3, <2>4, <2>5 DEF CommandInv
  <1> QED
    BY <1>1, <1>2, <1>3

LEMMA TctiStep ==
  ASSUME TctiInv, NextTcti
  PROVE  TctiInv'
  <1>0. /\ TctiShape /\ ScriptInv /\ CommandInv /\ HeadInv /\ AnnouncedInv
        /\ receiving \in Receiving /\ announced \in Announcement /\ receiving.on \in BOOLEAN
    BY Zenon DEF TctiInv, TctiShape, Receiving
  <1>1. /\ last_command \in 0..calls
        /\ queue_ # <<>> => /\ queue_[1] \in QueuedAnswer /\ HeadFor \in Nat
                            /\ Head(queue_) = queue_[1]
    BY <1>0, LastCommand
  <1>2. Unknown \in Announcement /\ Unknown.known = FALSE
    BY DEF Unknown, Announcement
  <1>3. NotReceiving \in Receiving /\ NotReceiving.on = FALSE
    BY DEF NotReceiving, Receiving, Modes
  <1>4. ASSUME Waits \/ Grows \/ Gives, Silent \/ Uncommanded \/ Commanded,
               receiving' \in Receiving, announced' \in Announcement, HeadInv', AnnouncedInv'
        PROVE  TctiInv'
    BY <1>0, <1>4, QueueStep, CommandStep DEF TctiInv, TctiShape
  <1>5. ASSUME NEW kind \in Kinds, NEW size \in Nat, Push(kind, size)
        PROVE  TctiInv'
    <2> DEFINE a == [id |-> pushed + 1, kind |-> kind, size |-> size]
    <2>1. Grows /\ Silent /\ UNCHANGED <<receiving, announced>>
      <3>1. a \in QueuedAnswer /\ a.id = pushed + 1
        BY <1>0 DEF QueuedAnswer, TctiShape
      <3> QED
        BY <1>5, <3>1 DEF Push, Grows, Silent
    <2>2. queue_ # <<>> => queue_' # <<>> /\ queue_'[1] = queue_[1]
      BY <1>0, <2>1, QueueStep
    <2>3. last_command' = last_command
      BY <2>1 DEF last_command, Silent
    <2>4. queue_ # <<>> => HeadFor' = HeadFor
      BY <2>2, <2>3 DEF HeadFor
    <2>5. HeadInv' /\ AnnouncedInv'
      BY <1>0, <2>1, <2>2, <2>4 DEF HeadInv, AnnouncedInv
    <2> QED
      BY <1>0, <1>4, <2>1, <2>5
  <1>6. ASSUME NEW bytes \in BOOLEAN, transmit(bytes)
        PROVE  TctiInv'
    <2>1. /\ receiving.on # TRUE /\ calls < MaxCalls /\ calls' = calls + 1
          /\ UNCHANGED <<receiving, pushed, announced>>
      BY <1>6 DEF transmit, Called
    <2>2. /\ \/ UNCHANGED transmitted_commands_
             \/ transmitted_commands_' = Append(transmitted_commands_, calls')
          /\ \/ KeepQueue
             \/ queue_ # <<>> /\ Head(queue_).kind = "transmit_failure" /\ Take
      BY <1>6, Zenon DEF transmit
    <2>3. (Uncommanded \/ Commanded) /\ (Waits \/ Gives)
      BY <2>1, <2>2 DEF KeepQueue, Waits, Gives, Uncommanded, Commanded
    <2>4. announced.known = TRUE => Waits
      BY <1>0, <1>1, <2>1, <2>2 DEF AnnouncedInv, KeepQueue, Waits
    <2>5. HeadInv' /\ AnnouncedInv'
      BY <1>0, <2>1, <2>4 DEF HeadInv, AnnouncedInv, Waits
    <2> QED
      BY <1>0, <1>4, <2>1, <2>3, <2>5
  <1>7. ASSUME NEW mode \in Modes, NEW capacity \in Nat, receive(mode, capacity)
        PROVE  TctiInv'
    <2>1. Uncommanded /\ UNCHANGED <<pushed, announced>> /\ last_command' = last_command
      BY <1>7 DEF receive, Called, Uncommanded, last_command
    <2>2. CASE /\ UNCHANGED receiving
               /\ KeepQueue \/ (queue_ # <<>> /\ Head(queue_).kind = "failure" /\ Take)
      <3>1. receiving'.on = FALSE
        BY <1>0, <2>1, <2>2 DEF Uncommanded
      <3>2. Waits \/ Gives
        BY <2>1, <2>2 DEF KeepQueue, Waits, Gives
      <3>3. announced.known = TRUE => Waits
        BY <1>0, <1>1, <2>1, <2>2 DEF AnnouncedInv, KeepQueue, Waits
      <3>4. HeadInv' /\ AnnouncedInv'
        BY <1>0, <2>1, <3>1, <3>3 DEF HeadInv, AnnouncedInv, Waits
      <3> QED
        BY <1>0, <1>4, <2>1, <2>2, <3>2, <3>4
    <2>3. CASE Materialize(mode, capacity) /\ queue_ # <<>> /\ KeepQueue
      <3>1. PICK size \in Nat :
              /\ receiving' = [on |-> TRUE, mode |-> mode, capacity |-> capacity,
                               id |-> queue_[1].id, size |-> size, for |-> HeadFor]
              /\ queue_[1].kind = "response" => size = queue_[1].size
        BY <1>1, <2>3, FakeAssumption DEF Materialize, HeadFor, QueuedAnswer
      <3>2. receiving' \in Receiving
        <4>1. queue_[1].id \in Nat /\ HeadFor \in Nat
          BY <1>1, <2>3 DEF QueuedAnswer
        <4> QED
          BY <3>1, <4>1 DEF Receiving
      <3>3. Waits /\ HeadFor' = HeadFor
        BY <2>1, <2>3 DEF KeepQueue, Waits, HeadFor
      <3>4. HeadInv' /\ AnnouncedInv'
        BY <1>0, <2>1, <2>3, <3>1, <3>3 DEF HeadInv, AnnouncedInv, Waits
      <3> QED
        BY <1>0, <1>4, <2>1, <3>2, <3>3, <3>4
    <2>4. \/ /\ UNCHANGED receiving
             /\ KeepQueue \/ (queue_ # <<>> /\ Head(queue_).kind = "failure" /\ Take)
          \/ Materialize(mode, capacity) /\ queue_ # <<>> /\ KeepQueue
      BY <1>7, Zenon DEF receive, KeepHead
    <2> QED
      BY <2>2, <2>3, <2>4
  <1>8. CASE receive_next
    <2>1. /\ receiving.on = TRUE /\ receiving' = NotReceiving /\ Silent /\ UNCHANGED pushed
          /\ queue_' = IF used_up(receiving) THEN Tail(queue_) ELSE queue_
          /\ consumed' = IF result'.rc = "success" THEN Append(consumed, receiving.id)
                         ELSE consumed
      BY <1>0, <1>8 DEF receive_next, Silent
    <2>2. /\ queue_ # <<>> /\ queue_[1].id = receiving.id
          /\ queue_[1].kind = "response" => receiving.size = queue_[1].size
      BY <1>0, <2>1 DEF HeadInv
    <2>3. \/ ~ used_up(receiving) /\ result'.rc # "success" /\ announced' = announced
          \/ /\ ~ used_up(receiving) /\ result'.rc # "success"
             /\ announced' = [known |-> TRUE, size |-> receiving.size]
             /\ queue_[1].kind = "response"
          \/ ~ used_up(receiving) /\ result'.rc # "success" /\ announced' = Unknown
          \/ used_up(receiving) /\ result'.rc = "success" /\ announced' = Unknown
      BY <1>1, <1>8, <2>2 DEF receive_next, used_up, Returns, NoResult, Answered, Announce
    <2>4. Waits \/ Gives
      BY <1>1, <2>1, <2>2, <2>3 DEF Waits, Gives, Take
    <2>5. announced' \in Announcement
      <3>1. receiving.size \in Nat
        BY <1>0 DEF Receiving
      <3>2. [known |-> TRUE, size |-> receiving.size] \in Announcement
        BY <3>1 DEF Announcement
      <3> QED
        BY <1>0, <1>2, <2>3, <3>2
    <2>6. AnnouncedInv'
      <3>1. CASE announced' = Unknown
        BY <1>2, <3>1 DEF AnnouncedInv
      <3>2. CASE ~ used_up(receiving) /\ announced' # Unknown
        <4>1. queue_' = queue_
          BY <2>1, <3>2
        <4> QED
          BY <1>0, <2>2, <2>3, <3>2, <4>1 DEF AnnouncedInv
      <3> QED
        BY <2>3, <3>1, <3>2
    <2>7. HeadInv'
      BY <1>3, <2>1 DEF HeadInv
    <2> QED
      BY <1>3, <1>4, <2>1, <2>4, <2>5, <2>6, <2>7
  <1>9. CASE FactoryThrows
    <2>1. Waits /\ Silent /\ receiving' = NotReceiving /\ UNCHANGED announced
      BY <1>9 DEF FactoryThrows, Waits, Silent
    <2>2. HeadInv' /\ AnnouncedInv'
      BY <1>0, <1>3, <2>1 DEF HeadInv, AnnouncedInv, Waits
    <2> QED
      BY <1>0, <1>3, <1>4, <2>1, <2>2
  <1>10. CASE finalize
    <2>1. Waits /\ Uncommanded /\ UNCHANGED receiving /\ announced' = Unknown
      BY <1>10 DEF finalize, Called, Waits, Uncommanded
    <2>2. HeadInv' /\ AnnouncedInv'
      BY <1>2, <2>1 DEF HeadInv, AnnouncedInv, Uncommanded
    <2> QED
      BY <1>0, <1>2, <1>4, <2>1, <2>2
  <1>11. CASE ignored
    <2>1. Waits /\ Uncommanded /\ UNCHANGED <<receiving, announced>>
      BY <1>11 DEF ignored, Called, Waits, Uncommanded
    <2>2. HeadInv' /\ AnnouncedInv'
      BY <1>0, <2>1 DEF HeadInv, AnnouncedInv, Waits, Uncommanded
    <2> QED
      BY <1>0, <1>4, <2>1, <2>2
  <1> QED
    <2>1. /\ "response" \in Kinds /\ 0 \in Nat /\ {"query", "no_size"} \subseteq Modes
          /\ "buffer" \in Modes /\ ResponseSizes \subseteq Nat /\ Capacities \subseteq Nat
      BY FakeAssumption DEF Kinds, Modes
    <2> QED
      BY <1>5, <1>6, <1>7, <1>8, <1>9, <1>10, <1>11, <2>1 DEF NextTcti

-----------------------------------------------------------------------------
(* The mock.  What its history h says: the acts of a kind on an operation, the calls
   since the counts were cleared, and the answer programmed last before act n. *)

About(h, what, op) == {i \in 1..Len(h) : h[i].what = what /\ h[i].op = op}
Since(h, op) ==
    {i \in About(h, "call", op) : \A c \in {0} \cup About(h, "clear", "none") : c < i}
Greatest(S) == CHOOSE p \in S : \A q \in S : q =< p
Before(h, op, n) == {p \in About(h, "program", op) : p < n}
LastAnswer(h, op, n) ==
    IF Before(h, op, n) = {} THEN "backend_error" ELSE h[Greatest(Before(h, op, n))].answer

\* Of the programmings before an act, one is the last.
Settled(h, op) ==
    \A i \in 1..Len(h) + 1 : Before(h, op, i) # {} =>
        \E p \in Before(h, op, i) : \A q \in Before(h, op, i) : q =< p

PastAct == [what : {"program", "call", "clear"}, op : Operation \cup {"none"},
            answer : Programmed \cup {"backend_error", "none"}]

MockInv ==
    /\ acts \in Seq(PastAct)
    /\ call_count \in [Operation -> Nat]
    /\ mock_result \in [Operation -> Programmed \cup {"backend_error"}]
    /\ \A op \in Operation :
          /\ Settled(acts, op)
          /\ call_count[op] = Cardinality(Since(acts, op))
          /\ mock_result[op] = LastAnswer(acts, op, Len(acts) + 1)
          /\ \A i \in About(acts, "call", op) : acts[i].answer = LastAnswer(acts, op, i)

\* A longer history tells of the earlier acts what the shorter one told.
LEMMA HistoryGrows ==
  ASSUME NEW h \in Seq(PastAct), NEW e \in PastAct, NEW op, Settled(h, op)
  PROVE  LET g == Append(h, e)
             n == Len(h) + 1
         IN  /\ g \in Seq(PastAct) /\ Len(g) = n /\ n \in Nat /\ n \notin 1..Len(h)
             /\ g[n] = e /\ \A i \in 1..Len(h) : g[i] = h[i]
             /\ \A what, o : About(g, what, o) = IF e.what = what /\ e.op = o
                                                 THEN About(h, what, o) \cup {n}
                                                 ELSE About(h, what, o)
             /\ Settled(g, op)
             /\ \A i \in 1..n : LastAnswer(g, op, i) = LastAnswer(h, op, i)
             /\ LastAnswer(g, op, n + 1) = IF e.what = "program" /\ e.op = op
                                           THEN e.answer ELSE LastAnswer(h, op, n)
  <1> DEFINE g == Append(h, e)
             n == Len(h) + 1
  <1>1. /\ g \in Seq(PastAct) /\ Len(g) = n /\ n \in Nat /\ g[n] = e
        /\ \A i \in 1..Len(h) : g[i] = h[i]
        /\ \A i \in 1..n : i \in 1..Len(h) \/ i = n
        /\ 1..Len(h) \subseteq 1..n /\ n \in 1..n /\ n \notin 1..Len(h)
        /\ \A i \in 1..Len(h) : i < n /\ i \in Nat
    OBVIOUS
  <1>0. /\ \A i \in 1..n : i \in Nat /\ ~ (n < i) /\ i \in 1..n + 1
        /\ \A i \in 1..n + 1 : i \in 1..n \/ i = n + 1
        /\ n < n + 1 /\ \A i \in Nat : i < n => i < n + 1 /\ i =< n
        /\ n + 1 \in Nat /\ n =< n
    BY <1>1
  <1>5. n = Len(h) + 1
    OBVIOUS
  <1> HIDE DEF g, n
  <1>2. \A what, o : About(g, what, o) = IF e.what = what /\ e.op = o
                                         THEN About(h, what, o) \cup {n}
                                         ELSE About(h, what, o)
    <2> SUFFICES ASSUME NEW what, NEW o
                 PROVE  About(g, what, o) = IF e.what = what /\ e.op = o
                                            THEN About(h, what, o) \cup {n}
                                            ELSE About(h, what, o)
      OBVIOUS
    <2> QED
      BY <1>1 DEF About
  <1>3. ASSUME NEW i \in 1..n PROVE Before(g, op, i) = Before(h, op, i)
    <2>1. \A p : p \in Before(g, op, i) <=> p \in Before(h, op, i)
      BY <1>0, <1>2 DEF Before
    <2>2. Before(g, op, i) \subseteq Before(h, op, i)
      BY <2>1, Zenon
    <2>3. Before(h, op, i) \subseteq Before(g, op, i)
      BY <2>1, Zenon
    <2> QED
      BY <2>2, <2>3, Zenon
  <1>4. \A i : Before(h, op, i) \subseteq 1..Len(h)
    BY DEF Before, About
  <1>6. Before(h, op, n) = About(h, "program", op)
    BY <1>1 DEF Before, About
  <1>7. Before(g, op, n + 1) = IF e.what = "program" /\ e.op = op
                               THEN Before(h, op, n) \cup {n} ELSE Before(h, op, n)
    <2>1. \A p \in About(h, "program", op) \cup {n} : p < n + 1
      BY <1>0, <1>1 DEF About
    <2>2. Before(g, op, n + 1) = About(g, "program", op)
      <3>1. \A p \in About(g, "program", op) : p < n + 1
        BY <1>2, <2>1
      <3> QED
        BY <3>1 DEF Before
    <2> QED
      BY <1>2, <1>6, <2>2, Zenon
  <1>8. ASSUME NEW i \in 1..n, Before(h, op, i) # {}
        PROVE  /\ Greatest(Before(h, op, i)) \in 1..Len(h)
               /\ \A q \in Before(h, op, i) : q =< Greatest(Before(h, op, i))
    <2>1. PICK p \in Before(h, op, i) : \A q \in Before(h, op, i) : q =< p
      BY <1>5, <1>8 DEF Settled
    <2>2. /\ Greatest(Before(h, op, i)) \in Before(h, op, i)
          /\ \A q \in Before(h, op, i) : q =< Greatest(Before(h, op, i))
      BY <2>1, Zenon DEF Greatest
    <2> QED
      BY <1>4, <2>2
  <1>9. \A i \in 1..n : LastAnswer(g, op, i) = LastAnswer(h, op, i)
    <2> SUFFICES ASSUME NEW i \in 1..n PROVE LastAnswer(g, op, i) = LastAnswer(h, op, i)
      OBVIOUS
    <2> QED
      BY <1>1, <1>3, <1>8 DEF LastAnswer
  <1>10. CASE e.what = "program" /\ e.op = op
    <2>1. Before(g, op, n + 1) = Before(h, op, n) \cup {n}
      BY <1>7, <1>10, Zenon
    <2>2. \A q \in Before(h, op, n) \cup {n} : q =< n
      BY <1>0, <1>1, <1>4
    <2>3. \A p \in Before(h, op, n) \cup {n} : n =< p => p = n
      BY <1>0, <1>1, <1>4
    <2>4. Greatest(Before(h, op, n) \cup {n}) = n
      <3> DEFINE S == Before(h, op, n) \cup {n}
      <3>1. n \in S
        OBVIOUS
      <3> HIDE DEF S
      <3>2. Greatest(S) \in S /\ \A q \in S : q =< Greatest(S)
        BY <2>2, <3>1, Zenon DEF Greatest, S
      <3> QED
        BY <2>3, <3>1, <3>2, Zenon DEF S
    <2>5. LastAnswer(g, op, n + 1) = e.answer
      BY <1>1, <2>1, <2>4 DEF LastAnswer
    <2>6. Settled(g, op)
      BY <1>0, <1>1, <1>3, <1>5, <2>1, <2>2 DEF Settled
    <2> QED
      BY <1>1, <1>2, <1>9, <1>10, <2>5, <2>6 DEF g, n
  <1>11. CASE ~ (e.what = "program" /\ e.op = op)
    <2>1. Before(g, op, n + 1) = Before(h, op, n)
      BY <1>7, <1>11, Zenon
    <2>2. LastAnswer(g, op, n + 1) = LastAnswer(h, op, n)
      BY <1>1, <1>8, <2>1 DEF LastAnswer
    <2>3. Settled(g, op)
      BY <1>0, <1>1, <1>3, <1>5, <2>1 DEF Settled
    <2> QED
      BY <1>1, <1>2, <1>9, <1>11, <2>2, <2>3 DEF g, n
  <1> QED
    BY <1>10, <1>11

\* A clearing starts the counts again, a call adds one to the count of its operation.
LEMMA CountGrows ==
  ASSUME NEW h \in Seq(PastAct), NEW e \in PastAct, NEW op, op # "none", Settled(h, op),
         e.what = "clear" => e.op = "none"
  PROVE  LET g == Append(h, e)
             count == Cardinality(Since(h, op))
         IN  /\ count \in Nat
             /\ Cardinality(Since(g, op)) = IF e.what = "clear" THEN 0
                                            ELSE IF e.what = "call" /\ e.op = op THEN count + 1
                                            ELSE count
  <1> DEFINE g == Append(h, e)
             n == Len(h) + 1
             cleared(k) == {0} \cup About(k, "clear", "none")
  <1>1. /\ n \in Nat /\ n \notin 1..Len(h) /\ 0 < n /\ ~ (n < n)
        /\ \A i \in 1..Len(h) : i < n /\ i \in Nat /\ ~ (n < i)
    OBVIOUS
  <1>2. \A what, o : /\ About(g, what, o) = IF e.what = what /\ e.op = o
                                            THEN About(h, what, o) \cup {n}
                                            ELSE About(h, what, o)
                     /\ About(h, what, o) \subseteq 1..Len(h)
    BY HistoryGrows DEF About
  <1>3. Since(h, op) \subseteq 1..Len(h) /\ IsFiniteSet(Since(h, op))
    <2>1. Since(h, op) \in SUBSET (1..Len(h))
      BY <1>2 DEF Since
    <2>2. 1 \in Int /\ Len(h) \in Int
      OBVIOUS
    <2> QED
      BY <2>1, <2>2, FS_Interval, FS_Subset, Zenon
  <1>4. Cardinality(Since(h, op)) \in Nat
    BY <1>3, FS_CardinalityType
  <1> HIDE DEF g, n
  <1>5. CASE e.what = "clear"
    <2>1. About(g, "call", op) = About(h, "call", op) /\ n \in About(g, "clear", "none")
      BY <1>2, <1>5
    <2>2. Since(g, op) = {}
      BY <1>1, <1>2, <2>1 DEF Since
    <2> QED
      BY <1>4, <1>5, <2>2, FS_EmptySet DEF g
  <1>6. CASE e.what = "call" /\ e.op = op
    <2>1. /\ About(g, "call", op) = About(h, "call", op) \cup {n}
          /\ About(g, "clear", "none") = About(h, "clear", "none")
      BY <1>2, <1>6
    <2>2. \A c \in cleared(h) : c < n
      BY <1>1, <1>2
    <2>3. Since(g, op) = Since(h, op) \cup {n}
      BY <2>1, <2>2 DEF Since
    <2>4. n \notin Since(h, op)
      BY <1>1, <1>3
    <2>5. Cardinality(Since(g, op)) = Cardinality(Since(h, op)) + 1
      BY <1>3, <2>3, <2>4, FS_AddElement
    <2> QED
      BY <1>4, <1>6, <2>5 DEF g
  <1>7. CASE e.what # "clear" /\ ~ (e.what = "call" /\ e.op = op)
    <2>1. /\ About(g, "call", op) = About(h, "call", op)
          /\ About(g, "clear", "none") = About(h, "clear", "none")
      BY <1>2, <1>7
    <2>2. Since(g, op) = Since(h, op)
      BY <2>1 DEF Since
    <2> QED
      BY <1>4, <1>7, <2>2 DEF g
  <1> QED
    BY <1>5, <1>6, <1>7

\* What a step of the mock does to its history.
MockEffect(e) ==
    /\ acts' = Append(acts, e)
    /\ call_count' = IF e.what = "clear" THEN [o \in Operation |-> 0]
                     ELSE IF e.what = "call" THEN [call_count EXCEPT ![e.op] = @ + 1]
                     ELSE call_count
    /\ mock_result' = IF e.what = "program" THEN [mock_result EXCEPT ![e.op] = e.answer]
                      ELSE mock_result
    /\ IF e.what = "clear" THEN e.op = "none" ELSE e.op \in Operation
    /\ e.what = "call" => e.answer = mock_result[e.op]
    /\ e.what = "program" => e.answer \in Programmed

LEMMA MockHasEffect ==
  ASSUME MockInv, NextMock
  PROVE  using = "mock" /\ UNCHANGED <<using, tctiVars>> /\ \E e \in PastAct : MockEffect(e)
  <1>0. mock_result \in [Operation -> Programmed \cup {"backend_error"}]
    BY DEF MockInv
  <1>1. CASE clear_call_counts
    <2> DEFINE e == [what |-> "clear", op |-> "none", answer |-> "none"]
    <2>1. e \in PastAct
      BY DEF PastAct
    <2>2. MockEffect(e)
      BY <1>1 DEF clear_call_counts, Act, MockEffect
    <2> QED
      BY <1>1, <2>1, <2>2 DEF clear_call_counts, Act
  <1>2. ASSUME NEW op \in Operation, call(op)
        PROVE  using = "mock" /\ UNCHANGED <<using, tctiVars>> /\ \E e \in PastAct : MockEffect(e)
    <2> DEFINE e == [what |-> "call", op |-> op, answer |-> mock_result[op]]
    <2>1. e \in PastAct
      BY <1>0 DEF PastAct
    <2>2. MockEffect(e)
      BY <1>2 DEF call, Act, MockEffect
    <2> QED
      BY <1>2, <2>1, <2>2 DEF call, Act
  <1>3. ASSUME NEW op \in Operation, NEW r \in Programmed, set_result(op, r)
        PROVE  using = "mock" /\ UNCHANGED <<using, tctiVars>> /\ \E e \in PastAct : MockEffect(e)
    <2> DEFINE e == [what |-> "program", op |-> op, answer |-> r]
    <2>1. e \in PastAct
      BY DEF PastAct
    <2>2. MockEffect(e)
      BY <1>3 DEF set_result, Act, MockEffect
    <2> QED
      BY <1>3, <2>1, <2>2 DEF set_result, Act
  <1> QED
    BY <1>1, <1>2, <1>3 DEF NextMock

LEMMA MockStep ==
  ASSUME MockInv, NextMock
  PROVE  MockInv'
  <1>1. PICK e \in PastAct : MockEffect(e)
    BY MockHasEffect
  <1>2. acts \in Seq(PastAct) /\ acts' = Append(acts, e) /\ Len(acts') = Len(acts) + 1
        /\ acts' \in Seq(PastAct)
    BY <1>1 DEF MockInv, MockEffect
  <1>3. e.what \in {"program", "call", "clear"}
    BY DEF PastAct
  <1>4. /\ call_count \in [Operation -> Nat]
        /\ mock_result \in [Operation -> Programmed \cup {"backend_error"}]
    BY DEF MockInv
  <1>5. call_count' \in [Operation -> Nat]
    BY <1>1, <1>3, <1>4 DEF MockEffect
  <1>6. mock_result' \in [Operation -> Programmed \cup {"backend_error"}]
    BY <1>1, <1>3, <1>4 DEF MockEffect
  <1>7. ASSUME NEW op \in Operation
        PROVE  /\ Settled(acts', op)
               /\ call_count'[op] = Cardinality(Since(acts', op))
               /\ mock_result'[op] = LastAnswer(acts', op, Len(acts') + 1)
               /\ \A i \in About(acts', "call", op) :
                     acts'[i].answer = LastAnswer(acts', op, i)
    <2> DEFINE n == Len(acts) + 1
    <2>0. op # "none"
      BY DEF Operation
    <2>1. /\ Settled(acts, op)
          /\ call_count[op] = Cardinality(Since(acts, op))
          /\ mock_result[op] = LastAnswer(acts, op, n)
          /\ \A i \in About(acts, "call", op) : acts[i].answer = LastAnswer(acts, op, i)
      BY DEF MockInv
    <2>2. /\ n \in Nat /\ acts'[n] = e /\ \A i \in 1..Len(acts) : acts'[i] = acts[i]
          /\ \A what, o : About(acts', what, o) = IF e.what = what /\ e.op = o
                                                  THEN About(acts, what, o) \cup {n}
                                                  ELSE About(acts, what, o)
          /\ Settled(acts', op)
          /\ \A i \in 1..n : LastAnswer(acts', op, i) = LastAnswer(acts, op, i)
          /\ LastAnswer(acts', op, n + 1) = IF e.what = "program" /\ e.op = op
                                            THEN e.answer ELSE LastAnswer(acts, op, n)
      BY <1>2, <2>1, HistoryGrows
    <2>3. Len(acts') = n /\ n \in 1..n /\ 1..Len(acts) \subseteq 1..n
      BY <1>2
    <2> HIDE DEF n
    <2>4. call_count'[op] = Cardinality(Since(acts', op))
      <3>1. e.what = "clear" => e.op = "none"
        BY <1>1 DEF MockEffect
      <3>2. /\ Cardinality(Since(acts, op)) \in Nat
            /\ Cardinality(Since(acts', op)) =
                  IF e.what = "clear" THEN 0
                  ELSE IF e.what = "call" /\ e.op = op THEN Cardinality(Since(acts, op)) + 1
                  ELSE Cardinality(Since(acts, op))
        BY <1>2, <2>0, <2>1, <3>1, CountGrows
      <3> QED
        BY <1>1, <1>4, <2>1, <3>2 DEF MockEffect
    <2>5. mock_result'[op] = LastAnswer(acts', op, n + 1)
      BY <1>1, <1>4, <2>1, <2>2 DEF MockEffect
    <2>6. \A i \in About(acts', "call", op) : acts'[i].answer = LastAnswer(acts', op, i)
      <3> SUFFICES ASSUME NEW i \in About(acts', "call", op)
                   PROVE  acts'[i].answer = LastAnswer(acts', op, i)
        OBVIOUS
      <3>1. CASE i \in About(acts, "call", op)
        <4>1. i \in 1..Len(acts)
          BY <3>1 DEF About
        <4> QED
          BY <2>1, <2>2, <2>3, <3>1, <4>1
      <3>2. CASE i \notin About(acts, "call", op)
        <4>1. i = n /\ e.what = "call" /\ e.op = op
          BY <2>2, <3>2
        <4>2. e.answer = mock_result[op]
          BY <1>1, <4>1 DEF MockEffect
        <4> QED
          BY <2>1, <2>2, <2>3, <4>1, <4>2
      <3> QED
        BY <3>1, <3>2
    <2> QED
      BY <2>2, <2>3, <2>4, <2>5, <2>6
  <1> QED
    BY <1>2, <1>5, <1>6, <1>7 DEF MockInv

-----------------------------------------------------------------------------
(* Theorems *)

IInv == TctiInv /\ MockInv

LEMMA InitIInv ==
  Init => IInv
  <1> SUFFICES ASSUME Init PROVE IInv
    OBVIOUS
  <1>1. TctiShape
    BY FakeAssumption DEF Init, InitTcti, TctiShape, NotReceiving, Unknown, Receiving, Modes,
                          Announcement
  <1>2. ScriptInv /\ CommandInv
    BY DEF Init, InitTcti, ScriptInv, CommandInv
  <1>3. HeadInv /\ AnnouncedInv
    BY DEF Init, InitTcti, NotReceiving, Unknown, HeadInv, AnnouncedInv
  <1>4. MockInv
    <2>1. /\ acts = <<>> /\ acts \in Seq(PastAct) /\ Len(acts) = 0
          /\ call_count = [op \in Operation |-> 0]
          /\ mock_result = [op \in Operation |-> "backend_error"]
      BY DEF Init
    <2>2. \A what, op : About(acts, what, op) = {}
      BY <2>1 DEF About
    <2>3. \A op, n : Before(acts, op, n) = {} /\ Since(acts, op) = {}
      BY <2>2 DEF Before, Since
    <2>4. \A op, n : LastAnswer(acts, op, n) = "backend_error"
      BY <2>3 DEF LastAnswer
    <2>5. \A op : Cardinality(Since(acts, op)) = 0
      BY <2>3, FS_EmptySet
    <2> QED
      BY <2>1, <2>2, <2>3, <2>4, <2>5 DEF MockInv, Settled
  <1> QED
    BY <1>1, <1>2, <1>3, <1>4 DEF IInv, TctiInv

LEMMA StepIInv ==
  IInv /\ [Next]_vars => IInv'
  <1> SUFFICES ASSUME IInv, [Next]_vars PROVE IInv'
    OBVIOUS
  <1>1. ASSUME UNCHANGED tctiVars PROVE TctiInv'
    BY <1>1 DEF IInv, TctiInv, TctiShape, ScriptInv, CommandInv, HeadInv, AnnouncedInv,
                HeadFor, last_command, tctiVars
  <1>2. ASSUME UNCHANGED mockVars PROVE MockInv'
    BY <1>2 DEF IInv, MockInv, mockVars
  <1>3. CASE NextTcti /\ UNCHANGED mockVars
    BY <1>2, <1>3, TctiStep DEF IInv
  <1>4. CASE NextMock
    BY <1>1, <1>4, MockStep, MockHasEffect DEF IInv
  <1>5. CASE UNCHANGED vars
    BY <1>1, <1>2, <1>5 DEF IInv, vars
  <1> QED
    BY <1>3, <1>4, <1>5 DEF Next

\* The inductive invariant holds: the queue is numbered after what was given away, what
\* a receive found is its head, and the mock's state is what its history says.
THEOREM Invariance == Spec => []IInv
  BY InitIInv, StepIInv, PTL DEF Spec

\* Every answer queued for the fake is given away once and in order, and a receive that
\* is making its answer still finds it at the head, for scripts of any length.
THEOREM ScriptHolds == Spec => []ScriptIsFollowed
  <1>1. IInv => ScriptIsFollowed
    <2> SUFFICES ASSUME IInv PROVE ScriptIsFollowed
      OBVIOUS
    <2>0. TctiShape /\ ScriptInv /\ HeadInv
      BY DEF IInv, TctiInv
    <2> DEFINE waiting == [i \in 1..Len(queue_) |-> queue_[i].id]
    <2>1. queue_ \in Seq(QueuedAnswer) /\ consumed \in Seq(Nat) /\ pushed \in Nat
      BY <2>0 DEF TctiShape
    <2>2. \A i \in 1..Len(queue_) : queue_[i].id \in Nat
      <3> SUFFICES ASSUME NEW i \in 1..Len(queue_) PROVE queue_[i].id \in Nat
        OBVIOUS
      <3>1. queue_[i] \in QueuedAnswer
        BY <2>1
      <3> QED
        BY <3>1 DEF QueuedAnswer
    <2>3. waiting \in Seq(Nat) /\ Len(waiting) = Len(queue_)
      BY <2>1, <2>2
    <2>4. \A i \in 1..Len(waiting) : waiting[i] = Len(consumed) + i
      BY <2>0, <2>3 DEF ScriptInv
    <2> HIDE DEF waiting
    <2>5. /\ consumed \o waiting \in Seq(Nat)
          /\ Len(consumed \o waiting) = pushed
      <3>1. /\ consumed \o waiting \in Seq(Nat)
            /\ Len(consumed \o waiting) = Len(consumed) + Len(waiting)
        BY <2>1, <2>3, ConcatProperties
      <3> QED
        BY <2>0, <2>3, <3>1 DEF ScriptInv
    <2>6. \A i \in 1..pushed : (consumed \o waiting)[i] = i
      <3> SUFFICES ASSUME NEW i \in 1..pushed PROVE (consumed \o waiting)[i] = i
        OBVIOUS
      <3>1. CASE i \in 1..Len(consumed)
        <4>1. (consumed \o waiting)[i] = consumed[i]
          BY <2>1, <2>3, <3>1
        <4> QED
          BY <2>0, <3>1, <4>1 DEF ScriptInv
      <3>2. CASE i \notin 1..Len(consumed)
        <4>1. i - Len(consumed) \in 1..Len(waiting) /\ i > Len(consumed)
          BY <2>0, <2>1, <2>3, <3>2 DEF ScriptInv
        <4>2. (consumed \o waiting)[i] = waiting[i - Len(consumed)]
          BY <2>1, <2>3, <4>1
        <4> QED
          BY <2>1, <2>4, <4>1, <4>2
      <3> QED
        BY <3>1, <3>2
    <2>7. consumed \o waiting = [i \in 1..pushed |-> i]
      <3> DEFINE s == consumed \o waiting
      <3>1. s = [i \in 1..Len(s) |-> s[i]] /\ Len(s) = pushed
        <4>1. s \in Seq(Nat) /\ Len(s) = pushed
          BY <2>5
        <4> HIDE DEF s
        <4>2. s \in [1..Len(s) -> Nat]
          BY <4>1, LenProperties
        <4> QED
          BY <4>1, <4>2, Zenon
      <3>2. \A i \in 1..pushed : s[i] = i
        BY <2>6
      <3> HIDE DEF s
      <3>3. s = [i \in 1..pushed |-> s[i]]
        BY <3>1
      <3>4. [i \in 1..pushed |-> s[i]] = [i \in 1..pushed |-> i]
        BY <3>2, Zenon
      <3> QED
        BY <3>3, <3>4 DEF s
    <2>8. receiving.on => queue_ # <<>> /\ Head(queue_).id = receiving.id
      <3>1. receiving.on \in BOOLEAN
        BY <2>0 DEF TctiShape, Receiving
      <3>2. queue_ # <<>> => Head(queue_) = queue_[1]
        BY <2>1
      <3> QED
        BY <2>0, <3>1, <3>2 DEF HeadInv
    <2> QED
      BY <2>7, <2>8 DEF ScriptIsFollowed, waiting
  <1> QED
    BY <1>1, Invariance, PTL

\* The size told of a scripted response is right until it is given away, in every call and
\* whatever is queued or transmitted meanwhile; what a factory makes is for the last
\* command.
THEOREM AnnouncementsHold == Spec => AnnouncedSizesHold
  <1> DEFINE NoFailure ==
               announced.known /\ result' # result =>
                 result'.rc \notin {"IO_ERROR", "BAD_SEQUENCE", "GENERAL_FAILURE", "scripted"}
             Kept ==
               announced.known /\ receiving.on /\ ~receiving'.on /\ receiving.mode # "no_size" =>
                 /\ result'.size = announced.size
                 /\ result'.rc = IF receiving.mode = "query" THEN "size"
                                 ELSE IF receiving.capacity >= announced.size THEN "success"
                                 ELSE "INSUFFICIENT_BUFFER"
             Current ==
               receiving.on /\ ~receiving'.on /\ result'.for # 0 =>
                 \A i \in 1..Len(transmitted_commands_) : transmitted_commands_[i] =< result'.for
  <1>1. ASSUME IInv, [Next]_vars PROVE [NoFailure /\ Kept /\ Current]_tctiVars
    <2> SUFFICES ASSUME tctiVars' # tctiVars
                 PROVE  NoFailure /\ Kept /\ Current
      OBVIOUS
    <2>0. /\ TctiShape /\ CommandInv /\ HeadInv /\ AnnouncedInv
          /\ receiving \in Receiving /\ announced \in Announcement
          /\ receiving.on \in BOOLEAN /\ announced.known \in BOOLEAN
      BY <1>1 DEF IInv, TctiInv, TctiShape, Receiving, Announcement
    <2>1. NextTcti
      BY <1>1, MockHasEffect DEF Next, vars, IInv
    <2>2. announced.known => queue_ # <<>> /\ Head(queue_).kind = "response"
                             /\ announced.size = queue_[1].size
      BY <2>0, LastCommand DEF AnnouncedInv
    <2>3. CASE receive_next
      <3>1. /\ receiving.on /\ receiving.for = HeadFor
            /\ announced.known => receiving.size = announced.size
        BY <2>0, <2>2, <2>3 DEF receive_next, HeadInv, AnnouncedInv
      <3>2. /\ receiving.mode \in Modes /\ receiving.size \in Nat /\ receiving.capacity \in Nat
        BY <2>0 DEF Receiving
      <3>3. \/ receiving.mode = "no_size" /\ result' = [NoResult EXCEPT !.rc = "BAD_REFERENCE"]
            \/ receiving.mode = "query" /\ Answered("size")
            \/ /\ receiving.mode = "buffer" /\ ~ (receiving.size =< receiving.capacity)
               /\ Answered("INSUFFICIENT_BUFFER")
            \/ /\ receiving.mode = "buffer" /\ receiving.size =< receiving.capacity
               /\ Answered("success")
        BY <2>3, Zenon DEF receive_next, Returns, copy_response
      <3>4. NoFailure
        BY <3>3 DEF Answered, NoResult
      <3>5. Kept
        BY <3>1, <3>2, <3>3 DEF Answered, Modes
      <3>6. result'.for = 0 \/ result'.for = last_command
        BY <3>1, <3>3 DEF Answered, NoResult, HeadFor
      <3>7. Current
        BY <2>0, <3>6 DEF CommandInv
      <3> QED
        BY <3>4, <3>5, <3>7
    <2>4. CASE FactoryThrows
      <3>1. ~ announced.known /\ result'.for = 0
        BY <2>2, <2>4 DEF FactoryThrows, Returns, NoResult
      <3> QED
        BY <3>1
    <2>5. ASSUME ~ receiving.on \/ receiving'.on, NoFailure
          PROVE  NoFailure /\ Kept /\ Current
      BY <2>5
    <2>6. ASSUME NEW kind, NEW size, Push(kind, size)
          PROVE  NoFailure /\ Kept /\ Current
      <3>1. UNCHANGED <<receiving, result>>
        BY <2>6 DEF Push
      <3> QED
        BY <2>5, <3>1
    <2>7. ASSUME NEW bytes \in BOOLEAN, transmit(bytes)
          PROVE  NoFailure /\ Kept /\ Current
      <3>1. ~ receiving.on
        BY <2>7 DEF transmit, Called
      <3>2. announced.known => result'.rc \in {"BAD_REFERENCE", "success"}
        BY <2>2, <2>7 DEF transmit, Returns, NoResult
      <3> QED
        BY <2>5, <3>1, <3>2
    <2>8. ASSUME NEW mode, NEW capacity, receive(mode, capacity)
          PROVE  NoFailure /\ Kept /\ Current
      <3>1. ~ receiving.on
        BY <2>8 DEF receive, Called
      <3>2. announced.known => result' = result \/ result'.rc = "BAD_REFERENCE"
        BY <2>2, <2>8 DEF receive, Returns, NoResult
      <3> QED
        BY <2>5, <3>1, <3>2
    <2>9. CASE finalize \/ ignored
      <3>1. ~ receiving.on /\ result'.rc \in {"none", "success"}
        BY <2>9 DEF finalize, ignored, Called, Returns, NoResult
      <3> QED
        BY <2>5, <3>1
    <2> HIDE DEF NoFailure, Kept, Current
    <2> QED
      BY <2>1, <2>3, <2>4, <2>6, <2>7, <2>8, <2>9 DEF NextTcti
  <1> QED
    BY <1>1, Invariance, PTL DEF Spec, AnnouncedSizesHold

\* The mock returns what was programmed last for the operation, and counts the calls
\* since the counts were cleared, in tests of any length.
THEOREM MockIsFaithful == Spec => []MockAnswersAsProgrammed
  <1>1. IInv => MockAnswersAsProgrammed
    BY Zenon DEF IInv, MockInv, MockAnswersAsProgrammed, About, Since, Before, Greatest,
                 LastAnswer
  <1> QED
    BY <1>1, Invariance, PTL
=============================================================================
