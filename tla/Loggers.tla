-------------------------------- MODULE Loggers --------------------------------
(***************************************************************************)
(* stdio_logger and spdlog_logger: threads log through shared loggers,     *)
(* which are moved while they do.  Each logger has a mutex.  A stdio logger *)
(* has two borrowed streams, a threshold, a colour mode and one buffer in   *)
(* which every record is put together; an spdlog logger has a sink that     *)
(* knows its own threshold, and puts records together in a local.  Streams  *)
(* and sinks are given to one logger alone; moves take them along.          *)
(***************************************************************************)
EXTENDS Naturals, Sequences

CONSTANTS
    Threads, Loggers,
    Streams,     \* streams and sinks
    Cout, Cerr,  \* those a null stream pointer selects
    Options,     \* what the constructors of the first loggers are given
    SinkLevel,   \* threshold of each sink
    NO_COLOR, FORCE_COLOR,  \* whether these environment variables are set
    Ttys,        \* streams connected to a terminal
    Levels,      \* severities logged, of 0 (trace) to 4 (error)
    NoThread, Null,
    MaxCalls     \* calls made

warn == 3
MinLevels == 0..4
Modes == {"auto", "always", "never"}

\* The constructors: a null stream pointer selects a standard stream, a null sink
\* throws.
Constructed(opts) ==
    LET or(given, default) == IF given = Null THEN default ELSE given
    IN  IF opts.kind = "stdio"
        THEN [opts EXCEPT !.out = or(@, Cout), !.err = or(@, Cerr)]
        ELSE IF opts.out = Null THEN [opts EXCEPT !.kind = "none"] ELSE opts

ASSUME LoggerAssumption ==
    /\ DOMAIN Options \subseteq Loggers
    /\ \A l \in DOMAIN Options :
          /\ Options[l] \in [kind : {"stdio", "spdlog"}, min : MinLevels, color : Modes,
                             out : Streams \cup {Null}, err : Streams \cup {Null}]
          /\ Options[l].kind = "spdlog" => Options[l].out = Options[l].err
    /\ \A k, l \in DOMAIN Options :
          LET used(m) == {Constructed(Options[m]).out, Constructed(Options[m]).err} \ {Null}
          IN  k # l => used(k) \cap used(l) = {}
    /\ {Cout, Cerr} \subseteq Streams /\ Ttys \subseteq {Cout, Cerr}
    /\ SinkLevel \in [Streams -> MinLevels]
    /\ NO_COLOR \in BOOLEAN /\ FORCE_COLOR \in BOOLEAN
    /\ Levels \subseteq MinLevels
    /\ NoThread \notin Threads
    /\ Null \notin Streams
    /\ MaxCalls \in Nat

VARIABLES
    logger,   \* members of each logger; null streams once moved from
    mu,       \* which thread holds its mutex
    record_,  \* what the buffer of a stdio logger holds
    pc,       \* what each thread does next
    call,     \* its arguments and locals
    output,   \* pieces written to each stream
    broken,   \* streams that have failed
    calls     \* how many calls were made

vars == <<logger, mu, record_, pc, call, output, broken, calls>>

\* A record is known by the number of the call that logs it.
Record == [id : 1..MaxCalls, level : Levels, colored : BOOLEAN]
Empty == [id |-> 0, level |-> 0, colored |-> FALSE]
Members == [kind : {"none", "stdio", "spdlog"}, min : MinLevels, color : Modes,
            out : Streams \cup {Null}, err : Streams \cup {Null}]
Unmade == [kind |-> "none", min |-> 0, color |-> "auto", out |-> Null, err |-> Null]
Newline == [text |-> FALSE, of |-> Empty]
NoCall == [self |-> Null, other |-> Null, record |-> Empty, stream |-> Null, first |-> Null]

Init ==
    /\ logger = [l \in Loggers |->
                    IF l \in DOMAIN Options THEN Constructed(Options[l]) ELSE Unmade]
    /\ mu = [l \in Loggers |-> NoThread]
    /\ record_ = [l \in Loggers |-> Empty]
    /\ pc = [t \in Threads |-> "idle"]
    /\ call = [t \in Threads |-> NoCall]
    /\ output = [s \in Streams |-> <<>>]
    /\ broken = {}
    /\ calls = 0

Goto(t, where) == pc' = [pc EXCEPT ![t] = where]
Return(t) == Goto(t, "idle") /\ call' = [call EXCEPT ![t] = NoCall]

Made(l) == logger[l].kind # "none"

\* Nobody makes an object twice.
Making(l) == \E t \in Threads : pc[t] = "lock source" /\ call[t].self = l

Call(t, where, args) ==
    /\ pc[t] = "idle"
    /\ calls < MaxCalls
    /\ calls' = calls + 1
    /\ Goto(t, where)
    /\ call' = [call EXCEPT ![t] = args]
    /\ UNCHANGED <<logger, mu, record_, output, broken>>

CallLog(t) ==
    \E l \in Loggers, level \in Levels :
        /\ Made(l)
        /\ Call(t, "lock",
                [NoCall EXCEPT !.self = l,
                               !.record = [Empty EXCEPT !.id = calls + 1, !.level = level]])

\* Only spdlog_logger has one.
CallFlush(t) ==
    \E l \in Loggers :
        /\ logger[l].kind = "spdlog"
        /\ Call(t, "lock to flush", [NoCall EXCEPT !.self = l])

CallMoveConstruct(t) ==
    \E l, other \in Loggers :
        /\ ~Made(l) /\ ~Making(l) /\ Made(other)
        /\ Call(t, "lock source", [NoCall EXCEPT !.self = l, !.other = other])

\* Assigning a logger to itself returns at once.
CallMoveAssign(t) ==
    \E l, other \in Loggers :
        /\ Made(l) /\ logger[other].kind = logger[l].kind /\ l # other
        /\ Call(t, "lock one", [NoCall EXCEPT !.self = l, !.other = other])

-----------------------------------------------------------------------------
(* log() and flush().  A definition named ..._Fault is the one after it with a
   mistake a programmer could make; the checks are run against it too, to see
   that they notice. *)

\* Logging without the mutex.
LockForLog_Fault(t) ==
    /\ pc[t] = "lock"
    /\ mu' = [mu EXCEPT ![call[t].self] = t]
    /\ Goto(t, "format")
    /\ UNCHANGED <<logger, record_, call, output, broken, calls>>

LockForLog(t) ==
    /\ pc[t] = "lock"
    /\ mu[call[t].self] = NoThread
    /\ mu' = [mu EXCEPT ![call[t].self] = t]
    /\ Goto(t, "format")
    /\ UNCHANGED <<logger, record_, call, output, broken, calls>>

is_below_min_level(level, min) == level < min

stream_for_level(level, out, err) == IF level >= warn THEN err ELSE out

should_colorize(mode, stream) ==
    \/ mode = "always"
    \/ mode = "auto" /\ ~NO_COLOR /\ (FORCE_COLOR \/ stream \in Ttys)

Unlock(ls) == mu' = [l \in Loggers |-> IF l \in ls THEN NoThread ELSE mu[l]]

Filtered(members, level, stream) ==
    IF members.kind = "stdio" THEN is_below_min_level(level, members.min)
                              ELSE stream \in Streams /\ level < SinkLevel[stream]

\* Forgetting that a logger may have been moved from.
dropped_Fault(members, level, stream) == Filtered(members, level, stream)

dropped(members, level, stream) == Filtered(members, level, stream) \/ stream = Null

\* Early returns, or the record put together: in the buffer, or in a local.
Format(t) ==
    LET l == call[t].self
        level == call[t].record.level
        stream == stream_for_level(level, logger[l].out, logger[l].err)
        stdio == logger[l].kind = "stdio"
        record == [call[t].record EXCEPT
                     !.colored = stdio /\ should_colorize(logger[l].color, stream)]
    IN
    /\ pc[t] = "format"
    /\ IF dropped(logger[l], level, stream)
       THEN Return(t) /\ Unlock({l}) /\ UNCHANGED record_
       ELSE /\ record_' = IF stdio THEN [record_ EXCEPT ![l] = record] ELSE record_
            /\ call' = [call EXCEPT ![t].stream = stream, ![t].record = record]
            /\ Goto(t, "write")
            /\ UNCHANGED mu
    /\ UNCHANGED <<logger, output, broken, calls>>

\* An allocation fails while the record is put together.
OutOfMemory(t) ==
    /\ pc[t] = "format"
    /\ Unlock({call[t].self})
    /\ Return(t)
    /\ UNCHANGED <<logger, record_, output, broken, calls>>

LockForFlush(t) ==
    /\ pc[t] = "lock to flush"
    /\ mu[call[t].self] = NoThread
    /\ IF logger[call[t].self].out = Null
       THEN Return(t) /\ UNCHANGED mu
       ELSE /\ mu' = [mu EXCEPT ![call[t].self] = t]
            /\ call' = [call EXCEPT ![t].stream = logger[call[t].self].out]
            /\ Goto(t, "flush")
    /\ UNCHANGED <<logger, record_, output, broken, calls>>

\* The sink flushes, or throws into the catch (...).
Flush(t) ==
    /\ pc[t] = "flush"
    /\ Unlock({call[t].self})
    /\ Return(t)
    /\ UNCHANGED <<logger, record_, output, broken, calls>>

\* A stream or sink that failed once writes nothing more.
Write(s, piece) ==
    output' = IF s \in broken THEN output ELSE [output EXCEPT ![s] = Append(@, piece)]

WriteRecord(t) ==
    LET l == call[t].self IN
    /\ pc[t] = "write"
    /\ Write(call[t].stream,
             [text |-> TRUE,
              of |-> IF logger[l].kind = "stdio" THEN record_[l] ELSE call[t].record])
    /\ Goto(t, "end line")
    /\ UNCHANGED <<logger, mu, record_, call, broken, calls>>

WriteNewline(t) ==
    /\ pc[t] = "end line"
    /\ Write(call[t].stream, Newline)
    /\ Unlock({call[t].self})
    /\ Return(t)
    /\ UNCHANGED <<logger, record_, broken, calls>>

\* The stream fails, or throws into the catch (...): the call returns.
StreamFails(t) ==
    /\ pc[t] \in {"write", "end line"}
    /\ broken' = broken \cup {call[t].stream}
    /\ Unlock({call[t].self})
    /\ Return(t)
    /\ UNCHANGED <<logger, record_, output, calls>>

-----------------------------------------------------------------------------
(* Moves *)

\* Forgetting to take the streams away from the source.
MovedFrom_Fault(members) == members

MovedFrom(members) == [members EXCEPT !.out = Null, !.err = Null]

\* Forgetting the threshold and the colour.
Moved_Fault(from) == [from EXCEPT !.min = 0, !.color = "auto"]

Moved(from) == from

\* Moving out of a logger that is in use.
MoveConstruct_Fault(t) ==
    LET l == call[t].self
        other == call[t].other
    IN
    /\ pc[t] = "lock source"
    /\ logger' = [logger EXCEPT ![l] = Moved(logger[other]), ![other] = MovedFrom(@)]
    /\ Return(t)
    /\ UNCHANGED <<mu, record_, output, broken, calls>>

MoveConstruct(t) ==
    LET l == call[t].self
        other == call[t].other
    IN
    /\ pc[t] = "lock source"
    /\ mu[other] = NoThread
    /\ logger' = [logger EXCEPT ![l] = Moved(logger[other]), ![other] = MovedFrom(@)]
    /\ Return(t)
    /\ UNCHANGED <<mu, record_, output, broken, calls>>

\* std::lock: one of the mutexes, then the other if it is free, or else again
\* from the start with neither.
LockOne(t) ==
    \E l \in {call[t].self, call[t].other} :
        /\ pc[t] = "lock one"
        /\ mu[l] = NoThread
        /\ mu' = [mu EXCEPT ![l] = t]
        /\ call' = [call EXCEPT ![t].first = l]
        /\ Goto(t, "lock both")
        /\ UNCHANGED <<logger, record_, output, broken, calls>>

Second(t) == IF call[t].first = call[t].self THEN call[t].other ELSE call[t].self

LockBoth(t) ==
    /\ pc[t] = "lock both"
    /\ mu[Second(t)] = NoThread
    /\ mu' = [mu EXCEPT ![Second(t)] = t]
    /\ Goto(t, "assign")
    /\ UNCHANGED <<logger, record_, call, output, broken, calls>>

\* Locking one mutex after the other without letting go.
BackOff_Fault(t) == FALSE /\ UNCHANGED vars

BackOff(t) ==
    /\ pc[t] = "lock both"
    /\ mu[Second(t)] # NoThread
    /\ Unlock({call[t].first})
    /\ call' = [call EXCEPT ![t].first = Null]
    /\ Goto(t, "lock one")
    /\ UNCHANGED <<logger, record_, output, broken, calls>>

MoveAssign(t) ==
    LET l == call[t].self
        other == call[t].other
    IN
    /\ pc[t] = "assign"
    /\ logger' = [logger EXCEPT ![l] = Moved(logger[other]), ![other] = MovedFrom(@)]
    /\ record_' = [record_ EXCEPT ![l] = Empty]
    /\ Unlock({l, other})
    /\ Return(t)
    /\ UNCHANGED <<output, broken, calls>>

-----------------------------------------------------------------------------
Starts(t) == CallLog(t) \/ CallFlush(t) \/ CallMoveConstruct(t) \/ CallMoveAssign(t)

Logs(t) ==
    \/ LockForLog(t) \/ Format(t) \/ OutOfMemory(t)
    \/ WriteRecord(t) \/ WriteNewline(t) \/ StreamFails(t)
    \/ LockForFlush(t) \/ Flush(t)

Moves(t) == MoveConstruct(t) \/ LockOne(t) \/ LockBoth(t) \/ BackOff(t) \/ MoveAssign(t)

Next == \E t \in Threads : Starts(t) \/ Logs(t) \/ Moves(t)

Spec == Init /\ [][Next]_vars

\* A thread inside a call runs on, and std::lock sooner or later tries the second
\* mutex while it is free.
FairSpec ==
    Spec /\ \A t \in Threads : WF_vars(Logs(t) \/ Moves(t)) /\ SF_vars(LockBoth(t))
-----------------------------------------------------------------------------
(* Properties *)

\* Types of the variables.
TypeOK ==
    /\ logger \in [Loggers -> Members]
    /\ mu \in [Loggers -> Threads \cup {NoThread}]
    /\ record_ \in [Loggers -> Record \cup {Empty}]
    /\ pc \in [Threads -> {"idle", "lock", "format", "write", "end line",
                           "lock to flush", "flush", "lock source", "lock one", "lock both", "assign"}]
    /\ call \in [Threads -> [self : Loggers \cup {Null}, other : Loggers \cup {Null},
                             record : Record \cup {Empty}, stream : Streams \cup {Null},
                             first : Loggers \cup {Null}]]
    /\ output \in [Streams -> Seq([text : BOOLEAN, of : Record \cup {Empty}])]
    /\ broken \subseteq Streams
    /\ calls \in 0..MaxCalls

\* "Concurrent records are serialized as intact lines": every record written is
\* followed by its newline, also when loggers are moved while they are in use.
WholeLines ==
    \A s \in Streams : \A i \in 1..Len(output[s]) : output[s][i].text <=> i % 2 = 1

\* No record is written twice, and none in place of another thread's, although
\* the threads share one buffer.
RecordsAppearOnce ==
    \A r, s \in Streams : \A i \in 1..Len(output[r]), j \in 1..Len(output[s]) :
        output[r][i].text /\ output[s][j].text /\ output[r][i].of = output[s][j].of
            => r = s /\ i = j

\* Each stream and sink has at most one thread in it, writing or flushing: "calls
\* made through this adapter are serialized before reaching the wrapped spdlog
\* logger", over every chain of moves between adapters that are in use.
Inside(t) == pc[t] \in {"write", "end line", "flush"}

SinksAreSerialized ==
    \A t, u \in Threads :
        t # u /\ Inside(t) /\ Inside(u) => call[t].stream # call[u].stream

\* Threshold, colour and streams stay together over every chain of moves: a stream
\* gets records of its side, none below its threshold, coloured as its logger was
\* told to; and a logger that was moved from writes nowhere.
RoutedAsConfigured ==
    /\ \A s \in Streams : \A i \in 1..Len(output[s]) :
          LET r == output[s][i].of IN
          output[s][i].text =>
              \E l \in DOMAIN Options :
                  LET given == Constructed(Options[l]) IN
                  /\ s = stream_for_level(r.level, given.out, given.err)
                  /\ ~Filtered(given, r.level, s)
                  /\ r.colored <=> given.kind = "stdio" /\ should_colorize(given.color, s)
    /\ \A t \in Threads : Inside(t) => call[t].stream # Null

\* Two threads that assign a pair of loggers in opposite order do not block each
\* other for ever, nor anybody who logs through them.
CallsReturn == \A t \in Threads : pc[t] # "idle" ~> pc[t] = "idle"
=============================================================================
