----------------------------- MODULE LoggersProofs -----------------------------
(***************************************************************************)
(* Proofs about Loggers for any number of threads, loggers, streams and     *)
(* calls, any configuration and any chain of moves.  A stream is with one   *)
(* logger and a logger with the one thread that holds its mutex, therefore  *)
(* a stream has one thread in it.                                           *)
(***************************************************************************)
EXTENDS Loggers, TLAPS

Logging == {"lock", "format", "write", "end line"}
Assigning == {"lock one", "lock both", "assign"}

\* Loggers a call is about, by stages.
AboutLoggers(t) ==
    LET c == call[t] IN
    /\ pc[t] # "idle" => c.self \in Loggers
    /\ pc[t] \in Logging => Made(c.self) /\ c.record \in Record /\ c.record.id =< calls
    /\ pc[t] \in {"lock to flush", "flush"} => Made(c.self)
    /\ pc[t] \in Assigning \cup {"lock source"} =>
          c.other \in Loggers /\ c.other # c.self /\ Made(c.other)
    /\ pc[t] \in Assigning => Made(c.self)
    /\ pc[t] = "lock source" => ~Made(c.self)

\* Two calls log different records and make different loggers.
Distinct(t, u) ==
    /\ pc[t] \in Logging /\ pc[u] \in Logging => call[t].record.id # call[u].record.id
    /\ pc[t] = "lock source" /\ pc[u] = "lock source" => call[t].self # call[u].self

CallInv ==
    /\ \A t \in Threads : AboutLoggers(t)
    /\ \A t, u \in Threads : t # u => Distinct(t, u)

\* Which mutexes a thread holds, by stages.
Holding(t) ==
    LET c == call[t] IN
    /\ pc[t] \in {"format", "write", "end line", "flush"} => mu[c.self] = t
    /\ pc[t] = "lock both" => c.first \in {c.self, c.other} /\ mu[c.first] = t
    /\ pc[t] = "assign" => mu[c.self] = t /\ mu[c.other] = t

LockInv == \A t \in Threads : Holding(t)

\* A stream is with one logger, which is configured as one of the first loggers was.
StreamsOf(l) ==
    /\ logger[l].out = Null <=> logger[l].err = Null
    /\ logger[l].out # Null => \E k \in DOMAIN Options : logger[l] = Constructed(Options[k])

Apart(k, l) == {logger[k].out, logger[k].err} \cap {logger[l].out, logger[l].err} \subseteq {Null}

StreamInv ==
    /\ \A l \in Loggers : StreamsOf(l)
    /\ \A k, l \in Loggers : k # l => Apart(k, l)

\* A thread that writes does so for the logger whose mutex it holds.
AtItsStream(t) ==
    LET c == call[t]
        members == logger[c.self]
    IN
    /\ Inside(t) => c.stream # Null /\ c.stream \in {members.out, members.err}
    /\ pc[t] = "write" =>
          /\ c.stream = stream_for_level(c.record.level, members.out, members.err)
          /\ ~Filtered(members, c.record.level, c.stream)
          /\ c.record.colored <=> members.kind = "stdio" /\ should_colorize(members.color, c.stream)
          /\ members.kind = "stdio" => record_[c.self] = c.record

InsideInv == \A t \in Threads : AtItsStream(t)

\* A stream that works has half a line exactly while a thread is about to end it.
Whole(s) == \A i \in 1..Len(output[s]) : output[s][i].text <=> i % 2 = 1

Ends(t, s) == pc[t] = "end line" /\ call[t].stream = s

LineInv ==
    \A s \in Streams :
        /\ Whole(s)
        /\ s \notin broken => (Len(output[s]) % 2 = 1 <=> \E t \in Threads : Ends(t, s))

\* No record in a stream is of a call still to write.
Pending == {"lock", "format", "write"}

Past(r) ==
    /\ r \in Record /\ r.id =< calls
    /\ \A t \in Threads : pc[t] \in Pending => call[t].record.id # r.id

OnceInv ==
    /\ RecordsAppearOnce
    /\ \A s \in Streams : \A i \in 1..Len(output[s]) : output[s][i].text => Past(output[s][i].of)

\* A record is in a stream where one of the first loggers would have put it.
Given(s, r) ==
    \E l \in DOMAIN Options :
        LET given == Constructed(Options[l]) IN
        /\ s = stream_for_level(r.level, given.out, given.err)
        /\ ~Filtered(given, r.level, s)
        /\ r.colored <=> given.kind = "stdio" /\ should_colorize(given.color, s)

RoutedInv ==
    \A s \in Streams : \A i \in 1..Len(output[s]) :
        output[s][i].text => Given(s, output[s][i].of)

IInv ==
    /\ TypeOK
    /\ CallInv
    /\ LockInv
    /\ StreamInv
    /\ InsideInv
    /\ LineInv
    /\ OnceInv
    /\ RoutedInv

-----------------------------------------------------------------------------
(* What the records of the model are made of *)

CallType == [self : Loggers \cup {Null}, other : Loggers \cup {Null},
             record : Record \cup {Empty}, stream : Streams \cup {Null},
             first : Loggers \cup {Null}]
Piece == [text : BOOLEAN, of : Record \cup {Empty}]

\* Records that are logged, and none.
LEMMA RecordFacts ==
    /\ \A r \in Record : r.id \in Nat /\ r.level \in Levels /\ r.colored \in BOOLEAN /\ r # Empty
    /\ \A n \in 1..MaxCalls, level \in Levels :
          LET r == [Empty EXCEPT !.id = n, !.level = level] IN
          r \in Record /\ r.id = n /\ r.level = level
    /\ \A r \in Record, b \in BOOLEAN :
          /\ [r EXCEPT !.colored = b] \in Record
          /\ [r EXCEPT !.colored = b].id = r.id
          /\ [r EXCEPT !.colored = b].level = r.level
          /\ [r EXCEPT !.colored = b].colored = b
  <1>1. MaxCalls \in Nat
    BY LoggerAssumption
  <1>2. \A r \in Record : r.id \in Nat /\ r.level \in Levels /\ r.colored \in BOOLEAN /\ r # Empty
    BY <1>1 DEF Record, Empty
  <1>3. \A n \in 1..MaxCalls, level \in Levels :
          LET r == [Empty EXCEPT !.id = n, !.level = level] IN
          r \in Record /\ r.id = n /\ r.level = level
    BY <1>1 DEF Record, Empty
  <1>4. \A r \in Record, b \in BOOLEAN :
          /\ [r EXCEPT !.colored = b] \in Record
          /\ [r EXCEPT !.colored = b].id = r.id
          /\ [r EXCEPT !.colored = b].level = r.level
          /\ [r EXCEPT !.colored = b].colored = b
    BY <1>1 DEF Record
  <1> QED
    BY <1>2, <1>3, <1>4

\* Calls that just began.
LEMMA BeginFacts ==
    /\ NoCall \in CallType
    /\ \A l \in Loggers :
          LET c == [NoCall EXCEPT !.self = l] IN
          c \in CallType /\ c.self = l /\ c.other = Null
    /\ \A l, k \in Loggers :
          LET c == [NoCall EXCEPT !.self = l, !.other = k] IN
          c \in CallType /\ c.self = l /\ c.other = k
    /\ \A l \in Loggers, r \in Record :
          LET c == [NoCall EXCEPT !.self = l, !.record = r] IN
          c \in CallType /\ c.self = l /\ c.other = Null /\ c.record = r
  BY DEF CallType, NoCall

\* Calls to which a stream, a record or a lock is added.
LEMMA AddFacts ==
  ASSUME NEW c \in CallType
  PROVE  /\ \A s \in Streams \cup {Null} :
               LET d == [c EXCEPT !.stream = s] IN
               d \in CallType /\ d.self = c.self /\ d.stream = s
         /\ \A s \in Streams \cup {Null}, r \in Record :
               LET d == [c EXCEPT !.stream = s, !.record = r] IN
               d \in CallType /\ d.self = c.self /\ d.stream = s /\ d.record = r
         /\ \A l \in Loggers \cup {Null} :
               LET d == [c EXCEPT !.first = l] IN
               /\ d \in CallType /\ d.self = c.self /\ d.other = c.other /\ d.first = l
               /\ d.record = c.record /\ d.stream = c.stream
  BY DEF CallType

\* Loggers: configured ones, and those moved from.
LEMMA MemberFacts ==
    /\ Unmade \in Members
    /\ \A k \in DOMAIN Options : Constructed(Options[k]) \in Members
    /\ \A m \in Members :
          /\ Moved(m) = m
          /\ MovedFrom(m) \in Members
          /\ MovedFrom(m).kind = m.kind
          /\ MovedFrom(m).out = Null
          /\ MovedFrom(m).err = Null
  <1>1. Unmade \in Members
    BY LoggerAssumption DEF Members, Unmade, MinLevels, Modes
  <1>2. ASSUME NEW k \in DOMAIN Options PROVE Constructed(Options[k]) \in Members
    <2>1. Options[k] \in [kind : {"stdio", "spdlog"}, min : MinLevels, color : Modes,
                          out : Streams \cup {Null}, err : Streams \cup {Null}]
      BY LoggerAssumption
    <2> QED
      BY <2>1, LoggerAssumption DEF Members, Constructed
  <1>3. ASSUME NEW m \in Members
        PROVE  /\ Moved(m) = m
               /\ MovedFrom(m) \in Members
               /\ MovedFrom(m).kind = m.kind
               /\ MovedFrom(m).out = Null
               /\ MovedFrom(m).err = Null
    BY DEF Members, Moved, MovedFrom
  <1> QED
    BY <1>1, <1>2, <1>3

-----------------------------------------------------------------------------
(* What each step does *)

Stages == {"idle", "lock", "format", "write", "end line", "lock to flush", "flush",
           "lock source", "lock one", "lock both", "assign"}

\* The types, with names for those of calls and of the pieces written.
LEMMA Types ==
    TypeOK <=> /\ logger \in [Loggers -> Members]
               /\ mu \in [Loggers -> Threads \cup {NoThread}]
               /\ record_ \in [Loggers -> Record \cup {Empty}]
               /\ pc \in [Threads -> Stages]
               /\ call \in [Threads -> CallType]
               /\ output \in [Streams -> Seq(Piece)]
               /\ broken \subseteq Streams
               /\ calls \in 0..MaxCalls
  BY Zenon DEF TypeOK, Stages, CallType, Piece

LEMMA TypesNext ==
    TypeOK' <=> /\ logger' \in [Loggers -> Members]
                /\ mu' \in [Loggers -> Threads \cup {NoThread}]
                /\ record_' \in [Loggers -> Record \cup {Empty}]
                /\ pc' \in [Threads -> Stages]
                /\ call' \in [Threads -> CallType]
                /\ output' \in [Streams -> Seq(Piece)]
                /\ broken' \subseteq Streams
                /\ calls' \in 0..MaxCalls
  BY Zenon DEF TypeOK, Stages, CallType, Piece

\* A step of a thread leaves the calls of the others alone.
Others(t) == \A u \in Threads : u # t => pc'[u] = pc[u] /\ call'[u] = call[u]

\* Going somewhere with a call.
LEMMA Going ==
  ASSUME TypeOK, NEW t \in Threads, NEW c \in CallType, NEW where \in Stages,
         Goto(t, where), call' = [call EXCEPT ![t] = c]
  PROVE  /\ Others(t) /\ pc'[t] = where /\ call'[t] = c
         /\ pc' \in [Threads -> Stages] /\ call' \in [Threads -> CallType]
  BY Types DEF Goto, Others

\* Going on with the same call.
LEMMA Staying ==
  ASSUME TypeOK, NEW t \in Threads, NEW where \in Stages, Goto(t, where), call' = call
  PROVE  /\ Others(t) /\ pc'[t] = where /\ call'[t] = call[t]
         /\ pc' \in [Threads -> Stages] /\ call' \in [Threads -> CallType]
  BY Types DEF Goto, Others

\* Letting go of mutexes.
LEMMA Unlocking ==
  ASSUME TypeOK, NEW ls, Unlock(ls)
  PROVE  /\ mu' \in [Loggers -> Threads \cup {NoThread}]
         /\ \A l \in Loggers : mu'[l] = IF l \in ls THEN NoThread ELSE mu[l]
  BY Types DEF Unlock

\* What a call is about, by its stage.
LEMMA About ==
  ASSUME CallInv, NEW t \in Threads
  PROVE  /\ pc[t] # "idle" => call[t].self \in Loggers
         /\ pc[t] \in Logging => call[t].record \in Record
         /\ pc[t] \in Assigning \cup {"lock source"} =>
               call[t].other \in Loggers /\ call[t].other # call[t].self
  BY Zenon DEF CallInv, AboutLoggers

\* A call to log() has a record of its own.
LEMMA CallLogDoes ==
  ASSUME TypeOK, CallInv, NEW t \in Threads, CallLog(t)
  PROVE  /\ Others(t) /\ pc' \in [Threads -> Stages] /\ call' \in [Threads -> CallType]
         /\ pc[t] = "idle" /\ pc'[t] = "lock"
         /\ LET c == call'[t] IN
            c.self \in Loggers /\ Made(c.self) /\ c.record \in Record /\ c.record.id = calls + 1
         /\ calls' \in 0..MaxCalls /\ calls' = calls + 1
         /\ UNCHANGED <<logger, mu, record_, output, broken>>
  <1>1. calls \in 0..MaxCalls /\ MaxCalls \in Nat
    BY LoggerAssumption, Types
  <1>2. PICK l \in Loggers, level \in Levels :
           /\ Made(l)
           /\ Call(t, "lock", [NoCall EXCEPT !.self = l,
                                             !.record = [Empty EXCEPT !.id = calls + 1, !.level = level]])
    BY DEF CallLog
  <1> DEFINE r == [Empty EXCEPT !.id = calls + 1, !.level = level]
             c == [NoCall EXCEPT !.self = l, !.record = r]
  <1>3. /\ pc[t] = "idle" /\ calls < MaxCalls /\ calls' = calls + 1 /\ Goto(t, "lock")
        /\ call' = [call EXCEPT ![t] = c]
        /\ UNCHANGED <<logger, mu, record_, output, broken>>
    BY <1>2 DEF Call
  <1>4. calls + 1 \in 1..MaxCalls
    BY <1>1, <1>3
  <1>5. r \in Record /\ r.id = calls + 1
    BY <1>4, RecordFacts
  <1> HIDE DEF r
  <1>6. c \in CallType /\ c.self = l /\ c.record = r
    BY <1>5, BeginFacts
  <1> HIDE DEF c
  <1>7. "lock" \in Stages
    BY DEF Stages
  <1>8. Others(t) /\ pc'[t] = "lock" /\ call'[t] = c
        /\ pc' \in [Threads -> Stages] /\ call' \in [Threads -> CallType]
    BY <1>3, <1>6, <1>7, Going
  <1> QED
    BY <1>1, <1>2, <1>3, <1>4, <1>5, <1>6, <1>8

\* A call to flush() is about an spdlog logger.
LEMMA CallFlushDoes ==
  ASSUME TypeOK, CallInv, NEW t \in Threads, CallFlush(t)
  PROVE  /\ Others(t) /\ pc' \in [Threads -> Stages] /\ call' \in [Threads -> CallType]
         /\ pc[t] = "idle" /\ pc'[t] = "lock to flush"
         /\ LET c == call'[t] IN c.self \in Loggers /\ Made(c.self)
         /\ calls' \in 0..MaxCalls /\ calls' = calls + 1
         /\ UNCHANGED <<logger, mu, record_, output, broken>>
  <1>1. calls \in 0..MaxCalls /\ MaxCalls \in Nat
    BY LoggerAssumption, Types
  <1>2. PICK l \in Loggers : Made(l) /\ Call(t, "lock to flush", [NoCall EXCEPT !.self = l])
    BY DEF CallFlush, Made
  <1> DEFINE c == [NoCall EXCEPT !.self = l]
  <1>3. /\ pc[t] = "idle" /\ calls < MaxCalls /\ calls' = calls + 1 /\ Goto(t, "lock to flush")
        /\ call' = [call EXCEPT ![t] = c]
        /\ UNCHANGED <<logger, mu, record_, output, broken>>
    BY <1>2 DEF Call
  <1>4. c \in CallType /\ c.self = l
    BY <1>2, BeginFacts
  <1> HIDE DEF c
  <1>5. "lock to flush" \in Stages
    BY DEF Stages
  <1>6. Others(t) /\ pc'[t] = "lock to flush" /\ call'[t] = c
        /\ pc' \in [Threads -> Stages] /\ call' \in [Threads -> CallType]
    BY <1>3, <1>4, <1>5, Going
  <1>7. calls < MaxCalls /\ calls' = calls + 1
    BY <1>3
  <1>8. calls' \in 0..MaxCalls
    BY <1>1, <1>7
  <1> QED
    BY <1>2, <1>3, <1>4, <1>6, <1>8

\* Nobody else makes the logger that is made.
LEMMA CallMoveConstructDoes ==
  ASSUME TypeOK, CallInv, NEW t \in Threads, CallMoveConstruct(t)
  PROVE  /\ Others(t) /\ pc' \in [Threads -> Stages] /\ call' \in [Threads -> CallType]
         /\ pc[t] = "idle" /\ pc'[t] = "lock source"
         /\ LET c == call'[t] IN
            /\ c.self \in Loggers /\ c.other \in Loggers /\ c.self # c.other
            /\ ~Made(c.self) /\ ~Making(c.self) /\ Made(c.other)
         /\ calls' \in 0..MaxCalls /\ calls' = calls + 1
         /\ UNCHANGED <<logger, mu, record_, output, broken>>
  <1>1. calls \in 0..MaxCalls /\ MaxCalls \in Nat
    BY LoggerAssumption, Types
  <1>2. PICK l, other \in Loggers :
           /\ ~Made(l) /\ ~Making(l) /\ Made(other)
           /\ Call(t, "lock source", [NoCall EXCEPT !.self = l, !.other = other])
    BY DEF CallMoveConstruct
  <1> DEFINE c == [NoCall EXCEPT !.self = l, !.other = other]
  <1>3. /\ pc[t] = "idle" /\ calls < MaxCalls /\ calls' = calls + 1 /\ Goto(t, "lock source")
        /\ call' = [call EXCEPT ![t] = c]
        /\ UNCHANGED <<logger, mu, record_, output, broken>>
    BY <1>2 DEF Call
  <1>4. c \in CallType /\ c.self = l /\ c.other = other
    BY <1>2, BeginFacts
  <1> HIDE DEF c
  <1>5. "lock source" \in Stages
    BY DEF Stages
  <1>6. Others(t) /\ pc'[t] = "lock source" /\ call'[t] = c
        /\ pc' \in [Threads -> Stages] /\ call' \in [Threads -> CallType]
    BY <1>3, <1>4, <1>5, Going
  <1>7. calls < MaxCalls /\ calls' = calls + 1
    BY <1>3
  <1>8. calls' \in 0..MaxCalls
    BY <1>1, <1>7
  <1> QED
    BY <1>2, <1>3, <1>4, <1>6, <1>8

\* The loggers of an assignment are two that exist.
LEMMA CallMoveAssignDoes ==
  ASSUME TypeOK, CallInv, NEW t \in Threads, CallMoveAssign(t)
  PROVE  /\ Others(t) /\ pc' \in [Threads -> Stages] /\ call' \in [Threads -> CallType]
         /\ pc[t] = "idle" /\ pc'[t] = "lock one"
         /\ LET c == call'[t] IN
            /\ c.self \in Loggers /\ c.other \in Loggers /\ c.self # c.other
            /\ Made(c.self) /\ Made(c.other)
         /\ calls' \in 0..MaxCalls /\ calls' = calls + 1
         /\ UNCHANGED <<logger, mu, record_, output, broken>>
  <1>1. calls \in 0..MaxCalls /\ MaxCalls \in Nat
    BY LoggerAssumption, Types
  <1>2. PICK l, other \in Loggers :
           /\ l # other /\ Made(l) /\ Made(other)
           /\ Call(t, "lock one", [NoCall EXCEPT !.self = l, !.other = other])
    BY DEF CallMoveAssign, Made
  <1> DEFINE c == [NoCall EXCEPT !.self = l, !.other = other]
  <1>3. /\ pc[t] = "idle" /\ calls < MaxCalls /\ calls' = calls + 1 /\ Goto(t, "lock one")
        /\ call' = [call EXCEPT ![t] = c]
        /\ UNCHANGED <<logger, mu, record_, output, broken>>
    BY <1>2 DEF Call
  <1>4. c \in CallType /\ c.self = l /\ c.other = other
    BY <1>2, BeginFacts
  <1> HIDE DEF c
  <1>5. "lock one" \in Stages
    BY DEF Stages
  <1>6. Others(t) /\ pc'[t] = "lock one" /\ call'[t] = c
        /\ pc' \in [Threads -> Stages] /\ call' \in [Threads -> CallType]
    BY <1>3, <1>4, <1>5, Going
  <1>7. calls < MaxCalls /\ calls' = calls + 1
    BY <1>3
  <1>8. calls' \in 0..MaxCalls
    BY <1>1, <1>7
  <1> QED
    BY <1>2, <1>3, <1>4, <1>6, <1>8

\* A mutex is locked.
Locked(t, l) == mu'[l] = t /\ \A m \in Loggers \ {l} : mu'[m] = mu[m]

\* log() locks the mutex when it is free.
LEMMA LockForLogDoes ==
  ASSUME TypeOK, CallInv, NEW t \in Threads, LockForLog(t)
  PROVE  /\ Others(t) /\ pc' \in [Threads -> Stages] /\ call' \in [Threads -> CallType]
         /\ call[t].self \in Loggers
         /\ pc[t] = "lock" /\ pc'[t] = "format" /\ call'[t] = call[t]
         /\ mu' \in [Loggers -> Threads \cup {NoThread}]
         /\ mu[call[t].self] = NoThread /\ Locked(t, call[t].self)
         /\ UNCHANGED <<logger, record_, output, broken, calls>>
  <1> "format" \in Stages
    BY DEF Stages
  <1>1. call[t].self \in Loggers
    BY About DEF LockForLog
  <1>2. Second(t) \in Loggers \/ pc[t] # "lock both"
    BY About DEF Second, Assigning
  <1>3. mu \in [Loggers -> Threads \cup {NoThread}]
    BY Types
  <1> QED
    BY <1>1, <1>2, <1>3, Staying, Types DEF LockForLog, Locked

\* A log() without memory returns.
LEMMA OutOfMemoryDoes ==
  ASSUME TypeOK, CallInv, NEW t \in Threads, OutOfMemory(t)
  PROVE  /\ Others(t) /\ pc' \in [Threads -> Stages] /\ call' \in [Threads -> CallType]
         /\ call[t].self \in Loggers
         /\ pc'[t] = "idle" /\ call'[t] = NoCall
         /\ mu' \in [Loggers -> Threads \cup {NoThread}]
         /\ \A l \in Loggers : mu'[l] = IF l = call[t].self THEN NoThread ELSE mu[l]
         /\ pc[t] = "format"
         /\ UNCHANGED <<logger, record_, output, broken, calls>>
  <1>0. call[t].self \in Loggers
    BY About DEF OutOfMemory
  <1>1. Goto(t, "idle") /\ call' = [call EXCEPT ![t] = NoCall]
    BY DEF OutOfMemory, Return
  <1>2. NoCall \in CallType /\ "idle" \in Stages
    BY BeginFacts DEF Stages
  <1>3. Others(t) /\ pc'[t] = "idle" /\ call'[t] = NoCall
        /\ pc' \in [Threads -> Stages] /\ call' \in [Threads -> CallType]
    BY <1>1, <1>2, Going
  <1>4. Unlock({call[t].self})
    BY DEF OutOfMemory
  <1>5. /\ mu' \in [Loggers -> Threads \cup {NoThread}]
        /\ \A l \in Loggers : mu'[l] = IF l = call[t].self THEN NoThread ELSE mu[l]
    BY <1>4, Unlocking
  <1> QED
    BY <1>0, <1>3, <1>5 DEF OutOfMemory

\* A flush() returns.
LEMMA FlushDoes ==
  ASSUME TypeOK, CallInv, NEW t \in Threads, Flush(t)
  PROVE  /\ Others(t) /\ pc' \in [Threads -> Stages] /\ call' \in [Threads -> CallType]
         /\ call[t].self \in Loggers
         /\ pc'[t] = "idle" /\ call'[t] = NoCall
         /\ mu' \in [Loggers -> Threads \cup {NoThread}]
         /\ \A l \in Loggers : mu'[l] = IF l = call[t].self THEN NoThread ELSE mu[l]
         /\ pc[t] = "flush"
         /\ UNCHANGED <<logger, record_, output, broken, calls>>
  <1>0. call[t].self \in Loggers
    BY About DEF Flush
  <1>1. Goto(t, "idle") /\ call' = [call EXCEPT ![t] = NoCall]
    BY DEF Flush, Return
  <1>2. NoCall \in CallType /\ "idle" \in Stages
    BY BeginFacts DEF Stages
  <1>3. Others(t) /\ pc'[t] = "idle" /\ call'[t] = NoCall
        /\ pc' \in [Threads -> Stages] /\ call' \in [Threads -> CallType]
    BY <1>1, <1>2, Going
  <1>4. Unlock({call[t].self})
    BY DEF Flush
  <1>5. /\ mu' \in [Loggers -> Threads \cup {NoThread}]
        /\ \A l \in Loggers : mu'[l] = IF l = call[t].self THEN NoThread ELSE mu[l]
    BY <1>4, Unlocking
  <1> QED
    BY <1>0, <1>3, <1>5 DEF Flush

\* A log() ends its line and returns.
LEMMA WriteNewlineDoes ==
  ASSUME TypeOK, CallInv, NEW t \in Threads, WriteNewline(t)
  PROVE  /\ Others(t) /\ pc' \in [Threads -> Stages] /\ call' \in [Threads -> CallType]
         /\ call[t].self \in Loggers
         /\ pc'[t] = "idle" /\ call'[t] = NoCall
         /\ mu' \in [Loggers -> Threads \cup {NoThread}]
         /\ \A l \in Loggers : mu'[l] = IF l = call[t].self THEN NoThread ELSE mu[l]
         /\ pc[t] = "end line" /\ Write(call[t].stream, Newline)
         /\ UNCHANGED <<logger, record_, broken, calls>>
  <1>0. call[t].self \in Loggers
    BY About DEF WriteNewline
  <1>1. Goto(t, "idle") /\ call' = [call EXCEPT ![t] = NoCall]
    BY DEF WriteNewline, Return
  <1>2. NoCall \in CallType /\ "idle" \in Stages
    BY BeginFacts DEF Stages
  <1>3. Others(t) /\ pc'[t] = "idle" /\ call'[t] = NoCall
        /\ pc' \in [Threads -> Stages] /\ call' \in [Threads -> CallType]
    BY <1>1, <1>2, Going
  <1>4. Unlock({call[t].self})
    BY DEF WriteNewline
  <1>5. /\ mu' \in [Loggers -> Threads \cup {NoThread}]
        /\ \A l \in Loggers : mu'[l] = IF l = call[t].self THEN NoThread ELSE mu[l]
    BY <1>4, Unlocking
  <1> QED
    BY <1>0, <1>3, <1>5 DEF WriteNewline

\* A log() whose stream fails returns.
LEMMA StreamFailsDoes ==
  ASSUME TypeOK, CallInv, NEW t \in Threads, StreamFails(t)
  PROVE  /\ Others(t) /\ pc' \in [Threads -> Stages] /\ call' \in [Threads -> CallType]
         /\ call[t].self \in Loggers
         /\ pc'[t] = "idle" /\ call'[t] = NoCall
         /\ mu' \in [Loggers -> Threads \cup {NoThread}]
         /\ \A l \in Loggers : mu'[l] = IF l = call[t].self THEN NoThread ELSE mu[l]
         /\ pc[t] \in {"write", "end line"} /\ broken' = broken \cup {call[t].stream}
         /\ UNCHANGED <<logger, record_, output, calls>>
  <1>0. call[t].self \in Loggers
    BY About DEF StreamFails
  <1>1. Goto(t, "idle") /\ call' = [call EXCEPT ![t] = NoCall]
    BY DEF StreamFails, Return
  <1>2. NoCall \in CallType /\ "idle" \in Stages
    BY BeginFacts DEF Stages
  <1>3. Others(t) /\ pc'[t] = "idle" /\ call'[t] = NoCall
        /\ pc' \in [Threads -> Stages] /\ call' \in [Threads -> CallType]
    BY <1>1, <1>2, Going
  <1>4. Unlock({call[t].self})
    BY DEF StreamFails
  <1>5. /\ mu' \in [Loggers -> Threads \cup {NoThread}]
        /\ \A l \in Loggers : mu'[l] = IF l = call[t].self THEN NoThread ELSE mu[l]
    BY <1>4, Unlocking
  <1> QED
    BY <1>0, <1>3, <1>5 DEF StreamFails

\* log() writes the record put together.
LEMMA WriteRecordDoes ==
  ASSUME TypeOK, CallInv, NEW t \in Threads, WriteRecord(t)
  PROVE  /\ Others(t) /\ pc' \in [Threads -> Stages] /\ call' \in [Threads -> CallType]
         /\ call[t].self \in Loggers
         /\ pc[t] = "write" /\ pc'[t] = "end line" /\ call'[t] = call[t]
         /\ LET l == call[t].self IN
               Write(call[t].stream,
                     [text |-> TRUE,
                      of |-> IF logger[l].kind = "stdio" THEN record_[l] ELSE call[t].record])
         /\ UNCHANGED <<logger, mu, record_, broken, calls>>
  <1> "end line" \in Stages
    BY DEF Stages
  <1>1. call[t].self \in Loggers
    BY About DEF WriteRecord
  <1>2. Second(t) \in Loggers \/ pc[t] # "lock both"
    BY About DEF Second, Assigning
  <1>3. mu \in [Loggers -> Threads \cup {NoThread}]
    BY Types
  <1> QED
    BY <1>1, <1>2, <1>3, Staying, Types DEF WriteRecord, Locked

\* An assignment holds the second mutex too.
LEMMA LockBothDoes ==
  ASSUME TypeOK, CallInv, NEW t \in Threads, LockBoth(t)
  PROVE  /\ Others(t) /\ pc' \in [Threads -> Stages] /\ call' \in [Threads -> CallType]
         /\ call[t].self \in Loggers
         /\ pc[t] = "lock both" /\ pc'[t] = "assign" /\ call'[t] = call[t]
         /\ mu' \in [Loggers -> Threads \cup {NoThread}]
         /\ Second(t) \in Loggers
         /\ mu[Second(t)] = NoThread /\ Locked(t, Second(t))
         /\ UNCHANGED <<logger, record_, output, broken, calls>>
  <1> "assign" \in Stages
    BY DEF Stages
  <1>1. call[t].self \in Loggers
    BY About DEF LockBoth
  <1>2. Second(t) \in Loggers \/ pc[t] # "lock both"
    BY About DEF Second, Assigning
  <1>3. mu \in [Loggers -> Threads \cup {NoThread}]
    BY Types
  <1> QED
    BY <1>1, <1>2, <1>3, Staying, Types DEF LockBoth, Locked

\* Stream and record of a log() that is not dropped.
StreamOf(t) ==
    LET members == logger[call[t].self] IN
    stream_for_level(call[t].record.level, members.out, members.err)

RecordOf(t) ==
    LET members == logger[call[t].self] IN
    [call[t].record EXCEPT !.colored = members.kind = "stdio" /\ should_colorize(members.color, StreamOf(t))]

\* A stream for a record is one of its logger's, or none.
LEMMA StreamOfType ==
  ASSUME TypeOK, NEW t \in Threads, call[t].self \in Loggers
  PROVE  /\ StreamOf(t) \in Streams \cup {Null}
         /\ StreamOf(t) \in {logger[call[t].self].out, logger[call[t].self].err}
  <1>1. logger[call[t].self] \in Members
    BY Types
  <1> QED
    BY <1>1 DEF StreamOf, stream_for_level, Members

\* The record put together is that of the call, coloured or not.
LEMMA RecordOfFacts ==
  ASSUME NEW t, call[t].record \in Record
  PROVE  /\ RecordOf(t) \in Record
         /\ RecordOf(t).id = call[t].record.id
         /\ RecordOf(t).level = call[t].record.level
         /\ RecordOf(t).colored = (/\ logger[call[t].self].kind = "stdio"
                                   /\ should_colorize(logger[call[t].self].color, StreamOf(t)))
  <1> DEFINE b == logger[call[t].self].kind = "stdio" /\ should_colorize(logger[call[t].self].color, StreamOf(t))
  <1>1. b \in BOOLEAN
    BY Zenon
  <1>2. RecordOf(t) = [call[t].record EXCEPT !.colored = b]
    BY DEF RecordOf
  <1> HIDE DEF b
  <1>3. /\ RecordOf(t) \in Record
        /\ RecordOf(t).id = call[t].record.id
        /\ RecordOf(t).level = call[t].record.level
        /\ RecordOf(t).colored = b
    <2>1. \A r \in Record : LET d == [r EXCEPT !.colored = b] IN
             d \in Record /\ d.id = r.id /\ d.level = r.level /\ d.colored = b
      BY <1>1, RecordFacts, Zenon
    <2> QED
      BY <1>2, <2>1
  <1> QED
    BY <1>3 DEF b

\* A log() returns at once, or goes on with the record put together.
LEMMA FormatDoes ==
  ASSUME TypeOK, CallInv, NEW t \in Threads, Format(t)
  PROVE  /\ call[t].self \in Loggers /\ call[t].record \in Record
         /\ Others(t) /\ pc' \in [Threads -> Stages] /\ call' \in [Threads -> CallType]
         /\ pc[t] = "format"
         /\ \/ /\ pc'[t] = "idle" /\ call'[t] = NoCall
               /\ mu' \in [Loggers -> Threads \cup {NoThread}]
               /\ \A l \in Loggers : mu'[l] = IF l = call[t].self THEN NoThread ELSE mu[l]
               /\ UNCHANGED record_
            \/ /\ pc'[t] = "write" /\ call'[t].self = call[t].self
               /\ call'[t].stream = StreamOf(t) /\ call'[t].record = RecordOf(t)
               /\ ~dropped(logger[call[t].self], call[t].record.level, StreamOf(t))
               /\ record_' = IF logger[call[t].self].kind = "stdio"
                             THEN [record_ EXCEPT ![call[t].self] = RecordOf(t)] ELSE record_
               /\ UNCHANGED mu
         /\ record_' \in [Loggers -> Record \cup {Empty}]
         /\ UNCHANGED <<logger, output, broken, calls>>
  <1>a. call[t].self \in Loggers /\ call[t].record \in Record
    BY About DEF Format, Logging
  <1> USE <1>a
  <1>0. record_ \in [Loggers -> Record \cup {Empty}]
    BY Types
  <1> DEFINE gone == dropped(logger[call[t].self], call[t].record.level, StreamOf(t))
             c == [call[t] EXCEPT !.stream = StreamOf(t), !.record = RecordOf(t)]
  <1>1. /\ pc[t] = "format" /\ UNCHANGED <<logger, output, broken, calls>>
        /\ IF gone
           THEN Return(t) /\ Unlock({call[t].self}) /\ UNCHANGED record_
           ELSE /\ record_' = IF logger[call[t].self].kind = "stdio"
                              THEN [record_ EXCEPT ![call[t].self] = RecordOf(t)] ELSE record_
                /\ call' = [call EXCEPT ![t].stream = StreamOf(t), ![t].record = RecordOf(t)]
                /\ Goto(t, "write")
                /\ UNCHANGED mu
    BY DEF Format, StreamOf, RecordOf
  <1> HIDE DEF gone
  <1>2. CASE gone
    <2>1. Goto(t, "idle") /\ call' = [call EXCEPT ![t] = NoCall]
      BY <1>1, <1>2 DEF Return
    <2>2. NoCall \in CallType /\ "idle" \in Stages
      BY BeginFacts DEF Stages
    <2>3. /\ mu' \in [Loggers -> Threads \cup {NoThread}]
          /\ \A l \in Loggers : mu'[l] = IF l = call[t].self THEN NoThread ELSE mu[l]
      BY <1>1, <1>2, Unlocking
    <2> QED
      BY <1>0, <1>1, <1>2, <2>1, <2>2, <2>3, Going
  <1>3. CASE ~gone
    <2>1. call[t] \in CallType
      BY Types
    <2>2. RecordOf(t) \in Record
      BY RecordOfFacts
    <2>3. c \in CallType /\ c.self = call[t].self /\ c.stream = StreamOf(t) /\ c.record = RecordOf(t)
      <3>1. StreamOf(t) \in Streams \cup {Null}
        BY StreamOfType
      <3> QED
        BY <2>1, <2>2, <3>1 DEF CallType
    <2>4. call' = [call EXCEPT ![t] = c] /\ Goto(t, "write")
      BY <1>1, <1>3, <2>1
    <2>5. "write" \in Stages
      BY DEF Stages
    <2> HIDE DEF c
    <2>6. Others(t) /\ pc'[t] = "write" /\ call'[t] = c
          /\ pc' \in [Threads -> Stages] /\ call' \in [Threads -> CallType]
      BY <2>3, <2>4, <2>5, Going
    <2> QED
      <3>1. record_' \in [Loggers -> Record \cup {Empty}]
        BY <1>0, <1>1, <1>3, <2>2
      <3> QED
        BY <1>1, <1>3, <2>3, <2>6, <3>1 DEF gone
  <1> QED
    BY <1>2, <1>3

\* A flush() returns at once, or goes on with the mutex and the sink.
LEMMA LockForFlushDoes ==
  ASSUME TypeOK, CallInv, NEW t \in Threads, LockForFlush(t)
  PROVE  /\ call[t].self \in Loggers
         /\ Others(t) /\ pc' \in [Threads -> Stages] /\ call' \in [Threads -> CallType]
         /\ pc[t] = "lock to flush" /\ mu[call[t].self] = NoThread
         /\ \/ pc'[t] = "idle" /\ call'[t] = NoCall /\ UNCHANGED mu
            \/ /\ pc'[t] = "flush" /\ call'[t].self = call[t].self
               /\ call'[t].stream = logger[call[t].self].out /\ call'[t].stream # Null
               /\ Locked(t, call[t].self)
         /\ mu' \in [Loggers -> Threads \cup {NoThread}]
         /\ UNCHANGED <<logger, record_, output, broken, calls>>
  <1>a. call[t].self \in Loggers
    BY About DEF LockForFlush
  <1>b. mu \in [Loggers -> Threads \cup {NoThread}]
    BY Types
  <1> USE <1>a, <1>b
  <1>1. CASE logger[call[t].self].out = Null
    <2>1. Goto(t, "idle") /\ call' = [call EXCEPT ![t] = NoCall]
      BY <1>1 DEF LockForFlush, Return
    <2>2. NoCall \in CallType /\ "idle" \in Stages
      BY BeginFacts DEF Stages
    <2>3. Others(t) /\ pc'[t] = "idle" /\ call'[t] = NoCall
          /\ pc' \in [Threads -> Stages] /\ call' \in [Threads -> CallType]
      BY <2>1, <2>2, Going
    <2> QED
      BY <1>1, <2>3 DEF LockForFlush
  <1>2. CASE logger[call[t].self].out # Null
    <2> DEFINE c == [call[t] EXCEPT !.stream = logger[call[t].self].out]
    <2>1. call[t] \in CallType /\ logger[call[t].self] \in Members
      BY Types
    <2>2. logger[call[t].self].out \in Streams \cup {Null}
      BY <2>1 DEF Members
    <2>3. c \in CallType /\ c.self = call[t].self /\ c.stream = logger[call[t].self].out
      BY <2>1, <2>2, AddFacts
    <2>4. call' = [call EXCEPT ![t] = c] /\ Goto(t, "flush")
      BY <1>2, <2>1 DEF LockForFlush
    <2>5. "flush" \in Stages
      BY DEF Stages
    <2> HIDE DEF c
    <2>6. Others(t) /\ pc'[t] = "flush" /\ call'[t] = c
          /\ pc' \in [Threads -> Stages] /\ call' \in [Threads -> CallType]
      BY <2>3, <2>4, <2>5, Going
    <2> QED
      BY <1>2, <2>3, <2>6 DEF LockForFlush, Locked
  <1> QED
    BY <1>1, <1>2

\* An assignment first holds either mutex.
LEMMA LockOneDoes ==
  ASSUME TypeOK, CallInv, NEW t \in Threads, LockOne(t)
  PROVE  /\ call[t].self \in Loggers /\ call[t].other \in Loggers /\ call[t].self # call[t].other
         /\ Others(t) /\ pc' \in [Threads -> Stages] /\ call' \in [Threads -> CallType]
         /\ pc[t] = "lock one" /\ pc'[t] = "lock both"
         /\ call'[t].self = call[t].self /\ call'[t].other = call[t].other
         /\ call'[t].first \in {call[t].self, call[t].other}
         /\ mu[call'[t].first] = NoThread /\ Locked(t, call'[t].first)
         /\ mu' \in [Loggers -> Threads \cup {NoThread}]
         /\ UNCHANGED <<logger, record_, output, broken, calls>>
  <1>a. call[t].self \in Loggers /\ call[t].other \in Loggers /\ call[t].self # call[t].other
    BY About DEF LockOne, Assigning
  <1>b. mu \in [Loggers -> Threads \cup {NoThread}]
    BY Types
  <1> USE <1>a, <1>b
  <1>1. PICK l \in {call[t].self, call[t].other} :
           /\ pc[t] = "lock one"
           /\ mu[l] = NoThread
           /\ mu' = [mu EXCEPT ![l] = t]
           /\ call' = [call EXCEPT ![t].first = l]
           /\ Goto(t, "lock both")
           /\ UNCHANGED <<logger, record_, output, broken, calls>>
    BY DEF LockOne
  <1> DEFINE c == [call[t] EXCEPT !.first = l]
  <1>2. call[t] \in CallType
    BY Types
  <1>3. c \in CallType /\ c.self = call[t].self /\ c.other = call[t].other /\ c.first = l
    <2>1. l \in Loggers \cup {Null}
      BY <1>1
    <2> QED
      BY <1>2, <2>1, AddFacts
  <1>4. call' = [call EXCEPT ![t] = c] /\ Goto(t, "lock both") /\ "lock both" \in Stages
    BY <1>1, <1>2 DEF Stages
  <1> HIDE DEF c
  <1>5. Others(t) /\ pc'[t] = "lock both" /\ call'[t] = c
        /\ pc' \in [Threads -> Stages] /\ call' \in [Threads -> CallType]
    BY <1>3, <1>4, Going
  <1> QED
    BY <1>1, <1>3, <1>5 DEF Locked

\* An assignment that cannot hold both mutexes holds none.
LEMMA BackOffDoes ==
  ASSUME TypeOK, CallInv, NEW t \in Threads, BackOff(t)
  PROVE  /\ call[t].self \in Loggers /\ call[t].other \in Loggers /\ call[t].self # call[t].other
         /\ Others(t) /\ pc' \in [Threads -> Stages] /\ call' \in [Threads -> CallType]
         /\ pc[t] = "lock both" /\ pc'[t] = "lock one"
         /\ call'[t].self = call[t].self /\ call'[t].other = call[t].other
         /\ mu' \in [Loggers -> Threads \cup {NoThread}]
         /\ \A l \in Loggers : mu'[l] = IF l = call[t].first THEN NoThread ELSE mu[l]
         /\ UNCHANGED <<logger, record_, output, broken, calls>>
  <1>a. call[t].self \in Loggers /\ call[t].other \in Loggers /\ call[t].self # call[t].other
    BY About DEF BackOff, Assigning
  <1> USE <1>a
  <1> DEFINE c == [call[t] EXCEPT !.first = Null]
  <1>1. call[t] \in CallType
    BY Types
  <1>2. c \in CallType /\ c.self = call[t].self /\ c.other = call[t].other
    BY <1>1, AddFacts
  <1>3. call' = [call EXCEPT ![t] = c] /\ Goto(t, "lock one") /\ "lock one" \in Stages
    BY <1>1 DEF Stages, BackOff
  <1> HIDE DEF c
  <1>4. Others(t) /\ pc'[t] = "lock one" /\ call'[t] = c
        /\ pc' \in [Threads -> Stages] /\ call' \in [Threads -> CallType]
    BY <1>2, <1>3, Going
  <1>5. /\ mu' \in [Loggers -> Threads \cup {NoThread}]
        /\ \A l \in Loggers : mu'[l] = IF l = call[t].first THEN NoThread ELSE mu[l]
    <2>1. Unlock({call[t].first})
      BY DEF BackOff
    <2> QED
      BY <2>1, Unlocking
  <1> QED
    BY <1>2, <1>4, <1>5 DEF BackOff

\* The members of a logger go to another.
Handed(l, k) == logger' = [logger EXCEPT ![l] = Moved(logger[k]), ![k] = MovedFrom(@)]

\* An assignment takes the members of its source and lets go of both mutexes.
LEMMA MoveAssignDoes ==
  ASSUME TypeOK, CallInv, NEW t \in Threads, MoveAssign(t)
  PROVE  /\ call[t].self \in Loggers /\ call[t].other \in Loggers /\ call[t].self # call[t].other
         /\ Others(t) /\ pc' \in [Threads -> Stages] /\ call' \in [Threads -> CallType]
         /\ pc[t] = "assign" /\ pc'[t] = "idle" /\ call'[t] = NoCall
         /\ mu' \in [Loggers -> Threads \cup {NoThread}]
         /\ \A l \in Loggers :
               mu'[l] = IF l \in {call[t].self, call[t].other} THEN NoThread ELSE mu[l]
         /\ Handed(call[t].self, call[t].other)
         /\ record_' = [record_ EXCEPT ![call[t].self] = Empty]
         /\ UNCHANGED <<output, broken, calls>>
  <1>a. call[t].self \in Loggers /\ call[t].other \in Loggers /\ call[t].self # call[t].other
    BY About DEF MoveAssign, Assigning
  <1> USE <1>a
  <1>1. Goto(t, "idle") /\ call' = [call EXCEPT ![t] = NoCall]
    BY DEF MoveAssign, Return
  <1>2. NoCall \in CallType /\ "idle" \in Stages
    BY BeginFacts DEF Stages
  <1>3. Others(t) /\ pc'[t] = "idle" /\ call'[t] = NoCall
        /\ pc' \in [Threads -> Stages] /\ call' \in [Threads -> CallType]
    BY <1>1, <1>2, Going
  <1>4. /\ mu' \in [Loggers -> Threads \cup {NoThread}]
        /\ \A l \in Loggers :
              mu'[l] = IF l \in {call[t].self, call[t].other} THEN NoThread ELSE mu[l]
    <2>1. Unlock({call[t].self, call[t].other})
      BY DEF MoveAssign
    <2> QED
      BY <2>1, Unlocking
  <1> QED
    BY <1>3, <1>4 DEF MoveAssign, Handed

\* A move takes the members of a logger nobody is in.
LEMMA MoveConstructDoes ==
  ASSUME TypeOK, CallInv, NEW t \in Threads, MoveConstruct(t)
  PROVE  /\ call[t].self \in Loggers /\ call[t].other \in Loggers /\ call[t].self # call[t].other
         /\ Others(t) /\ pc' \in [Threads -> Stages] /\ call' \in [Threads -> CallType]
         /\ pc[t] = "lock source" /\ pc'[t] = "idle" /\ call'[t] = NoCall
         /\ mu[call[t].other] = NoThread
         /\ Handed(call[t].self, call[t].other)
         /\ UNCHANGED <<mu, record_, output, broken, calls>>
  <1>a. call[t].self \in Loggers /\ call[t].other \in Loggers /\ call[t].self # call[t].other
    BY About DEF MoveConstruct, Assigning
  <1>1. Goto(t, "idle") /\ call' = [call EXCEPT ![t] = NoCall]
    BY DEF MoveConstruct, Return
  <1>2. NoCall \in CallType /\ "idle" \in Stages
    BY BeginFacts DEF Stages
  <1>3. Others(t) /\ pc'[t] = "idle" /\ call'[t] = NoCall
        /\ pc' \in [Threads -> Stages] /\ call' \in [Threads -> CallType]
    BY <1>1, <1>2, Going
  <1> QED
    BY <1>a, <1>3 DEF MoveConstruct, Handed

\* A write appends to a stream that works.
LEMMA Writing ==
  ASSUME TypeOK, NEW s \in Streams \cup {Null}, NEW piece \in Piece, Write(s, piece)
  PROVE  /\ output' \in [Streams -> Seq(Piece)]
         /\ \A r \in Streams :
               output'[r] = IF r = s /\ s \notin broken THEN Append(output[r], piece) ELSE output[r]
  <1>1. output \in [Streams -> Seq(Piece)]
    BY Types
  <1>2. \A q \in Seq(Piece) : Append(q, piece) \in Seq(Piece)
    OBVIOUS
  <1> QED
    BY <1>1, <1>2 DEF Write

\* A move hands the members on and leaves the source without streams.
LEMMA Moving ==
  ASSUME TypeOK, NEW l \in Loggers, NEW k \in Loggers, l # k, Handed(l, k)
  PROVE  /\ logger' \in [Loggers -> Members]
         /\ logger'[l] = logger[k]
         /\ logger'[k].kind = logger[k].kind /\ logger'[k].out = Null /\ logger'[k].err = Null
         /\ \A m \in Loggers \ {l, k} : logger'[m] = logger[m]
  <1>1. logger \in [Loggers -> Members]
    BY Types
  <1>2. /\ Moved(logger[k]) = logger[k] /\ MovedFrom(logger[k]) \in Members
        /\ MovedFrom(logger[k]).kind = logger[k].kind
        /\ MovedFrom(logger[k]).out = Null /\ MovedFrom(logger[k]).err = Null
    BY <1>1, MemberFacts
  <1>3. /\ logger' \in [Loggers -> Members]
        /\ logger'[l] = logger[k] /\ logger'[k] = MovedFrom(logger[k])
        /\ \A m \in Loggers \ {l, k} : logger'[m] = logger[m]
    BY <1>1, <1>2 DEF Handed
  <1> QED
    BY <1>2, <1>3

-----------------------------------------------------------------------------
(* Every step keeps the parts of the invariant *)

\* Every step keeps the variables in their types.
LEMMA TypeStep == TypeOK /\ CallInv /\ InsideInv /\ [Next]_vars => TypeOK'
  <1> SUFFICES ASSUME TypeOK /\ CallInv /\ InsideInv, [Next]_vars PROVE TypeOK'
    OBVIOUS
  <1>0. \A t \in Threads :
           /\ pc[t] # "idle" => call[t].self \in Loggers
           /\ pc[t] \in Logging => call[t].record \in Record
           /\ pc[t] \in Assigning \cup {"lock source"} =>
                 call[t].other \in Loggers /\ call[t].other # call[t].self
    BY Zenon DEF CallInv, AboutLoggers
  <1> USE DEF Logging, Assigning
  <1>1. ASSUME NEW t \in Threads, CallLog(t) \/ CallFlush(t) \/ CallMoveConstruct(t) \/ CallMoveAssign(t) \/
               OutOfMemory(t) \/ Flush(t) \/ BackOff(t)
        PROVE  TypeOK'
    BY <1>1, <1>0, CallLogDoes, CallFlushDoes, CallMoveConstructDoes, CallMoveAssignDoes,
       OutOfMemoryDoes, FlushDoes, BackOffDoes, Types, TypesNext
  <1>2. ASSUME NEW t \in Threads, LockForLog(t) \/ LockBoth(t) \/ LockOne(t) \/ LockForFlush(t)
        PROVE  TypeOK'
    <2>1. mu' \in [Loggers -> Threads \cup {NoThread}]
      BY <1>2, <1>0, LockForLogDoes, LockBothDoes, LockOneDoes, LockForFlushDoes, Types
    <2> QED
      BY <1>2, <2>1, LockForLogDoes, LockBothDoes, LockOneDoes, LockForFlushDoes, Types,
         TypesNext
  <1>3. ASSUME NEW t \in Threads, StreamFails(t) PROVE  TypeOK'
    <2>1. call[t].stream # Null
      BY <1>3, StreamFailsDoes DEF InsideInv, AtItsStream, Inside
    <2>2. call[t].stream \in Streams
      BY <2>1, Types DEF CallType
    <2>3. broken' \subseteq Streams
      BY <1>3, <2>2, Types DEF StreamFails
    <2> QED
      BY <1>3, <2>3, StreamFailsDoes, Types, TypesNext
  <1>4. ASSUME NEW t \in Threads, Format(t) PROVE  TypeOK'
    <2>1. mu' \in [Loggers -> Threads \cup {NoThread}] /\ record_' \in [Loggers -> Record \cup {Empty}]
      BY <1>4, <1>0, FormatDoes, Types
    <2>2. UNCHANGED <<logger, output, broken, calls>> /\ pc' \in [Threads -> Stages] /\ call' \in [Threads -> CallType]
      BY <1>4, <1>0, FormatDoes
    <2> QED
      BY <2>1, <2>2, Types, TypesNext
  <1>5. ASSUME NEW t \in Threads, WriteRecord(t) PROVE  TypeOK'
    <2> DEFINE piece == [text |-> TRUE,
                          of |-> IF logger[call[t].self].kind = "stdio"
                                 THEN record_[call[t].self] ELSE call[t].record]
    <2>1. piece \in Piece
      BY <1>5, <1>0, WriteRecordDoes, Types DEF Piece, CallType
    <2>2. call[t].stream \in Streams \cup {Null}
      BY Types DEF CallType
    <2>3. Write(call[t].stream, piece)
      BY <1>5, WriteRecordDoes
    <2> HIDE DEF piece
    <2>4. output' \in [Streams -> Seq(Piece)]
      BY <2>1, <2>2, <2>3, Writing
    <2> QED
      BY <1>5, <2>4, WriteRecordDoes, Types, TypesNext
  <1>6. ASSUME NEW t \in Threads, WriteNewline(t) PROVE  TypeOK'
    <2> DEFINE piece == Newline
    <2>1. piece \in Piece
      BY <1>6, <1>0, WriteNewlineDoes, Types DEF Piece, Newline
    <2>2. call[t].stream \in Streams \cup {Null}
      BY Types DEF CallType
    <2>3. Write(call[t].stream, piece)
      BY <1>6, WriteNewlineDoes
    <2> HIDE DEF piece
    <2>4. output' \in [Streams -> Seq(Piece)]
      BY <2>1, <2>2, <2>3, Writing
    <2> QED
      BY <1>6, <2>4, WriteNewlineDoes, Types, TypesNext
  <1>7. ASSUME NEW t \in Threads, MoveConstruct(t) \/ MoveAssign(t)
        PROVE  TypeOK'
    <2>1. call[t].self \in Loggers /\ call[t].other \in Loggers /\ call[t].self # call[t].other
      BY <1>7, <1>0, MoveConstructDoes, MoveAssignDoes
    <2>2. logger' \in [Loggers -> Members]
      BY <1>7, <2>1, MoveConstructDoes, MoveAssignDoes, Moving
    <2> QED
      BY <1>7, <2>1, <2>2, MoveConstructDoes, MoveAssignDoes, Types, TypesNext
  <1>8. ASSUME UNCHANGED vars PROVE TypeOK'
    BY <1>8, Types, TypesNext DEF vars
  <1> QED
    BY <1>1, <1>2, <1>3, <1>4, <1>5, <1>6, <1>7, <1>8 DEF Next, Starts, Logs, Moves


\* Numbers of calls.
LEMMA Transitivity ==
    \A a, b, c \in Nat : a =< b => (b =< c => a =< c) /\ (b < c => a # c)
  OBVIOUS

\* Calls are counted upwards, a record goes on or is new.
Counted == calls \in Nat /\ calls' \in Nat /\ calls =< calls'
SameRecord(t) == pc[t] \in Logging /\ call'[t].record.id = call[t].record.id
NewRecord(t) == call'[t].record.id \in Nat /\ calls < call'[t].record.id

\* Others keep their loggers while a thread goes on with its call.
LEMMA CallsKept ==
  ASSUME CallInv, NEW t \in Threads, Others(t), AboutLoggers(t)',
         Counted,
         \A l \in Loggers : Made(l) => Made(l)',
         \A u \in Threads : u # t /\ pc[u] = "lock source" => (Made(call[u].self)' => Made(call[u].self)),
         pc'[t] \in Logging => SameRecord(t) \/ NewRecord(t),
         pc'[t] = "lock source" => ~Making(call'[t].self)
  PROVE  CallInv'
  <1>1. ASSUME NEW u \in Threads, u # t PROVE AboutLoggers(u)'
    <2>1. pc'[u] = pc[u] /\ call'[u] = call[u] /\ AboutLoggers(u)
      BY <1>1 DEF Others, CallInv
    <2>2. pc[u] \in Logging => call[u].record.id =< calls'
      <3>1. pc[u] \in Logging => call[u].record.id \in Nat /\ call[u].record.id =< calls
        BY <2>1, RecordFacts DEF AboutLoggers
      <3> QED
        BY <3>1, Transitivity, Zenon DEF Counted
    <2>3. Made(call[u].self)' = Made(call[u].self)'
      OBVIOUS
    <2> QED
      BY <1>1, <2>1, <2>2 DEF AboutLoggers, Logging, Assigning
  <1>2. ASSUME NEW u \in Threads, u # t PROVE Distinct(t, u)' /\ Distinct(u, t)'
    <2>1. pc'[u] = pc[u] /\ call'[u] = call[u] /\ AboutLoggers(u) /\ Distinct(t, u)
      BY <1>2 DEF Others, CallInv
    <2>2. pc[u] \in Logging => call[u].record.id \in Nat /\ call[u].record.id =< calls
      BY <2>1, RecordFacts DEF AboutLoggers
    <2>3. pc[u] \in Logging /\ pc'[t] \in Logging => call[u].record.id # call'[t].record.id
      <3>1. SameRecord(t) /\ pc[u] \in Logging => call[u].record.id # call'[t].record.id
        BY <2>1 DEF Distinct, SameRecord
      <3>2. NewRecord(t) /\ pc[u] \in Logging => call[u].record.id # call'[t].record.id
        BY <2>2, Transitivity, Zenon DEF NewRecord, Counted
      <3> QED
        BY <3>1, <3>2
    <2>4. pc[u] = "lock source" /\ pc'[t] = "lock source" => call[u].self # call'[t].self
      BY <2>1 DEF Making
    <2> QED
      BY <2>1, <2>3, <2>4 DEF Distinct
  <1>3. ASSUME NEW u \in Threads, NEW v \in Threads, u # v, u # t, v # t PROVE Distinct(u, v)'
    BY <1>3 DEF Others, CallInv, Distinct
  <1> QED
    BY <1>1, <1>2, <1>3 DEF CallInv

\* Every step keeps calls to the loggers they are about.
LEMMA CallStep == TypeOK /\ CallInv /\ [Next]_vars => CallInv'
  <1> SUFFICES ASSUME TypeOK /\ CallInv, [Next]_vars PROVE CallInv'
    OBVIOUS
  <1>0. calls \in Nat
    BY Types
  <1>1. ASSUME NEW t \in Threads, CallLog(t) PROVE  CallInv'
    <2>1. AboutLoggers(t)
      BY DEF CallInv
    <2>2. \A l \in Loggers : Made(l)' <=> Made(l)
      BY <1>1, CallLogDoes DEF Made
    <2>3. AboutLoggers(t)'
      <3>1. call'[t].record.id = calls' /\ calls' \in 0..MaxCalls /\ MaxCalls \in Nat
        BY <1>1, CallLogDoes, LoggerAssumption
      <3>2. call'[t].record.id =< calls'
        BY <3>1
      <3> QED
        BY <1>1, <3>2, <2>2, CallLogDoes DEF AboutLoggers, Logging, Assigning
    <2>4. Others(t) /\ (calls' = calls \/ calls' = calls + 1)
      BY <1>1, CallLogDoes
    <2>c. Counted
      BY <1>0, <2>4 DEF Counted
    <2>5. \A u \in Threads : u # t /\ pc[u] = "lock source" => (Made(call[u].self)' => Made(call[u].self))
      BY <2>2, <2>4 DEF CallInv, AboutLoggers, Others
    <2>6. pc'[t] \in Logging => SameRecord(t) \/ NewRecord(t)
      <3>1. call'[t].record.id = calls + 1
        BY <1>1, CallLogDoes
      <3> QED
        BY <1>0, <3>1 DEF NewRecord
    <2>7. pc'[t] = "lock source" => ~Making(call'[t].self)
      BY <1>1, CallLogDoes
    <2> QED
      BY <2>c, <2>2, <2>3, <2>4, <2>5, <2>6, <2>7, CallsKept
  <1>2. ASSUME NEW t \in Threads, CallFlush(t) \/ CallMoveConstruct(t) \/ CallMoveAssign(t) \/ LockForLog(t) \/
               OutOfMemory(t) \/ Flush(t) \/ StreamFails(t) \/ LockBoth(t) \/
               BackOff(t) \/ LockOne(t) \/ LockForFlush(t) \/ WriteRecord(t) \/
               WriteNewline(t)
        PROVE  CallInv'
    <2>1. AboutLoggers(t)
      BY DEF CallInv
    <2>2. \A l \in Loggers : Made(l)' <=> Made(l)
      BY <1>2, CallFlushDoes, CallMoveConstructDoes, CallMoveAssignDoes, LockForLogDoes,
         OutOfMemoryDoes, FlushDoes, StreamFailsDoes, LockBothDoes, BackOffDoes, LockOneDoes,
         LockForFlushDoes, WriteRecordDoes, WriteNewlineDoes DEF Made
    <2>3. AboutLoggers(t)'
      <3>1. CASE CallFlush(t)
        BY <3>1, <2>1, <2>2, CallFlushDoes DEF AboutLoggers, Logging, Assigning
      <3>2. CASE CallMoveConstruct(t)
        BY <3>2, <2>1, <2>2, CallMoveConstructDoes DEF AboutLoggers, Logging, Assigning
      <3>3. CASE CallMoveAssign(t)
        BY <3>3, <2>1, <2>2, CallMoveAssignDoes DEF AboutLoggers, Logging, Assigning
      <3>4. CASE LockForLog(t)
        BY <3>4, <2>1, <2>2, LockForLogDoes DEF AboutLoggers, Logging, Assigning
      <3>5. CASE OutOfMemory(t)
        BY <3>5, <2>1, <2>2, OutOfMemoryDoes DEF AboutLoggers, Logging, Assigning
      <3>6. CASE Flush(t)
        BY <3>6, <2>1, <2>2, FlushDoes DEF AboutLoggers, Logging, Assigning
      <3>7. CASE StreamFails(t)
        BY <3>7, <2>1, <2>2, StreamFailsDoes DEF AboutLoggers, Logging, Assigning
      <3>8. CASE LockBoth(t)
        BY <3>8, <2>1, <2>2, LockBothDoes DEF AboutLoggers, Logging, Assigning
      <3>9. CASE BackOff(t)
        BY <3>9, <2>1, <2>2, BackOffDoes DEF AboutLoggers, Logging, Assigning
      <3>10. CASE LockOne(t)
        BY <3>10, <2>1, <2>2, LockOneDoes DEF AboutLoggers, Logging, Assigning
      <3>11. CASE LockForFlush(t)
        BY <3>11, <2>1, <2>2, LockForFlushDoes DEF AboutLoggers, Logging, Assigning
      <3>12. CASE WriteRecord(t)
        BY <3>12, <2>1, <2>2, WriteRecordDoes DEF AboutLoggers, Logging, Assigning
      <3>13. CASE WriteNewline(t)
        BY <3>13, <2>1, <2>2, WriteNewlineDoes DEF AboutLoggers, Logging, Assigning
      <3> QED
        BY <1>2, <3>1, <3>2, <3>3, <3>4, <3>5, <3>6, <3>7, <3>8, <3>9, <3>10, <3>11, <3>12,
           <3>13
    <2>4. Others(t) /\ (calls' = calls \/ calls' = calls + 1)
      BY <1>2, CallFlushDoes, CallMoveConstructDoes, CallMoveAssignDoes, LockForLogDoes,
         OutOfMemoryDoes, FlushDoes, StreamFailsDoes, LockBothDoes, BackOffDoes, LockOneDoes,
         LockForFlushDoes, WriteRecordDoes, WriteNewlineDoes
    <2>c. Counted
      BY <1>0, <2>4 DEF Counted
    <2>5. \A u \in Threads : u # t /\ pc[u] = "lock source" => (Made(call[u].self)' => Made(call[u].self))
      BY <2>2, <2>4 DEF CallInv, AboutLoggers, Others
    <2>6. pc'[t] \in Logging => SameRecord(t) \/ NewRecord(t)
      <3>1. CASE CallFlush(t)
        BY <3>1, CallFlushDoes DEF Logging, SameRecord
      <3>2. CASE CallMoveConstruct(t)
        BY <3>2, CallMoveConstructDoes DEF Logging, SameRecord
      <3>3. CASE CallMoveAssign(t)
        BY <3>3, CallMoveAssignDoes DEF Logging, SameRecord
      <3>4. CASE LockForLog(t)
        BY <3>4, LockForLogDoes DEF Logging, SameRecord
      <3>5. CASE OutOfMemory(t)
        BY <3>5, OutOfMemoryDoes DEF Logging, SameRecord
      <3>6. CASE Flush(t)
        BY <3>6, FlushDoes DEF Logging, SameRecord
      <3>7. CASE StreamFails(t)
        BY <3>7, StreamFailsDoes DEF Logging, SameRecord
      <3>8. CASE LockBoth(t)
        BY <3>8, LockBothDoes DEF Logging, SameRecord
      <3>9. CASE BackOff(t)
        BY <3>9, BackOffDoes DEF Logging, SameRecord
      <3>10. CASE LockOne(t)
        BY <3>10, LockOneDoes DEF Logging, SameRecord
      <3>11. CASE LockForFlush(t)
        BY <3>11, LockForFlushDoes DEF Logging, SameRecord
      <3>12. CASE WriteRecord(t)
        BY <3>12, WriteRecordDoes DEF Logging, SameRecord
      <3>13. CASE WriteNewline(t)
        BY <3>13, WriteNewlineDoes DEF Logging, SameRecord
      <3> QED
        BY <1>2, <3>1, <3>2, <3>3, <3>4, <3>5, <3>6, <3>7, <3>8, <3>9, <3>10, <3>11, <3>12,
           <3>13
    <2>7. pc'[t] = "lock source" => ~Making(call'[t].self)
      BY <1>2, CallFlushDoes, CallMoveConstructDoes, CallMoveAssignDoes, LockForLogDoes,
         OutOfMemoryDoes, FlushDoes, StreamFailsDoes, LockBothDoes, BackOffDoes, LockOneDoes,
         LockForFlushDoes, WriteRecordDoes, WriteNewlineDoes
    <2> QED
      BY <2>c, <2>2, <2>3, <2>4, <2>5, <2>6, <2>7, CallsKept
  <1>3. ASSUME NEW t \in Threads, Format(t) PROVE  CallInv'
    <2>1. AboutLoggers(t)
      BY DEF CallInv
    <2>2. \A l \in Loggers : Made(l)' <=> Made(l)
      BY <1>3, FormatDoes DEF Made
    <2>3. AboutLoggers(t)'
      BY <1>3, <2>1, <2>2, FormatDoes, RecordOfFacts DEF AboutLoggers, Logging, Assigning
    <2>4. Others(t) /\ (calls' = calls \/ calls' = calls + 1)
      BY <1>3, FormatDoes
    <2>c. Counted
      BY <1>0, <2>4 DEF Counted
    <2>5. \A u \in Threads : u # t /\ pc[u] = "lock source" => (Made(call[u].self)' => Made(call[u].self))
      BY <2>2, <2>4 DEF CallInv, AboutLoggers, Others
    <2>6. pc'[t] \in Logging => SameRecord(t) \/ NewRecord(t)
      <3>1. RecordOf(t).id = call[t].record.id
        BY <1>3, FormatDoes, RecordOfFacts
      <3> QED
        BY <1>3, <3>1, FormatDoes DEF Logging, SameRecord
    <2>7. pc'[t] = "lock source" => ~Making(call'[t].self)
      BY <1>3, FormatDoes
    <2> QED
      BY <2>c, <2>2, <2>3, <2>4, <2>5, <2>6, <2>7, CallsKept
  <1>4. ASSUME NEW t \in Threads, MoveConstruct(t) \/ MoveAssign(t)
        PROVE  CallInv'
    <2>1. call[t].self \in Loggers /\ call[t].other \in Loggers /\ call[t].self # call[t].other
          /\ Made(call[t].other)
      BY <1>4, MoveConstructDoes, MoveAssignDoes DEF CallInv, AboutLoggers, Assigning
    <2>2. /\ logger'[call[t].self] = logger[call[t].other]
          /\ logger'[call[t].other].kind = logger[call[t].other].kind
          /\ \A m \in Loggers \ {call[t].self, call[t].other} : logger'[m] = logger[m]
      <3>1. CASE MoveConstruct(t)
        BY <3>1, <2>1, MoveConstructDoes, Moving
      <3>2. CASE MoveAssign(t)
        BY <3>2, <2>1, MoveAssignDoes, Moving
      <3> QED
        BY <1>4, <3>1, <3>2
    <2>3. \A l \in Loggers : Made(l)' <=> Made(l) \/ l = call[t].self
      BY <2>1, <2>2 DEF Made
    <2>4. ASSUME NEW u \in Threads, u # t, pc[u] = "lock source", Made(call[u].self)'
          PROVE  Made(call[u].self)
      <3>1. call[u].self \in Loggers /\ call'[u] = call[u]
        BY <1>4, <2>4, MoveConstructDoes, MoveAssignDoes DEF Others, CallInv, AboutLoggers
      <3>2. call[u].self # call[t].self \/ Made(call[t].self)
        BY <1>4, <2>4, MoveConstructDoes, MoveAssignDoes DEF CallInv, Distinct, AboutLoggers,
           Assigning
      <3> QED
        BY <2>3, <2>4, <3>1, <3>2
    <2>5. AboutLoggers(t)'
      BY <1>4, MoveConstructDoes, MoveAssignDoes DEF AboutLoggers, Logging, Assigning
    <2>6. Others(t) /\ pc'[t] \notin Logging /\ pc'[t] # "lock source"
      BY <1>4, MoveConstructDoes, MoveAssignDoes DEF Logging
    <2>7. Counted
      <3>1. calls' = calls
        BY <1>4, MoveConstructDoes, MoveAssignDoes
      <3> QED
        BY <1>0, <3>1 DEF Counted
    <2> QED
      BY <2>3, <2>4, <2>5, <2>6, <2>7, CallsKept
  <1>5. ASSUME UNCHANGED vars PROVE CallInv'
    BY <1>5 DEF vars, CallInv, AboutLoggers, Distinct, Made
  <1> QED
    BY <1>1, <1>2, <1>3, <1>4, <1>5 DEF Next, Starts, Logs, Moves


\* Others keep their mutexes while a thread locks free ones and lets go of its own.
LEMMA LocksKept ==
  ASSUME CallInv, LockInv, NEW t \in Threads, Others(t), Holding(t)',
         \A l \in Loggers, u \in Threads : u # t /\ mu[l] = u => mu'[l] = u
  PROVE  LockInv'
  <1>1. ASSUME NEW u \in Threads, u # t PROVE Holding(u)'
    <2>1. pc'[u] = pc[u] /\ call'[u] = call[u] /\ AboutLoggers(u) /\ Holding(u)
      BY <1>1 DEF Others, CallInv, LockInv
    <2> QED
      BY <1>1, <2>1 DEF Holding, AboutLoggers, Logging, Assigning
  <1> QED
    BY <1>1 DEF LockInv

\* Only free mutexes are locked.
LEMMA LockedFree ==
  ASSUME NEW t \in Threads, NEW x, mu[x] = NoThread, Locked(t, x)
  PROVE  \A l \in Loggers, u \in Threads : u # t /\ mu[l] = u => mu'[l] = u
  <1>1. NoThread \notin Threads
    BY LoggerAssumption
  <1> QED
    BY <1>1 DEF Locked

\* Every step keeps the mutexes with the threads that locked them.
LEMMA LockStep == TypeOK /\ CallInv /\ LockInv /\ [Next]_vars => LockInv'
  <1> SUFFICES ASSUME TypeOK /\ CallInv /\ LockInv, [Next]_vars PROVE LockInv'
    OBVIOUS
  <1>0. NoThread \notin Threads
    BY LoggerAssumption
  <1>1. ASSUME NEW t \in Threads, CallLog(t) \/ CallFlush(t) \/ CallMoveConstruct(t) \/ CallMoveAssign(t) \/
               OutOfMemory(t) \/ Flush(t) \/ StreamFails(t) \/ BackOff(t) \/
               Format(t) \/ WriteRecord(t) \/ WriteNewline(t) \/
               MoveConstruct(t) \/ MoveAssign(t)
        PROVE  LockInv'
    <2>1. Holding(t) /\ mu \in [Loggers -> Threads \cup {NoThread}]
      BY Types DEF LockInv
    <2>2. Others(t) /\ Holding(t)'
      <3>1. CASE CallLog(t)
        BY <3>1, <2>1, CallLogDoes DEF Holding
      <3>2. CASE CallFlush(t)
        BY <3>2, <2>1, CallFlushDoes DEF Holding
      <3>3. CASE CallMoveConstruct(t)
        BY <3>3, <2>1, CallMoveConstructDoes DEF Holding
      <3>4. CASE CallMoveAssign(t)
        BY <3>4, <2>1, CallMoveAssignDoes DEF Holding
      <3>5. CASE OutOfMemory(t)
        BY <3>5, <2>1, OutOfMemoryDoes DEF Holding
      <3>6. CASE Flush(t)
        BY <3>6, <2>1, FlushDoes DEF Holding
      <3>7. CASE StreamFails(t)
        BY <3>7, <2>1, StreamFailsDoes DEF Holding
      <3>8. CASE BackOff(t)
        BY <3>8, <2>1, BackOffDoes DEF Holding
      <3>9. CASE Format(t)
        BY <3>9, <2>1, FormatDoes DEF Holding
      <3>10. CASE WriteRecord(t)
        BY <3>10, <2>1, WriteRecordDoes DEF Holding
      <3>11. CASE WriteNewline(t)
        BY <3>11, <2>1, WriteNewlineDoes DEF Holding
      <3>12. CASE MoveConstruct(t)
        BY <3>12, <2>1, MoveConstructDoes DEF Holding
      <3>13. CASE MoveAssign(t)
        BY <3>13, <2>1, MoveAssignDoes DEF Holding
      <3> QED
        BY <1>1, <3>1, <3>2, <3>3, <3>4, <3>5, <3>6, <3>7, <3>8, <3>9, <3>10, <3>11, <3>12,
           <3>13
    <2>3. \A l \in Loggers, u \in Threads : u # t /\ mu[l] = u => mu'[l] = u
      <3>1. CASE CallLog(t)
        BY <3>1, <1>0, <2>1, CallLogDoes DEF Holding
      <3>2. CASE CallFlush(t)
        BY <3>2, <1>0, <2>1, CallFlushDoes DEF Holding
      <3>3. CASE CallMoveConstruct(t)
        BY <3>3, <1>0, <2>1, CallMoveConstructDoes DEF Holding
      <3>4. CASE CallMoveAssign(t)
        BY <3>4, <1>0, <2>1, CallMoveAssignDoes DEF Holding
      <3>5. CASE OutOfMemory(t)
        BY <3>5, <1>0, <2>1, OutOfMemoryDoes DEF Holding
      <3>6. CASE Flush(t)
        BY <3>6, <1>0, <2>1, FlushDoes DEF Holding
      <3>7. CASE StreamFails(t)
        BY <3>7, <1>0, <2>1, StreamFailsDoes DEF Holding
      <3>8. CASE BackOff(t)
        BY <3>8, <1>0, <2>1, BackOffDoes DEF Holding
      <3>9. CASE Format(t)
        BY <3>9, <1>0, <2>1, FormatDoes DEF Holding
      <3>10. CASE WriteRecord(t)
        BY <3>10, <1>0, <2>1, WriteRecordDoes DEF Holding
      <3>11. CASE WriteNewline(t)
        BY <3>11, <1>0, <2>1, WriteNewlineDoes DEF Holding
      <3>12. CASE MoveConstruct(t)
        BY <3>12, <1>0, <2>1, MoveConstructDoes DEF Holding
      <3>13. CASE MoveAssign(t)
        BY <3>13, <1>0, <2>1, MoveAssignDoes DEF Holding
      <3> QED
        BY <1>1, <3>1, <3>2, <3>3, <3>4, <3>5, <3>6, <3>7, <3>8, <3>9, <3>10, <3>11, <3>12,
           <3>13
    <2> QED
      BY <2>2, <2>3, LocksKept
  <1>2. ASSUME NEW t \in Threads, LockForLog(t) PROVE  LockInv'
    <2>1. Holding(t) /\ mu \in [Loggers -> Threads \cup {NoThread}]
      BY Types DEF LockInv
    <2>2. Others(t) /\ Holding(t)'
      BY <1>2, <2>1, LockForLogDoes DEF Holding, Locked
    <2>3. \A l \in Loggers, u \in Threads : u # t /\ mu[l] = u => mu'[l] = u
      <3>1. mu[call[t].self] = NoThread /\ Locked(t, call[t].self)
        BY <1>2, LockForLogDoes
      <3> QED
        BY <3>1, LockedFree
    <2> QED
      BY <2>2, <2>3, LocksKept
  <1>3. ASSUME NEW t \in Threads, LockBoth(t) PROVE  LockInv'
    <2>1. Holding(t) /\ mu \in [Loggers -> Threads \cup {NoThread}]
      BY Types DEF LockInv
    <2>2. Others(t) /\ Holding(t)'
      <3>1. pc[t] = "lock both" /\ pc'[t] = "assign" /\ call'[t] = call[t] /\ Others(t) /\ Locked(t, Second(t))
        BY <1>3, LockBothDoes
      <3>2. call[t].self \in Loggers /\ call[t].other \in Loggers /\ call[t].self # call[t].other
        BY <3>1, About DEF Assigning
      <3>3. mu[call[t].first] = t /\ call[t].first \in {call[t].self, call[t].other}
        BY <2>1, <3>1 DEF Holding
      <3>4. mu'[call[t].self] = t /\ mu'[call[t].other] = t
        BY <3>1, <3>2, <3>3 DEF Locked, Second
      <3> QED
        BY <3>1, <3>4 DEF Holding
    <2>3. \A l \in Loggers, u \in Threads : u # t /\ mu[l] = u => mu'[l] = u
      <3>1. mu[Second(t)] = NoThread /\ Locked(t, Second(t))
        BY <1>3, LockBothDoes
      <3> QED
        BY <3>1, LockedFree
    <2> QED
      BY <2>2, <2>3, LocksKept
  <1>4. ASSUME NEW t \in Threads, LockOne(t) PROVE  LockInv'
    <2>1. Holding(t) /\ mu \in [Loggers -> Threads \cup {NoThread}]
      BY Types DEF LockInv
    <2>2. Others(t) /\ Holding(t)'
      BY <1>4, <2>1, LockOneDoes DEF Holding, Locked
    <2>3. \A l \in Loggers, u \in Threads : u # t /\ mu[l] = u => mu'[l] = u
      <3>1. mu[call'[t].first] = NoThread /\ Locked(t, call'[t].first)
        BY <1>4, LockOneDoes
      <3> QED
        BY <3>1, LockedFree
    <2> QED
      BY <2>2, <2>3, LocksKept
  <1>5. ASSUME NEW t \in Threads, LockForFlush(t) PROVE  LockInv'
    <2>1. mu \in [Loggers -> Threads \cup {NoThread}] /\ Others(t)
      BY <1>5, LockForFlushDoes, Types
    <2>2. mu[call[t].self] = NoThread /\ (UNCHANGED mu \/ Locked(t, call[t].self))
      BY <1>5, LockForFlushDoes
    <2>3. Holding(t)'
      BY <1>5, LockForFlushDoes DEF Holding, Locked
    <2>4. \A l \in Loggers, u \in Threads : u # t /\ mu[l] = u => mu'[l] = u
      BY <2>2, LockedFree
    <2> QED
      BY <2>1, <2>3, <2>4, LocksKept
  <1>6. ASSUME UNCHANGED vars PROVE LockInv'
    BY <1>6 DEF vars, LockInv, Holding
  <1> QED
    BY <1>1, <1>2, <1>3, <1>4, <1>5, <1>6 DEF Next, Starts, Logs, Moves

\* A stream goes along with the members, to one logger.
LEMMA StreamsKept ==
  ASSUME TypeOK, StreamInv, NEW l \in Loggers, NEW k \in Loggers, l # k, Handed(l, k)
  PROVE  StreamInv'
  <1>1. /\ logger'[l] = logger[k] /\ logger'[k].out = Null /\ logger'[k].err = Null
        /\ \A m \in Loggers \ {l, k} : logger'[m] = logger[m]
    BY Moving
  <1>2. ASSUME NEW m \in Loggers PROVE StreamsOf(m)'
    <2>1. CASE m = k
      BY <1>1, <2>1 DEF StreamsOf
    <2>2. CASE m # k
      <3>1. logger'[m] = IF m = l THEN logger[k] ELSE logger[m]
        BY <1>1, <2>2
      <3>2. StreamsOf(m) /\ StreamsOf(k)
        BY DEF StreamInv
      <3> QED
        BY <3>1, <3>2 DEF StreamsOf
    <2> QED
      BY <2>1, <2>2
  <1>3. ASSUME NEW m \in Loggers, NEW n \in Loggers, m # n PROVE Apart(m, n)'
    <2>1. CASE m = k \/ n = k
      BY <1>1, <2>1 DEF Apart
    <2>2. CASE m # k /\ n # k
      <3>1. logger'[m] = IF m = l THEN logger[k] ELSE logger[m]
        BY <1>1, <2>2
      <3>2. logger'[n] = IF n = l THEN logger[k] ELSE logger[n]
        BY <1>1, <2>2
      <3>3. Apart(m, n) /\ Apart(k, n) /\ Apart(m, k)
        BY <1>3, <2>2 DEF StreamInv
      <3> QED
        BY <1>3, <3>1, <3>2, <3>3 DEF Apart
    <2> QED
      BY <2>1, <2>2
  <1> QED
    BY <1>2, <1>3 DEF StreamInv

\* Every step keeps each stream with one logger.
LEMMA StreamStep == TypeOK /\ CallInv /\ StreamInv /\ [Next]_vars => StreamInv'
  <1> SUFFICES ASSUME TypeOK /\ CallInv /\ StreamInv, [Next]_vars PROVE StreamInv'
    OBVIOUS
  <1>1. ASSUME NEW t \in Threads, CallLog(t) \/ CallFlush(t) \/ CallMoveConstruct(t) \/ CallMoveAssign(t) \/
               LockForLog(t) \/ OutOfMemory(t) \/ Flush(t) \/ StreamFails(t) \/
               LockBoth(t) \/ BackOff(t) \/ LockOne(t) \/ LockForFlush(t) \/
               Format(t) \/ WriteRecord(t) \/ WriteNewline(t)
        PROVE  StreamInv'
    <2>1. logger' = logger
      BY <1>1, CallLogDoes, CallFlushDoes, CallMoveConstructDoes, CallMoveAssignDoes,
         LockForLogDoes, OutOfMemoryDoes, FlushDoes, StreamFailsDoes, LockBothDoes, BackOffDoes,
         LockOneDoes, LockForFlushDoes, FormatDoes, WriteRecordDoes, WriteNewlineDoes
    <2> QED
      BY <2>1 DEF StreamInv, StreamsOf, Apart
  <1>2. ASSUME NEW t \in Threads, MoveConstruct(t) \/ MoveAssign(t)
        PROVE  StreamInv'
    <2>1. call[t].self \in Loggers /\ call[t].other \in Loggers /\ call[t].self # call[t].other
          /\ Handed(call[t].self, call[t].other)
      BY <1>2, MoveConstructDoes, MoveAssignDoes
    <2> QED
      BY <2>1, StreamsKept
  <1>3. ASSUME UNCHANGED vars PROVE StreamInv'
    BY <1>3 DEF vars, StreamInv, StreamsOf, Apart
  <1> QED
    BY <1>1, <1>2, <1>3 DEF Next, Starts, Logs, Moves

\* A thread at its stream stays there while others leave its logger and its buffer
\* alone.
LEMMA InsideKept ==
  ASSUME CallInv, InsideInv, NEW t \in Threads, Others(t), AtItsStream(t)',
         \A u \in Threads : u # t /\ Inside(u) =>
            /\ logger'[call[u].self] = logger[call[u].self]
            /\ record_'[call[u].self] = record_[call[u].self]
  PROVE  InsideInv'
  <1>1. ASSUME NEW u \in Threads, u # t PROVE AtItsStream(u)'
    <2>1. pc'[u] = pc[u] /\ call'[u] = call[u] /\ AtItsStream(u)
      BY <1>1 DEF Others, InsideInv
    <2>2. Inside(u)' <=> Inside(u)
      BY <2>1 DEF Inside
    <2>3. CASE ~Inside(u)
      BY <2>1, <2>2, <2>3 DEF AtItsStream, Inside
    <2>4. CASE Inside(u)
      <3>1. /\ logger'[call[u].self] = logger[call[u].self]
            /\ record_'[call[u].self] = record_[call[u].self]
        BY <1>1, <2>4
      <3> QED
        BY <2>1, <2>2, <3>1 DEF AtItsStream
    <2> QED
      BY <2>3, <2>4
  <1> QED
    BY <1>1 DEF InsideInv

\* A thread at a stream holds the mutex of its logger.
LEMMA InsideHolds ==
  ASSUME CallInv, LockInv, NEW u \in Threads, Inside(u)
  PROVE  call[u].self \in Loggers /\ Made(call[u].self) /\ mu[call[u].self] = u
  BY DEF CallInv, AboutLoggers, LockInv, Holding, Inside, Logging, Assigning

\* Every step keeps threads that write at the stream of their logger.
LEMMA InsideStep == TypeOK /\ CallInv /\ LockInv /\ InsideInv /\ [Next]_vars => InsideInv'
  <1> SUFFICES ASSUME TypeOK /\ CallInv /\ LockInv /\ InsideInv, [Next]_vars PROVE InsideInv'
    OBVIOUS
  <1>1. ASSUME NEW t \in Threads, CallLog(t) \/ CallFlush(t) \/ CallMoveConstruct(t) \/ CallMoveAssign(t) \/
               LockForLog(t) \/ OutOfMemory(t) \/ Flush(t) \/ StreamFails(t) \/
               LockBoth(t) \/ BackOff(t) \/ LockOne(t) \/ WriteNewline(t)
        PROVE  InsideInv'
    <2>1. Others(t) /\ pc'[t] \notin {"write", "end line", "flush"}
      <3>1. CASE CallLog(t)
        BY <3>1, CallLogDoes
      <3>2. CASE CallFlush(t)
        BY <3>2, CallFlushDoes
      <3>3. CASE CallMoveConstruct(t)
        BY <3>3, CallMoveConstructDoes
      <3>4. CASE CallMoveAssign(t)
        BY <3>4, CallMoveAssignDoes
      <3>5. CASE LockForLog(t)
        BY <3>5, LockForLogDoes
      <3>6. CASE OutOfMemory(t)
        BY <3>6, OutOfMemoryDoes
      <3>7. CASE Flush(t)
        BY <3>7, FlushDoes
      <3>8. CASE StreamFails(t)
        BY <3>8, StreamFailsDoes
      <3>9. CASE LockBoth(t)
        BY <3>9, LockBothDoes
      <3>10. CASE BackOff(t)
        BY <3>10, BackOffDoes
      <3>11. CASE LockOne(t)
        BY <3>11, LockOneDoes
      <3>12. CASE WriteNewline(t)
        BY <3>12, WriteNewlineDoes
      <3> QED
        BY <1>1, <3>1, <3>2, <3>3, <3>4, <3>5, <3>6, <3>7, <3>8, <3>9, <3>10, <3>11, <3>12
    <2>2. AtItsStream(t)'
      BY <2>1 DEF AtItsStream, Inside
    <2>3. logger' = logger /\ record_' = record_
      BY <1>1, CallLogDoes, CallFlushDoes, CallMoveConstructDoes, CallMoveAssignDoes,
         LockForLogDoes, OutOfMemoryDoes, FlushDoes, StreamFailsDoes, LockBothDoes, BackOffDoes,
         LockOneDoes, WriteNewlineDoes
    <2> QED
      BY <2>1, <2>2, <2>3, InsideKept
  <1>2. ASSUME NEW t \in Threads, LockForFlush(t) PROVE  InsideInv'
    <2>1. Others(t) /\ logger' = logger /\ record_' = record_
      BY <1>2, LockForFlushDoes
    <2>2. AtItsStream(t)'
      BY <1>2, <2>1, LockForFlushDoes DEF AtItsStream, Inside
    <2> QED
      BY <2>1, <2>2, InsideKept
  <1>3. ASSUME NEW t \in Threads, Format(t) PROVE  InsideInv'
    <2>1. Others(t) /\ logger' = logger /\ pc[t] = "format"
          /\ call[t].self \in Loggers /\ call[t].record \in Record
      BY <1>3, FormatDoes
    <2>2. mu[call[t].self] = t
      BY <2>1 DEF LockInv, Holding
    <2>3. \A l \in Loggers : l # call[t].self => record_'[l] = record_[l]
      BY <1>3, FormatDoes, Types
    <2>4. \A u \in Threads : u # t /\ Inside(u) => call[u].self \in Loggers /\ call[u].self # call[t].self
      BY <2>2, InsideHolds
    <2>5. AtItsStream(t)'
      <3>1. CASE pc'[t] = "idle"
        BY <3>1 DEF AtItsStream, Inside
      <3>2. CASE pc'[t] # "idle"
        <4> DEFINE m == logger[call[t].self]
        <4>1. /\ pc'[t] = "write" /\ call'[t].self = call[t].self
              /\ call'[t].stream = StreamOf(t) /\ call'[t].record = RecordOf(t)
              /\ ~dropped(m, call[t].record.level, StreamOf(t))
              /\ record_' = IF m.kind = "stdio"
                            THEN [record_ EXCEPT ![call[t].self] = RecordOf(t)] ELSE record_
          BY <1>3, <3>2, FormatDoes
        <4>2. StreamOf(t) # Null /\ ~Filtered(m, call[t].record.level, StreamOf(t))
          BY <4>1 DEF dropped
        <4>3. /\ StreamOf(t) \in {m.out, m.err}
              /\ StreamOf(t) = stream_for_level(call[t].record.level, m.out, m.err)
          BY <2>1, StreamOfType DEF StreamOf
        <4>4. m.kind = "stdio" => record_'[call[t].self] = RecordOf(t)
          BY <2>1, <4>1, Types
        <4>5. /\ RecordOf(t).level = call[t].record.level
              /\ RecordOf(t).colored = (m.kind = "stdio" /\ should_colorize(m.color, StreamOf(t)))
          BY <2>1, RecordOfFacts
        <4> HIDE DEF m
        <4>6. logger'[call'[t].self] = m
          BY <2>1, <4>1 DEF m
        <4> QED
          BY <4>1, <4>2, <4>3, <4>4, <4>5, <4>6, Zenon DEF AtItsStream, Inside
      <3> QED
        BY <3>1, <3>2
    <2> QED
      BY <2>1, <2>3, <2>4, <2>5, InsideKept
  <1>4. ASSUME NEW t \in Threads, WriteRecord(t) PROVE  InsideInv'
    <2>1. Others(t) /\ pc[t] = "write" /\ pc'[t] = "end line" /\ call'[t] = call[t]
          /\ logger' = logger /\ record_' = record_
      BY <1>4, WriteRecordDoes
    <2>2. AtItsStream(t)'
      BY <2>1 DEF AtItsStream, InsideInv, Inside
    <2> QED
      BY <2>1, <2>2, InsideKept
  <1>5. ASSUME NEW t \in Threads, MoveConstruct(t) PROVE  InsideInv'
    <2>1. Others(t) /\ pc'[t] \notin {"write", "end line", "flush"}
          /\ call[t].self \in Loggers /\ call[t].other \in Loggers /\ call[t].self # call[t].other
          /\ Handed(call[t].self, call[t].other)
      BY <1>5, MoveConstructDoes
    <2>2. AtItsStream(t)'
      BY <2>1 DEF AtItsStream, Inside
    <2>3. /\ \A m \in Loggers \ {call[t].self, call[t].other} : logger'[m] = logger[m]
          /\ \A m \in Loggers \ {call[t].self} : record_'[m] = record_[m]
      <3>1. \A m \in Loggers \ {call[t].self, call[t].other} : logger'[m] = logger[m]
        BY <2>1, Moving
      <3>2. \A m \in Loggers \ {call[t].self} : record_'[m] = record_[m]
        BY <1>5, MoveConstructDoes, Types
      <3> QED
        BY <3>1, <3>2
    <2>4. ASSUME NEW u \in Threads, u # t, Inside(u)
          PROVE  call[u].self \in Loggers \ {call[t].self, call[t].other}
      <3> DEFINE Own == mu[call[u].self] = u /\ Made(call[u].self)
      <3>0. call[u].self \in Loggers /\ Own
        BY <2>4, InsideHolds
      <3>1. mu[call[t].other] = NoThread
        BY <1>5, MoveConstructDoes
      <3>2. NoThread \notin Threads
        BY LoggerAssumption
      <3>3. ~Made(call[t].self)
        BY <1>5, MoveConstructDoes DEF CallInv, AboutLoggers
      <3> QED
        BY <2>4, <3>0, <3>1, <3>2, <3>3
    <2> QED
      BY <2>1, <2>2, <2>3, <2>4, InsideKept
  <1>6. ASSUME NEW t \in Threads, MoveAssign(t) PROVE  InsideInv'
    <2>1. Others(t) /\ pc'[t] \notin {"write", "end line", "flush"}
          /\ call[t].self \in Loggers /\ call[t].other \in Loggers /\ call[t].self # call[t].other
          /\ Handed(call[t].self, call[t].other)
      BY <1>6, MoveAssignDoes
    <2>2. AtItsStream(t)'
      BY <2>1 DEF AtItsStream, Inside
    <2>3. /\ \A m \in Loggers \ {call[t].self, call[t].other} : logger'[m] = logger[m]
          /\ \A m \in Loggers \ {call[t].self} : record_'[m] = record_[m]
      <3>1. \A m \in Loggers \ {call[t].self, call[t].other} : logger'[m] = logger[m]
        BY <2>1, Moving
      <3>2. \A m \in Loggers \ {call[t].self} : record_'[m] = record_[m]
        BY <1>6, MoveAssignDoes, Types
      <3> QED
        BY <3>1, <3>2
    <2>4. ASSUME NEW u \in Threads, u # t, Inside(u)
          PROVE  call[u].self \in Loggers \ {call[t].self, call[t].other}
      <3> DEFINE Own == mu[call[u].self] = u /\ Made(call[u].self)
      <3>0. call[u].self \in Loggers /\ Own
        BY <2>4, InsideHolds
      <3>1. mu[call[t].self] = t /\ mu[call[t].other] = t
        BY <1>6, MoveAssignDoes DEF LockInv, Holding
      <3> QED
        BY <2>4, <3>0, <3>1
    <2> QED
      BY <2>1, <2>2, <2>3, <2>4, InsideKept
  <1>7. ASSUME UNCHANGED vars PROVE InsideInv'
    BY <1>7 DEF vars, InsideInv, AtItsStream, Inside
  <1> QED
    BY <1>1, <1>2, <1>3, <1>4, <1>5, <1>6, <1>7 DEF Next, Starts, Logs, Moves

\* A stream with two threads in it would be with two loggers, or a mutex with two
\* threads.
LEMMA Serialized ==
  ASSUME CallInv, LockInv, StreamInv, InsideInv
  PROVE  SinksAreSerialized
  <1> SUFFICES ASSUME NEW t \in Threads, NEW u \in Threads, t # u, Inside(t), Inside(u),
                      call[t].stream = call[u].stream
               PROVE  FALSE
    BY DEF SinksAreSerialized
  <1>1. /\ call[t].self \in Loggers /\ mu[call[t].self] = t
        /\ call[u].self \in Loggers /\ mu[call[u].self] = u
    BY InsideHolds
  <1>2. call[t].self # call[u].self
    BY <1>1
  <1>3. /\ call[t].stream # Null
        /\ call[t].stream \in {logger[call[t].self].out, logger[call[t].self].err}
        /\ call[u].stream \in {logger[call[u].self].out, logger[call[u].self].err}
    BY DEF InsideInv, AtItsStream
  <1>4. Apart(call[t].self, call[u].self)
    BY <1>1, <1>2 DEF StreamInv
  <1> QED
    BY <1>3, <1>4 DEF Apart

-----------------------------------------------------------------------------
(* What is in the streams *)

LEMMA Parity ==
    \A n \in Nat : n % 2 \in {0, 1} /\ (n % 2 = 1 <=> ~((n + 1) % 2 = 1))
  OBVIOUS

LEMMA Below == \A n \in Nat : \A i \in 1..(n + 1) : i = n + 1 \/ i \in 1..n
  OBVIOUS

\* What is in a stream after a write was there before, or is what was written.
LEMMA Pieces ==
  ASSUME TypeOK, NEW s \in Streams, NEW piece \in Piece, Write(s, piece), s \notin broken
  PROVE  /\ Len(output[s]) \in Nat /\ Len(output'[s]) = Len(output[s]) + 1
         /\ \A i \in 1..Len(output[s]) : output'[s][i] = output[s][i]
         /\ output'[s][Len(output[s]) + 1] = piece
         /\ \A r \in Streams : r # s => output'[r] = output[r]
  <1>1. output[s] \in Seq(Piece)
    BY Types
  <1>2. output'[s] = Append(output[s], piece) /\ \A r \in Streams : r # s => output'[r] = output[r]
    BY Writing
  <1> QED
    BY <1>1, <1>2

\* Lines are kept while a thread leaves the streams that work alone.
LEMMA LinesKept ==
  ASSUME LineInv, UNCHANGED output, broken \subseteq broken', NEW t \in Threads, Others(t),
         \A s \in Streams \ broken' : Ends(t, s)' <=> Ends(t, s)
  PROVE  LineInv'
  <1>1. ASSUME NEW s \in Streams \ broken', NEW u \in Threads PROVE Ends(u, s)' <=> Ends(u, s)
    BY <1>1 DEF Ends, Others
  <1>2. \A s \in Streams : Whole(s)'
    BY DEF LineInv, Whole
  <1> QED
    BY <1>1, <1>2 DEF LineInv

\* Lines are kept when the thread that is in a stream writes to it.
LEMMA LinesGrow ==
  ASSUME TypeOK, LineInv, SinksAreSerialized, UNCHANGED broken,
         NEW t \in Threads, Others(t), Inside(t),
         NEW s \in Streams, call[t].stream = s, s \notin broken,
         NEW piece \in Piece, Write(s, piece),
         \/ pc[t] = "write" /\ piece.text = TRUE /\ Ends(t, s)'
         \/ pc[t] = "end line" /\ piece.text = FALSE /\ pc'[t] = "idle"
  PROVE  LineInv'
  <1>1. ASSUME NEW u \in Threads, u # t PROVE ~Ends(u, s) /\ ~Ends(u, s)'
    BY <1>1 DEF Ends, Others, SinksAreSerialized, Inside
  <1>2. (\E u \in Threads : Ends(u, s)) <=> pc[t] = "end line"
    BY <1>1 DEF Ends
  <1>3. (\E u \in Threads : Ends(u, s)') <=> pc[t] = "write"
    BY <1>1 DEF Ends
  <1> DEFINE n == Len(output[s])
  <1>4. /\ n \in Nat /\ Len(output'[s]) = n + 1
        /\ \A i \in 1..n : output'[s][i] = output[s][i]
        /\ output'[s][n + 1] = piece
        /\ \A r \in Streams : r # s => output'[r] = output[r]
    BY Pieces
  <1>5. Whole(s) /\ (n % 2 = 1 <=> pc[t] = "end line")
    BY <1>2 DEF LineInv
  <1> HIDE DEF n
  <1>6. (n + 1) % 2 = 1 <=> pc[t] = "write"
    BY <1>4, <1>5, Parity
  <1>7. Whole(s)'
    <2> SUFFICES ASSUME NEW i \in 1..(n + 1) PROVE output'[s][i].text <=> i % 2 = 1
      BY <1>4 DEF Whole
    <2>1. CASE i = n + 1
      BY <1>4, <1>6, <2>1
    <2>2. CASE i # n + 1
      <3>1. i \in 1..n
        BY <1>4, <2>2, Below, Zenon
      <3> QED
        BY <1>4, <1>5, <3>1 DEF Whole, n
    <2> QED
      BY <2>1, <2>2
  <1>8. ASSUME NEW r \in Streams, r # s
        PROVE  /\ Whole(r)'
               /\ r \notin broken => (Len(output'[r]) % 2 = 1 <=> \E u \in Threads : Ends(u, r)')
    <2>1. output'[r] = output[r]
      BY <1>4, <1>8
    <2>2. Whole(r)'
      BY <2>1 DEF LineInv, Whole
    <2>3. \A u \in Threads : Ends(u, r)' <=> Ends(u, r)
      BY <1>8 DEF Ends, Others
    <2> QED
      BY <2>1, <2>2, <2>3 DEF LineInv
  <1> QED
    BY <1>3, <1>4, <1>6, <1>7, <1>8 DEF LineInv

\* Every step keeps lines whole.
LEMMA LineStep ==
    TypeOK /\ CallInv /\ LockInv /\ StreamInv /\ InsideInv /\ LineInv /\ [Next]_vars => LineInv'
  <1> SUFFICES ASSUME TypeOK /\ CallInv /\ LockInv /\ StreamInv /\ InsideInv /\ LineInv, [Next]_vars
               PROVE LineInv'
    OBVIOUS
  <1>1. ASSUME NEW t \in Threads, CallLog(t) \/ CallFlush(t) \/ CallMoveConstruct(t) \/ CallMoveAssign(t) \/
               LockForLog(t) \/ OutOfMemory(t) \/ Flush(t) \/ LockBoth(t) \/
               BackOff(t) \/ LockOne(t) \/ LockForFlush(t) \/ Format(t) \/
               MoveConstruct(t) \/ MoveAssign(t)
        PROVE  LineInv'
    <2>1. Others(t) /\ pc[t] # "end line" /\ pc'[t] # "end line"
      <3>1. CASE CallLog(t)
        BY <3>1, CallLogDoes
      <3>2. CASE CallFlush(t)
        BY <3>2, CallFlushDoes
      <3>3. CASE CallMoveConstruct(t)
        BY <3>3, CallMoveConstructDoes
      <3>4. CASE CallMoveAssign(t)
        BY <3>4, CallMoveAssignDoes
      <3>5. CASE LockForLog(t)
        BY <3>5, LockForLogDoes
      <3>6. CASE OutOfMemory(t)
        BY <3>6, OutOfMemoryDoes
      <3>7. CASE Flush(t)
        BY <3>7, FlushDoes
      <3>8. CASE LockBoth(t)
        BY <3>8, LockBothDoes
      <3>9. CASE BackOff(t)
        BY <3>9, BackOffDoes
      <3>10. CASE LockOne(t)
        BY <3>10, LockOneDoes
      <3>11. CASE LockForFlush(t)
        BY <3>11, LockForFlushDoes
      <3>12. CASE Format(t)
        BY <3>12, FormatDoes
      <3>13. CASE MoveConstruct(t)
        BY <3>13, MoveConstructDoes
      <3>14. CASE MoveAssign(t)
        BY <3>14, MoveAssignDoes
      <3> QED
        BY <1>1, <3>1, <3>2, <3>3, <3>4, <3>5, <3>6, <3>7, <3>8, <3>9, <3>10, <3>11, <3>12,
           <3>13, <3>14
    <2>2. UNCHANGED output /\ broken \subseteq broken'
      BY <1>1, CallLogDoes, CallFlushDoes, CallMoveConstructDoes, CallMoveAssignDoes,
         LockForLogDoes, OutOfMemoryDoes, FlushDoes, LockBothDoes, BackOffDoes, LockOneDoes,
         LockForFlushDoes, FormatDoes, MoveConstructDoes, MoveAssignDoes
    <2> QED
      BY <2>1, <2>2, LinesKept DEF Ends
  <1>2. ASSUME NEW t \in Threads, StreamFails(t) PROVE  LineInv'
    <2>1. Others(t) /\ pc'[t] = "idle" /\ UNCHANGED output /\ broken' = broken \cup {call[t].stream}
      BY <1>2, StreamFailsDoes
    <2> QED
      BY <2>1, LinesKept DEF Ends
  <1>3. ASSUME NEW t \in Threads, WriteRecord(t) PROVE  LineInv'
    <2> DEFINE s == call[t].stream
               piece == [text |-> TRUE,
                         of |-> IF logger[call[t].self].kind = "stdio"
                                THEN record_[call[t].self] ELSE call[t].record]
    <2>1. /\ Others(t) /\ UNCHANGED broken /\ call[t].self \in Loggers /\ Write(s, piece)
          /\ pc[t] = "write" /\ pc'[t] = "end line" /\ call'[t] = call[t]
      BY <1>3, WriteRecordDoes
    <2>2. Inside(t)
      BY <2>1 DEF Inside
    <2>3. s \in Streams
      BY <2>2, Types DEF InsideInv, AtItsStream, CallType
    <2>4. piece \in Piece /\ piece.text = TRUE
      BY <2>1, Types DEF Piece, CallType
    <2> HIDE DEF piece
    <2>5. SinksAreSerialized
      BY Serialized
    <2>6. CASE s \in broken
      <3>1. UNCHANGED output
        BY <2>1, <2>6 DEF Write
      <3>2. \A r \in Streams \ broken : ~Ends(t, r) /\ ~Ends(t, r)'
        BY <2>1, <2>6 DEF Ends
      <3> QED
        BY <2>1, <3>1, <3>2, LinesKept
    <2>7. CASE s \notin broken
      BY <2>1, <2>2, <2>3, <2>4, <2>5, <2>7, LinesGrow DEF Ends
    <2> QED
      BY <2>6, <2>7
  <1>4. ASSUME NEW t \in Threads, WriteNewline(t) PROVE  LineInv'
    <2> DEFINE s == call[t].stream
               piece == Newline
    <2>1. /\ Others(t) /\ UNCHANGED broken /\ call[t].self \in Loggers /\ Write(s, piece)
          /\ pc[t] = "end line" /\ pc'[t] = "idle"
      BY <1>4, WriteNewlineDoes
    <2>2. Inside(t)
      BY <2>1 DEF Inside
    <2>3. s \in Streams
      BY <2>2, Types DEF InsideInv, AtItsStream, CallType
    <2>4. piece \in Piece /\ piece.text = FALSE
      BY <2>1, Types DEF Piece, Newline
    <2> HIDE DEF piece
    <2>5. SinksAreSerialized
      BY Serialized
    <2>6. CASE s \in broken
      <3>1. UNCHANGED output
        BY <2>1, <2>6 DEF Write
      <3>2. \A r \in Streams \ broken : ~Ends(t, r) /\ ~Ends(t, r)'
        BY <2>1, <2>6 DEF Ends
      <3> QED
        BY <2>1, <3>1, <3>2, LinesKept
    <2>7. CASE s \notin broken
      BY <2>1, <2>2, <2>3, <2>4, <2>5, <2>7, LinesGrow DEF Ends
    <2> QED
      BY <2>6, <2>7
  <1>5. ASSUME UNCHANGED vars PROVE LineInv'
    BY <1>5 DEF vars, LineInv, Whole, Ends
  <1> QED
    BY <1>1, <1>2, <1>3, <1>4, <1>5 DEF Next, Starts, Logs, Moves

\* No record is written: those in the streams were there before.
SameTexts ==
    \A s \in Streams : \A i \in 1..Len(output'[s]) :
        output'[s][i].text => i \in 1..Len(output[s]) /\ output'[s][i] = output[s][i]

LEMMA NoText ==
  ASSUME TypeOK, NEW s \in Streams, NEW piece \in Piece, piece.text = FALSE, Write(s, piece)
  PROVE  SameTexts
  <1>1. CASE s \in broken
    BY <1>1 DEF SameTexts, Write
  <1>2. CASE s \notin broken
    <2> SUFFICES ASSUME NEW r \in Streams, NEW i \in 1..Len(output'[r]), output'[r][i].text
                 PROVE  i \in 1..Len(output[r]) /\ output'[r][i] = output[r][i]
      BY DEF SameTexts
    <2>1. CASE r # s
      BY <1>2, <2>1, Pieces
    <2>2. CASE r = s
      <3> DEFINE n == Len(output[s])
      <3>1. /\ n \in Nat /\ Len(output'[s]) = n + 1 /\ output'[s][n + 1] = piece
            /\ \A j \in 1..n : output'[s][j] = output[s][j]
        BY <1>2, Pieces
      <3>2. i \in 1..(n + 1) /\ i # n + 1
        BY <2>2, <3>1
      <3>3. i \in 1..n
        BY <3>1, <3>2, Below, Zenon
      <3> QED
        BY <2>2, <3>1, <3>3
    <2> QED
      BY <2>1, <2>2
  <1> QED
    BY <1>1, <1>2

\* Past after the step.
PastNext(r) ==
    /\ r \in Record /\ r.id =< calls'
    /\ \A t \in Threads : pc'[t] \in Pending => call'[t].record.id # r.id

LEMMA OnceNext ==
    OnceInv' <=> /\ RecordsAppearOnce'
                 /\ \A s \in Streams : \A i \in 1..Len(output'[s]) :
                       output'[s][i].text => PastNext(output'[s][i].of)
  BY Zenon DEF OnceInv, Past, PastNext

\* A record in two places.
Twice(q, i, r, j) ==
    /\ output[q][i].text /\ output[r][j].text /\ output[q][i].of = output[r][j].of
    /\ ~(q = r /\ i = j)

LEMMA AppearOnce ==
    RecordsAppearOnce <=> \A q, r \in Streams : \A i \in 1..Len(output[q]) :
                             \A j \in 1..Len(output[r]) : ~Twice(q, i, r, j)
  BY Zenon DEF RecordsAppearOnce, Twice

LEMMA AppearOnceNext ==
    RecordsAppearOnce' <=> \A q, r \in Streams : \A i \in 1..Len(output'[q]) :
                              \A j \in 1..Len(output'[r]) : ~Twice(q, i, r, j)'
  BY Zenon DEF RecordsAppearOnce, Twice

\* Records stay past while threads go on with calls, or begin new ones.
LEMMA PastKept ==
  ASSUME Counted, NEW t \in Threads, Others(t), NEW r, Past(r),
         pc'[t] \in Pending => (pc[t] \in Pending /\ SameRecord(t)) \/ NewRecord(t)
  PROVE  PastNext(r)
  <1>1. r.id \in Nat /\ r.id =< calls
    BY RecordFacts DEF Past
  <1>2. r.id =< calls'
    BY <1>1, Transitivity, Zenon DEF Counted
  <1>3. ASSUME NEW u \in Threads, pc'[u] \in Pending PROVE call'[u].record.id # r.id
    <2>1. CASE u # t
      BY <1>3, <2>1 DEF Others, Past
    <2>2. CASE u = t
      <3>1. SameRecord(t) /\ pc[t] \in Pending => call'[t].record.id # r.id
        BY DEF SameRecord, Past
      <3>2. NewRecord(t) => call'[t].record.id # r.id
        BY <1>1, Transitivity, Zenon DEF NewRecord, Counted
      <3> QED
        BY <1>3, <2>2, <3>1, <3>2
    <2> QED
      BY <2>1, <2>2
  <1> QED
    BY <1>2, <1>3 DEF Past, PastNext

LEMMA OnceKept ==
  ASSUME OnceInv, SameTexts, Counted, NEW t \in Threads, Others(t),
         pc'[t] \in Pending => (pc[t] \in Pending /\ SameRecord(t)) \/ NewRecord(t)
  PROVE  OnceInv'
  <1>1. ASSUME NEW s \in Streams, NEW i \in 1..Len(output'[s]), output'[s][i].text
        PROVE  /\ i \in 1..Len(output[s]) /\ output'[s][i] = output[s][i]
               /\ PastNext(output'[s][i].of)
    <2>1. i \in 1..Len(output[s]) /\ output'[s][i] = output[s][i]
      BY <1>1 DEF SameTexts
    <2>2. Past(output'[s][i].of)
      BY <1>1, <2>1 DEF OnceInv
    <2>3. \A r : Past(r) => PastNext(r)
      BY PastKept
    <2> QED
      BY <2>1, <2>2, <2>3
  <1>2. RecordsAppearOnce
    BY DEF OnceInv
  <1>3. RecordsAppearOnce'
    <2> SUFFICES ASSUME NEW q \in Streams, NEW r \in Streams,
                        NEW i \in 1..Len(output'[q]), NEW j \in 1..Len(output'[r]), Twice(q, i, r, j)'
                 PROVE  FALSE
      BY AppearOnceNext
    <2>1. /\ i \in 1..Len(output[q]) /\ output'[q][i] = output[q][i]
          /\ j \in 1..Len(output[r]) /\ output'[r][j] = output[r][j]
      BY <1>1 DEF Twice
    <2>2. Twice(q, i, r, j)
      BY <2>1 DEF Twice
    <2> QED
      BY <1>2, <2>1, <2>2, AppearOnce
  <1> QED
    BY <1>1, <1>3, OnceNext

\* The record of a call still to write is in no stream.
LEMMA OnceGrows ==
  ASSUME TypeOK, OnceInv, NEW t \in Threads, Others(t), UNCHANGED calls,
         NEW s \in Streams, s \notin broken, NEW piece \in Piece, Write(s, piece),
         piece.of = call[t].record, call[t].record \in Record, call[t].record.id =< calls,
         pc[t] = "write", pc'[t] = "end line",
         \A u \in Threads : u # t /\ pc[u] \in Pending => call[u].record.id # call[t].record.id
  PROVE  OnceInv'
  <1> DEFINE n == Len(output[s])
             rec == call[t].record
  <1>1. /\ n \in Nat /\ Len(output'[s]) = n + 1
        /\ \A i \in 1..n : output'[s][i] = output[s][i]
        /\ output'[s][n + 1] = piece
        /\ \A r \in Streams : r # s => output'[r] = output[r]
    BY Pieces
  <1>2. \A r : Past(r) => PastNext(r)
    BY DEF Past, PastNext, Others, Pending
  <1>3. PastNext(rec)
    BY DEF PastNext, Others, Pending
  <1> HIDE DEF n, rec
  <1>4. ASSUME NEW r \in Streams, NEW i \in 1..Len(output'[r]), output'[r][i].text
        PROVE  \/ /\ i \in 1..Len(output[r]) /\ output'[r][i] = output[r][i] /\ output[r][i].text
                  /\ Past(output[r][i].of)
               \/ r = s /\ i = n + 1 /\ output'[r][i].of = rec
    <2>1. CASE r # s
      BY <1>1, <1>4, <2>1 DEF OnceInv
    <2>2. CASE r = s /\ i = n + 1
      BY <1>1, <2>2 DEF rec
    <2>3. CASE r = s /\ i # n + 1
      <3>1. i \in 1..n
        BY <1>1, <2>3, Below, Zenon
      <3>2. i \in 1..Len(output[r]) /\ output'[r][i] = output[r][i] /\ output[r][i].text
        BY <1>1, <1>4, <2>3, <3>1 DEF n
      <3> QED
        BY <3>2 DEF OnceInv
    <2> QED
      BY <2>1, <2>2, <2>3
  <1>5. \A r : Past(r) => r # rec
    BY DEF Past, Pending, rec
  <1>6. RecordsAppearOnce'
    <2> SUFFICES ASSUME NEW q \in Streams, NEW r \in Streams,
                        NEW i \in 1..Len(output'[q]), NEW j \in 1..Len(output'[r]), Twice(q, i, r, j)'
                 PROVE  FALSE
      BY AppearOnceNext
    <2> DEFINE Old(x, k) == /\ k \in 1..Len(output[x]) /\ output'[x][k] = output[x][k]
                            /\ output[x][k].text /\ Past(output[x][k].of)
               New(x, k) == x = s /\ k = n + 1 /\ output'[x][k].of = rec
    <2>0. output'[q][i].text /\ output'[r][j].text /\ output'[q][i].of = output'[r][j].of
          /\ ~(q = r /\ i = j)
      BY DEF Twice
    <2>1. Old(q, i) \/ New(q, i)
      BY <1>4, <2>0
    <2>2. Old(r, j) \/ New(r, j)
      BY <1>4, <2>0
    <2>3. CASE Old(q, i) /\ Old(r, j)
      <3>1. Twice(q, i, r, j)
        BY <2>0, <2>3 DEF Twice
      <3> QED
        BY <2>3, <3>1, AppearOnce DEF OnceInv
    <2>4. CASE New(q, i) /\ New(r, j)
      BY <2>0, <2>4
    <2>5. CASE Old(q, i) /\ New(r, j)
      BY <2>0, <1>5, <2>5
    <2>6. CASE New(q, i) /\ Old(r, j)
      BY <2>0, <1>5, <2>6
    <2> QED
      BY <2>1, <2>2, <2>3, <2>4, <2>5, <2>6
  <1>7. ASSUME NEW r \in Streams, NEW i \in 1..Len(output'[r]), output'[r][i].text
        PROVE  PastNext(output'[r][i].of)
    BY <1>2, <1>3, <1>4, <1>7
  <1> QED
    BY <1>6, <1>7, OnceNext

\* Every step keeps records in one place.
LEMMA OnceStep == TypeOK /\ CallInv /\ InsideInv /\ OnceInv /\ [Next]_vars => OnceInv'
  <1> SUFFICES ASSUME TypeOK /\ CallInv /\ InsideInv /\ OnceInv, [Next]_vars PROVE OnceInv'
    OBVIOUS
  <1>0. calls \in Nat
    BY Types
  <1>1. ASSUME NEW t \in Threads, CallLog(t) PROVE  OnceInv'
    <2>1. Others(t) /\ (calls' = calls \/ calls' = calls + 1)
      BY <1>1, CallLogDoes
    <2>c. Counted
      BY <1>0, <2>1 DEF Counted
    <2>2. pc'[t] \in Pending => (pc[t] \in Pending /\ SameRecord(t)) \/ NewRecord(t)
      <3>1. call'[t].record.id = calls + 1
        BY <1>1, CallLogDoes
      <3> QED
        BY <1>0, <3>1 DEF NewRecord
    <2>3. SameTexts
      <3>1. output' = output
        BY <1>1, CallLogDoes
      <3> QED
        BY <3>1 DEF SameTexts
    <2> QED
      BY <2>1, <2>c, <2>2, <2>3, OnceKept
  <1>2. ASSUME NEW t \in Threads, CallFlush(t) \/ CallMoveConstruct(t) \/ CallMoveAssign(t) \/ LockForLog(t) \/
               OutOfMemory(t) \/ Flush(t) \/ StreamFails(t) \/ LockBoth(t) \/
               BackOff(t) \/ LockOne(t) \/ LockForFlush(t) \/ MoveConstruct(t)
               \/ MoveAssign(t)
        PROVE  OnceInv'
    <2>1. Others(t) /\ (calls' = calls \/ calls' = calls + 1)
      BY <1>2, CallFlushDoes, CallMoveConstructDoes, CallMoveAssignDoes, LockForLogDoes,
         OutOfMemoryDoes, FlushDoes, StreamFailsDoes, LockBothDoes, BackOffDoes, LockOneDoes,
         LockForFlushDoes, MoveConstructDoes, MoveAssignDoes
    <2>c. Counted
      BY <1>0, <2>1 DEF Counted
    <2>2. pc'[t] \in Pending => (pc[t] \in Pending /\ SameRecord(t)) \/ NewRecord(t)
      <3>1. CASE CallFlush(t)
        BY <3>1, CallFlushDoes DEF Pending, SameRecord, Logging
      <3>2. CASE CallMoveConstruct(t)
        BY <3>2, CallMoveConstructDoes DEF Pending, SameRecord, Logging
      <3>3. CASE CallMoveAssign(t)
        BY <3>3, CallMoveAssignDoes DEF Pending, SameRecord, Logging
      <3>4. CASE LockForLog(t)
        BY <3>4, LockForLogDoes DEF Pending, SameRecord, Logging
      <3>5. CASE OutOfMemory(t)
        BY <3>5, OutOfMemoryDoes DEF Pending, SameRecord, Logging
      <3>6. CASE Flush(t)
        BY <3>6, FlushDoes DEF Pending, SameRecord, Logging
      <3>7. CASE StreamFails(t)
        BY <3>7, StreamFailsDoes DEF Pending, SameRecord, Logging
      <3>8. CASE LockBoth(t)
        BY <3>8, LockBothDoes DEF Pending, SameRecord, Logging
      <3>9. CASE BackOff(t)
        BY <3>9, BackOffDoes DEF Pending, SameRecord, Logging
      <3>10. CASE LockOne(t)
        BY <3>10, LockOneDoes DEF Pending, SameRecord, Logging
      <3>11. CASE LockForFlush(t)
        BY <3>11, LockForFlushDoes DEF Pending, SameRecord, Logging
      <3>12. CASE MoveConstruct(t)
        BY <3>12, MoveConstructDoes DEF Pending, SameRecord, Logging
      <3>13. CASE MoveAssign(t)
        BY <3>13, MoveAssignDoes DEF Pending, SameRecord, Logging
      <3> QED
        BY <1>2, <3>1, <3>2, <3>3, <3>4, <3>5, <3>6, <3>7, <3>8, <3>9, <3>10, <3>11, <3>12,
           <3>13
    <2>3. SameTexts
      <3>1. output' = output
        BY <1>2, CallFlushDoes, CallMoveConstructDoes, CallMoveAssignDoes, LockForLogDoes,
           OutOfMemoryDoes, FlushDoes, StreamFailsDoes, LockBothDoes, BackOffDoes, LockOneDoes,
           LockForFlushDoes, MoveConstructDoes, MoveAssignDoes
      <3> QED
        BY <3>1 DEF SameTexts
    <2> QED
      BY <2>1, <2>c, <2>2, <2>3, OnceKept
  <1>3. ASSUME NEW t \in Threads, Format(t) PROVE  OnceInv'
    <2>1. Others(t) /\ (calls' = calls \/ calls' = calls + 1)
      BY <1>3, FormatDoes
    <2>c. Counted
      BY <1>0, <2>1 DEF Counted
    <2>2. pc'[t] \in Pending => (pc[t] \in Pending /\ SameRecord(t)) \/ NewRecord(t)
      <3>1. RecordOf(t).id = call[t].record.id
        BY <1>3, FormatDoes, RecordOfFacts
      <3> QED
        BY <1>3, <3>1, FormatDoes DEF Pending, SameRecord, Logging
    <2>3. SameTexts
      <3>1. output' = output
        BY <1>3, FormatDoes
      <3> QED
        BY <3>1 DEF SameTexts
    <2> QED
      BY <2>1, <2>c, <2>2, <2>3, OnceKept
  <1>4. ASSUME NEW t \in Threads, WriteRecord(t) PROVE  OnceInv'
    <2> DEFINE s == call[t].stream
               piece == [text |-> TRUE,
                         of |-> IF logger[call[t].self].kind = "stdio"
                                THEN record_[call[t].self] ELSE call[t].record]
    <2>1. /\ Others(t) /\ UNCHANGED calls /\ Write(s, piece)
          /\ pc[t] = "write" /\ pc'[t] = "end line"
      BY <1>4, WriteRecordDoes
    <2>2. s \in Streams
      BY <2>1, Types DEF InsideInv, AtItsStream, Inside, CallType
    <2>3. call[t].record \in Record /\ call[t].record.id =< calls
      BY <2>1 DEF CallInv, AboutLoggers, Logging
    <2>4. piece.of = call[t].record
      BY <2>1 DEF InsideInv, AtItsStream
    <2>5. piece \in Piece
      BY <2>3, <2>4 DEF Piece
    <2>6. \A u \in Threads : u # t /\ pc[u] \in Pending => call[u].record.id # call[t].record.id
      BY <2>1 DEF CallInv, Distinct, Pending, Logging
    <2> HIDE DEF piece
    <2>7. CASE s \notin broken
      BY <2>1, <2>2, <2>3, <2>4, <2>5, <2>6, <2>7, OnceGrows
    <2>8. CASE s \in broken
      <3>1. SameTexts
        BY <2>1, <2>8 DEF SameTexts, Write
      <3>2. Counted
        <4>1. calls' = calls
          BY <2>1
        <4> QED
          BY <1>0, <4>1 DEF Counted
      <3> QED
        BY <2>1, <3>1, <3>2, OnceKept DEF Pending
    <2> QED
      BY <2>7, <2>8
  <1>5. ASSUME NEW t \in Threads, WriteNewline(t) PROVE  OnceInv'
    <2>1. Others(t) /\ (calls' = calls \/ calls' = calls + 1)
      BY <1>5, WriteNewlineDoes
    <2>c. Counted
      BY <1>0, <2>1 DEF Counted
    <2>2. pc'[t] \in Pending => (pc[t] \in Pending /\ SameRecord(t)) \/ NewRecord(t)
      BY <1>5, WriteNewlineDoes DEF Pending
    <2>3. SameTexts
      <3>1. pc[t] = "end line" /\ Write(call[t].stream, Newline)
        BY <1>5, WriteNewlineDoes
      <3>2. call[t].stream \in Streams
        BY <3>1, Types DEF InsideInv, AtItsStream, Inside, CallType
      <3>3. Newline \in Piece /\ Newline.text = FALSE
        BY DEF Newline, Piece
      <3> QED
        BY <3>1, <3>2, <3>3, NoText
    <2> QED
      BY <2>1, <2>c, <2>2, <2>3, OnceKept
  <1>6. ASSUME UNCHANGED vars PROVE OnceInv'
    BY <1>6 DEF vars, OnceInv, RecordsAppearOnce, Past
  <1> QED
    BY <1>1, <1>2, <1>3, <1>4, <1>5, <1>6 DEF Next, Starts, Logs, Moves

LEMMA RoutedNext ==
    RoutedInv' <=> \A s \in Streams : \A i \in 1..Len(output'[s]) :
                      output'[s][i].text => Given(s, output'[s][i].of)
  BY Zenon DEF RoutedInv

LEMMA RoutedKept ==
  ASSUME RoutedInv, SameTexts
  PROVE  RoutedInv'
  BY RoutedNext DEF RoutedInv, SameTexts

\* The logger of a call still has the configuration it began with.
LEMMA RoutedGrows ==
  ASSUME TypeOK, CallInv, StreamInv, InsideInv, RoutedInv, NEW t \in Threads, pc[t] = "write",
         NEW s \in Streams, s = call[t].stream, s \notin broken,
         NEW piece \in Piece, piece.of = call[t].record, Write(s, piece)
  PROVE  RoutedInv'
  <1> DEFINE m == logger[call[t].self]
             n == Len(output[s])
  <1>1. call[t].self \in Loggers
    BY DEF CallInv, AboutLoggers
  <1>2. /\ s # Null /\ s \in {m.out, m.err}
        /\ s = stream_for_level(call[t].record.level, m.out, m.err)
        /\ ~Filtered(m, call[t].record.level, s)
        /\ call[t].record.colored <=> m.kind = "stdio" /\ should_colorize(m.color, s)
    BY Zenon DEF InsideInv, AtItsStream, Inside
  <1>3. PICK k \in DOMAIN Options : m = Constructed(Options[k])
    BY <1>1, <1>2 DEF StreamInv, StreamsOf
  <1>4. Given(s, call[t].record)
    BY <1>2, <1>3, Zenon DEF Given
  <1>5. /\ n \in Nat /\ Len(output'[s]) = n + 1
        /\ \A i \in 1..n : output'[s][i] = output[s][i]
        /\ output'[s][n + 1] = piece
        /\ \A r \in Streams : r # s => output'[r] = output[r]
    BY Pieces
  <1> HIDE DEF n, m
  <1>6. ASSUME NEW r \in Streams, NEW i \in 1..Len(output'[r]), output'[r][i].text
        PROVE  Given(r, output'[r][i].of)
    <2>1. CASE r # s
      BY <1>5, <1>6, <2>1 DEF RoutedInv
    <2>2. CASE r = s /\ i = n + 1
      BY <1>4, <1>5, <2>2
    <2>3. CASE r = s /\ i # n + 1
      <3>1. i \in 1..n
        BY <1>5, <2>3, Below, Zenon
      <3> QED
        BY <1>5, <1>6, <2>3, <3>1 DEF RoutedInv, n
    <2> QED
      BY <2>1, <2>2, <2>3
  <1> QED
    BY <1>6, RoutedNext

\* Every step keeps records where they belong.
LEMMA RoutedStep ==
    TypeOK /\ CallInv /\ StreamInv /\ InsideInv /\ RoutedInv /\ [Next]_vars => RoutedInv'
  <1> SUFFICES ASSUME TypeOK /\ CallInv /\ StreamInv /\ InsideInv /\ RoutedInv, [Next]_vars
               PROVE RoutedInv'
    OBVIOUS
  <1>1. ASSUME NEW t \in Threads, CallLog(t) \/ CallFlush(t) \/ CallMoveConstruct(t) \/ CallMoveAssign(t) \/
               LockForLog(t) \/ OutOfMemory(t) \/ Flush(t) \/ StreamFails(t) \/
               LockBoth(t) \/ BackOff(t) \/ LockOne(t) \/ LockForFlush(t) \/
               Format(t) \/ MoveConstruct(t) \/ MoveAssign(t)
        PROVE  RoutedInv'
    <2>1. output' = output
      BY <1>1, CallLogDoes, CallFlushDoes, CallMoveConstructDoes, CallMoveAssignDoes,
         LockForLogDoes, OutOfMemoryDoes, FlushDoes, StreamFailsDoes, LockBothDoes, BackOffDoes,
         LockOneDoes, LockForFlushDoes, FormatDoes, MoveConstructDoes, MoveAssignDoes
    <2>2. SameTexts
      BY <2>1 DEF SameTexts
    <2> QED
      BY <2>2, RoutedKept
  <1>2. ASSUME NEW t \in Threads, WriteRecord(t) PROVE  RoutedInv'
    <2> DEFINE s == call[t].stream
               piece == [text |-> TRUE,
                         of |-> IF logger[call[t].self].kind = "stdio"
                                THEN record_[call[t].self] ELSE call[t].record]
    <2>1. Write(s, piece) /\ pc[t] = "write"
      BY <1>2, WriteRecordDoes
    <2>2. s \in Streams
      BY <2>1, Types DEF InsideInv, AtItsStream, Inside, CallType
    <2>3. call[t].record \in Record
      BY <2>1 DEF CallInv, AboutLoggers, Logging
    <2>4. piece.of = call[t].record
      BY <2>1 DEF InsideInv, AtItsStream
    <2>5. piece \in Piece
      BY <2>3, <2>4 DEF Piece
    <2> HIDE DEF piece
    <2>6. CASE s \notin broken
      BY <2>1, <2>2, <2>4, <2>5, <2>6, RoutedGrows
    <2>7. CASE s \in broken
      <3>1. SameTexts
        BY <2>1, <2>7 DEF SameTexts, Write
      <3> QED
        BY <3>1, RoutedKept
    <2> QED
      BY <2>6, <2>7
  <1>3. ASSUME NEW t \in Threads, WriteNewline(t) PROVE  RoutedInv'
    <2>1. pc[t] = "end line" /\ Write(call[t].stream, Newline)
      BY <1>3, WriteNewlineDoes
    <2>2. call[t].stream \in Streams
      BY <2>1, Types DEF InsideInv, AtItsStream, Inside, CallType
    <2>3. Newline \in Piece /\ Newline.text = FALSE
      BY DEF Newline, Piece
    <2>4. SameTexts
      BY <2>1, <2>2, <2>3, NoText
    <2> QED
      BY <2>4, RoutedKept
  <1>4. ASSUME UNCHANGED vars PROVE RoutedInv'
    BY <1>4 DEF vars, RoutedInv
  <1> QED
    BY <1>1, <1>2, <1>3, <1>4 DEF Next, Starts, Logs, Moves

-----------------------------------------------------------------------------
(* Theorems *)

\* Loggers are made as they are configured, with streams of their own.
LEMMA InitInv == Init => IInv
  <1> SUFFICES ASSUME Init PROVE IInv
    OBVIOUS
  <1>1. TypeOK
    <2>1. logger \in [Loggers -> Members]
      BY MemberFacts, LoggerAssumption DEF Init
    <2>2. output \in [Streams -> Seq(Piece)]
      BY DEF Init
    <2>3. call \in [Threads -> CallType] /\ pc \in [Threads -> Stages]
      BY BeginFacts DEF Init, Stages
    <2>4. /\ mu \in [Loggers -> Threads \cup {NoThread}]
          /\ record_ \in [Loggers -> Record \cup {Empty}]
          /\ broken \subseteq Streams
      BY DEF Init
    <2>5. calls \in 0..MaxCalls
      BY LoggerAssumption DEF Init
    <2> QED
      BY <2>1, <2>2, <2>3, <2>4, <2>5, Types
  <1>2. \A t \in Threads : pc[t] = "idle"
    BY DEF Init
  <1>3. CallInv
    BY <1>2 DEF CallInv, AboutLoggers, Distinct, Logging, Assigning
  <1>4. LockInv
    BY <1>2 DEF LockInv, Holding
  <1>5. StreamInv
    <2> DEFINE c(l) == Constructed(Options[l])
    <2>1. \A l \in Loggers : logger[l] = IF l \in DOMAIN Options THEN c(l) ELSE Unmade
      BY DEF Init
    <2>2. Unmade.out = Null /\ Unmade.err = Null
      BY DEF Unmade
    <2>3. ASSUME NEW l \in DOMAIN Options PROVE c(l).out = Null <=> c(l).err = Null
      <3>1. /\ Options[l] \in [kind : {"stdio", "spdlog"}, min : MinLevels, color : Modes,
                               out : Streams \cup {Null}, err : Streams \cup {Null}]
            /\ Options[l].kind = "spdlog" => Options[l].out = Options[l].err
            /\ Cout # Null /\ Cerr # Null
        BY LoggerAssumption
      <3> QED
        BY <3>1 DEF Constructed
    <2>4. ASSUME NEW k \in DOMAIN Options, NEW l \in DOMAIN Options, k # l
          PROVE  {c(k).out, c(k).err} \cap {c(l).out, c(l).err} \subseteq {Null}
      <3>1. ({c(k).out, c(k).err} \ {Null}) \cap ({c(l).out, c(l).err} \ {Null}) = {}
        BY <2>4, LoggerAssumption, Zenon
      <3> QED
        BY <3>1
    <2> HIDE DEF c
    <2>5. ASSUME NEW l \in Loggers PROVE StreamsOf(l)
      BY <2>1, <2>2, <2>3 DEF StreamsOf, c
    <2>6. ASSUME NEW k \in Loggers, NEW l \in Loggers, k # l PROVE Apart(k, l)
      <3>1. CASE k \in DOMAIN Options /\ l \in DOMAIN Options
        BY <2>1, <2>4, <2>6, <3>1 DEF Apart
      <3>2. CASE k \notin DOMAIN Options
        BY <2>1, <2>2, <3>2 DEF Apart
      <3>3. CASE l \notin DOMAIN Options
        BY <2>1, <2>2, <3>3 DEF Apart
      <3> QED
        BY <3>1, <3>2, <3>3
    <2> QED
      BY <2>5, <2>6 DEF StreamInv
  <1>6. InsideInv
    BY <1>2 DEF InsideInv, AtItsStream, Inside
  <1>7. \A s \in Streams : output[s] = << >>
    BY DEF Init
  <1>8. \A s \in Streams : Len(output[s]) = 0
    BY <1>7
  <1>9. LineInv
    <2>1. 0 % 2 # 1
      OBVIOUS
    <2>2. \A s \in Streams, t \in Threads : ~Ends(t, s)
      BY <1>2 DEF Ends
    <2>3. \A s \in Streams : Whole(s)
      BY <1>8 DEF Whole
    <2> QED
      BY <1>8, <2>1, <2>2, <2>3 DEF LineInv
  <1>10. OnceInv
    BY <1>8 DEF OnceInv, RecordsAppearOnce
  <1>11. RoutedInv
    BY <1>8 DEF RoutedInv
  <1> QED
    BY <1>1, <1>3, <1>4, <1>5, <1>6, <1>9, <1>10, <1>11 DEF IInv

\* The inductive invariant of the loggers: a stream is with one logger, a logger with
\* the thread that holds its mutex, and what is in the streams is whole lines of past
\* records.
THEOREM Invariance == Spec => []IInv
  <1>1. Init => IInv
    BY InitInv
  <1>2. IInv /\ [Next]_vars => IInv'
    <2> SUFFICES ASSUME IInv, [Next]_vars PROVE IInv'
      OBVIOUS
    <2>1. TypeOK /\ CallInv /\ LockInv /\ StreamInv /\ InsideInv /\ LineInv /\ OnceInv /\ RoutedInv
      BY DEF IInv
    <2>2. TypeOK' /\ CallInv' /\ LockInv' /\ StreamInv'
      BY <2>1, TypeStep, CallStep, LockStep, StreamStep
    <2>3. InsideInv' /\ LineInv' /\ OnceInv' /\ RoutedInv'
      BY <2>1, InsideStep, LineStep, OnceStep, RoutedStep
    <2> QED
      BY <2>2, <2>3 DEF IInv
  <1> QED
    BY <1>1, <1>2, PTL DEF Spec

\* The variables keep their types: every step of log(), flush() and the moves.
THEOREM TypesHold == Spec => []TypeOK
  <1>1. IInv => TypeOK
    BY DEF IInv
  <1> QED
    BY <1>1, Invariance, PTL

\* Each stream and sink has at most one thread in it, however the loggers are moved
\* while they are in use: the mutexes of stdio_logger and spdlog_logger suffice.
THEOREM Serialization == Spec => []SinksAreSerialized
  <1>1. IInv => SinksAreSerialized
    BY Serialized DEF IInv
  <1> QED
    BY <1>1, Invariance, PTL

\* Every record is followed by its newline, whichever threads write: a stream that is
\* given up half way has failed.
THEOREM LinesAreWhole == Spec => []WholeLines
  <1>1. IInv => WholeLines
    BY DEF IInv, LineInv, Whole, WholeLines
  <1> QED
    BY <1>1, Invariance, PTL

\* The shared buffer of a stdio logger neither repeats a record nor writes one in place
\* of another.
THEOREM NoRecordTwice == Spec => []RecordsAppearOnce
  <1>1. IInv => RecordsAppearOnce
    BY DEF IInv, OnceInv
  <1> QED
    BY <1>1, Invariance, PTL

\* Moves keep threshold, colour and streams together.
THEOREM Routing == Spec => []RoutedAsConfigured
  <1>1. IInv => RoutedAsConfigured
    BY Zenon DEF IInv, RoutedInv, Given, InsideInv, AtItsStream, RoutedAsConfigured
  <1> QED
    BY <1>1, Invariance, PTL
=============================================================================
