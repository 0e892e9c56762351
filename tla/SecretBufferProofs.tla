-------------------------- MODULE SecretBufferProofs --------------------------
(***************************************************************************)
(* Proofs about SecretBuffer for any number of threads, buffers, impls and  *)
(* blocks.  IInv is inductive: an impl is with one buffer or with the one   *)
(* thread that clears it, a block is with one impl, and a secret is in one  *)
(* block.                                                                   *)
(***************************************************************************)
EXTENDS SecretBuffer, TLAPS

\* unique_ptr: an impl has one owner, a buffer or the thread that deletes it.
OneOwner ==
    /\ \A b, c \in Buffers : impl_[b] \in Impls /\ impl_[b] = impl_[c] => b = c
    /\ \A t, u \in Threads : doing[t].impl \in Impls /\ doing[t].impl = doing[u].impl => t = u
    /\ \A t \in Threads, b \in Buffers : doing[t].impl \in Impls => impl_[b] # doing[t].impl
    /\ \A t \in Threads : doing[t].stage = "idle" <=> doing[t].impl = Null
    /\ \A b \in Buffers : impl_[b] \in Impls => impl[impl_[b]].made
    /\ \A t \in Threads : doing[t].impl \in Impls => impl[doing[t].impl].made

NoneIsLost ==
    \A i \in Impls : impl[i].made =>
        (\E b \in Buffers : impl_[b] = i) \/ (\E t \in Threads : doing[t].impl = i)

OwnerInv == OneOwner /\ NoneIsLost

\* A block and its impl know each other; only bytes are locked.
BlockInv ==
    /\ \A i \in Impls : impl[i].data \in Storage => impl[i].made /\ holder[impl[i].data] = i
    /\ \A s \in Storage : holder[s] \in Impls => impl[holder[s]].data = s
    /\ \A i \in Impls : impl[i].locked => impl[i].data \in Storage

\* How far a clearing thread is.
ClearInv ==
    \A t \in Threads : doing[t].impl \in Impls =>
        LET i == doing[t].impl IN
        /\ doing[t].stage = "unlock" => impl[i].locked
        /\ doing[t].stage = "cleanse" => impl[i].data \in Storage /\ ~impl[i].locked
        /\ doing[t].stage = "free" =>
              ~impl[i].locked /\ (impl[i].data \in Storage => bytes[impl[i].data] = 0)

\* A secret is in one block; free memory has none, and what a buffer has is what it
\* was given.
SecretInv ==
    /\ \A s \in Storage : bytes[s] =< secrets
    /\ \A r, s \in Storage : bytes[r] = bytes[s] /\ bytes[r] # 0 => r = s
    /\ \A s \in Storage : holder[s] = "nobody" => bytes[s] = 0
    /\ \A s \in Storage : holder[s] = "caller" => bytes[s] # 0
    /\ \A b \in Buffers :
          LET i == impl_[b] IN
          /\ i \in Impls /\ impl[i].data \in Storage =>
                bytes[impl[i].data] # 0 /\ given[b] = bytes[impl[i].data]
          /\ i \in Impls /\ impl[i].data = Null => given[b] = 0
          /\ i \notin Impls => given[b] = 0

IInv == TypeOK /\ OwnerInv /\ BlockInv /\ ClearInv /\ SecretInv /\ LocksEndWithTheirBuffer

-----------------------------------------------------------------------------

\* Every step keeps the variables in their types.
LEMMA TypeStep == TypeOK /\ [Next]_vars => TypeOK'
  <1> SUFFICES ASSUME TypeOK, [Next]_vars PROVE TypeOK'
    OBVIOUS
  <1> USE BufferAssumption DEF TypeOK, Unmade, Idle
  <1>1. ASSUME NEW t \in Threads, NEW s \in Storage, FillVector(t, s) PROVE TypeOK'
    BY <1>1 DEF FillVector, Free
  <1>2. ASSUME NEW t \in Threads, NEW b \in Buffers, DefaultConstruct(t, b) PROVE TypeOK'
    BY <1>2 DEF DefaultConstruct, Free, Object
  <1>3. ASSUME NEW t \in Threads, NEW b \in Buffers, NEW i \in Impls, NEW s \in Storage \cup {Null}, NEW locked \in BOOLEAN, Construct(t, b, i, s, locked) PROVE TypeOK'
    <2>0. s \in Storage => PagesOf[s] \subseteq Page
      BY PagesAssumption
    <2>1. impl' \in [Impls -> [made : BOOLEAN, data : Storage \cup {Null}, locked : BOOLEAN]]
      BY <1>3 DEF Construct
    <2>2. /\ holder' \in [Storage -> {"nobody", "caller"} \cup Impls]
          /\ mlocked' \subseteq Page
      BY <1>3, <2>0 DEF Construct, lock_memory
    <2>3. given' \in [Buffers -> 0..MaxVectors]
      BY <1>3 DEF Construct
    <2> QED
      BY <1>3, <2>1, <2>2, <2>3 DEF Construct
  <1>4. ASSUME NEW t \in Threads, NEW b \in Buffers, NEW other \in Buffers, MoveConstruct(t, b, other) PROVE TypeOK'
    <2>1. given' \in [Buffers -> 0..MaxVectors]
      BY <1>4 DEF MoveConstruct
    <2>2. impl_' \in [Buffers -> Impls \cup {Null, "none"}]
      BY <1>4 DEF MoveConstruct
    <2> QED
      BY <1>4, <2>1, <2>2 DEF MoveConstruct
  <1>5. ASSUME NEW t \in Threads, NEW b \in Buffers, NEW other \in Buffers, MoveAssign(t, b, other) PROVE TypeOK'
    <2>1. CASE b = other
      BY <1>5, <2>1 DEF MoveAssign
    <2>2. CASE b # other
      <3>1. given' \in [Buffers -> 0..MaxVectors]
        BY <1>5, <2>2 DEF MoveAssign
      <3>0. impl_' \in [Buffers -> Impls \cup {Null, "none"}]
        BY <1>5, <2>2 DEF MoveAssign
      <3>2. doing' \in [Threads -> [stage : {"idle", "clear", "unlock", "cleanse", "free"},
                                    impl : Impls \cup {Null}]]
        BY <1>5, <2>2 DEF MoveAssign, Delete
      <3> QED
        BY <1>5, <2>2, <3>0, <3>1, <3>2 DEF MoveAssign
    <2> QED
      BY <2>1, <2>2
  <1>6. ASSUME NEW t \in Threads, NEW b \in Buffers, Destroy(t, b) PROVE TypeOK'
    BY <1>6 DEF Destroy, Delete, Free, Object
  <1>7. ASSUME NEW t \in Threads, Clear(t) PROVE TypeOK'
    BY <1>7 DEF Clear, NextStage, At, Goto
  <1>8. ASSUME NEW t \in Threads, Unlock(t) PROVE TypeOK'
    <2>1. impl' \in [Impls -> [made : BOOLEAN, data : Storage \cup {Null}, locked : BOOLEAN]]
      <3>1. impl' = [impl EXCEPT ![doing[t].impl].locked = FALSE]
        BY <1>8 DEF Unlock
      <3> QED
        BY <3>1
    <2>2. doing' \in [Threads -> [stage : {"idle", "clear", "unlock", "cleanse", "free"},
                                  impl : Impls \cup {Null}]]
      BY <1>8 DEF Unlock, Goto
    <2> QED
      BY <1>8, <2>1, <2>2 DEF Unlock
  <1>9. ASSUME NEW t \in Threads, Cleanse(t) PROVE TypeOK'
    <2>1. bytes' \in [Storage -> 0..MaxVectors]
      <3>1. bytes' = [bytes EXCEPT ![Data(t)] = 0] /\ 0 \in 0..MaxVectors
        BY <1>9 DEF Cleanse
      <3> QED
        BY <3>1
    <2>2. doing' \in [Threads -> [stage : {"idle", "clear", "unlock", "cleanse", "free"},
                                  impl : Impls \cup {Null}]]
      BY <1>9 DEF Cleanse, Goto
    <2> QED
      BY <1>9, <2>1, <2>2 DEF Cleanse
  <1>10. ASSUME NEW t \in Threads, Release(t) PROVE TypeOK'
    BY <1>10 DEF Release, At, Data
  <1>11. ASSUME UNCHANGED vars PROVE TypeOK'
    BY <1>11 DEF vars
  <1> HIDE DEF TypeOK, Unmade, Idle
  <1> QED
    BY <1>1, <1>2, <1>3, <1>4, <1>5, <1>6, <1>7, <1>8, <1>9, <1>10, <1>11 DEF Next

\* Every step keeps one owner for each impl.
LEMMA OwnerStep == TypeOK /\ OwnerInv /\ [Next]_vars => OwnerInv'
  <1> SUFFICES ASSUME TypeOK /\ OwnerInv, [Next]_vars PROVE OwnerInv'
    OBVIOUS
  <1> USE BufferAssumption DEF TypeOK, Unmade, Idle, OwnerInv, OneOwner, NoneIsLost
  <1>1. ASSUME NEW t \in Threads, NEW s \in Storage, FillVector(t, s) PROVE OwnerInv'
    BY <1>1 DEF FillVector, Free
  <1>2. ASSUME NEW t \in Threads, NEW b \in Buffers, DefaultConstruct(t, b) PROVE OwnerInv'
    BY <1>2 DEF DefaultConstruct, Free, Object
  <1>3. ASSUME NEW t \in Threads, NEW b \in Buffers, NEW i \in Impls, NEW s \in Storage \cup {Null}, NEW locked \in BOOLEAN, Construct(t, b, i, s, locked) PROVE OwnerInv'
    BY <1>3 DEF Construct, Free, Object, lock_memory
  <1>4. ASSUME NEW t \in Threads, NEW b \in Buffers, NEW other \in Buffers, MoveConstruct(t, b, other) PROVE OwnerInv'
    <2>1. OneOwner'
      BY <1>4 DEF MoveConstruct, Free, Object
    <2>2. ASSUME NEW i \in Impls, impl'[i].made
          PROVE (\E c \in Buffers : impl_'[c] = i) \/ (\E u \in Threads : doing'[u].impl = i)
      <3>1. CASE impl_[other] = i
        BY <1>4, <3>1 DEF MoveConstruct, Object
      <3>2. CASE \E c \in Buffers : impl_[c] = i /\ c # other
        BY <1>4, <3>2 DEF MoveConstruct, Object
      <3> QED
        BY <1>4, <2>2, <3>1, <3>2 DEF MoveConstruct
    <2> QED
      BY <2>1, <2>2
  <1>5. ASSUME NEW t \in Threads, NEW b \in Buffers, NEW other \in Buffers, MoveAssign(t, b, other) PROVE OwnerInv'
    <2>1. CASE b = other
      BY <1>5, <2>1 DEF MoveAssign
    <2>2. CASE b # other
      <3>1. /\ impl_' = [impl_ EXCEPT ![b] = impl_[other], ![other] = Null]
            /\ doing[t] = Idle /\ impl' = impl
            /\ doing' = IF impl_[b] \in Impls
                        THEN [doing EXCEPT ![t] = [stage |-> "clear", impl |-> impl_[b]]]
                        ELSE doing
        BY <1>5, <2>2 DEF MoveAssign, Delete, Free
      <3>2. OneOwner'
        <4>1. CASE impl_[b] \in Impls
          BY <2>2, <3>1, <4>1
        <4>2. CASE impl_[b] \notin Impls
          BY <2>2, <3>1, <4>2
        <4> QED
          BY <4>1, <4>2
      <3>3. ASSUME NEW i \in Impls, impl'[i].made
            PROVE (\E c \in Buffers : impl_'[c] = i) \/ (\E u \in Threads : doing'[u].impl = i)
        <4>1. CASE impl_[other] = i
          BY <2>2, <3>1, <4>1
        <4>2. CASE impl_[b] = i
          BY <2>2, <3>1, <4>2
        <4>3. CASE \E c \in Buffers : impl_[c] = i /\ c # other /\ c # b
          BY <2>2, <3>1, <4>3
        <4>4. CASE \E u \in Threads : doing[u].impl = i
          BY <2>2, <3>1, <4>4
        <4> QED
          BY <3>1, <3>3, <4>1, <4>2, <4>3, <4>4
      <3> QED
        BY <3>2, <3>3
    <2> QED
      BY <2>1, <2>2
  <1>6. ASSUME NEW t \in Threads, NEW b \in Buffers, Destroy(t, b) PROVE OwnerInv'
    <2>1. /\ impl_' = [impl_ EXCEPT ![b] = "none"]
          /\ doing[t] = Idle /\ impl' = impl
          /\ doing' = IF impl_[b] \in Impls
                      THEN [doing EXCEPT ![t] = [stage |-> "clear", impl |-> impl_[b]]]
                      ELSE doing
      BY <1>6 DEF Destroy, Delete, Free
    <2>2. OneOwner'
      BY <2>1
    <2>3. ASSUME NEW i \in Impls, impl'[i].made
          PROVE (\E c \in Buffers : impl_'[c] = i) \/ (\E u \in Threads : doing'[u].impl = i)
      <3>1. CASE impl_[b] = i
        BY <2>1, <3>1
      <3>2. CASE \E c \in Buffers : impl_[c] = i /\ c # b
        BY <2>1, <3>2
      <3>3. CASE \E u \in Threads : doing[u].impl = i
        BY <2>1, <3>3
      <3> QED
        BY <2>1, <2>3, <3>1, <3>2, <3>3
    <2> QED
      BY <2>2, <2>3
  <1>7. ASSUME NEW t \in Threads, Clear(t) PROVE OwnerInv'
    BY <1>7 DEF Clear, NextStage, At, Goto
  <1>8. ASSUME NEW t \in Threads, Unlock(t) PROVE OwnerInv'
    BY <1>8 DEF Unlock, At, Goto, Data
  <1>9. ASSUME NEW t \in Threads, Cleanse(t) PROVE OwnerInv'
    BY <1>9 DEF Cleanse, At, Goto, Data
  <1>10. ASSUME NEW t \in Threads, Release(t) PROVE OwnerInv'
    <2>1. /\ doing[t].impl \in Impls
          /\ impl' = [impl EXCEPT ![doing[t].impl] = Unmade]
          /\ doing' = [doing EXCEPT ![t] = Idle] /\ impl_' = impl_
      BY <1>10 DEF Release, At
    <2>2. OneOwner'
      BY <2>1
    <2>3. NoneIsLost'
      BY <2>1
    <2> QED
      BY <2>2, <2>3
  <1>11. ASSUME UNCHANGED vars PROVE OwnerInv'
    BY <1>11 DEF vars
  <1> HIDE DEF TypeOK, Unmade, Idle, OwnerInv, OneOwner, NoneIsLost
  <1> QED
    BY <1>1, <1>2, <1>3, <1>4, <1>5, <1>6, <1>7, <1>8, <1>9, <1>10, <1>11 DEF Next

\* Every step keeps blocks and impls together.
LEMMA BlockStep == TypeOK /\ OwnerInv /\ BlockInv /\ ClearInv /\ [Next]_vars => BlockInv'
  <1> SUFFICES ASSUME TypeOK /\ OwnerInv /\ BlockInv /\ ClearInv, [Next]_vars PROVE BlockInv'
    OBVIOUS
  <1> USE BufferAssumption DEF TypeOK, Unmade, Idle, OwnerInv, OneOwner, NoneIsLost, BlockInv, ClearInv
  <1>1. ASSUME NEW t \in Threads, NEW s \in Storage, FillVector(t, s) PROVE BlockInv'
    BY <1>1 DEF FillVector, Free
  <1>2. ASSUME NEW t \in Threads, NEW b \in Buffers, DefaultConstruct(t, b) PROVE BlockInv'
    BY <1>2 DEF DefaultConstruct, Free, Object
  <1>3. ASSUME NEW t \in Threads, NEW b \in Buffers, NEW i \in Impls, NEW s \in Storage \cup {Null}, NEW locked \in BOOLEAN, Construct(t, b, i, s, locked) PROVE BlockInv'
    <2>1. /\ ~impl[i].made /\ (s # Null => holder[s] = "caller") /\ (s = Null => ~locked)
          /\ impl' = [impl EXCEPT ![i] = [made |-> TRUE, data |-> s, locked |-> locked]]
          /\ mlocked' = IF locked THEN mlocked \cup PagesOf[s] ELSE mlocked
          /\ holder' = IF s = Null THEN holder ELSE [holder EXCEPT ![s] = i]
      BY <1>3 DEF Construct, lock_memory
    <2>2. CASE s = Null
      BY <2>1, <2>2
    <2>3. CASE s \in Storage
      <3>1. \A r \in Storage : holder[r] # i
        BY <2>1
      <3> QED
        BY <2>1, <2>3, <3>1
    <2> QED
      BY <2>2, <2>3
  <1>4. ASSUME NEW t \in Threads, NEW b \in Buffers, NEW other \in Buffers, MoveConstruct(t, b, other) PROVE BlockInv'
    BY <1>4 DEF MoveConstruct, Free, Object
  <1>5. ASSUME NEW t \in Threads, NEW b \in Buffers, NEW other \in Buffers, MoveAssign(t, b, other) PROVE BlockInv'
    BY <1>5 DEF MoveAssign, Delete, Free, Object
  <1>6. ASSUME NEW t \in Threads, NEW b \in Buffers, Destroy(t, b) PROVE BlockInv'
    BY <1>6 DEF Destroy, Delete, Free, Object
  <1>7. ASSUME NEW t \in Threads, Clear(t) PROVE BlockInv'
    BY <1>7 DEF Clear, NextStage, At, Goto
  <1>8. ASSUME NEW t \in Threads, Unlock(t) PROVE BlockInv'
    BY <1>8 DEF Unlock, At, Goto, Data
  <1>9. ASSUME NEW t \in Threads, Cleanse(t) PROVE BlockInv'
    BY <1>9 DEF Cleanse, At, Goto, Data
  <1>10. ASSUME NEW t \in Threads, Release(t) PROVE BlockInv'
    BY <1>10 DEF Release, At, Data
  <1>11. ASSUME UNCHANGED vars PROVE BlockInv'
    BY <1>11 DEF vars
  <1> HIDE DEF TypeOK, Unmade, Idle, OwnerInv, OneOwner, NoneIsLost, BlockInv, ClearInv
  <1> QED
    BY <1>1, <1>2, <1>3, <1>4, <1>5, <1>6, <1>7, <1>8, <1>9, <1>10, <1>11 DEF Next

\* Construction and unlocking are the steps that lock or unlock pages; the others leave
\* the lockers what they are.
LEMMA LockStep ==
  TypeOK /\ OwnerInv /\ BlockInv /\ ClearInv /\ LocksEndWithTheirBuffer /\ [Next]_vars
    => LocksEndWithTheirBuffer'
  <1> SUFFICES ASSUME TypeOK /\ OwnerInv /\ BlockInv /\ ClearInv /\ LocksEndWithTheirBuffer,
                      [Next]_vars
               PROVE  LocksEndWithTheirBuffer'
    OBVIOUS
  <1> USE BufferAssumption
  <1>1. ASSUME mlocked' = mlocked, \A s \in Storage : Locker(s)' <=> Locker(s)
        PROVE  LocksEndWithTheirBuffer'
    BY <1>1 DEF LocksEndWithTheirBuffer, Alone
  <1>2. ASSUME mlocked' = mlocked, impl' = impl, holder' = holder
        PROVE  LocksEndWithTheirBuffer'
    BY <1>1, <1>2 DEF Locker
  <1>3. ASSUME NEW t \in Threads, NEW s \in Storage, FillVector(t, s)
        PROVE  LocksEndWithTheirBuffer'
    <2>1. \A r \in Storage : Locker(r)' <=> Locker(r)
      BY <1>3 DEF FillVector, Locker, TypeOK
    <2> QED
      BY <1>1, <1>3, <2>1 DEF FillVector
  <1>4. ASSUME NEW t \in Threads, NEW b \in Buffers, NEW i \in Impls,
               NEW s \in Storage \cup {Null}, NEW locked \in BOOLEAN, Construct(t, b, i, s, locked)
        PROVE  LocksEndWithTheirBuffer'
    <2>1. /\ ~impl[i].made /\ (s # Null => holder[s] = "caller") /\ (s = Null => ~locked)
          /\ impl' = [impl EXCEPT ![i] = [made |-> TRUE, data |-> s, locked |-> locked]]
          /\ mlocked' = IF locked THEN mlocked \cup PagesOf[s] ELSE mlocked
          /\ holder' = IF s = Null THEN holder ELSE [holder EXCEPT ![s] = i]
      BY <1>4 DEF Construct, lock_memory
    <2>2. \A r \in Storage : holder[r] # i
      BY <2>1 DEF BlockInv, OwnerInv, OneOwner, TypeOK
    <2>3. \A r \in Storage \ {s} : Locker(r)' <=> Locker(r)
      BY <2>1, <2>2 DEF Locker, TypeOK
    <2>4. s \in Storage => (Locker(s)' <=> locked) /\ ~Locker(s)
      BY <2>1 DEF Locker, TypeOK
    <2> QED
      BY <2>1, <2>3, <2>4 DEF LocksEndWithTheirBuffer, Alone
  <1>5. ASSUME NEW t \in Threads, Unlock(t) PROVE LocksEndWithTheirBuffer'
    <2>1. PICK i \in Impls, s \in Storage :
             /\ holder[s] = i /\ holder' = holder /\ impl[i].data = s
             /\ impl' = [impl EXCEPT ![i].locked = FALSE]
             /\ mlocked' = mlocked \ PagesOf[s]
      BY <1>5 DEF Unlock, At, Data, TypeOK, OwnerInv, OneOwner, ClearInv, BlockInv
    <2>2. ASSUME NEW r \in Storage \ {s} PROVE Locker(r)' <=> Locker(r)
      <3>1. holder[r] # i
        BY <2>1, <2>2 DEF BlockInv
      <3> QED
        BY <2>1, <2>2, <3>1 DEF Locker, TypeOK
    <2>3. ~Locker(s)'
      BY <2>1 DEF Locker, TypeOK
    <2> QED
      BY <2>1, <2>2, <2>3 DEF LocksEndWithTheirBuffer, Alone
  <1>6. ASSUME NEW t \in Threads, Release(t) PROVE LocksEndWithTheirBuffer'
    <2>1. PICK i \in Impls :
             /\ ~impl[i].locked /\ mlocked' = mlocked
             /\ impl' = [impl EXCEPT ![i] = Unmade]
             /\ \/ holder' = holder /\ impl[i].data \notin Storage
                \/ holder' = [holder EXCEPT ![impl[i].data] = "nobody"]
      BY <1>6 DEF Release, At, Data, TypeOK, OwnerInv, OneOwner, ClearInv
    <2>2. ASSUME NEW r \in Storage PROVE Locker(r)' <=> Locker(r)
      <3>1. CASE holder[r] = i
        <4>1. impl[i].data = r /\ ~Locker(r)
          BY <2>1, <3>1 DEF BlockInv, Locker
        <4>2. holder'[r] = "nobody"
          BY <2>1, <4>1 DEF TypeOK
        <4> QED
          BY <4>1, <4>2 DEF Locker
      <3>2. CASE holder[r] # i
        <4>1. holder'[r] = holder[r]
          <5>1. impl[i].data # r
            BY <2>1, <3>2 DEF BlockInv
          <5> QED
            BY <2>1, <5>1 DEF TypeOK
        <4> QED
          BY <2>1, <3>2, <4>1 DEF Locker, TypeOK
      <3> QED
        BY <3>1, <3>2
    <2> QED
      BY <1>1, <2>1, <2>2
  <1>7. ASSUME NEW t \in Threads, Clear(t) \/ Cleanse(t) PROVE LocksEndWithTheirBuffer'
    BY <1>2, <1>7 DEF Clear, Cleanse
  <1>8. ASSUME NEW t \in Threads, NEW b \in Buffers, DefaultConstruct(t, b) \/ Destroy(t, b)
        PROVE  LocksEndWithTheirBuffer'
    BY <1>2, <1>8 DEF DefaultConstruct, Destroy
  <1>9. ASSUME NEW t \in Threads, NEW b \in Buffers, NEW other \in Buffers,
               MoveConstruct(t, b, other) \/ MoveAssign(t, b, other)
        PROVE  LocksEndWithTheirBuffer'
    BY <1>2, <1>9 DEF MoveConstruct, MoveAssign
  <1>10. CASE UNCHANGED vars
    BY <1>2, <1>10 DEF vars
  <1> QED
    BY <1>3, <1>4, <1>5, <1>6, <1>7, <1>8, <1>9, <1>10 DEF Next

\* Every step of clearing is taken in its turn, whatever others do.
LEMMA ClearStep == TypeOK /\ OwnerInv /\ BlockInv /\ ClearInv /\ [Next]_vars => ClearInv'
  <1> SUFFICES ASSUME TypeOK /\ OwnerInv /\ BlockInv /\ ClearInv, [Next]_vars PROVE ClearInv'
    OBVIOUS
  <1> USE BufferAssumption DEF TypeOK, Unmade, Idle, OwnerInv, OneOwner, NoneIsLost, BlockInv, ClearInv
  <1>1. ASSUME NEW t \in Threads, NEW s \in Storage, FillVector(t, s) PROVE ClearInv'
    BY <1>1 DEF FillVector, Free
  <1>2. ASSUME NEW t \in Threads, NEW b \in Buffers, DefaultConstruct(t, b) PROVE ClearInv'
    BY <1>2 DEF DefaultConstruct, Free, Object
  <1>3. ASSUME NEW t \in Threads, NEW b \in Buffers, NEW i \in Impls, NEW s \in Storage \cup {Null}, NEW locked \in BOOLEAN, Construct(t, b, i, s, locked) PROVE ClearInv'
    BY <1>3 DEF Construct, Free, Object, lock_memory
  <1>4. ASSUME NEW t \in Threads, NEW b \in Buffers, NEW other \in Buffers, MoveConstruct(t, b, other) PROVE ClearInv'
    BY <1>4 DEF MoveConstruct, Free, Object
  <1>5. ASSUME NEW t \in Threads, NEW b \in Buffers, NEW other \in Buffers, MoveAssign(t, b, other) PROVE ClearInv'
    BY <1>5 DEF MoveAssign, Delete, Free, Object
  <1>6. ASSUME NEW t \in Threads, NEW b \in Buffers, Destroy(t, b) PROVE ClearInv'
    BY <1>6 DEF Destroy, Delete, Free, Object
  <1>7. ASSUME NEW t \in Threads, Clear(t) PROVE ClearInv'
    BY <1>7 DEF Clear, NextStage, At, Goto
  <1>8. ASSUME NEW t \in Threads, Unlock(t) PROVE ClearInv'
    BY <1>8 DEF Unlock, At, Goto, Data
  <1>9. ASSUME NEW t \in Threads, Cleanse(t) PROVE ClearInv'
    BY <1>9 DEF Cleanse, At, Goto, Data
  <1>10. ASSUME NEW t \in Threads, Release(t) PROVE ClearInv'
    BY <1>10 DEF Release, At, Data
  <1>11. ASSUME UNCHANGED vars PROVE ClearInv'
    BY <1>11 DEF vars
  <1> HIDE DEF TypeOK, Unmade, Idle, OwnerInv, OneOwner, NoneIsLost, BlockInv, ClearInv
  <1> QED
    BY <1>1, <1>2, <1>3, <1>4, <1>5, <1>6, <1>7, <1>8, <1>9, <1>10, <1>11 DEF Next

\* No step copies, loses or leaves a secret.
LEMMA SecretStep == TypeOK /\ OwnerInv /\ BlockInv /\ ClearInv /\ SecretInv /\ [Next]_vars => SecretInv'
  <1> SUFFICES ASSUME TypeOK /\ OwnerInv /\ BlockInv /\ ClearInv /\ SecretInv, [Next]_vars PROVE SecretInv'
    OBVIOUS
  <1> USE BufferAssumption DEF TypeOK, Unmade, Idle, OwnerInv, OneOwner, NoneIsLost, BlockInv, ClearInv, SecretInv
  <1>1. ASSUME NEW t \in Threads, NEW s \in Storage, FillVector(t, s) PROVE SecretInv'
    BY <1>1 DEF FillVector, Free
  <1>2. ASSUME NEW t \in Threads, NEW b \in Buffers, DefaultConstruct(t, b) PROVE SecretInv'
    BY <1>2 DEF DefaultConstruct, Free, Object
  <1>3. ASSUME NEW t \in Threads, NEW b \in Buffers, NEW i \in Impls, NEW s \in Storage \cup {Null}, NEW locked \in BOOLEAN, Construct(t, b, i, s, locked) PROVE SecretInv'
    BY <1>3 DEF Construct, Free, Object, lock_memory
  <1>4. ASSUME NEW t \in Threads, NEW b \in Buffers, NEW other \in Buffers, MoveConstruct(t, b, other) PROVE SecretInv'
    BY <1>4 DEF MoveConstruct, Free, Object
  <1>5. ASSUME NEW t \in Threads, NEW b \in Buffers, NEW other \in Buffers, MoveAssign(t, b, other) PROVE SecretInv'
    BY <1>5 DEF MoveAssign, Delete, Free, Object
  <1>6. ASSUME NEW t \in Threads, NEW b \in Buffers, Destroy(t, b) PROVE SecretInv'
    BY <1>6 DEF Destroy, Delete, Free, Object
  <1>7. ASSUME NEW t \in Threads, Clear(t) PROVE SecretInv'
    BY <1>7 DEF Clear, NextStage, At, Goto
  <1>8. ASSUME NEW t \in Threads, Unlock(t) PROVE SecretInv'
    BY <1>8 DEF Unlock, At, Goto, Data
  <1>9. ASSUME NEW t \in Threads, Cleanse(t) PROVE SecretInv'
    BY <1>9 DEF Cleanse, At, Goto, Data
  <1>10. ASSUME NEW t \in Threads, Release(t) PROVE SecretInv'
    BY <1>10 DEF Release, At, Data
  <1>11. ASSUME UNCHANGED vars PROVE SecretInv'
    BY <1>11 DEF vars
  <1> HIDE DEF TypeOK, Unmade, Idle, OwnerInv, OneOwner, NoneIsLost, BlockInv, ClearInv, SecretInv
  <1> QED
    BY <1>1, <1>2, <1>3, <1>4, <1>5, <1>6, <1>7, <1>8, <1>9, <1>10, <1>11 DEF Next

-----------------------------------------------------------------------------

\* Before anything is made there is nothing to own.
LEMMA InitInv == Init => IInv
  <1> SUFFICES ASSUME Init PROVE IInv
    OBVIOUS
  <1> USE BufferAssumption DEF Init, Unmade, Idle
  <1>1. TypeOK
    BY DEF TypeOK
  <1>2. OwnerInv
    BY DEF OwnerInv, OneOwner, NoneIsLost
  <1>3. BlockInv /\ ClearInv /\ SecretInv
    BY DEF BlockInv, ClearInv, SecretInv
  <1>4. LocksEndWithTheirBuffer
    BY DEF LocksEndWithTheirBuffer, Locker
  <1> QED
    BY <1>1, <1>2, <1>3, <1>4 DEF IInv

\* The inductive invariant holds whatever threads do with buffers, in any order.
THEOREM Invariance == Spec => []IInv
  <1>1. IInv /\ [Next]_vars => IInv'
    BY TypeStep, OwnerStep, BlockStep, ClearStep, SecretStep, LockStep DEF IInv
  <1> QED
    BY InitInv, <1>1, PTL DEF Spec

\* A buffer shows what it was given until it is moved from, overwritten or destroyed,
\* and no secret is in two buffers.
THEOREM SecretsStay == Spec => []BuffersKeepTheirSecrets
  <1>1. IInv => BuffersKeepTheirSecrets
    <2> SUFFICES ASSUME IInv PROVE BuffersKeepTheirSecrets
      OBVIOUS
    <2> USE BufferAssumption DEF IInv, TypeOK
    <2>1. \A b \in Buffers : data(b) \in Storage \cup {Null}
      BY DEF data
    <2>2. \A b \in Buffers : view(b) = given[b] /\ (empty(b) <=> given[b] = 0)
      BY DEF SecretInv, view, empty, data
    <2>3. ASSUME NEW b \in Buffers, NEW c \in Buffers, view(b) = view(c), view(b) # 0
          PROVE b = c
      <3>1. /\ data(b) \in Storage /\ data(c) \in Storage
            /\ bytes[data(b)] = bytes[data(c)] /\ bytes[data(b)] # 0
        BY <2>1, <2>3 DEF view
      <3>2. data(b) = data(c)
        BY <3>1 DEF SecretInv
      <3>3. impl_[b] \in Impls /\ impl_[c] \in Impls /\ impl[impl_[b]].data = impl[impl_[c]].data
        BY <3>1, <3>2 DEF data
      <3>4. impl_[b] = impl_[c]
        BY <3>1, <3>3 DEF BlockInv, data
      <3> QED
        BY <3>3, <3>4 DEF OwnerInv, OneOwner
    <2> QED
      BY <2>2, <2>3 DEF BuffersKeepTheirSecrets
  <1> QED
    BY <1>1, Invariance, PTL

\* impl::clear runs for every buffer that had bytes, before they go back to the heap.
THEOREM NoSecretIsLeft == Spec => []NothingIsLeftBehind
  <1>1. IInv => NothingIsLeftBehind
    <2> SUFFICES ASSUME IInv, NEW i \in Impls, impl[i].made
                 PROVE  \/ \E b \in Buffers : impl_[b] = i /\ \A t \in Threads : doing[t].impl # i
                        \/ /\ \A b \in Buffers : impl_[b] # i
                           /\ \E t \in Threads :
                                  doing[t].impl = i /\ \A u \in Threads \ {t} : doing[u].impl # i
      BY DEF IInv, SecretInv, NothingIsLeftBehind
    <2> USE DEF IInv, OwnerInv, OneOwner, NoneIsLost
    <2>1. CASE \E b \in Buffers : impl_[b] = i
      BY <2>1
    <2>2. CASE \E t \in Threads : doing[t].impl = i
      BY <2>2
    <2> QED
      BY <2>1, <2>2
  <1> QED
    BY <1>1, Invariance, PTL

\* lock_memory and unlock_memory come in pairs around the life of a buffer's bytes: no page
\* stays locked without a buffer on it that locked it, and a buffer with pages of its own
\* keeps its lock.
THEOREM LocksArePaired == Spec => []LocksEndWithTheirBuffer
  <1>1. IInv => LocksEndWithTheirBuffer
    BY DEF IInv
  <1> QED
    BY <1>1, Invariance, PTL
=============================================================================
