----------------------------- MODULE SecretBuffer -----------------------------
(***************************************************************************)
(* secret_buffer: threads hand vectors of bytes over to buffers, move and   *)
(* overwrite them and destroy them.  A buffer points to an impl, which owns *)
(* the storage of the vector; clearing an impl takes several steps, while   *)
(* other threads allocate and free on the same heap.                        *)
(***************************************************************************)
EXTENDS Naturals

CONSTANTS
    Threads, Buffers, Impls,
    Storage,      \* blocks of the heap that vectors keep their bytes in
    Page,         \* pages of memory
    PagesOf,      \* the pages each block lies on
    Null,
    MaxVectors    \* vectors filled

ASSUME BufferAssumption ==
    /\ Null \notin Impls \cup Storage \cup {"none"}
    /\ Impls \cap {"nobody", "caller", "none"} = {}
    /\ MaxVectors \in Nat

\* Bytes lie on a page or on several.
ASSUME PagesAssumption == PagesOf \in [Storage -> SUBSET Page \ {{}}]

VARIABLES
    holder,   \* who has each block: nobody, the caller, or an impl
    bytes,    \* what is in it: the number of a secret, or 0
    mlocked,  \* pages locked in memory
    impl,     \* members of each impl there is
    impl_,    \* the pointer of each buffer; "none" for no object
    doing,    \* the impl each thread is deleting and how far it is
    secrets,  \* how many vectors were filled
    given     \* the secret each buffer was given, directly or by a move; 0 for none

vars == <<holder, bytes, mlocked, impl, impl_, doing, secrets, given>>

\* An impl of an empty vector has no storage.
Unmade == [made |-> FALSE, data |-> Null, locked |-> FALSE]
Idle == [stage |-> "idle", impl |-> Null]
Object(b) == impl_[b] # "none"

Init ==
    /\ holder = [s \in Storage |-> "nobody"]
    /\ bytes = [s \in Storage |-> 0]
    /\ mlocked = {}
    /\ impl = [i \in Impls |-> Unmade]
    /\ impl_ = [b \in Buffers |-> "none"]
    /\ doing = [t \in Threads |-> Idle]
    /\ secrets = 0
    /\ given = [b \in Buffers |-> 0]

Free(t) == doing[t] = Idle

-----------------------------------------------------------------------------
(* Callers *)

\* A vector with secret bytes.
FillVector(t, s) ==
    /\ Free(t) /\ holder[s] = "nobody" /\ secrets < MaxVectors
    /\ holder' = [holder EXCEPT ![s] = "caller"]
    /\ secrets' = secrets + 1
    /\ bytes' = [bytes EXCEPT ![s] = secrets + 1]
    /\ UNCHANGED <<mlocked, impl, impl_, doing, given>>

-----------------------------------------------------------------------------
(* Construction.  A definition named ..._Fault is the one after it with a mistake
   a programmer could make; the checks are run against it too, to see that they
   notice. *)

DefaultConstruct(t, b) ==
    /\ Free(t) /\ ~Object(b)
    /\ impl_' = [impl_ EXCEPT ![b] = Null]
    /\ given' = [given EXCEPT ![b] = 0]
    /\ UNCHANGED <<holder, bytes, mlocked, impl, doing, secrets>>

\* Whether the bytes are locked: that may fail, and is not tried without bytes.
lock_memory(s) == IF s = Null THEN {FALSE} ELSE BOOLEAN

\* From a vector in a block, or from an empty one.  If the impl cannot be allocated
\* nothing happens, and the caller keeps the vector.
Construct(t, b, i, s, locked) ==
    /\ Free(t) /\ ~Object(b) /\ ~impl[i].made
    /\ s # Null => holder[s] = "caller"
    /\ locked \in lock_memory(s)
    /\ impl' = [impl EXCEPT ![i] = [made |-> TRUE, data |-> s, locked |-> locked]]
    /\ impl_' = [impl_ EXCEPT ![b] = i]
    /\ mlocked' = IF locked THEN mlocked \cup PagesOf[s] ELSE mlocked
    /\ holder' = IF s = Null THEN holder ELSE [holder EXCEPT ![s] = i]
    /\ given' = [given EXCEPT ![b] = IF s = Null THEN 0 ELSE bytes[s]]
    /\ UNCHANGED <<bytes, doing, secrets>>

-----------------------------------------------------------------------------
(* Moves and destruction *)

Delete(t, i) ==
    doing' = IF i \in Impls THEN [doing EXCEPT ![t] = [stage |-> "clear", impl |-> i]] ELSE doing

\* Copying the pointer.
MoveConstruct_Fault(t, b, other) ==
    /\ Free(t) /\ ~Object(b) /\ Object(other)
    /\ impl_' = [impl_ EXCEPT ![b] = impl_[other]]
    /\ given' = [given EXCEPT ![b] = given[other], ![other] = 0]
    /\ UNCHANGED <<holder, bytes, mlocked, impl, doing, secrets>>

MoveConstruct(t, b, other) ==
    /\ Free(t) /\ ~Object(b) /\ Object(other)
    /\ impl_' = [impl_ EXCEPT ![b] = impl_[other], ![other] = Null]
    /\ given' = [given EXCEPT ![b] = given[other], ![other] = 0]
    /\ UNCHANGED <<holder, bytes, mlocked, impl, doing, secrets>>

\* The buffer has its new impl before the old one is deleted; assigned to itself it
\* keeps what it has.
MoveAssign(t, b, other) ==
    /\ Free(t) /\ Object(b) /\ Object(other)
    /\ IF b = other
       THEN UNCHANGED <<impl_, given, doing>>
       ELSE /\ impl_' = [impl_ EXCEPT ![b] = impl_[other], ![other] = Null]
            /\ given' = [given EXCEPT ![b] = given[other], ![other] = 0]
            /\ Delete(t, impl_[b])
    /\ UNCHANGED <<holder, bytes, mlocked, impl, secrets>>

Destroy(t, b) ==
    /\ Free(t) /\ Object(b)
    /\ impl_' = [impl_ EXCEPT ![b] = "none"]
    /\ given' = [given EXCEPT ![b] = 0]
    /\ Delete(t, impl_[b])
    /\ UNCHANGED <<holder, bytes, mlocked, impl, secrets>>

\* impl::clear: nothing to do, or unlocking and then cleansing.
At(t, stage) == doing[t].stage = stage
Data(t) == impl[doing[t].impl].data
Goto(t, stage) == doing' = [doing EXCEPT ![t].stage = stage]

\* Deciding by the lock whether there is anything to clear.
NextStage_Fault(members) == IF members.locked THEN "unlock" ELSE "free"

NextStage(members) ==
    IF members.data = Null THEN "free" ELSE IF members.locked THEN "unlock" ELSE "cleanse"

Clear(t) ==
    /\ At(t, "clear")
    /\ Goto(t, NextStage(impl[doing[t].impl]))
    /\ UNCHANGED <<holder, bytes, mlocked, impl, impl_, secrets, given>>

\* Unlocking no bytes.
Unlock_Fault(t) ==
    /\ At(t, "unlock")
    /\ impl' = [impl EXCEPT ![doing[t].impl].locked = FALSE]
    /\ Goto(t, "cleanse")
    /\ UNCHANGED <<holder, bytes, mlocked, impl_, secrets, given>>

\* Locks of pages do not nest: the pages are unlocked for all that lies on them.
Unlock(t) ==
    /\ At(t, "unlock")
    /\ mlocked' = mlocked \ PagesOf[Data(t)]
    /\ impl' = [impl EXCEPT ![doing[t].impl].locked = FALSE]
    /\ Goto(t, "cleanse")
    /\ UNCHANGED <<holder, bytes, impl_, secrets, given>>

Cleanse(t) ==
    /\ At(t, "cleanse")
    /\ bytes' = [bytes EXCEPT ![Data(t)] = 0]
    /\ Goto(t, "free")
    /\ UNCHANGED <<holder, mlocked, impl, impl_, secrets, given>>

\* The vector and the impl go back to the heap.
Release(t) ==
    /\ At(t, "free")
    /\ holder' = IF Data(t) = Null THEN holder ELSE [holder EXCEPT ![Data(t)] = "nobody"]
    /\ impl' = [impl EXCEPT ![doing[t].impl] = Unmade]
    /\ doing' = [doing EXCEPT ![t] = Idle]
    /\ UNCHANGED <<bytes, mlocked, impl_, secrets, given>>

-----------------------------------------------------------------------------
Next ==
    \E t \in Threads :
        \/ \E s \in Storage : FillVector(t, s)
        \/ Clear(t) \/ Unlock(t) \/ Cleanse(t) \/ Release(t)
        \/ \E b \in Buffers :
              \/ DefaultConstruct(t, b) \/ Destroy(t, b)
              \/ \E other \in Buffers : MoveConstruct(t, b, other) \/ MoveAssign(t, b, other)
              \/ \E i \in Impls, s \in Storage \cup {Null}, locked \in BOOLEAN :
                    Construct(t, b, i, s, locked)

Spec == Init /\ [][Next]_vars

-----------------------------------------------------------------------------
(* What a buffer shows *)

data(b) == IF impl_[b] \in Impls THEN impl[impl_[b]].data ELSE Null
empty(b) == data(b) = Null
view(b) == IF data(b) = Null THEN 0 ELSE bytes[data(b)]

-----------------------------------------------------------------------------
(* Properties *)

\* Types of the variables.
TypeOK ==
    /\ holder \in [Storage -> {"nobody", "caller"} \cup Impls]
    /\ bytes \in [Storage -> 0..MaxVectors]
    /\ mlocked \subseteq Page
    /\ impl \in [Impls -> [made : BOOLEAN, data : Storage \cup {Null}, locked : BOOLEAN]]
    /\ impl_ \in [Buffers -> Impls \cup {Null, "none"}]
    /\ doing \in [Threads -> [stage : {"idle", "clear", "unlock", "cleanse", "free"},
                              impl : Impls \cup {Null}]]
    /\ secrets \in 0..MaxVectors
    /\ given \in [Buffers -> 0..MaxVectors]

\* A buffer shows the secret it was given, over every chain of moves, until it is
\* moved from, overwritten or destroyed; a buffer moved from is empty, and no secret
\* is in two buffers.
BuffersKeepTheirSecrets ==
    \A b \in Buffers : Object(b) =>
        /\ view(b) = given[b]
        /\ empty(b) <=> given[b] = 0
        /\ \A c \in Buffers : Object(c) /\ view(b) = view(c) /\ view(b) # 0 => b = c

\* "clears its contents ... before release": no byte of a secret is left in the heap
\* behind a buffer, locked or not, however it ended; a secret is with its caller, in a
\* buffer, or with the one thread that is clearing it.
NothingIsLeftBehind ==
    /\ \A s \in Storage : holder[s] = "nobody" => bytes[s] = 0
    /\ \A i \in Impls : impl[i].made =>
          \/ \E b \in Buffers : impl_[b] = i /\ \A t \in Threads : doing[t].impl # i
          \/ /\ \A b \in Buffers : impl_[b] # i
             /\ \E t \in Threads : doing[t].impl = i /\ \A u \in Threads \ {t} : doing[u].impl # i

\* What lock_memory and unlock_memory bring about page by page.  A page stays locked no
\* longer than bytes lie on it whose impl has locked them, so no lock stays behind in
\* memory others get; and where a block shares no page with another its bytes are
\* locked until its own impl unlocks them.  On a shared page the end of one buffer does
\* lift the lock of the others, as munlock does.
Locker(s) == holder[s] \in Impls /\ impl[holder[s]].locked
Alone(s) == \A r \in Storage \ {s} : PagesOf[r] \cap PagesOf[s] = {}

LocksEndWithTheirBuffer ==
    /\ \A p \in mlocked : \E s \in Storage : p \in PagesOf[s] /\ Locker(s)
    /\ \A s \in Storage : Locker(s) /\ Alone(s) => PagesOf[s] \subseteq mlocked
=============================================================================
