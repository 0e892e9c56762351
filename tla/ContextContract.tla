---------------------------- MODULE ContextContract ----------------------------
(***************************************************************************)
(* What tpm_context promises its callers, with none of the steps between:  *)
(* create() either hands out a context whose connection is whole or fails  *)
(* and leaves nothing behind; a context is a resource with one owner,      *)
(* which moves hand over; and the connection of a context that lost its    *)
(* last owner is released as a whole.                                      *)
(***************************************************************************)
CONSTANTS
    Context,  \* contexts, by the call that creates them
    Object,   \* tpm_context objects
    Absent,   \* no object
    Null      \* an object that owns no context

VARIABLES
    owner,  \* what each object owns
    phase,  \* "new", "refused", "live", "closing" or "released"
    open    \* contexts whose connection is open to their callers

vars == <<owner, phase, open>>

Init ==
    /\ owner = [o \in Object |-> Absent]
    /\ phase = [c \in Context |-> "new"]
    /\ open = {}

\* create() succeeds: one step from nothing to a usable context.
Create(c, o) ==
    /\ phase[c] = "new"
    /\ owner[o] = Absent
    /\ owner' = [owner EXCEPT ![o] = c]
    /\ phase' = [phase EXCEPT ![c] = "live"]
    /\ open' = open \cup {c}

\* create() fails: no connection, no object.
Refuse(c) ==
    /\ phase[c] = "new"
    /\ phase' = [phase EXCEPT ![c] = "refused"]
    /\ UNCHANGED <<owner, open>>

\* The context that o owned, if any, starts to close.
Lose(o) ==
    /\ phase' = [c \in Context |-> IF owner[o] = c THEN "closing" ELSE phase[c]]
    /\ open' = open \ {owner[o]}

MoveConstruct(from, to) ==
    /\ owner[from] # Absent
    /\ owner[to] = Absent
    /\ owner' = [owner EXCEPT ![to] = owner[from], ![from] = Null]
    /\ UNCHANGED <<phase, open>>

MoveAssign(from, to) ==
    /\ from # to
    /\ owner[from] # Absent
    /\ owner[to] # Absent
    /\ owner' = [owner EXCEPT ![to] = owner[from], ![from] = Null]
    /\ Lose(to)

Destroy(o) ==
    /\ owner[o] # Absent
    /\ owner' = [owner EXCEPT ![o] = Absent]
    /\ Lose(o)

\* Both handles of a closing context are closed.
Release(c) ==
    /\ phase[c] = "closing"
    /\ phase' = [phase EXCEPT ![c] = "released"]
    /\ UNCHANGED <<owner, open>>

Next ==
    \/ \E c \in Context, o \in Object : Create(c, o)
    \/ \E c \in Context : Refuse(c) \/ Release(c)
    \/ \E from, to \in Object : MoveConstruct(from, to) \/ MoveAssign(from, to)
    \/ \E o \in Object : Destroy(o)

Spec == Init /\ [][Next]_vars
=============================================================================
