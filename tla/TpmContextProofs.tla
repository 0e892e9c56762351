--------------------------- MODULE TpmContextProofs ---------------------------
(***************************************************************************)
(* Proofs about TpmContext for any number of attempts, objects, providers  *)
(* and resets.  IInv is inductive; the safety properties follow from it.   *)
(***************************************************************************)
EXTENDS TpmContextRefinement, TLAPS

\* Every step keeps the variables in their types.
LEMMA TypeStep == TypeOK /\ [Next]_vars => TypeOK'
  <1> SUFFICES ASSUME TypeOK, [Next]_vars PROVE TypeOK'
    OBVIOUS
  <1> USE ContextAssumption DEF TypeOK, callVars, vars, Pc, CreatePc, Event, Category, AnyRequest, ValidMode
  <1>1. ASSUME NEW a \in Attempt, ValidateStartupMode(a) PROVE TypeOK'
    BY <1>1 DEF ValidateStartupMode, At, Goto, Fail
  <1>2. ASSUME NEW a \in Attempt, CheckOwnedHandle(a) PROVE TypeOK'
    BY <1>2 DEF CheckOwnedHandle, Disown, At, Goto, Log, Fail
  <1>3. ASSUME NEW a \in Attempt, ResolveTcti(a) PROVE TypeOK'
    BY <1>3 DEF ResolveTcti, At, Goto, Log, Fail
  <1>4. ASSUME NEW a \in Attempt, GetTctiInfo(a) PROVE TypeOK'
    BY <1>4 DEF GetTctiInfo, At, Goto, Log, Fail, FailTss
  <1>5. ASSUME NEW a \in Attempt, AllocateLoaderContext(a) PROVE TypeOK'
    BY <1>5 DEF AllocateLoaderContext, Acquire, At, Goto, Log, Fail, FailTss
  <1>6. ASSUME NEW a \in Attempt, InitTcti(a) PROVE TypeOK'
    BY <1>6 DEF InitTcti, At, Goto, Log, Fail, FailTss
  <1>7. ASSUME NEW a \in Attempt, InitializeEsys(a) PROVE TypeOK'
    BY <1>7 DEF InitializeEsys, Acquire, At, Goto, Log, Fail, FailTss
  <1>8. ASSUME NEW a \in Attempt, StartTpm(a) PROVE TypeOK'
    BY <1>8 DEF StartTpm, At, Goto, Log
  <1>9. ASSUME NEW a \in Attempt, FinishStartup(a) PROVE TypeOK'
    BY <1>9 DEF FinishStartup, is_startup_already_initialized, At, Goto, Log, Fail, FailTss
  <1>10. ASSUME NEW a \in Attempt, ConstructImpl(a) PROVE TypeOK'
    BY <1>10 DEF ConstructImpl, At, Goto, Fail
  <1>11. ASSUME NEW a \in Attempt, UnwindEsys(a) PROVE TypeOK'
    BY <1>11 DEF UnwindEsys, Close, Disown, At
  <1>12. ASSUME NEW a \in Attempt, UnwindTcti(a) PROVE TypeOK'
    <2>1. crashed' \in BOOLEAN
      BY <1>12, Zenon DEF UnwindTcti
    <2>2. tcti' \in [Attempt -> {"absent", "pending", "open", "closed", "released", "misused"}]
      BY <1>12 DEF UnwindTcti, Close
    <2>3. owned' \in [Attempt -> SUBSET {"tcti", "esys"}]
      BY <1>12 DEF UnwindTcti, Disown
    <2> QED
      BY <1>12, <2>1, <2>2, <2>3 DEF UnwindTcti
  <1>13. ASSUME NEW a \in Attempt, ReturnError(a) PROVE TypeOK'
    BY <1>13 DEF ReturnError, At, Goto
  <1>14. ASSUME NEW a \in Attempt, LogFinalized(a) PROVE TypeOK'
    BY <1>14 DEF LogFinalized, At, Log
  <1>15. ASSUME NEW a \in Attempt, DestroyEsysMember(a) PROVE TypeOK'
    BY <1>15 DEF DestroyEsysMember, Close, Disown, At
  <1>16. ASSUME NEW a \in Attempt, DestroyTctiMember(a) PROVE TypeOK'
    BY <1>16 DEF DestroyTctiMember, Close, Disown, At, Goto
  <1>17. ASSUME NEW a \in Attempt, TpmStartup(a) PROVE TypeOK'
    <2>1. tpm' \in [started : BOOLEAN, resets : 0..MaxResets]
      <3>1. tpm' = [started |-> TRUE, resets |-> tpm.resets] \/ tpm' = tpm
        BY <1>17, Zenon DEF TpmStartup
      <3>2. tpm \in [started : BOOLEAN, resets : 0..MaxResets]
        BY Zenon DEF TypeOK
      <3>3. tpm.resets \in 0..MaxResets
        BY <3>2
      <3>4. [started |-> TRUE, resets |-> tpm.resets] \in [started : BOOLEAN, resets : 0..MaxResets]
        BY <3>3
      <3>5. QED
        BY <3>1, <3>2, <3>4, Zenon
    <2>2. reply' \in [Attempt -> TssCategory \cup {"none", "ok", "initialize"}]
      BY <1>17 DEF TpmStartup
    <2>3. epoch' \in [Attempt -> 0..MaxResets]
      BY <1>17 DEF TpmStartup
    <2> QED
      BY <1>17, <2>1, <2>2, <2>3 DEF TpmStartup, Goto
  <1>18. ASSUME NEW a \in Attempt, NEW r \in Request, NEW o \in Object, Call(a, r, o) PROVE TypeOK'
    BY <1>18 DEF Call, Quiet, At, Goto
  <1>19. ASSUME NEW from \in Object, NEW to \in Object, MoveConstruct(from, to) PROVE TypeOK'
    BY <1>19 DEF MoveConstruct, Quiet
  <1>20. ASSUME NEW from \in Object, NEW to \in Object, MoveAssign(from, to) PROVE TypeOK'
    BY <1>20 DEF MoveAssign, Vacate, Borrowed, Quiet, Goto
  <1>21. ASSUME NEW o \in Object, Destroy(o) PROVE TypeOK'
    BY <1>21 DEF Destroy, Vacate, Borrowed, Quiet, Goto
  <1>22. ASSUME NEW o \in Object, NEW p \in Provider, CreatePcrProvider(o, p) PROVE TypeOK'
    BY <1>22 DEF CreatePcrProvider, Quiet
  <1>23. ASSUME NEW p \in Provider, DestroyProvider(p) PROVE TypeOK'
    BY <1>23 DEF DestroyProvider
  <1>24. ASSUME TpmReset PROVE TypeOK'
    BY <1>24 DEF TpmReset
  <1>25. ASSUME UNCHANGED vars PROVE TypeOK'
    BY <1>25 DEF vars
  <1>26. QED
    BY <1>1, <1>2, <1>3, <1>4, <1>5, <1>6, <1>7, <1>8, <1>9, <1>10, <1>11, <1>12, <1>13, <1>14, <1>15, <1>16, <1>17, <1>18, <1>19, <1>20, <1>21, <1>22, <1>23, <1>24, <1>25 DEF Next, Run, Use

\* Every step keeps ownership linear; only the moves, Destroy and
\* ConstructImpl write object.
LEMMA OwnerStep == TypeOK /\ OwnerInv /\ [Next]_vars => OwnerInv'
  <1> SUFFICES ASSUME TypeOK /\ OwnerInv, [Next]_vars PROVE OwnerInv'
    OBVIOUS
  <1> USE ContextAssumption DEF TypeOK, callVars, vars, OwnerInv, LinearOwnership, Held, CreatePc
  <1>1. ASSUME NEW a \in Attempt, ValidateStartupMode(a) PROVE OwnerInv'
    BY <1>1 DEF ValidateStartupMode, At, Goto, Fail
  <1>2. ASSUME NEW a \in Attempt, CheckOwnedHandle(a) PROVE OwnerInv'
    BY <1>2 DEF CheckOwnedHandle, At, Goto, Log, Fail
  <1>3. ASSUME NEW a \in Attempt, ResolveTcti(a) PROVE OwnerInv'
    BY <1>3 DEF ResolveTcti, At, Goto, Log, Fail
  <1>4. ASSUME NEW a \in Attempt, GetTctiInfo(a) PROVE OwnerInv'
    BY <1>4 DEF GetTctiInfo, At, Goto, Log, Fail, FailTss
  <1>5. ASSUME NEW a \in Attempt, AllocateLoaderContext(a) PROVE OwnerInv'
    BY <1>5 DEF AllocateLoaderContext, At, Goto, Log, Fail, FailTss
  <1>6. ASSUME NEW a \in Attempt, InitTcti(a) PROVE OwnerInv'
    BY <1>6 DEF InitTcti, At, Goto, Log, Fail, FailTss
  <1>7. ASSUME NEW a \in Attempt, InitializeEsys(a) PROVE OwnerInv'
    BY <1>7 DEF InitializeEsys, At, Goto, Log, Fail, FailTss
  <1>8. ASSUME NEW a \in Attempt, StartTpm(a) PROVE OwnerInv'
    BY <1>8 DEF StartTpm, At, Goto, Log
  <1>9. ASSUME NEW a \in Attempt, FinishStartup(a) PROVE OwnerInv'
    BY <1>9 DEF FinishStartup, is_startup_already_initialized, Category, At, Goto, Log, Fail, FailTss
  <1>10. ASSUME NEW a \in Attempt, ConstructImpl(a) PROVE OwnerInv'
    <2>1. CASE /\ pc' = [pc EXCEPT ![a] = "returned"]
               /\ object' = [object EXCEPT ![site[a]] = a]
               /\ site' = [site EXCEPT ![a] = Null]
      <3>1. site[a] \in Object /\ object[site[a]] = Absent /\ pc[a] = "construct"
        BY <1>10 DEF ConstructImpl, At
      <3>2. LinearOwnership'
        BY <2>1, <3>1
      <3>3. \A b \in Attempt : pc'[b] \in CreatePc =>
              site'[b] \in Object /\ object'[site'[b]] = Absent
        BY <2>1, <3>1
      <3>4. \A b, c \in Attempt : site'[b] \in Object /\ site'[b] = site'[c] => b = c
        BY <2>1
      <3> QED
        BY <1>10, <2>1, <3>2, <3>3, <3>4 DEF ConstructImpl
    <2>2. CASE pc' = [pc EXCEPT ![a] = "unwind"] /\ UNCHANGED <<object, site>>
      BY <1>10, <2>2 DEF ConstructImpl, At
    <2> QED
      BY <1>10, <2>1, <2>2 DEF ConstructImpl, Goto, Fail
  <1>11. ASSUME NEW a \in Attempt, UnwindEsys(a) PROVE OwnerInv'
    BY <1>11 DEF UnwindEsys, At
  <1>12. ASSUME NEW a \in Attempt, UnwindTcti(a) PROVE OwnerInv'
    BY <1>12 DEF UnwindTcti, At
  <1>13. ASSUME NEW a \in Attempt, ReturnError(a) PROVE OwnerInv'
    BY <1>13 DEF ReturnError, At, Goto
  <1>14. ASSUME NEW a \in Attempt, LogFinalized(a) PROVE OwnerInv'
    BY <1>14 DEF LogFinalized, At, Log
  <1>15. ASSUME NEW a \in Attempt, DestroyEsysMember(a) PROVE OwnerInv'
    BY <1>15 DEF DestroyEsysMember, At
  <1>16. ASSUME NEW a \in Attempt, DestroyTctiMember(a) PROVE OwnerInv'
    BY <1>16 DEF DestroyTctiMember, At, Goto
  <1>17. ASSUME NEW a \in Attempt, TpmStartup(a) PROVE OwnerInv'
    BY <1>17 DEF TpmStartup, At, Goto
  <1>18. ASSUME NEW a \in Attempt, NEW r \in Request, NEW o \in Object, Call(a, r, o) PROVE OwnerInv'
    BY <1>18 DEF Call, Quiet, At, Goto
  <1>19. ASSUME NEW from \in Object, NEW to \in Object, MoveConstruct(from, to) PROVE OwnerInv'
    BY <1>19 DEF MoveConstruct, Quiet
  <1>20. ASSUME NEW from \in Object, NEW to \in Object, MoveAssign(from, to) PROVE OwnerInv'
    <2>1. CASE object[to] \notin Attempt
      <3>1. /\ UNCHANGED <<pc, site, provider>>
            /\ from # to /\ object[from] # Absent /\ object[to] # Absent
            /\ \A a \in Attempt : site[a] # from /\ site[a] # to
            /\ object' = [object EXCEPT ![to] = object[from], ![from] = Null]
        BY <1>20, <2>1 DEF MoveAssign, Vacate, Quiet
      <3>2. \A a \in Attempt : Held(a) <=> Held(a)'
        BY <2>1, <3>1
      <3>3. \A a \in Attempt, o1, o2 \in Object : object'[o1] = a /\ object'[o2] = a => o1 = o2
        BY <2>1, <3>1
      <3>4. \A a \in Attempt : pc'[a] \in CreatePc =>
              site'[a] \in Object /\ object'[site'[a]] = Absent
        BY <3>1
      <3>5. LinearOwnership'
        BY <3>1, <3>2, <3>3
      <3>6. \A a, c \in Attempt : site'[a] \in Object /\ site'[a] = site'[c] => a = c
        BY <3>1
      <3>7. \A p \in Provider : provider'[p] \in Attempt => pc'[provider'[p]] = "returned"
        BY <3>1
      <3> QED
        BY <3>4, <3>5, <3>6, <3>7
    <2>2. CASE object[to] \in Attempt
      <3> DEFINE b == object[to]
      <3>1. /\ ~ Borrowed(b)
            /\ pc' = [pc EXCEPT ![b] = "teardown"]
            /\ site' = [site EXCEPT ![b] = to]
            /\ provider' = provider
        BY <1>20, <2>2 DEF MoveAssign, Vacate, Goto
      <3>2. LinearOwnership'
        <4>1. /\ from # to
              /\ object' = [object EXCEPT ![to] = object[from], ![from] = Null]
          BY <1>20 DEF MoveAssign
        <4>2. \A o \in Object : object[o] = b => o = to
          BY <2>2
        <4>3. \A o \in Object : object'[o] # b
          BY <2>2, <4>1, <4>2
        <4>4. \A a \in Attempt \ {b} : Held(a) <=> Held(a)'
          <5> SUFFICES ASSUME NEW a \in Attempt \ {b} PROVE Held(a) <=> Held(a)'
            OBVIOUS
          <5>1. object[from] = a => object'[to] = a
            BY <4>1
          <5>2. object[from] # a => \A o \in Object : object[o] = a <=> object'[o] = a
            BY <4>1
          <5>3. object'[to] = object[from]
            BY <4>1
          <5>4. \A o \in Object : object'[o] = a => \E q \in Object : object[q] = a
            BY <4>1, <5>3
          <5> QED
            BY <5>1, <5>2, <5>4
        <4>5. \A a \in Attempt, o1, o2 \in Object : object'[o1] = a /\ object'[o2] = a => o1 = o2
          BY <4>1
        <4>6. \A a \in Attempt : pc'[a] = "returned" <=> a # b /\ pc[a] = "returned"
          BY <2>2, <3>1
        <4> QED
          BY <4>3, <4>4, <4>5, <4>6, <2>2
      <3>3. \A a \in Attempt : pc'[a] \in CreatePc =>
              site'[a] \in Object /\ object'[site'[a]] = Absent
        BY <1>20, <2>2, <3>1 DEF MoveAssign, Quiet
      <3>4. \A a, c \in Attempt : site'[a] \in Object /\ site'[a] = site'[c] => a = c
        BY <1>20, <2>2, <3>1 DEF MoveAssign, Quiet
      <3>5. \A p \in Provider : provider'[p] \in Attempt => pc'[provider'[p]] = "returned"
        BY <2>2, <3>1 DEF Borrowed
      <3> QED
        BY <3>2, <3>3, <3>4, <3>5
    <2> QED
      BY <2>1, <2>2
  <1>21. ASSUME NEW o \in Object, Destroy(o) PROVE OwnerInv'
    <2>1. CASE object[o] \notin Attempt
      <3>1. UNCHANGED <<pc, site, provider>>
        BY <1>21, <2>1 DEF Destroy, Vacate
      <3> QED
        BY <1>21, <2>1, <3>1 DEF Destroy, Quiet
    <2>2. CASE object[o] \in Attempt
      <3> DEFINE b == object[o]
      <3>1. /\ ~ Borrowed(b)
            /\ pc' = [pc EXCEPT ![b] = "teardown"]
            /\ site' = [site EXCEPT ![b] = o]
            /\ provider' = provider
        BY <1>21, <2>2 DEF Destroy, Vacate, Goto
      <3>2. LinearOwnership'
        BY <1>21, <2>2, <3>1 DEF Destroy, Quiet
      <3>3. \A a \in Attempt : pc'[a] \in CreatePc =>
              site'[a] \in Object /\ object'[site'[a]] = Absent
        BY <1>21, <2>2, <3>1 DEF Destroy, Quiet
      <3>4. \A a, c \in Attempt : site'[a] \in Object /\ site'[a] = site'[c] => a = c
        BY <1>21, <2>2, <3>1 DEF Destroy, Quiet
      <3>5. \A p \in Provider : provider'[p] \in Attempt => pc'[provider'[p]] = "returned"
        BY <2>2, <3>1 DEF Borrowed
      <3> QED
        BY <3>2, <3>3, <3>4, <3>5
    <2> QED
      BY <2>1, <2>2
  <1>22. ASSUME NEW o \in Object, NEW p \in Provider, CreatePcrProvider(o, p) PROVE OwnerInv'
    BY <1>22 DEF CreatePcrProvider, Quiet
  <1>23. ASSUME NEW p \in Provider, DestroyProvider(p) PROVE OwnerInv'
    BY <1>23 DEF DestroyProvider
  <1>24. ASSUME TpmReset PROVE OwnerInv'
    BY <1>24 DEF TpmReset
  <1>25. ASSUME UNCHANGED vars PROVE OwnerInv'
    BY <1>25 DEF vars
  <1>26. QED
    BY <1>1, <1>2, <1>3, <1>4, <1>5, <1>6, <1>7, <1>8, <1>9, <1>10, <1>11, <1>12, <1>13, <1>14, <1>15, <1>16, <1>17, <1>18, <1>19, <1>20, <1>21, <1>22, <1>23, <1>24, <1>25 DEF Next, Run, Use

\* Every step keeps the handles each stage of a call or teardown holds; a
\* provider or an owner excludes that its impl is being torn down.
LEMMA ResourceStep == TypeOK /\ OwnerInv /\ ResourceInv /\ [Next]_vars => ResourceInv'
  <1> SUFFICES ASSUME TypeOK /\ OwnerInv /\ ResourceInv, [Next]_vars PROVE ResourceInv'
    OBVIOUS
  <1> USE ContextAssumption DEF TypeOK, callVars, vars, ResourceInv, OwnerInv, LinearOwnership, Held, BeforeEsys, AfterEsys
  <1>1. ASSUME NEW a \in Attempt, ValidateStartupMode(a) PROVE ResourceInv'
    <2>1. pc[a] = "validate" /\ req[a] \in AnyRequest
      BY <1>1 DEF ValidateStartupMode, At
    <2>2. req[a].kind = "string" => req[a].config \notin {"null_deleter", "valid"}
      BY <2>1 DEF AnyRequest
    <2>3. \/ pc' = [pc EXCEPT ![a] = "unwind"]
          \/ pc' = [pc EXCEPT ![a] = "check_handle"]
          \/ pc' = [pc EXCEPT ![a] = "resolve"] /\ req[a].kind = "string"
      BY <1>1 DEF ValidateStartupMode, Goto, Fail
    <2> QED
      BY <1>1, <2>1, <2>2, <2>3 DEF ValidateStartupMode
  <1>2. ASSUME NEW a \in Attempt, CheckOwnedHandle(a) PROVE ResourceInv'
    BY <1>2 DEF CheckOwnedHandle, Disown, At, Goto, Log, Fail
  <1>3. ASSUME NEW a \in Attempt, ResolveTcti(a) PROVE ResourceInv'
    BY <1>3 DEF ResolveTcti, At, Goto, Log, Fail
  <1>4. ASSUME NEW a \in Attempt, GetTctiInfo(a) PROVE ResourceInv'
    BY <1>4 DEF GetTctiInfo, At, Goto, Log, Fail, FailTss
  <1>5. ASSUME NEW a \in Attempt, AllocateLoaderContext(a) PROVE ResourceInv'
    BY <1>5 DEF AllocateLoaderContext, Acquire, At, Goto, Log, Fail, FailTss
  <1>6. ASSUME NEW a \in Attempt, InitTcti(a) PROVE ResourceInv'
    BY <1>6 DEF InitTcti, At, Goto, Log, Fail, FailTss
  <1>7. ASSUME NEW a \in Attempt, InitializeEsys(a) PROVE ResourceInv'
    BY <1>7 DEF InitializeEsys, Acquire, At, Goto, Log, Fail, FailTss
  <1>8. ASSUME NEW a \in Attempt, StartTpm(a) PROVE ResourceInv'
    BY <1>8 DEF StartTpm, At, Goto, Log
  <1>9. ASSUME NEW a \in Attempt, FinishStartup(a) PROVE ResourceInv'
    BY <1>9 DEF FinishStartup, is_startup_already_initialized, Category, At, Goto, Log, Fail, FailTss
  <1>10. ASSUME NEW a \in Attempt, ConstructImpl(a) PROVE ResourceInv'
    BY <1>10 DEF ConstructImpl, At, Goto, Fail
  <1>11. ASSUME NEW a \in Attempt, UnwindEsys(a) PROVE ResourceInv'
    BY <1>11 DEF UnwindEsys, Close, Disown, At
  <1>12. ASSUME NEW a \in Attempt, UnwindTcti(a) PROVE ResourceInv'
    BY <1>12 DEF UnwindTcti, Close, Disown, At
  <1>13. ASSUME NEW a \in Attempt, ReturnError(a) PROVE ResourceInv'
    BY <1>13 DEF ReturnError, At, Goto
  <1>14. ASSUME NEW a \in Attempt, LogFinalized(a) PROVE ResourceInv'
    BY <1>14 DEF LogFinalized, At, Log
  <1>15. ASSUME NEW a \in Attempt, DestroyEsysMember(a) PROVE ResourceInv'
    BY <1>15 DEF DestroyEsysMember, Close, Disown, At
  <1>16. ASSUME NEW a \in Attempt, DestroyTctiMember(a) PROVE ResourceInv'
    BY <1>16 DEF DestroyTctiMember, Close, Disown, At, Goto
  <1>17. ASSUME NEW a \in Attempt, TpmStartup(a) PROVE ResourceInv'
    BY <1>17 DEF TpmStartup, At, Goto
  <1>18. ASSUME NEW a \in Attempt, NEW r \in Request, NEW o \in Object, Call(a, r, o) PROVE ResourceInv'
    BY <1>18 DEF Call, Quiet, At, Goto
  <1>19. ASSUME NEW from \in Object, NEW to \in Object, MoveConstruct(from, to) PROVE ResourceInv'
    BY <1>19 DEF MoveConstruct, Quiet
  <1>20. ASSUME NEW from \in Object, NEW to \in Object, MoveAssign(from, to) PROVE ResourceInv'
    BY <1>20 DEF MoveAssign, Vacate, Borrowed, Quiet, Goto
  <1>21. ASSUME NEW o \in Object, Destroy(o) PROVE ResourceInv'
    BY <1>21 DEF Destroy, Vacate, Borrowed, Quiet, Goto
  <1>22. ASSUME NEW o \in Object, NEW p \in Provider, CreatePcrProvider(o, p) PROVE ResourceInv'
    BY <1>22 DEF CreatePcrProvider, Quiet
  <1>23. ASSUME NEW p \in Provider, DestroyProvider(p) PROVE ResourceInv'
    BY <1>23 DEF DestroyProvider
  <1>24. ASSUME TpmReset PROVE ResourceInv'
    BY <1>24 DEF TpmReset
  <1>25. ASSUME UNCHANGED vars PROVE ResourceInv'
    BY <1>25 DEF vars
  <1>26. QED
    BY <1>1, <1>2, <1>3, <1>4, <1>5, <1>6, <1>7, <1>8, <1>9, <1>10, <1>11, <1>12, <1>13, <1>14, <1>15, <1>16, <1>17, <1>18, <1>19, <1>20, <1>21, <1>22, <1>23, <1>24, <1>25 DEF Next, Run, Use

\* Every step keeps what the log of each stage holds.
LEMMA AuditStep == TypeOK /\ OwnerInv /\ ResourceInv /\ AuditInv /\ [Next]_vars => AuditInv'
  <1> SUFFICES ASSUME TypeOK /\ OwnerInv /\ ResourceInv /\ AuditInv, [Next]_vars PROVE AuditInv'
    OBVIOUS
  <1>a. \A a \in Attempt : pc[a] \in BeforeEsys => esys[a] = "absent"
    BY DEF ResourceInv
  <1>b. \A o \in Object : object[o] \in Attempt => pc[object[o]] = "returned"
    BY DEF OwnerInv, LinearOwnership, Held
  <1> USE <1>a, <1>b, ContextAssumption
          DEF AuditInv, TypeOK, CreatePc, BeforeEsys, AfterEsys, callVars, vars
  <1>1. ASSUME NEW a \in Attempt, ValidateStartupMode(a) PROVE AuditInv'
    BY <1>1 DEF ValidateStartupMode, At, Goto, Fail
  <1>2. ASSUME NEW a \in Attempt, CheckOwnedHandle(a) PROVE AuditInv'
    BY <1>2 DEF CheckOwnedHandle, At, Goto, Log, Fail
  <1>3. ASSUME NEW a \in Attempt, ResolveTcti(a) PROVE AuditInv'
    BY <1>3 DEF ResolveTcti, At, Goto, Log, Fail
  <1>4. ASSUME NEW a \in Attempt, GetTctiInfo(a) PROVE AuditInv'
    BY <1>4 DEF GetTctiInfo, At, Goto, Log, Fail, FailTss
  <1>5. ASSUME NEW a \in Attempt, AllocateLoaderContext(a) PROVE AuditInv'
    BY <1>5 DEF AllocateLoaderContext, At, Goto, Log, Fail, FailTss
  <1>6. ASSUME NEW a \in Attempt, InitTcti(a) PROVE AuditInv'
    BY <1>6 DEF InitTcti, At, Goto, Log, Fail, FailTss
  <1>7. ASSUME NEW a \in Attempt, InitializeEsys(a) PROVE AuditInv'
    BY <1>7 DEF InitializeEsys, At, Goto, Log, Fail, FailTss
  <1>8. ASSUME NEW a \in Attempt, StartTpm(a) PROVE AuditInv'
    BY <1>8 DEF StartTpm, At, Goto, Log
  <1>9. ASSUME NEW a \in Attempt, FinishStartup(a) PROVE AuditInv'
    BY <1>9 DEF FinishStartup, is_startup_already_initialized, Category, At, Goto, Log, Fail, FailTss
  <1>10. ASSUME NEW a \in Attempt, ConstructImpl(a) PROVE AuditInv'
    BY <1>10 DEF ConstructImpl, At, Goto, Fail
  <1>11. ASSUME NEW a \in Attempt, UnwindEsys(a) PROVE AuditInv'
    BY <1>11 DEF UnwindEsys, At
  <1>12. ASSUME NEW a \in Attempt, UnwindTcti(a) PROVE AuditInv'
    BY <1>12 DEF UnwindTcti, At
  <1>13. ASSUME NEW a \in Attempt, ReturnError(a) PROVE AuditInv'
    BY <1>13 DEF ReturnError, At, Goto
  <1>14. ASSUME NEW a \in Attempt, LogFinalized(a) PROVE AuditInv'
    BY <1>14 DEF LogFinalized, At, Log
  <1>15. ASSUME NEW a \in Attempt, DestroyEsysMember(a) PROVE AuditInv'
    BY <1>15 DEF DestroyEsysMember, At
  <1>16. ASSUME NEW a \in Attempt, DestroyTctiMember(a) PROVE AuditInv'
    BY <1>16 DEF DestroyTctiMember, At, Goto
  <1>17. ASSUME NEW a \in Attempt, TpmStartup(a) PROVE AuditInv'
    BY <1>17 DEF TpmStartup, At, Goto
  <1>18. ASSUME NEW a \in Attempt, NEW r \in Request, NEW o \in Object, Call(a, r, o) PROVE AuditInv'
    BY <1>18 DEF Call, Quiet, At, Goto
  <1>19. ASSUME NEW from \in Object, NEW to \in Object, MoveConstruct(from, to) PROVE AuditInv'
    BY <1>19 DEF MoveConstruct, Quiet
  <1>20. ASSUME NEW from \in Object, NEW to \in Object, MoveAssign(from, to) PROVE AuditInv'
    BY <1>20 DEF MoveAssign, Vacate, Borrowed, Quiet, Goto
  <1>21. ASSUME NEW o \in Object, Destroy(o) PROVE AuditInv'
    BY <1>21 DEF Destroy, Vacate, Borrowed, Quiet, Goto
  <1>22. ASSUME NEW o \in Object, NEW p \in Provider, CreatePcrProvider(o, p) PROVE AuditInv'
    BY <1>22 DEF CreatePcrProvider, Quiet
  <1>23. ASSUME NEW p \in Provider, DestroyProvider(p) PROVE AuditInv'
    BY <1>23 DEF DestroyProvider
  <1>24. ASSUME TpmReset PROVE AuditInv'
    BY <1>24 DEF TpmReset
  <1>25. ASSUME UNCHANGED vars PROVE AuditInv'
    BY <1>25 DEF vars
  <1>26. QED
    BY <1>1, <1>2, <1>3, <1>4, <1>5, <1>6, <1>7, <1>8, <1>9, <1>10, <1>11, <1>12, <1>13, <1>14, <1>15, <1>16, <1>17, <1>18, <1>19, <1>20, <1>21, <1>22, <1>23, <1>24, <1>25 DEF Next, Run, Use

\* Every step keeps the record of a failure with the failure; what makes a failure none of
\* the TSS does not change afterwards.
LEMMA SilenceStep ==
  TypeOK /\ OwnerInv /\ ResourceInv /\ SilenceInv /\ [Next]_vars => SilenceInv'
  <1> SUFFICES ASSUME TypeOK /\ OwnerInv /\ ResourceInv /\ SilenceInv, [Next]_vars
               PROVE  SilenceInv'
    OBVIOUS
  <1> DEFINE Failing(a) == pc[a] \in {"unwind", "failed"}
             FailingNow(a) == pc'[a] \in {"unwind", "failed"}
             Kept(a) == /\ req'[a] = req[a] /\ result'[a] = result[a]
                        /\ logged[a] \subseteq logged'[a]
                        /\ tcti'[a] = tcti[a] \/ tcti[a] # "absent"
             Excused(a) == \/ ~ FailingNow(a)
                           \/ Failing(a) /\ Kept(a)
                           \/ NoTssFailure(a)'
                           \/ "tss_error" \in logged'[a]
  <1>1. ASSUME \A a \in Attempt : Excused(a)
        PROVE  SilenceInv'
    <2> SUFFICES ASSUME NEW a \in Attempt, FailingNow(a), ~ NoTssFailure(a)'
                 PROVE  "tss_error" \in logged'[a]
      BY DEF SilenceInv
    <2>1. CASE Failing(a) /\ Kept(a)
      <3>1. ~ NoTssFailure(a)
        BY <2>1 DEF NoTssFailure
      <3> QED
        BY <2>1, <3>1 DEF SilenceInv
    <2> QED
      BY <1>1, <2>1
  <1> HIDE DEF SilenceInv
  <1>0. /\ pc \in [Attempt -> Pc]
        /\ result \in [Attempt -> Category \cup {"none", "ok", "bad_alloc"}]
        /\ tcti \in [Attempt -> {"absent", "pending", "open", "closed", "released", "misused"}]
        /\ logged \in [Attempt -> SUBSET Event]
        /\ req \in [Attempt -> Request \cup {Null}]
    BY DEF TypeOK
  <1> USE <1>0 DEF callVars, vars
  <1>A. ASSUME NEW a \in Attempt, \A b \in Attempt \ {a} : Kept(b) /\ pc'[b] = pc[b], Excused(a)
        PROVE  SilenceInv'
    <2>1. \A b \in Attempt : Excused(b)
      BY <1>A
    <2> QED
      BY <1>1, <2>1
  <1>2. ASSUME NEW a \in Attempt, ValidateStartupMode(a) \/ CheckOwnedHandle(a) \/ ResolveTcti(a)
        PROVE  SilenceInv'
    <2>1. \A b \in Attempt \ {a} : Kept(b) /\ pc'[b] = pc[b]
      BY <1>2 DEF ValidateStartupMode, CheckOwnedHandle, ResolveTcti, Goto, Fail, Log
    <2>2. req'[a] = req[a] /\ (FailingNow(a) => ~ Accepted(req[a]))
      BY <1>2 DEF ValidateStartupMode, CheckOwnedHandle, ResolveTcti, Goto, Fail, Accepted,
                  ValidMode, At
    <2>3. FailingNow(a) => NoTssFailure(a)'
      BY <2>2 DEF NoTssFailure, Accepted
    <2>4. Excused(a)
      BY <2>3
    <2> QED
      BY <1>A, <2>1, <2>4
  <1>3. ASSUME NEW a \in Attempt,
               GetTctiInfo(a) \/ InitTcti(a) \/ InitializeEsys(a) \/ StartTpm(a) \/ FinishStartup(a)
        PROVE  SilenceInv'
    <2>1. \A b \in Attempt \ {a} : Kept(b) /\ pc'[b] = pc[b]
      BY <1>3 DEF GetTctiInfo, InitTcti, InitializeEsys, StartTpm, FinishStartup, Goto, Fail,
                  FailTss, Log
    <2>2. FailingNow(a) => "tss_error" \in logged'[a]
      BY <1>3 DEF GetTctiInfo, InitTcti, InitializeEsys, StartTpm, FinishStartup, Goto, Fail,
                  FailTss, Log
    <2>3. Excused(a)
      BY <2>2
    <2> QED
      BY <1>A, <2>1, <2>3
  <1>4. ASSUME NEW a \in Attempt, AllocateLoaderContext(a)
        PROVE  SilenceInv'
    <2>1. \A b \in Attempt \ {a} : Kept(b) /\ pc'[b] = pc[b]
      BY <1>4 DEF AllocateLoaderContext, Goto, Fail, FailTss, Log
    <2>2. tcti[a] = "absent"
      BY <1>4 DEF AllocateLoaderContext, At, ResourceInv
    <2>3. \/ pc'[a] = "init_tcti"
          \/ "tss_error" \in logged'[a]
          \/ tcti'[a] = "absent" /\ result'[a] \in {"backend_error", "resource_error"}
      BY <1>4, <2>2 DEF AllocateLoaderContext, Goto, Fail, FailTss, Log
    <2>4. Excused(a)
      BY <2>3 DEF NoTssFailure
    <2> QED
      BY <1>A, <2>1, <2>4
  <1>5. ASSUME NEW a \in Attempt, ConstructImpl(a)
        PROVE  SilenceInv'
    <2>1. \A b \in Attempt \ {a} : Kept(b) /\ pc'[b] = pc[b]
      BY <1>5 DEF ConstructImpl, Goto, Fail
    <2>2. pc'[a] = "returned" \/ result'[a] = "bad_alloc"
      BY <1>5 DEF ConstructImpl, Goto, Fail
    <2>3. Excused(a)
      BY <2>2 DEF NoTssFailure
    <2> QED
      BY <1>A, <2>1, <2>3
  <1>6. ASSUME NEW a \in Attempt,
               \/ UnwindEsys(a) \/ UnwindTcti(a) \/ ReturnError(a)
               \/ LogFinalized(a) \/ DestroyEsysMember(a) \/ DestroyTctiMember(a)
        PROVE  SilenceInv'
    <2>1. \A b \in Attempt : FailingNow(b) => Failing(b)
      BY <1>6 DEF UnwindEsys, UnwindTcti, ReturnError, LogFinalized, DestroyEsysMember,
                  DestroyTctiMember, At, Goto
    <2>2. tcti[a] = "absent" => tcti' = tcti \/ ~ FailingNow(a)
      BY <1>6 DEF UnwindEsys, UnwindTcti, ReturnError, LogFinalized, DestroyEsysMember,
                  DestroyTctiMember, ResourceInv, Goto
    <2>3. \A b \in Attempt : FailingNow(b) => Kept(b)
      BY <1>6, <2>2 DEF UnwindEsys, UnwindTcti, ReturnError, LogFinalized, DestroyEsysMember,
                        DestroyTctiMember, Log
    <2>4. \A b \in Attempt : Excused(b)
      BY <2>1, <2>3
    <2> QED
      BY <1>1, <2>4
  <1>7. ASSUME NEW a \in Attempt, TpmStartup(a)
        PROVE  SilenceInv'
    <2>1. \A b \in Attempt : Excused(b)
      BY <1>7 DEF TpmStartup, Goto
    <2> QED
      BY <1>1, <2>1
  <1>8. ASSUME NEW a \in Attempt, NEW r \in Request, NEW o \in Object, Call(a, r, o)
        PROVE  SilenceInv'
    <2>1. \A b \in Attempt \ {a} : Kept(b) /\ pc'[b] = pc[b]
      BY <1>8 DEF Call, Goto
    <2>2. Excused(a)
      BY <1>8 DEF Call, Goto
    <2> QED
      BY <1>A, <2>1, <2>2
  <1>9. ASSUME \A a \in Attempt : FailingNow(a) => Failing(a),
               UNCHANGED <<req, result, logged, tcti>>
        PROVE  SilenceInv'
    <2>1. \A a \in Attempt : Excused(a)
      BY <1>9
    <2> QED
      BY <1>1, <2>1
  <1>10. ASSUME NEW o \in Object, Vacate(o)
         PROVE  \A a \in Attempt : FailingNow(a) => Failing(a)
    BY <1>10 DEF Vacate, Goto
  <1>11. ASSUME NEW from \in Object, NEW to \in Object,
                MoveConstruct(from, to) \/ MoveAssign(from, to) \/ Destroy(to)
         PROVE  SilenceInv'
    BY <1>9, <1>10, <1>11 DEF MoveConstruct, MoveAssign, Destroy
  <1>12. ASSUME NEW o \in Object, NEW p \in Provider,
                CreatePcrProvider(o, p)
         PROVE  SilenceInv'
    BY <1>9, <1>12 DEF CreatePcrProvider
  <1>13. ASSUME NEW p \in Provider, DestroyProvider(p) PROVE SilenceInv'
    BY <1>9, <1>13 DEF DestroyProvider
  <1>14. CASE TpmReset \/ UNCHANGED vars
    BY <1>9, <1>14 DEF TpmReset
  <1> QED
    BY <1>2, <1>3, <1>4, <1>5, <1>6, <1>7, <1>8, <1>11, <1>12, <1>13, <1>14 DEF Next, Run, Use

\* Every step keeps the TPM started for the contexts whose Startup it answered,
\* and TpmReset makes their epoch an old one.
LEMMA StartStep == TypeOK /\ OwnerInv /\ StartInv /\ [Next]_vars => StartInv'
  <1> SUFFICES ASSUME TypeOK /\ OwnerInv /\ StartInv, [Next]_vars PROVE StartInv'
    OBVIOUS
  <1> USE ContextAssumption DEF TypeOK, callVars, vars, StartInv, OwnerInv, LinearOwnership, Held
  <1>1. ASSUME NEW a \in Attempt, ValidateStartupMode(a) PROVE StartInv'
    BY <1>1 DEF ValidateStartupMode, At, Goto, Fail
  <1>2. ASSUME NEW a \in Attempt, CheckOwnedHandle(a) PROVE StartInv'
    BY <1>2 DEF CheckOwnedHandle, At, Goto, Log, Fail
  <1>3. ASSUME NEW a \in Attempt, ResolveTcti(a) PROVE StartInv'
    BY <1>3 DEF ResolveTcti, At, Goto, Log, Fail
  <1>4. ASSUME NEW a \in Attempt, GetTctiInfo(a) PROVE StartInv'
    BY <1>4 DEF GetTctiInfo, At, Goto, Log, Fail, FailTss
  <1>5. ASSUME NEW a \in Attempt, AllocateLoaderContext(a) PROVE StartInv'
    BY <1>5 DEF AllocateLoaderContext, At, Goto, Log, Fail, FailTss
  <1>6. ASSUME NEW a \in Attempt, InitTcti(a) PROVE StartInv'
    BY <1>6 DEF InitTcti, At, Goto, Log, Fail, FailTss
  <1>7. ASSUME NEW a \in Attempt, InitializeEsys(a) PROVE StartInv'
    BY <1>7 DEF InitializeEsys, At, Goto, Log, Fail, FailTss
  <1>8. ASSUME NEW a \in Attempt, StartTpm(a) PROVE StartInv'
    BY <1>8 DEF StartTpm, At, Goto, Log
  <1>9. ASSUME NEW a \in Attempt, FinishStartup(a) PROVE StartInv'
    BY <1>9 DEF FinishStartup, is_startup_already_initialized, Category, At, Goto, Log, Fail, FailTss
  <1>10. ASSUME NEW a \in Attempt, ConstructImpl(a) PROVE StartInv'
    BY <1>10 DEF ConstructImpl, At, Goto, Fail
  <1>11. ASSUME NEW a \in Attempt, UnwindEsys(a) PROVE StartInv'
    BY <1>11 DEF UnwindEsys, At
  <1>12. ASSUME NEW a \in Attempt, UnwindTcti(a) PROVE StartInv'
    BY <1>12 DEF UnwindTcti, At
  <1>13. ASSUME NEW a \in Attempt, ReturnError(a) PROVE StartInv'
    BY <1>13 DEF ReturnError, At, Goto
  <1>14. ASSUME NEW a \in Attempt, LogFinalized(a) PROVE StartInv'
    BY <1>14 DEF LogFinalized, At, Log
  <1>15. ASSUME NEW a \in Attempt, DestroyEsysMember(a) PROVE StartInv'
    BY <1>15 DEF DestroyEsysMember, At
  <1>16. ASSUME NEW a \in Attempt, DestroyTctiMember(a) PROVE StartInv'
    BY <1>16 DEF DestroyTctiMember, At, Goto
  <1>17. ASSUME NEW a \in Attempt, TpmStartup(a) PROVE StartInv'
    BY <1>17 DEF TpmStartup, Category, At, Goto
  <1>18. ASSUME NEW a \in Attempt, NEW r \in Request, NEW o \in Object, Call(a, r, o) PROVE StartInv'
    BY <1>18 DEF Call, Quiet, At, Goto
  <1>19. ASSUME NEW from \in Object, NEW to \in Object, MoveConstruct(from, to) PROVE StartInv'
    BY <1>19 DEF MoveConstruct, Quiet
  <1>20. ASSUME NEW from \in Object, NEW to \in Object, MoveAssign(from, to) PROVE StartInv'
    BY <1>20 DEF MoveAssign, Vacate, Borrowed, Quiet, Goto
  <1>21. ASSUME NEW o \in Object, Destroy(o) PROVE StartInv'
    BY <1>21 DEF Destroy, Vacate, Borrowed, Quiet, Goto
  <1>22. ASSUME NEW o \in Object, NEW p \in Provider, CreatePcrProvider(o, p) PROVE StartInv'
    BY <1>22 DEF CreatePcrProvider, Quiet
  <1>23. ASSUME NEW p \in Provider, DestroyProvider(p) PROVE StartInv'
    BY <1>23 DEF DestroyProvider
  <1>24. ASSUME TpmReset PROVE StartInv'
    BY <1>24 DEF TpmReset
  <1>25. ASSUME UNCHANGED vars PROVE StartInv'
    BY <1>25 DEF vars
  <1>26. QED
    BY <1>1, <1>2, <1>3, <1>4, <1>5, <1>6, <1>7, <1>8, <1>9, <1>10, <1>11, <1>12, <1>13, <1>14, <1>15, <1>16, <1>17, <1>18, <1>19, <1>20, <1>21, <1>22, <1>23, <1>24, <1>25 DEF Next, Run, Use

\* Every step moves every handle forward.
LEMMA HandleStepHolds == IInv /\ [Next]_vars => HandleStep
  <1> SUFFICES ASSUME IInv, [Next]_vars PROVE HandleStep
    OBVIOUS
  <1> USE ContextAssumption DEF IInv, TypeOK, ResourceInv, BeforeEsys, callVars, vars, HandleStep
  <1>1. ASSUME NEW a \in Attempt, ValidateStartupMode(a) PROVE HandleStep
    BY <1>1 DEF ValidateStartupMode, At, Goto, Fail
  <1>2. ASSUME NEW a \in Attempt, CheckOwnedHandle(a) PROVE HandleStep
    BY <1>2 DEF CheckOwnedHandle, Disown, At, Goto, Log, Fail
  <1>3. ASSUME NEW a \in Attempt, ResolveTcti(a) PROVE HandleStep
    BY <1>3 DEF ResolveTcti, At, Goto, Log, Fail
  <1>4. ASSUME NEW a \in Attempt, GetTctiInfo(a) PROVE HandleStep
    BY <1>4 DEF GetTctiInfo, At, Goto, Log, Fail, FailTss
  <1>5. ASSUME NEW a \in Attempt, AllocateLoaderContext(a) PROVE HandleStep
    BY <1>5 DEF AllocateLoaderContext, Acquire, At, Goto, Log, Fail, FailTss
  <1>6. ASSUME NEW a \in Attempt, InitTcti(a) PROVE HandleStep
    BY <1>6 DEF InitTcti, At, Goto, Log, Fail, FailTss
  <1>7. ASSUME NEW a \in Attempt, InitializeEsys(a) PROVE HandleStep
    BY <1>7 DEF InitializeEsys, Acquire, At, Goto, Log, Fail, FailTss
  <1>8. ASSUME NEW a \in Attempt, StartTpm(a) PROVE HandleStep
    BY <1>8 DEF StartTpm, At, Goto, Log
  <1>9. ASSUME NEW a \in Attempt, FinishStartup(a) PROVE HandleStep
    BY <1>9 DEF FinishStartup, is_startup_already_initialized, Category, At, Goto, Log, Fail, FailTss
  <1>10. ASSUME NEW a \in Attempt, ConstructImpl(a) PROVE HandleStep
    BY <1>10 DEF ConstructImpl, At, Goto, Fail
  <1>11. ASSUME NEW a \in Attempt, UnwindEsys(a) PROVE HandleStep
    BY <1>11 DEF UnwindEsys, Close, Disown, At
  <1>12. ASSUME NEW a \in Attempt, UnwindTcti(a) PROVE HandleStep
    BY <1>12 DEF UnwindTcti, Close, Disown, At
  <1>13. ASSUME NEW a \in Attempt, ReturnError(a) PROVE HandleStep
    BY <1>13 DEF ReturnError, At, Goto
  <1>14. ASSUME NEW a \in Attempt, LogFinalized(a) PROVE HandleStep
    BY <1>14 DEF LogFinalized, At, Log
  <1>15. ASSUME NEW a \in Attempt, DestroyEsysMember(a) PROVE HandleStep
    BY <1>15 DEF DestroyEsysMember, Close, Disown, At
  <1>16. ASSUME NEW a \in Attempt, DestroyTctiMember(a) PROVE HandleStep
    BY <1>16 DEF DestroyTctiMember, Close, Disown, At, Goto
  <1>17. ASSUME NEW a \in Attempt, TpmStartup(a) PROVE HandleStep
    BY <1>17 DEF TpmStartup, At, Goto
  <1>18. ASSUME NEW a \in Attempt, NEW r \in Request, NEW o \in Object, Call(a, r, o) PROVE HandleStep
    BY <1>18 DEF Call, Quiet, At, Goto
  <1>19. ASSUME NEW from \in Object, NEW to \in Object, MoveConstruct(from, to) PROVE HandleStep
    BY <1>19 DEF MoveConstruct, Quiet
  <1>20. ASSUME NEW from \in Object, NEW to \in Object, MoveAssign(from, to) PROVE HandleStep
    BY <1>20 DEF MoveAssign, Vacate, Borrowed, Quiet, Goto
  <1>21. ASSUME NEW o \in Object, Destroy(o) PROVE HandleStep
    BY <1>21 DEF Destroy, Vacate, Borrowed, Quiet, Goto
  <1>22. ASSUME NEW o \in Object, NEW p \in Provider, CreatePcrProvider(o, p) PROVE HandleStep
    BY <1>22 DEF CreatePcrProvider, Quiet
  <1>23. ASSUME NEW p \in Provider, DestroyProvider(p) PROVE HandleStep
    BY <1>23 DEF DestroyProvider
  <1>24. ASSUME TpmReset PROVE HandleStep
    BY <1>24 DEF TpmReset
  <1>25. ASSUME UNCHANGED vars PROVE HandleStep
    BY <1>25 DEF vars
  <1>26. QED
    BY <1>1, <1>2, <1>3, <1>4, <1>5, <1>6, <1>7, <1>8, <1>9, <1>10, <1>11, <1>12, <1>13, <1>14, <1>15, <1>16, <1>17, <1>18, <1>19, <1>20, <1>21, <1>22, <1>23, <1>24, <1>25 DEF Next, Run, Use

-----------------------------------------------------------------------------

\* Before any call there is nothing to own, hold or log.
LEMMA InitInv == Init => IInv
  <1> SUFFICES ASSUME Init PROVE IInv
    OBVIOUS
  <1> USE ContextAssumption DEF Init
  <1>1. TypeOK
    <2>1. tpm \in [started : BOOLEAN, resets : 0..MaxResets]
      OBVIOUS
    <2> QED
      BY <2>1 DEF TypeOK, Pc
  <1>2. ResourceInv
    BY DEF ResourceInv, AfterEsys
  <1>3. OwnerInv
    BY DEF OwnerInv, LinearOwnership, Held, CreatePc
  <1>4. AuditInv
    BY DEF AuditInv, AfterEsys, CreatePc
  <1>6. SilenceInv
    BY DEF SilenceInv
  <1>5. StartInv
    <2> SUFFICES ASSUME NEW a \in Attempt
                 PROVE epoch[a] =< tpm.resets /\ pc[a] = "idle"
      BY Zenon DEF StartInv
    <2>1. tpm.resets = 0 /\ epoch[a] = 0 /\ pc[a] = "idle"
      OBVIOUS
    <2> QED
      BY <2>1
  <1> QED
    BY <1>1, <1>2, <1>3, <1>4, <1>5, <1>6 DEF IInv

\* The inductive invariant holds in every reachable state of create(), moves,
\* teardown and resets in any order.
THEOREM Invariance == Spec => []IInv
  <1>1. IInv /\ [Next]_vars => IInv'
    BY TypeStep, OwnerStep, ResourceStep, AuditStep, SilenceStep, StartStep DEF IInv
  <1> QED
    BY InitInv, <1>1, PTL DEF Spec

\* Type correctness.
THEOREM TypeCorrect == Spec => []TypeOK
  <1>1. IInv => TypeOK
    BY DEF IInv
  <1> QED
    BY <1>1, Invariance, PTL

\* A returned impl is in exactly one tpm_context, every other one in none.
THEOREM OwnershipIsLinear == Spec => []LinearOwnership
  <1>1. IInv => LinearOwnership
    BY DEF IInv, OwnerInv
  <1> QED
    BY <1>1, Invariance, PTL

\* No ESYS context outlives the TCTI context below it: teardown and the
\* unwinding of a failed create() both keep the order impl.h relies on.
THEOREM EsysNeverOutlivesTcti == Spec => []EsysOverOpenTcti
  <1>1. IInv => EsysOverOpenTcti
    BY DEF IInv, ResourceInv, EsysOverOpenTcti
  <1> QED
    BY <1>1, Invariance, PTL

\* Callers never reach a half-initialized context.
THEOREM ContextsAreWhole == Spec => []HeldContextIsWhole
  <1>1. IInv => HeldContextIsWhole
    BY DEF IInv, ResourceInv, OwnerInv, AuditInv, LinearOwnership, HeldContextIsWhole,
           AfterEsys
  <1> QED
    BY <1>1, Invariance, PTL

\* A failed create() and a destroyed context leave no handle open.
THEOREM NoLeak == Spec => []NothingLeaks
  <1>1. IInv => NothingLeaks
    BY DEF IInv, ResourceInv, NothingLeaks
  <1> QED
    BY <1>1, Invariance, PTL

\* A context whose Startup was not skipped is backed by a started TPM until the
\* next reset, whoever started it.
THEOREM HeldMeansStarted == Spec => []StartedWhenHeld
  <1>1. IInv => StartedWhenHeld
    BY DEF IInv, StartInv, OwnerInv, LinearOwnership, StartedWhenHeld
  <1> QED
    BY <1>1, Invariance, PTL

\* The connection a provider borrows is open as long as the provider lives.
THEOREM ProvidersStayConnected == Spec => []ProviderConnected
  <1>1. IInv => ProviderConnected
    BY DEF IInv, ResourceInv, OwnerInv, ProviderConnected, AfterEsys
  <1> QED
    BY <1>1, Invariance, PTL

\* Every failure of the TSS is in the log, in the loader, in ESYS and in Startup.
THEOREM FailuresAreLogged == Spec => []FailuresAreAudited
  <1>1. IInv => FailuresAreAudited
    BY DEF IInv, AuditInv, SilenceInv, FailuresAreAudited
  <1> QED
    BY <1>1, Invariance, PTL

\* The finalizer of a handle runs once at most, whichever pointer it has come to.
THEOREM NoDoubleClose == Spec => []HandlesAreClosedOnce
  <1>1. IInv => HandlesAreClosedOnce
    BY DEF IInv, ResourceInv, HandlesAreClosedOnce
  <1> QED
    BY <1>1, Invariance, PTL

\* No handle is reopened or finalized again, and a TCTI context closes after the ESYS
\* context above it.
THEOREM HandlesOnlyMoveForward == Spec => HandlesMoveForward
  <1>1. IInv /\ [Next]_vars => HandleStep
    BY HandleStepHolds
  <1>2. IInv => HandlesAreClosedOnce
    BY DEF IInv, ResourceInv, HandlesAreClosedOnce
  <1> QED
    BY <1>1, <1>2, Invariance, PTL DEF Spec, HandlesMoveForward

-----------------------------------------------------------------------------
(* TpmContext implements ContextContract *)

Phase == [a \in Attempt |-> PhaseOf(a)]
Open == {a \in Attempt : \/ pc[a] = "returned" /\ Connected(a)
                         \/ pc[a] \in {"failed", "gone"} /\ HalfOpen(a)}

\* The connections open to callers are those of the contexts that were returned: no
\* failed call and no teardown that ended has left a handle open.
LEMMA OpenIsReturned == IInv => Open = {a \in Attempt : pc[a] = "returned"}
  BY DEF IInv, ResourceInv, AfterEsys, Open, Connected, HalfOpen

\* What a step does to the objects and to the calls, of all that it does.
Effect ==
    \/ UNCHANGED <<pc, object>>
    \/ /\ UNCHANGED object
       /\ \E a \in Attempt, to \in CreatePc :
             pc[a] \in CreatePc \cup {"idle"} /\ pc' = [pc EXCEPT ![a] = to]
    \/ \E a \in Attempt :
          /\ pc[a] = "construct" /\ pc' = [pc EXCEPT ![a] = "returned"]
          /\ object' = [object EXCEPT ![site[a]] = a]
    \/ /\ UNCHANGED object
       /\ \E a \in Attempt : pc[a] = "unwind" /\ pc' = [pc EXCEPT ![a] = "failed"]
    \/ /\ UNCHANGED object
       /\ \E a \in Attempt : pc[a] = "teardown" /\ pc' = [pc EXCEPT ![a] = "gone"]
    \/ \E from, to \in Object : MoveConstruct(from, to) \/ MoveAssign(from, to)
    \/ \E o \in Object : Destroy(o)

LEMMA StepHasEffect == IInv /\ [Next]_vars => Effect
  <1> SUFFICES ASSUME IInv, [Next]_vars PROVE Effect
    OBVIOUS
  <1> DEFINE Proceeds(a) ==
               /\ UNCHANGED object
               /\ \E to \in CreatePc :
                     pc[a] \in CreatePc \cup {"idle"} /\ pc' = [pc EXCEPT ![a] = to]
  <1>1. \A a \in Attempt : Proceeds(a) => Effect
    BY DEF Effect
  <1> HIDE DEF Effect
  <1>2. ASSUME NEW a \in Attempt,
               \/ ValidateStartupMode(a) \/ CheckOwnedHandle(a) \/ ResolveTcti(a)
               \/ GetTctiInfo(a) \/ AllocateLoaderContext(a) \/ InitTcti(a)
               \/ InitializeEsys(a) \/ StartTpm(a) \/ FinishStartup(a) \/ TpmStartup(a)
        PROVE  Proceeds(a)
    <2>1. UNCHANGED object /\ pc[a] \in CreatePc
      BY <1>2 DEF ValidateStartupMode, CheckOwnedHandle, ResolveTcti, GetTctiInfo,
                  AllocateLoaderContext, InitTcti, InitializeEsys, StartTpm, FinishStartup,
                  TpmStartup, At, CreatePc
    <2>2. \E to \in {"unwind", "resolve", "check_handle", "init_esys", "get_info", "allocate",
                     "init_tcti", "start", "construct", "startup", "startup_reply"} :
             pc' = [pc EXCEPT ![a] = to]
      BY <1>2 DEF ValidateStartupMode, CheckOwnedHandle, ResolveTcti, GetTctiInfo,
                  AllocateLoaderContext, InitTcti, InitializeEsys, StartTpm, FinishStartup,
                  TpmStartup, Goto, Fail, FailTss
    <2> QED
      BY <2>1, <2>2 DEF CreatePc
  <1>3. ASSUME NEW a \in Attempt, ConstructImpl(a)
        PROVE  Effect
    <2>1. CASE Fail(a, "bad_alloc") /\ UNCHANGED object
      <3>1. Proceeds(a)
        BY <1>3, <2>1 DEF ConstructImpl, At, Fail, Goto, CreatePc
      <3> QED
        BY <1>1, <3>1
    <2>2. CASE Goto(a, "returned") /\ object' = [object EXCEPT ![site[a]] = a]
      BY <1>3, <2>2 DEF ConstructImpl, At, Goto, Effect
    <2> QED
      BY <1>3, <2>1, <2>2 DEF ConstructImpl
  <1>4. ASSUME NEW a \in Attempt, ReturnError(a)
        PROVE  Effect
    BY <1>4 DEF ReturnError, At, Goto, Effect
  <1>5. ASSUME NEW a \in Attempt, DestroyTctiMember(a)
        PROVE  Effect
    BY <1>5 DEF DestroyTctiMember, At, Goto, Effect
  <1>6. ASSUME NEW a \in Attempt,
               UnwindEsys(a) \/ UnwindTcti(a) \/ LogFinalized(a) \/ DestroyEsysMember(a)
        PROVE  Effect
    BY <1>6 DEF UnwindEsys, UnwindTcti, LogFinalized, DestroyEsysMember, Effect
  <1>7. ASSUME NEW a \in Attempt, NEW r \in Request, NEW o \in Object, Call(a, r, o)
        PROVE  Proceeds(a)
    BY <1>7 DEF Call, At, Goto, CreatePc
  <1>8. ASSUME NEW o \in Object, NEW p \in Provider, CreatePcrProvider(o, p)
        PROVE  Effect
    BY <1>8 DEF CreatePcrProvider, Effect
  <1>9. ASSUME NEW p \in Provider, DestroyProvider(p)
        PROVE  Effect
    BY <1>9 DEF DestroyProvider, Effect
  <1>10. CASE TpmReset \/ UNCHANGED vars
    BY <1>10 DEF TpmReset, vars, Effect
  <1>11. ASSUME NEW from \in Object, NEW to \in Object,
                MoveConstruct(from, to) \/ MoveAssign(from, to) \/ Destroy(to)
         PROVE  Effect
    BY <1>11 DEF Effect
  <1> HIDE DEF Proceeds
  <1> QED
    BY <1>1, <1>2, <1>3, <1>4, <1>5, <1>6, <1>7, <1>8, <1>9, <1>10, <1>11 DEF Next, Run, Use

\* What the callers see of it is one step of the contract, or nothing.
LEMMA EffectIsContract ==
  ASSUME IInv, IInv', Effect
  PROVE  [Contract!Next]_(Contract!vars)
  <1>0. /\ pc \in [Attempt -> Pc] /\ object \in [Object -> Attempt \cup {Null, Absent}]
        /\ LinearOwnership
        /\ \A a \in Attempt : pc[a] \in CreatePc =>
              site[a] \in Object /\ object[site[a]] = Absent
        /\ Absent \notin Attempt /\ Null \notin Attempt /\ Absent # Null
    BY ContextAssumption DEF IInv, TypeOK, OwnerInv
  <1>1. /\ Open = {a \in Attempt : pc[a] = "returned"}
        /\ Open' = {a \in Attempt : pc'[a] = "returned"}
    <2>1. (IInv => Open = {a \in Attempt : pc[a] = "returned"})'
      BY OpenIsReturned, PTL
    <2> QED
      BY <2>1, OpenIsReturned
  <1>2. /\ Phase \in [Attempt -> {"new", "live", "closing", "refused", "released"}]
        /\ Phase' = [a \in Attempt |-> Phase'[a]]
        /\ \A a \in Attempt :
              /\ pc[a] \in CreatePc \cup {"idle"} => Phase[a] = "new"
              /\ pc[a] = "teardown" => Phase[a] = "closing"
    BY DEF Phase, PhaseOf, CreatePc
  <1>3. \A a \in Attempt : pc'[a] = pc[a] => Phase'[a] = Phase[a]
    BY DEF Phase, PhaseOf
  <1>4. \A a \in Attempt :
           /\ pc'[a] \in CreatePc => Phase'[a] = "new"
           /\ pc'[a] = "returned" => Phase'[a] = "live"
           /\ pc'[a] = "failed" => Phase'[a] = "refused"
           /\ pc'[a] = "teardown" => Phase'[a] = "closing"
           /\ pc'[a] = "gone" => Phase'[a] = "released"
    BY DEF Phase, PhaseOf, CreatePc
  <1>5. ASSUME UNCHANGED object, Phase' = Phase, Open' = Open
        PROVE  [Contract!Next]_(Contract!vars)
    BY <1>5, Zenon DEF Contract!vars, Phase, Open
  <1>6. CASE UNCHANGED <<pc, object>>
    BY <1>1, <1>2, <1>3, <1>5, <1>6
  <1>7. ASSUME UNCHANGED object, NEW a \in Attempt, NEW to \in CreatePc,
               pc[a] \in CreatePc \cup {"idle"}, pc' = [pc EXCEPT ![a] = to]
        PROVE  [Contract!Next]_(Contract!vars)
    <2>1. \A b \in Attempt : Phase'[b] = Phase[b]
      BY <1>0, <1>2, <1>3, <1>4, <1>7
    <2>2. Open' = Open
      BY <1>0, <1>1, <1>7 DEF CreatePc
    <2> QED
      BY <1>2, <1>5, <1>7, <2>1, <2>2
  <1>8. ASSUME NEW a \in Attempt, pc[a] = "construct", pc' = [pc EXCEPT ![a] = "returned"],
               object' = [object EXCEPT ![site[a]] = a]
        PROVE  Contract!Next
    <2>1. site[a] \in Object /\ object[site[a]] = Absent
      BY <1>0, <1>8 DEF CreatePc
    <2>2. Phase[a] = "new" /\ Phase' = [Phase EXCEPT ![a] = "live"]
      <3>1. \A b \in Attempt : Phase'[b] = IF b = a THEN "live" ELSE Phase[b]
        BY <1>0, <1>3, <1>4, <1>8
      <3> QED
        BY <1>2, <1>8, <3>1 DEF CreatePc
    <2>3. Open' = Open \cup {a}
      BY <1>0, <1>1, <1>8
    <2>4. PICK o \in Object : o = site[a]
      BY <2>1
    <2>5. Contract!Create(a, o)
      BY <1>8, <2>1, <2>2, <2>3, <2>4 DEF Contract!Create, Phase, Open
    <2> QED
      BY <2>5 DEF Contract!Next
  <1>9. ASSUME UNCHANGED object, NEW a \in Attempt, pc[a] = "unwind",
               pc' = [pc EXCEPT ![a] = "failed"]
        PROVE  Contract!Next
    <2>1. Phase[a] = "new" /\ Phase' = [Phase EXCEPT ![a] = "refused"]
      <3>1. \A b \in Attempt : Phase'[b] = IF b = a THEN "refused" ELSE Phase[b]
        BY <1>0, <1>3, <1>4, <1>9
      <3> QED
        BY <1>2, <1>9, <3>1 DEF CreatePc
    <2>2. Open' = Open
      BY <1>0, <1>1, <1>9
    <2>3. Contract!Refuse(a)
      BY <1>9, <2>1, <2>2 DEF Contract!Refuse, Phase, Open
    <2> QED
      BY <2>3 DEF Contract!Next
  <1>10. ASSUME UNCHANGED object, NEW a \in Attempt, pc[a] = "teardown",
                pc' = [pc EXCEPT ![a] = "gone"]
         PROVE  Contract!Next
    <2>1. Phase[a] = "closing" /\ Phase' = [Phase EXCEPT ![a] = "released"]
      <3>1. \A b \in Attempt : Phase'[b] = IF b = a THEN "released" ELSE Phase[b]
        BY <1>0, <1>3, <1>4, <1>10
      <3> QED
        BY <1>2, <1>10, <3>1
    <2>2. Open' = Open
      BY <1>0, <1>1, <1>10
    <2>3. Contract!Release(a)
      BY <1>10, <2>1, <2>2 DEF Contract!Release, Phase, Open
    <2> QED
      BY <2>3 DEF Contract!Next
  <1>11. ASSUME NEW from \in Object, NEW to \in Object, MoveConstruct(from, to)
         PROVE  Contract!Next
    <2>1. UNCHANGED pc
      BY <1>11 DEF MoveConstruct
    <2>2. Phase' = Phase /\ Open' = Open
      BY <1>1, <1>2, <1>3, <2>1
    <2>3. Contract!MoveConstruct(from, to)
      BY <1>11, <2>2 DEF Contract!MoveConstruct, MoveConstruct, Phase, Open
    <2> QED
      BY <2>3 DEF Contract!Next
  <1>12. ASSUME NEW o \in Object, Vacate(o)
         PROVE  Contract!Lose(o)
    <2>1. CASE object[o] \in Attempt
      <3> DEFINE b == object[o]
      <3>1. pc' = [pc EXCEPT ![b] = "teardown"] /\ pc[b] = "returned"
        BY <1>0, <1>12, <2>1 DEF Vacate, Goto, LinearOwnership, Held
      <3>2. \A a \in Attempt : Phase'[a] = IF object[o] = a THEN "closing" ELSE Phase[a]
        BY <1>0, <1>3, <1>4, <2>1, <3>1
      <3>3. Phase' = [a \in Attempt |-> IF object[o] = a THEN "closing" ELSE Phase[a]]
        BY <1>2, <3>2
      <3>4. Open' = Open \ {object[o]}
        BY <1>0, <1>1, <2>1, <3>1
      <3> QED
        BY <3>3, <3>4 DEF Contract!Lose, Phase, Open
    <2>2. CASE object[o] \notin Attempt
      <3>1. UNCHANGED pc
        BY <1>12, <2>2 DEF Vacate
      <3>2. Phase' = [a \in Attempt |-> IF object[o] = a THEN "closing" ELSE Phase[a]]
        BY <1>2, <1>3, <2>2, <3>1
      <3>3. Open' = Open \ {object[o]}
        BY <1>1, <2>2, <3>1
      <3> QED
        BY <3>2, <3>3 DEF Contract!Lose, Phase, Open
    <2> QED
      BY <2>1, <2>2
  <1>13. ASSUME NEW from \in Object, NEW to \in Object, MoveAssign(from, to)
         PROVE  Contract!Next
    <2>1. Contract!Lose(to)
      BY <1>12, <1>13 DEF MoveAssign
    <2>2. Contract!MoveAssign(from, to)
      BY <1>13, <2>1 DEF MoveAssign, Contract!MoveAssign
    <2> QED
      BY <2>2 DEF Contract!Next
  <1>14. ASSUME NEW o \in Object, Destroy(o)
         PROVE  Contract!Next
    <2>1. Contract!Lose(o)
      BY <1>12, <1>14 DEF Destroy
    <2>2. Contract!Destroy(o)
      BY <1>14, <2>1 DEF Destroy, Contract!Destroy
    <2> QED
      BY <2>2 DEF Contract!Next
  <1> QED
    BY <1>6, <1>7, <1>8, <1>9, <1>10, <1>11, <1>13, <1>14 DEF Effect

\* create() is atomic to its callers, who see a connection only through the object that
\* owns it, and see it released as a whole: every step of a creation, a move or a
\* teardown is a step of the contract or is invisible to them.
THEOREM ContractIsImplemented == Spec => ImplementsContract
  <1>1. Init => Contract!Init
    <2> SUFFICES ASSUME Init PROVE Contract!Init
      OBVIOUS
    <2>1. Phase = [a \in Attempt |-> "new"]
      BY DEF Init, Phase, PhaseOf
    <2>2. Open = {}
      BY DEF Init, Open
    <2> QED
      BY <2>1, <2>2 DEF Init, Contract!Init, Phase, Open
  <1>2. IInv /\ IInv' /\ [Next]_vars => [Contract!Next]_(Contract!vars)
    BY StepHasEffect, EffectIsContract
  <1> QED
    BY <1>1, <1>2, Invariance, PTL DEF Spec, ImplementsContract, Contract!Spec
=============================================================================
