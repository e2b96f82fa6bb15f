--------------------------- MODULE Account_proof ----------------------------
(***************************************************************************)
(* Theorems about Account for every set of threads, every set of amounts   *)
(* and every number of calls: mutual exclusion, no overdraft, and that it  *)
(* implements AtomicAccount.                                               *)
(***************************************************************************)
EXTENDS Account, TLAPS

\* The assumptions on the constants are used throughout.
USE InitialAssumption, AmountAssumption, CallsAssumption, NullAssumption

LEMMA InitIInv == Init => IInv
BY DEF Init, IInv, TypeOK, MutualExclusion, NeverOverdrawn, Progress, InSection

\* What a request is.
LEMMA RequestType ==
    ASSUME NEW r \in Request
    PROVE  /\ r # NULL
           /\ r.op \in Op
           /\ r.amt \in Int
BY DEF Request

-----------------------------------------------------------------------------
\* Every step keeps the types.
LEMMA TypeStep == IInv /\ [Next]_vars => TypeOK'
<1> SUFFICES ASSUME IInv, [Next]_vars PROVE TypeOK'
  OBVIOUS
<1> USE DEF IInv
<1>1. CASE UNCHANGED vars
  BY <1>1 DEF vars, TypeOK
<1>2. ASSUME NEW t \in Thread, NEW r \in Request, Call(t, r)
      PROVE  TypeOK'
  BY <1>2 DEF Call, Goto, TypeOK
<1>3. ASSUME NEW t \in Thread, refuseDeposit(t)
      PROVE  TypeOK'
  BY <1>3 DEF refuseDeposit, Goto, TypeOK
<1>4. ASSUME NEW t \in Thread, sem_wait(t)
      PROVE  TypeOK'
  BY <1>4 DEF sem_wait, Goto, TypeOK
<1>5. ASSUME NEW t \in Thread, refuse(t)
      PROVE  TypeOK'
  BY <1>5 DEF refuse, Goto, TypeOK
<1>6. ASSUME NEW t \in Thread, load(t)
      PROVE  TypeOK'
  BY <1>6 DEF load, Goto, TypeOK
<1>7. ASSUME NEW t \in Thread, store(t)
      PROVE  TypeOK'
  <2>1. pc[t] = "loaded" /\ request[t] \in Request
    BY <1>7 DEF store, Goto, TypeOK, Progress
  <2>2. local[t] \in Int /\ request[t].amt \in Int
    BY <2>1, RequestType DEF TypeOK
  <2>3. balance' \in Int
    BY <1>7, <2>2 DEF store
  <2> QED BY <1>7, <2>2, <2>3 DEF store, Goto, TypeOK
<1>8. ASSUME NEW t \in Thread, sem_post(t)
      PROVE  TypeOK'
  <2>1. sem = 0
    BY <1>8 DEF sem_post, Goto, TypeOK, MutualExclusion, InSection
  <2> QED BY <1>8, <2>1 DEF sem_post, Goto, TypeOK
<1>9. ASSUME NEW t \in Thread, Return(t)
      PROVE  TypeOK'
  BY <1>9 DEF Return, Goto, TypeOK
<1> QED BY <1>1, <1>2, <1>3, <1>4, <1>5, <1>6, <1>7, <1>8, <1>9
        DEF Next, Step, Done

-----------------------------------------------------------------------------
\* Only sem_wait lets a thread in, only sem_post lets it out.
LEMMA ExclusionStep == IInv /\ [Next]_vars => MutualExclusion'
<1> SUFFICES ASSUME IInv, [Next]_vars PROVE MutualExclusion'
  OBVIOUS
<1> USE DEF IInv
<1>1. CASE UNCHANGED vars
  BY <1>1 DEF vars, MutualExclusion, InSection
<1>2. ASSUME NEW t \in Thread, sem' = sem, InSection(t)' = InSection(t),
             \A u \in Thread \ {t} : pc'[u] = pc[u]
      PROVE  MutualExclusion'
  <2>1. \A u \in Thread : InSection(u)' = InSection(u)
    BY <1>2 DEF InSection
  <2> QED BY <1>2, <2>1 DEF MutualExclusion
<1>3. ASSUME NEW t \in Thread, NEW r \in Request, Call(t, r)
      PROVE  MutualExclusion'
  BY <1>2, <1>3 DEF Call, Goto, TypeOK, InSection
<1>4. ASSUME NEW t \in Thread, refuseDeposit(t)
      PROVE  MutualExclusion'
  BY <1>2, <1>4 DEF refuseDeposit, Goto, TypeOK, InSection
<1>5. ASSUME NEW t \in Thread, sem_wait(t)
      PROVE  MutualExclusion'
  <2>1. sem = 1 /\ sem' = 0
    BY <1>5 DEF sem_wait, TypeOK
  <2>2. \A u \in Thread : ~InSection(u)
    BY <2>1 DEF MutualExclusion
  <2>3. \A u \in Thread : InSection(u)' <=> u = t
    BY <1>5, <2>2 DEF sem_wait, Goto, TypeOK, InSection
  <2> QED BY <2>1, <2>3 DEF MutualExclusion
<1>6. ASSUME NEW t \in Thread, refuse(t)
      PROVE  MutualExclusion'
  BY <1>2, <1>6 DEF refuse, Goto, TypeOK, InSection
<1>7. ASSUME NEW t \in Thread, load(t)
      PROVE  MutualExclusion'
  BY <1>2, <1>7 DEF load, Goto, TypeOK, InSection
<1>8. ASSUME NEW t \in Thread, store(t)
      PROVE  MutualExclusion'
  BY <1>2, <1>8 DEF store, Goto, TypeOK, InSection
<1>9. ASSUME NEW t \in Thread, sem_post(t)
      PROVE  MutualExclusion'
  <2>1. InSection(t) /\ \A u \in Thread : InSection(u) => u = t
    BY <1>9 DEF sem_post, Goto, MutualExclusion, InSection
  <2>2. sem' = 1
    BY <1>9, <2>1 DEF sem_post, TypeOK, MutualExclusion
  <2>3. \A u \in Thread : ~InSection(u)'
    BY <1>9, <2>1 DEF sem_post, Goto, TypeOK, InSection
  <2> QED BY <2>2, <2>3 DEF MutualExclusion
<1>10. ASSUME NEW t \in Thread, Return(t)
       PROVE  MutualExclusion'
  BY <1>2, <1>10 DEF Return, Goto, TypeOK, InSection
<1> QED BY <1>1, <1>3, <1>4, <1>5, <1>6, <1>7, <1>8, <1>9, <1>10
        DEF Next, Step, Done

-----------------------------------------------------------------------------
\* What a store leaves: the balance it read, changed by the amount, which the
\* check made under the same semaphore still allows.
LEMMA StoreBalance ==
    ASSUME IInv, NEW t \in Thread, store(t)
    PROVE  /\ request[t] \in Request
           /\ request[t].op \in {"withdraw", "deposit"}
           /\ request[t].amt \in Int /\ request[t].amt >= 0
           /\ request[t].op = "withdraw" => request[t].amt <= balance
           /\ balance' = IF request[t].op = "withdraw"
                         THEN balance - request[t].amt
                         ELSE balance + request[t].amt
<1>1. pc[t] = "loaded" /\ Progress(t) /\ request[t] \in Request
  BY DEF store, Goto, IInv, TypeOK, Progress
<1>2. request[t].op \in Op /\ request[t].amt \in Int
  BY <1>1, RequestType
<1>3. local[t] = balance /\ request[t].op \in {"withdraw", "deposit"}
  BY <1>1, <1>2 DEF Progress, Op
<1>4. request[t].amt >= 0
  BY <1>1, <1>3 DEF Progress
<1> QED BY <1>1, <1>2, <1>3, <1>4 DEF store, Progress

\* Only a store changes the balance.
LEMMA BalanceStep == IInv /\ [Next]_vars => NeverOverdrawn'
<1> SUFFICES ASSUME IInv, [Next]_vars PROVE NeverOverdrawn'
  OBVIOUS
<1>1. CASE balance' = balance
  BY <1>1 DEF IInv, NeverOverdrawn
<1>2. ASSUME NEW t \in Thread, store(t)
      PROVE  NeverOverdrawn'
  BY <1>2, StoreBalance DEF IInv, TypeOK, NeverOverdrawn
<1> QED BY <1>1, <1>2
        DEF Next, Step, Done, Call, refuseDeposit, sem_wait, refuse, load,
            sem_post, Return, vars

-----------------------------------------------------------------------------
\* A thread that does not move keeps its Progress, unless the balance it has
\* read changes; and that takes a second thread between sem_wait and sem_post.
LEMMA OtherProgress ==
    ASSUME IInv, NEW t \in Thread, NEW u \in Thread, u # t,
           pc'[u] = pc[u], request'[u] = request[u], result'[u] = result[u],
           local'[u] = local[u],
           balance' = balance \/ InSection(t)
    PROVE  Progress(u)'
<1>1. Progress(u)
  BY DEF IInv
<1>2. CASE balance' = balance
  BY <1>1, <1>2 DEF Progress
<1>3. CASE InSection(t)
  <2>1. pc[u] # "loaded"
    BY <1>3 DEF IInv, MutualExclusion, InSection
  <2> QED BY <1>1, <2>1 DEF Progress
<1> QED BY <1>2, <1>3

LEMMA ProgressStep == IInv /\ [Next]_vars => \A u \in Thread : Progress(u)'
<1> SUFFICES ASSUME IInv, [Next]_vars, NEW u \in Thread
             PROVE  Progress(u)'
  OBVIOUS
<1> USE DEF IInv
<1>1. CASE UNCHANGED vars
  BY <1>1 DEF vars, Progress
<1>2. ASSUME NEW t \in Thread, NEW r \in Request, Call(t, r)
      PROVE  Progress(u)'
  <2>1. CASE u = t
    BY <1>2, <2>1, RequestType DEF Call, Goto, TypeOK, Progress, Op
  <2> QED BY <1>2, <2>1, OtherProgress DEF Call, Goto, TypeOK
<1>3. ASSUME NEW t \in Thread, refuseDeposit(t)
      PROVE  Progress(u)'
  <2>1. CASE u = t
    BY <1>3, <2>1 DEF refuseDeposit, Goto, TypeOK, Progress
  <2> QED BY <1>3, <2>1, OtherProgress DEF refuseDeposit, Goto, TypeOK
<1>4. ASSUME NEW t \in Thread, sem_wait(t)
      PROVE  Progress(u)'
  <2>1. CASE u = t
    BY <1>4, <2>1 DEF sem_wait, Goto, TypeOK, Progress
  <2> QED BY <1>4, <2>1, OtherProgress DEF sem_wait, Goto, TypeOK
<1>5. ASSUME NEW t \in Thread, refuse(t)
      PROVE  Progress(u)'
  <2>1. CASE u = t
    BY <1>5, <2>1 DEF refuse, Goto, TypeOK, Progress
  <2> QED BY <1>5, <2>1, OtherProgress DEF refuse, Goto, TypeOK
<1>6. ASSUME NEW t \in Thread, load(t)
      PROVE  Progress(u)'
  <2>1. CASE u = t
    <3>1. request[t] \in Request /\ Progress(t) /\ pc[t] = "locked"
      BY <1>6 DEF load, Goto, TypeOK, Progress
    <3>2. request[t].op \in Op /\ request[t].amt \in Int /\ request[t] # NULL
      BY <3>1, RequestType
    <3>3. CASE request[t].op = "get_balance"
      BY <1>6, <2>1, <3>1, <3>3 DEF load, Goto, TypeOK, Progress
    <3>4. CASE request[t].op # "get_balance"
      <4>1. /\ pc'[t] = "loaded"
            /\ request' = request
            /\ result' = result
            /\ balance' = balance
            /\ local'[t] = balance
        BY <1>6, <3>4 DEF load, Goto, TypeOK
      <4>2. request[t].op = "withdraw" =>
                request[t].amt >= 0 /\ request[t].amt <= balance
        BY <1>6, <3>2 DEF load, Refused, TypeOK
      <4> QED BY <2>1, <3>1, <3>2, <3>4, <4>1, <4>2 DEF Progress
    <3> QED BY <3>3, <3>4
  <2> QED BY <1>6, <2>1, OtherProgress DEF load, Goto, TypeOK
<1>7. ASSUME NEW t \in Thread, store(t)
      PROVE  Progress(u)'
  <2>1. CASE u = t
    BY <1>7, <2>1, StoreBalance DEF store, Goto, TypeOK, Progress
  <2>2. InSection(t)
    BY <1>7 DEF store, Goto, InSection
  <2> QED BY <1>7, <2>1, <2>2, OtherProgress DEF store, Goto, TypeOK
<1>8. ASSUME NEW t \in Thread, sem_post(t)
      PROVE  Progress(u)'
  <2>1. CASE u = t
    BY <1>8, <2>1 DEF sem_post, Goto, TypeOK, Progress
  <2> QED BY <1>8, <2>1, OtherProgress DEF sem_post, Goto, TypeOK
<1>9. ASSUME NEW t \in Thread, Return(t)
      PROVE  Progress(u)'
  <2>1. CASE u = t
    BY <1>9, <2>1 DEF Return, Goto, TypeOK, Progress
  <2> QED BY <1>9, <2>1, OtherProgress DEF Return, Goto, TypeOK
<1> QED BY <1>1, <1>2, <1>3, <1>4, <1>5, <1>6, <1>7, <1>8, <1>9
        DEF Next, Step, Done

-----------------------------------------------------------------------------
\* IInv holds always.
THEOREM InductiveInvariant == Spec => []IInv
<1>1. IInv /\ [Next]_vars => IInv'
  BY TypeStep, ExclusionStep, BalanceStep, ProgressStep DEF IInv
<1> QED BY InitIInv, <1>1, PTL DEF Spec

\* The variables of account.c keep their types; in particular the semaphore
\* is never posted twice.
THEOREM TypeCorrect == Spec => []TypeOK
<1>1. IInv => TypeOK
  BY DEF IInv
<1> QED BY <1>1, InductiveInvariant, PTL

\* One thread at most is between sem_wait and sem_post, and the semaphore is
\* free exactly when there is none, whatever path a call takes.
THEOREM Exclusion == Spec => []MutualExclusion
<1>1. IInv => MutualExclusion
  BY DEF IInv
<1> QED BY <1>1, InductiveInvariant, PTL

\* The account is never below zero.
THEOREM NoOverdraft == Spec => []NeverOverdrawn
<1>1. IInv => NeverOverdrawn
  BY DEF IInv
<1> QED BY <1>1, InductiveInvariant, PTL

-----------------------------------------------------------------------------
(* Every step is a step of the atomic account, or none. *)

LEMMA InitRefines == Init => Atomic!Init
BY DEF Init, Atomic!Init

\* refuse, load of a get_balance, and store carry the call out.
LEMMA RefuseApplies ==
    ASSUME IInv, NEW t \in Thread, refuse(t) \/ refuseDeposit(t)
    PROVE  Atomic!Apply(t)
<1>1. /\ request[t] \in Request /\ result[t] = NULL
      /\ Progress(t)
  BY DEF IInv, TypeOK, Progress, refuse, refuseDeposit, Goto
<1>2. request[t] # NULL /\ request[t].op \in Op /\ request[t].amt \in Int
  BY <1>1, RequestType
<1>3. Atomic!Refused(balance, request[t])
  BY <1>1, <1>2 DEF Atomic!Refused, refuse, refuseDeposit, Refused, Progress,
                    Goto, Op
<1> QED BY <1>1, <1>2, <1>3
        DEF Atomic!Apply, Atomic!After, Atomic!Returned, refuse, refuseDeposit

LEMMA LoadRefines ==
    ASSUME IInv, NEW t \in Thread, load(t)
    PROVE  Atomic!Apply(t) \/ UNCHANGED Atomic!vars
<1>1. request[t] \in Request /\ result[t] = NULL
  BY DEF IInv, TypeOK, Progress, load, Goto
<1>2. request[t] # NULL
  BY <1>1, RequestType
<1>3. CASE request[t].op = "get_balance"
  BY <1>1, <1>2, <1>3
     DEF load, Atomic!Apply, Atomic!After, Atomic!Returned, Atomic!Refused
<1>4. CASE request[t].op # "get_balance"
  BY <1>4 DEF load, Atomic!vars
<1> QED BY <1>3, <1>4

LEMMA StoreApplies ==
    ASSUME IInv, NEW t \in Thread, store(t)
    PROVE  Atomic!Apply(t)
<1>1. request[t] # NULL /\ result[t] = NULL
  BY StoreBalance, RequestType DEF IInv, TypeOK, Progress, store, Goto
<1>2. balance \in Int
  BY DEF IInv, TypeOK
<1>3. ~Atomic!Refused(balance, request[t])
  BY <1>2, StoreBalance DEF Atomic!Refused
<1>4. balance' = Atomic!After(balance, request[t])
  BY <1>3, StoreBalance DEF Atomic!After
<1>5. result' = [result EXCEPT ![t] = Atomic!Returned(balance, request[t])]
  BY <1>3, StoreBalance DEF Atomic!Returned, store
<1> QED BY <1>1, <1>4, <1>5 DEF Atomic!Apply, store

LEMMA StepRefines == IInv /\ [Next]_vars => [Atomic!Next]_(Atomic!vars)
<1> SUFFICES ASSUME IInv, [Next]_vars
             PROVE  Atomic!Next \/ UNCHANGED Atomic!vars
  OBVIOUS
<1>1. CASE UNCHANGED vars
  BY <1>1 DEF vars, Atomic!vars
<1>2. ASSUME NEW t \in Thread, NEW r \in Request, Call(t, r)
      PROVE  Atomic!Next
  <2>1. request[t] = NULL
    BY <1>2 DEF IInv, Progress, Call, Goto
  <2>2. Atomic!Call(t, r)
    BY <1>2, <2>1 DEF Atomic!Call, Call
  <2> QED BY <2>2 DEF Atomic!Next
<1>3. ASSUME NEW t \in Thread, refuse(t) \/ refuseDeposit(t)
      PROVE  Atomic!Next
  BY <1>3, RefuseApplies DEF Atomic!Next
<1>4. ASSUME NEW t \in Thread, sem_wait(t) \/ sem_post(t)
      PROVE  UNCHANGED Atomic!vars
  BY <1>4 DEF sem_wait, sem_post, Atomic!vars
<1>5. ASSUME NEW t \in Thread, load(t)
      PROVE  Atomic!Next \/ UNCHANGED Atomic!vars
  BY <1>5, LoadRefines DEF Atomic!Next
<1>6. ASSUME NEW t \in Thread, store(t)
      PROVE  Atomic!Next
  BY <1>6, StoreApplies DEF Atomic!Next
<1>7. ASSUME NEW t \in Thread, Return(t)
      PROVE  Atomic!Next
  <2>1. request[t] # NULL /\ result[t] # NULL
    BY <1>7 DEF IInv, Progress, Return, Goto
  <2>2. Atomic!Return(t)
    BY <1>7, <2>1 DEF Atomic!Return, Return
  <2> QED BY <2>2 DEF Atomic!Next
<1> QED BY <1>1, <1>2, <1>3, <1>4, <1>5, <1>6, <1>7 DEF Next, Step, Done

\* Every withdrawal, deposit and query takes effect at one instant: none is
\* lost to another one that read the balance before it.
THEOREM CallsAreAtomic == Spec => ImplementsAtomic
<1> QED BY InitRefines, StepRefines, InductiveInvariant, PTL
        DEF Spec, ImplementsAtomic, Atomic!Spec
=============================================================================
