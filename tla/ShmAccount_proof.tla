-------------------------- MODULE ShmAccount_proof --------------------------
(***************************************************************************)
(* Theorems about ShmAccount for every set of processes, every set of      *)
(* amounts and every number of calls, with processes that are killed       *)
(* anywhere: mutual exclusion and an exact account of what the kernel has  *)
(* to undo, no overdraft, and that it implements AtomicAccount.            *)
(***************************************************************************)
EXTENDS ShmAccount, TLAPS

\* The assumptions on the constants are used throughout.
USE InitialAssumption, AmountAssumption, CallsAssumption, NullAssumption

LEMMA InitIInv == Init => IInv
BY DEF Init, IInv, TypeOK, MutualExclusion, NeverOverdrawn, Progress,
       InSection, Reset, Sem

\* What a request is.
LEMMA RequestType ==
    ASSUME NEW r \in Request
    PROVE  /\ r # NULL
           /\ r.op \in Op
           /\ r.amt \in Int
BY DEF Request

-----------------------------------------------------------------------------
(* The semaphore. *)

\* What the operations do to the value and to the account of each process.
LEMMA PProperties ==
    ASSUME NEW s \in Sem(Proc), NEW p \in Proc, CanP(s)
    PROVE  /\ P(s, p) \in Sem(Proc)
           /\ P(s, p).val = s.val - 1
           /\ \A q \in Proc :
                P(s, p).adj[q] = IF q = p THEN s.adj[q] + 1 ELSE s.adj[q]
BY DEF P, CanP, Sem

LEMMA VProperties ==
    ASSUME NEW s \in Sem(Proc), NEW p \in Proc
    PROVE  /\ V(s, p) \in Sem(Proc)
           /\ V(s, p).val = s.val + 1
           /\ \A q \in Proc :
                V(s, p).adj[q] = IF q = p THEN s.adj[q] - 1 ELSE s.adj[q]
BY DEF V, Sem

LEMMA UndoProperties ==
    ASSUME NEW s \in Sem(Proc), NEW p \in Proc
    PROVE  /\ Undo(s, p) \in Sem(Proc)
           /\ s.adj[p] \in {0, 1} => Undo(s, p).val = s.val + s.adj[p]
           /\ \A q \in Proc :
                Undo(s, p).adj[q] = IF q = p THEN 0 ELSE s.adj[q]
BY DEF Undo, Sem

-----------------------------------------------------------------------------
\* Every step keeps the types.
LEMMA TypeStep == IInv /\ [Next]_vars => TypeOK'
<1> SUFFICES ASSUME IInv, [Next]_vars PROVE TypeOK'
  OBVIOUS
<1> USE DEF IInv
<1>1. CASE UNCHANGED vars
  BY <1>1 DEF vars, TypeOK
<1>2. ASSUME NEW p \in Proc, NEW r \in Request, Call(p, r)
      PROVE  TypeOK'
  BY <1>2 DEF Call, Goto, TypeOK
<1>3. ASSUME NEW p \in Proc, sem_P(p)
      PROVE  TypeOK'
  BY <1>3, PProperties DEF sem_P, Goto, TypeOK
<1>4. ASSUME NEW p \in Proc, refuse(p)
      PROVE  TypeOK'
  BY <1>4 DEF refuse, Goto, TypeOK
<1>5. ASSUME NEW p \in Proc, load(p)
      PROVE  TypeOK'
  BY <1>5 DEF load, Goto, TypeOK
<1>6. ASSUME NEW p \in Proc, store(p)
      PROVE  TypeOK'
  <2>1. pc[p] = "loaded" /\ request[p] \in Request
    BY <1>6 DEF store, Goto, TypeOK, Progress
  <2>2. local[p] \in Int /\ request[p].amt \in Int
    BY <2>1, RequestType DEF TypeOK
  <2>3. balance' \in Int
    BY <1>6, <2>2 DEF store
  <2> QED BY <1>6, <2>2, <2>3 DEF store, Goto, TypeOK
<1>7. ASSUME NEW p \in Proc, sem_V(p)
      PROVE  TypeOK'
  BY <1>7, VProperties DEF sem_V, Goto, TypeOK
<1>8. ASSUME NEW p \in Proc, Return(p)
      PROVE  TypeOK'
  BY <1>8 DEF Return, Goto, TypeOK
<1>9. ASSUME NEW p \in Proc, Die(p)
      PROVE  TypeOK'
  BY <1>9, UndoProperties DEF Die, TypeOK
<1> QED BY <1>1, <1>2, <1>3, <1>4, <1>5, <1>6, <1>7, <1>8, <1>9
        DEF Next, Step, Done

-----------------------------------------------------------------------------
\* sem_P lets a process in; sem_V and its death let it out, and leave the value
\* and the kernel's account as if it had not been there.
LEMMA ExclusionStep == IInv /\ [Next]_vars => MutualExclusion'
<1> SUFFICES ASSUME IInv, [Next]_vars PROVE MutualExclusion'
  OBVIOUS
<1> USE DEF IInv
<1>1. CASE UNCHANGED vars
  BY <1>1 DEF vars, MutualExclusion, InSection
<1>2. ASSUME NEW p \in Proc, sem' = sem, InSection(p)' = InSection(p),
             \A q \in Proc \ {p} : pc'[q] = pc[q]
      PROVE  MutualExclusion'
  <2>1. \A q \in Proc : InSection(q)' = InSection(q)
    BY <1>2 DEF InSection
  <2> QED BY <1>2, <2>1 DEF MutualExclusion
<1>3. ASSUME NEW p \in Proc, InSection(p),
             sem'.val = sem.val + 1,
             \A q \in Proc :
                 sem'.adj[q] = IF q = p THEN 0 ELSE sem.adj[q],
             ~InSection(p)',
             \A q \in Proc \ {p} : pc'[q] = pc[q]
      PROVE  MutualExclusion'
  <2>1. \A q \in Proc : InSection(q) => q = p
    BY <1>3 DEF MutualExclusion
  <2>2. \A q \in Proc : ~InSection(q)'
    BY <1>3, <2>1 DEF InSection
  <2>3. sem.val = 0
    BY <1>3 DEF MutualExclusion
  <2>4. \A q \in Proc : sem'.adj[q] = 0
    BY <1>3, <2>1 DEF MutualExclusion
  <2> QED BY <1>3, <2>2, <2>3, <2>4 DEF MutualExclusion
<1>4. ASSUME NEW p \in Proc, NEW r \in Request, Call(p, r)
      PROVE  MutualExclusion'
  BY <1>2, <1>4 DEF Call, Goto, TypeOK, InSection
<1>5. ASSUME NEW p \in Proc, sem_P(p)
      PROVE  MutualExclusion'
  <2>1. CanP(sem) /\ sem \in Sem(Proc) /\ sem' = P(sem, p)
    BY <1>5 DEF sem_P, TypeOK
  <2>2. \A q \in Proc : ~InSection(q)
    BY <2>1 DEF MutualExclusion, CanP
  <2>3. sem.val = 1 /\ \A q \in Proc : sem.adj[q] = 0
    BY <2>2 DEF MutualExclusion
  <2>4. sem'.val = 0 /\ \A q \in Proc : sem'.adj[q] = IF q = p THEN 1 ELSE 0
    BY <2>1, <2>3, PProperties
  <2>5. \A q \in Proc : InSection(q)' <=> q = p
    BY <1>5, <2>2 DEF sem_P, Goto, TypeOK, InSection
  <2> QED BY <2>4, <2>5 DEF MutualExclusion
<1>6. ASSUME NEW p \in Proc, refuse(p)
      PROVE  MutualExclusion'
  BY <1>2, <1>6 DEF refuse, Goto, TypeOK, InSection
<1>7. ASSUME NEW p \in Proc, load(p)
      PROVE  MutualExclusion'
  BY <1>2, <1>7 DEF load, Goto, TypeOK, InSection
<1>8. ASSUME NEW p \in Proc, store(p)
      PROVE  MutualExclusion'
  BY <1>2, <1>8 DEF store, Goto, TypeOK, InSection
<1>9. ASSUME NEW p \in Proc, sem_V(p)
      PROVE  MutualExclusion'
  <2>1. InSection(p) /\ sem.adj[p] = 1
    BY <1>9 DEF sem_V, Goto, MutualExclusion, InSection
  <2>2. ~InSection(p)' /\ \A q \in Proc \ {p} : pc'[q] = pc[q]
    BY <1>9 DEF sem_V, Goto, TypeOK, InSection
  <2>3. sem \in Sem(Proc) /\ sem' = V(sem, p)
    BY <1>9 DEF sem_V, TypeOK
  <2> QED BY <1>3, <2>1, <2>2, <2>3, VProperties
<1>10. ASSUME NEW p \in Proc, Return(p)
       PROVE  MutualExclusion'
  BY <1>2, <1>10 DEF Return, Goto, TypeOK, InSection
<1>11. ASSUME NEW p \in Proc, Die(p)
       PROVE  MutualExclusion'
  <2>1. /\ sem \in Sem(Proc) /\ sem' = Undo(sem, p)
        /\ sem.adj[p] = IF InSection(p) THEN 1 ELSE 0
    BY <1>11 DEF Die, TypeOK, MutualExclusion
  <2>2. ~InSection(p)' /\ \A q \in Proc \ {p} : pc'[q] = pc[q]
    BY <1>11 DEF Die, TypeOK, InSection
  <2>3. /\ sem'.val = sem.val + sem.adj[p]
        /\ \A q \in Proc : sem'.adj[q] = IF q = p THEN 0 ELSE sem.adj[q]
    BY <2>1, UndoProperties
  <2>4. CASE InSection(p)
    BY <1>3, <2>1, <2>2, <2>3, <2>4
  <2>5. CASE ~InSection(p)
    <3>1. \A q \in Proc : InSection(q)' <=> InSection(q)
      BY <2>2, <2>5 DEF InSection
    <3>2. sem'.val = sem.val /\ \A q \in Proc : sem'.adj[q] = sem.adj[q]
      BY <2>1, <2>3, <2>5 DEF Sem
    <3> QED BY <3>1, <3>2 DEF MutualExclusion
  <2> QED BY <2>4, <2>5
<1> QED BY <1>1, <1>4, <1>5, <1>6, <1>7, <1>8, <1>9, <1>10, <1>11
        DEF Next, Step, Done

-----------------------------------------------------------------------------
\* What a store leaves: the balance it read, changed by the amount, which the
\* check made under the same semaphore still allows.
LEMMA StoreBalance ==
    ASSUME IInv, NEW p \in Proc, store(p)
    PROVE  /\ request[p] \in Request
           /\ request[p].op \in {"withdraw", "deposit"}
           /\ request[p].amt \in Int /\ request[p].amt >= 0
           /\ request[p].op = "withdraw" => request[p].amt <= balance
           /\ balance' = IF request[p].op = "withdraw"
                         THEN balance - request[p].amt
                         ELSE balance + request[p].amt
<1>1. pc[p] = "loaded" /\ Progress(p) /\ request[p] \in Request
  BY DEF store, Goto, IInv, TypeOK, Progress
<1>2. request[p].op \in Op /\ request[p].amt \in Int
  BY <1>1, RequestType
<1>3. local[p] = balance /\ request[p].op \in {"withdraw", "deposit"}
  BY <1>1, <1>2 DEF Progress, Op
<1> QED BY <1>1, <1>2, <1>3 DEF store, Progress

\* Only a store changes the balance.
LEMMA BalanceStep == IInv /\ [Next]_vars => NeverOverdrawn'
<1> SUFFICES ASSUME IInv, [Next]_vars PROVE NeverOverdrawn'
  OBVIOUS
<1>1. CASE balance' = balance
  BY <1>1 DEF IInv, NeverOverdrawn
<1>2. ASSUME NEW p \in Proc, store(p)
      PROVE  NeverOverdrawn'
  BY <1>2, StoreBalance DEF IInv, TypeOK, NeverOverdrawn
<1> QED BY <1>1, <1>2
        DEF Next, Step, Done, Call, sem_P, refuse, load, sem_V, Return, Die,
            vars

-----------------------------------------------------------------------------
\* A process that does not move keeps its Progress, unless the balance it has
\* read changes; and that takes a second process between sem_P and sem_V.
LEMMA OtherProgress ==
    ASSUME IInv, NEW p \in Proc, NEW u \in Proc, u # p,
           pc'[u] = pc[u], request'[u] = request[u], result'[u] = result[u],
           local'[u] = local[u],
           balance' = balance \/ InSection(p)
    PROVE  Progress(u)'
<1>1. Progress(u)
  BY DEF IInv
<1>2. CASE balance' = balance
  BY <1>1, <1>2 DEF Progress
<1>3. CASE InSection(p)
  <2>1. pc[u] # "loaded"
    BY <1>3 DEF IInv, MutualExclusion, InSection
  <2> QED BY <1>1, <2>1 DEF Progress
<1> QED BY <1>2, <1>3

LEMMA ProgressStep == IInv /\ [Next]_vars => \A u \in Proc : Progress(u)'
<1> SUFFICES ASSUME IInv, [Next]_vars, NEW u \in Proc
             PROVE  Progress(u)'
  OBVIOUS
<1> USE DEF IInv
<1>1. CASE UNCHANGED vars
  BY <1>1 DEF vars, Progress
<1>2. ASSUME NEW p \in Proc, NEW r \in Request, Call(p, r)
      PROVE  Progress(u)'
  <2>1. CASE u = p
    BY <1>2, <2>1, RequestType DEF Call, Goto, TypeOK, Progress
  <2> QED BY <1>2, <2>1, OtherProgress DEF Call, Goto, TypeOK
<1>3. ASSUME NEW p \in Proc, sem_P(p)
      PROVE  Progress(u)'
  <2>1. CASE u = p
    BY <1>3, <2>1 DEF sem_P, Goto, TypeOK, Progress
  <2> QED BY <1>3, <2>1, OtherProgress DEF sem_P, Goto, TypeOK
<1>4. ASSUME NEW p \in Proc, refuse(p)
      PROVE  Progress(u)'
  <2>1. CASE u = p
    BY <1>4, <2>1 DEF refuse, Goto, TypeOK, Progress
  <2> QED BY <1>4, <2>1, OtherProgress DEF refuse, Goto, TypeOK
<1>5. ASSUME NEW p \in Proc, load(p)
      PROVE  Progress(u)'
  <2>1. CASE u = p
    <3>1. request[p] \in Request /\ Progress(p) /\ pc[p] = "locked"
      BY <1>5 DEF load, Goto, TypeOK, Progress
    <3>2. request[p].op \in Op /\ request[p].amt \in Int /\ request[p] # NULL
      BY <3>1, RequestType
    <3>3. CASE request[p].op = "get_balance"
      BY <1>5, <2>1, <3>1, <3>3 DEF load, Goto, TypeOK, Progress
    <3>4. CASE request[p].op # "get_balance"
      <4>1. /\ pc'[p] = "loaded"
            /\ request' = request
            /\ result' = result
            /\ balance' = balance
            /\ local'[p] = balance
        BY <1>5, <3>4 DEF load, Goto, TypeOK
      <4>2. /\ request[p].amt >= 0
            /\ request[p].op = "withdraw" => request[p].amt <= balance
        BY <1>5, <3>2, <3>4 DEF load, Refused, TypeOK
      <4> QED BY <2>1, <3>1, <3>2, <3>4, <4>1, <4>2 DEF Progress
    <3> QED BY <3>3, <3>4
  <2> QED BY <1>5, <2>1, OtherProgress DEF load, Goto, TypeOK
<1>6. ASSUME NEW p \in Proc, store(p)
      PROVE  Progress(u)'
  <2>1. CASE u = p
    BY <1>6, <2>1, StoreBalance DEF store, Goto, TypeOK, Progress
  <2>2. InSection(p)
    BY <1>6 DEF store, Goto, InSection
  <2> QED BY <1>6, <2>1, <2>2, OtherProgress DEF store, Goto, TypeOK
<1>7. ASSUME NEW p \in Proc, sem_V(p)
      PROVE  Progress(u)'
  <2>1. CASE u = p
    BY <1>7, <2>1 DEF sem_V, Goto, TypeOK, Progress
  <2> QED BY <1>7, <2>1, OtherProgress DEF sem_V, Goto, TypeOK
<1>8. ASSUME NEW p \in Proc, Return(p)
      PROVE  Progress(u)'
  <2>1. CASE u = p
    BY <1>8, <2>1 DEF Return, Goto, TypeOK, Progress
  <2> QED BY <1>8, <2>1, OtherProgress DEF Return, Goto, TypeOK
<1>9. ASSUME NEW p \in Proc, Die(p)
      PROVE  Progress(u)'
  <2>1. CASE u = p
    BY <1>9, <2>1 DEF Die, TypeOK, Progress
  <2> QED BY <1>9, <2>1, OtherProgress DEF Die, TypeOK
<1> QED BY <1>1, <1>2, <1>3, <1>4, <1>5, <1>6, <1>7, <1>8, <1>9
        DEF Next, Step, Done

-----------------------------------------------------------------------------
\* IInv holds always.
THEOREM InductiveInvariant == Spec => []IInv
<1>1. IInv /\ [Next]_vars => IInv'
  BY TypeStep, ExclusionStep, BalanceStep, ProgressStep DEF IInv
<1> QED BY InitIInv, <1>1, PTL DEF Spec

\* The variables keep their types; in particular the value of the semaphore is
\* never negative.
THEOREM TypeCorrect == Spec => []TypeOK
<1>1. IInv => TypeOK
  BY DEF IInv
<1> QED BY <1>1, InductiveInvariant, PTL

\* One process at most is between sem_P and sem_V, and whoever is killed there
\* gives the semaphore back; whoever is killed elsewhere gives nothing.
THEOREM Exclusion == Spec => []MutualExclusion
<1>1. IInv => MutualExclusion
  BY DEF IInv
<1> QED BY <1>1, InductiveInvariant, PTL

\* The account is never below zero, wherever processes are killed.
THEOREM NoOverdraft == Spec => []NeverOverdrawn
<1>1. IInv => NeverOverdrawn
  BY DEF IInv
<1> QED BY <1>1, InductiveInvariant, PTL

-----------------------------------------------------------------------------
(* Every step is a step of the atomic account, or none. *)

LEMMA InitRefines == Init => Atomic!Init
BY DEF Init, Atomic!Init

\* refuse, load of a get_balance, and store carry the call out.
LEMMA RefuseApplies ==
    ASSUME IInv, NEW p \in Proc, refuse(p)
    PROVE  Atomic!Apply(p)
<1>1. /\ request[p] \in Request /\ result[p] = NULL
      /\ Progress(p)
  BY DEF IInv, TypeOK, Progress, refuse, Goto
<1>2. request[p] # NULL /\ request[p].op \in Op /\ request[p].amt \in Int
  BY <1>1, RequestType
<1>3. Atomic!Refused(balance, request[p])
  BY <1>1, <1>2 DEF Atomic!Refused, refuse, Refused
<1> QED BY <1>1, <1>2, <1>3
        DEF Atomic!Apply, Atomic!After, Atomic!Returned, refuse

LEMMA LoadRefines ==
    ASSUME IInv, NEW p \in Proc, load(p)
    PROVE  Atomic!Apply(p) \/ UNCHANGED Atomic!vars
<1>1. request[p] \in Request /\ result[p] = NULL
  BY DEF IInv, TypeOK, Progress, load, Goto
<1>2. request[p] # NULL
  BY <1>1, RequestType
<1>3. CASE request[p].op = "get_balance"
  BY <1>1, <1>2, <1>3
     DEF load, Atomic!Apply, Atomic!After, Atomic!Returned, Atomic!Refused
<1>4. CASE request[p].op # "get_balance"
  BY <1>4 DEF load, Atomic!vars
<1> QED BY <1>3, <1>4

LEMMA StoreApplies ==
    ASSUME IInv, NEW p \in Proc, store(p)
    PROVE  Atomic!Apply(p)
<1>1. request[p] # NULL /\ result[p] = NULL
  BY StoreBalance, RequestType DEF IInv, TypeOK, Progress, store, Goto
<1>2. balance \in Int
  BY DEF IInv, TypeOK
<1>3. ~Atomic!Refused(balance, request[p])
  BY <1>2, StoreBalance DEF Atomic!Refused
<1>4. balance' = Atomic!After(balance, request[p])
  BY <1>3, StoreBalance DEF Atomic!After
<1>5. result' = [result EXCEPT ![p] = Atomic!Returned(balance, request[p])]
  BY <1>3, StoreBalance DEF Atomic!Returned, store
<1> QED BY <1>1, <1>4, <1>5 DEF Atomic!Apply, store

\* What the call had done to the balance stays; a process that makes no call
\* dies unseen.
LEMMA DieRefines ==
    ASSUME IInv, NEW p \in Proc, Die(p)
    PROVE  Atomic!Die(p) \/ UNCHANGED Atomic!vars
<1>1. CASE request[p] # NULL
  BY <1>1 DEF Die, Atomic!Die
<1>2. CASE request[p] = NULL
  <2>1. request' = request
    BY <1>2 DEF Die, IInv, TypeOK
  <2> QED BY <2>1 DEF Die, Atomic!vars
<1> QED BY <1>1, <1>2

LEMMA StepRefines == IInv /\ [Next]_vars => [Atomic!Next]_(Atomic!vars)
<1> SUFFICES ASSUME IInv, [Next]_vars
             PROVE  Atomic!Next \/ UNCHANGED Atomic!vars
  OBVIOUS
<1>1. CASE UNCHANGED vars
  BY <1>1 DEF vars, Atomic!vars
<1>2. ASSUME NEW p \in Proc, NEW r \in Request, Call(p, r)
      PROVE  Atomic!Next
  <2>1. request[p] = NULL
    BY <1>2 DEF IInv, Progress, Call, Goto
  <2>2. Atomic!Call(p, r)
    BY <1>2, <2>1 DEF Atomic!Call, Call
  <2> QED BY <2>2 DEF Atomic!Next
<1>3. ASSUME NEW p \in Proc, refuse(p)
      PROVE  Atomic!Next
  BY <1>3, RefuseApplies DEF Atomic!Next
<1>4. ASSUME NEW p \in Proc, sem_P(p) \/ sem_V(p)
      PROVE  UNCHANGED Atomic!vars
  BY <1>4 DEF sem_P, sem_V, Atomic!vars
<1>5. ASSUME NEW p \in Proc, load(p)
      PROVE  Atomic!Next \/ UNCHANGED Atomic!vars
  BY <1>5, LoadRefines DEF Atomic!Next
<1>6. ASSUME NEW p \in Proc, store(p)
      PROVE  Atomic!Next
  BY <1>6, StoreApplies DEF Atomic!Next
<1>7. ASSUME NEW p \in Proc, Return(p)
      PROVE  Atomic!Next
  <2>1. request[p] # NULL /\ result[p] # NULL
    BY <1>7 DEF IInv, Progress, Return, Goto
  <2>2. Atomic!Return(p)
    BY <1>7, <2>1 DEF Atomic!Return, Return
  <2> QED BY <2>2 DEF Atomic!Next
<1>8. ASSUME NEW p \in Proc, Die(p)
      PROVE  Atomic!Next \/ UNCHANGED Atomic!vars
  BY <1>8, DieRefines DEF Atomic!Next
<1> QED BY <1>1, <1>2, <1>3, <1>4, <1>5, <1>6, <1>7, <1>8 DEF Next, Step, Done

\* Every call takes effect at one instant, or not at all when its process is
\* killed: none is lost to a process that read the balance before it.
THEOREM CallsAreAtomic == Spec => ImplementsAtomic
<1> QED BY InitRefines, StepRefines, InductiveInvariant, PTL
        DEF Spec, ImplementsAtomic, Atomic!Spec
=============================================================================
