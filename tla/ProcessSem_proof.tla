-------------------------- MODULE ProcessSem_proof --------------------------
(***************************************************************************)
(* Theorems about ProcessSem for every finite set of processes, one of     *)
(* which opens the set, every number of semaphores and every first value:  *)
(* value and holders of a semaphore make up its first value, whoever is    *)
(* killed or forked, and no more processes than that are inside.           *)
(***************************************************************************)
EXTENDS ProcessSem, FiniteSetTheorems, TLAPS

\* With two openers the second SETALL forgets the holders.
OneOpener == IsFiniteSet(Proc) /\ \A p, q \in Opener : p = q

USE OpenerAssumption, ValueAssumption, DeletesAssumption

-----------------------------------------------------------------------------
(* The inductive invariant. *)

\* Processes that use the set.
Using == {p \in Proc : pc[p] \in {"idle", "wait", "section"}}

\* Nobody uses it before the opener has given it its values.
OpenedFirst ==
    /\ \A p \in Proc : pc[p] = "opened" => p \in Opener
    /\ Using # {} => \A o \in Opener : pc[o] \notin {"start", "opened"}

\* A process that waits or is inside uses one of the semaphores.
UsesOne == \A p \in Proc : pc[p] \in {"wait", "section"} => using[p] \in SemNum

\* What the kernel would undo is what the process holds.
AdjIsHeld ==
    set # NULL =>
        \A n \in SemNum, p \in Proc :
            set[n].adj[p] = IF p \in Holders(n) THEN 1 ELSE 0

SemsOK == set # NULL => set \in [SemNum -> Sem(Proc)]

PhasesOK ==
    /\ pc \in [Proc -> {"start", "opened", "idle", "wait", "section", "exited"}]
    /\ using \in [Proc -> SemNum \cup {NULL}]
    /\ waits \in [Proc -> 0..MaxWaits]

Exact ==
    set # NULL /\ Using # {} =>
        \A n \in SemNum : set[n].val + Cardinality(Holders(n)) = init_value

IInv == SemsOK /\ PhasesOK /\ OpenedFirst /\ UsesOne /\ AdjIsHeld /\ Exact
-----------------------------------------------------------------------------
(* Values and holders. *)

\* Numbers of holders can be counted.
LEMMA HoldersFinite ==
    ASSUME OneOpener, NEW n
    PROVE  IsFiniteSet(Holders(n)) /\ Cardinality(Holders(n)) \in Nat
<1>1. Holders(n) \in SUBSET Proc
  BY DEF Holders
<1>2. IsFiniteSet(Holders(n))
  BY <1>1, FS_Subset DEF OneOpener
<1> QED BY <1>2, FS_CardinalityType

\* One holder more, one holder less.
LEMMA HolderEnters ==
    ASSUME OneOpener, NEW n, NEW p, p \notin Holders(n), Holders(n)' = Holders(n) \cup {p}
    PROVE  Cardinality(Holders(n)') = Cardinality(Holders(n)) + 1
BY HoldersFinite, FS_AddElement

LEMMA HolderLeaves ==
    ASSUME OneOpener, NEW n, NEW p, p \in Holders(n), Holders(n)' = Holders(n) \ {p}
    PROVE  Cardinality(Holders(n)') = Cardinality(Holders(n)) - 1
BY HoldersFinite, FS_RemoveElement

LEMMA InitIInv == Init => IInv
BY DEF Init, IInv, SemsOK, PhasesOK, OpenedFirst, UsesOne, AdjIsHeld, Exact, Using

\* A step that leaves the set and the users alone.
LEMMA SameHolders ==
    ASSUME AdjIsHeld, Exact, SemsOK, set' = set, \A n \in SemNum : Holders(n)' = Holders(n),
           Using' # {} => Using # {}
    PROVE  AdjIsHeld' /\ Exact' /\ SemsOK'
BY DEF AdjIsHeld, Exact, SemsOK

\* The system calls that open the set: nobody uses it yet.
LEMMA OpenKeeps ==
    ASSUME OneOpener, IInv, NEW p \in Proc, semget(p) \/ setall(p)
    PROVE  IInv'
<1> USE DEF IInv
<1>1. p \in Opener /\ pc[p] \in {"start", "opened"} /\ Using = {}
  BY DEF semget, setall, Goto, OpenedFirst
<1>2. \A q \in Proc : pc[q] \notin {"idle", "wait", "section"}
  BY <1>1 DEF Using
<1>3. \A q \in Proc : q # p => pc'[q] = pc[q]
  BY DEF semget, setall, Goto, PhasesOK
<1>4. pc'[p] \in {"opened", "idle", "exited"} /\ (semget(p) => pc'[p] = "opened")
      /\ (setall(p) => pc'[p] # "opened")
  BY DEF semget, setall, Goto, PhasesOK
<1>5. PhasesOK'
  BY DEF semget, setall, Goto, PhasesOK
<1>6. OpenedFirst'
  BY <1>1, <1>2, <1>3, <1>4 DEF OpenedFirst, OneOpener, Using
<1>7. UsesOne'
  BY <1>2, <1>3, <1>4 DEF UsesOne
<1>8. \A n : Holders(n)' = {} /\ Holders(n) = {}
  BY <1>2, <1>3, <1>4 DEF Holders, InSection
<1>9. CASE semget(p)
  <2>1. Using' = {}
    BY <1>2, <1>3, <1>4, <1>9 DEF Using
  <2>2. SemsOK' /\ AdjIsHeld'
    BY <1>8, <1>9 DEF semget, SemsOK, AdjIsHeld, Reset, Sem
  <2> QED BY <1>5, <1>6, <1>7, <2>1, <2>2 DEF Exact
<1>10. CASE setall(p)
  <2>1. SemsOK' /\ AdjIsHeld'
    BY <1>8, <1>10 DEF setall, SemsOK, AdjIsHeld, Reset, Sem
  <2>2. Exact'
    <3>1. Cardinality({}) = 0
      BY FS_EmptySet
    <3> QED BY <1>8, <1>10, <3>1 DEF setall, Exact, Reset
  <2> QED BY <1>5, <1>6, <1>7, <2>1, <2>2
<1> QED BY <1>9, <1>10

\* A process is forked by one that uses the set, or asks for a semaphore.
LEMMA JoinKeeps ==
    ASSUME OneOpener, IInv, NEW p \in Proc,
           inherit(p) \/ \E n \in SemNum : ask(p, n)
    PROVE  IInv'
<1> USE DEF IInv
<1>1. Using # {}
  BY DEF inherit, ask, Goto, Using, PhasesOK
<1>2. \A q \in Proc : q # p => pc'[q] = pc[q] /\ using'[q] = using[q]
  BY DEF inherit, ask, Goto, PhasesOK
<1>3. /\ pc[p] \in {"start", "idle"}
      /\ pc'[p] \in {"idle", "wait"} /\ (pc'[p] = "wait" => using'[p] \in SemNum)
  BY DEF inherit, ask, Goto, PhasesOK
<1>4. PhasesOK'
  BY DEF inherit, ask, Goto, PhasesOK
<1>5. OpenedFirst' /\ UsesOne'
  BY <1>1, <1>2, <1>3 DEF OpenedFirst, UsesOne, Using
<1>6. \A n \in SemNum : Holders(n)' = Holders(n)
  BY <1>2, <1>3 DEF Holders, InSection
<1>7. set' = set
  BY DEF inherit, ask
<1>8. AdjIsHeld' /\ Exact' /\ SemsOK'
  BY <1>1, <1>6, <1>7, SameHolders
<1> QED BY <1>4, <1>5, <1>8

\* A process gets the semaphore it waits for.
LEMMA WaitKeeps ==
    ASSUME OneOpener, IInv, NEW p \in Proc, process_sem_wait(p)
    PROVE  IInv'
<1> USE DEF IInv
<1>0. PICK n : n = using[p]
  OBVIOUS
<1>1. /\ pc[p] = "wait" /\ pc'[p] = "section" /\ using' = using
      /\ \A q \in Proc : q # p => pc'[q] = pc[q]
  BY DEF process_sem_wait, Goto, PhasesOK
<1>2. n \in SemNum /\ Using # {}
  BY <1>0, <1>1 DEF UsesOne, Using
<1>3. PhasesOK'
  BY DEF process_sem_wait, Goto, PhasesOK
<1>4. OpenedFirst' /\ UsesOne'
  BY <1>1, <1>2 DEF OpenedFirst, UsesOne, Using
<1>5. /\ p \notin Holders(n) /\ Holders(n)' = Holders(n) \cup {p}
      /\ \A m \in SemNum : m # n => Holders(m)' = Holders(m)
  BY <1>0, <1>1 DEF Holders, InSection
<1>6. CASE set = NULL
  <2>1. set' = NULL
    BY <1>6 DEF process_sem_wait
  <2> QED BY <1>3, <1>4, <2>1 DEF SemsOK, AdjIsHeld, Exact
<1>7. CASE set # NULL
  <2>1. /\ set \in [SemNum -> Sem(Proc)] /\ set[n].val >= 1
        /\ set' = [set EXCEPT ![n] = P(set[n], p)]
    BY <1>0, <1>2, <1>7 DEF process_sem_wait, CanP, SemsOK
  <2>2. set[n].val \in Nat /\ set[n].adj \in [Proc -> Int] /\ set[n].adj[p] = 0
    BY <1>2, <1>5, <1>7, <2>1 DEF Sem, AdjIsHeld
  <2>3. /\ set'[n].val = set[n].val - 1
        /\ set'[n].adj = [set[n].adj EXCEPT ![p] = 1]
        /\ \A m \in SemNum : m # n => set'[m] = set[m]
    BY <1>2, <2>1, <2>2 DEF P
  <2>4. set' \in [SemNum -> Sem(Proc)]
    BY <1>2, <2>1, <2>2 DEF P, Sem
  <2>5. AdjIsHeld'
    BY <1>2, <1>5, <1>7, <2>2, <2>3 DEF AdjIsHeld
  <2>6. Exact'
    <3>1. Cardinality(Holders(n)') = Cardinality(Holders(n)) + 1
      BY <1>5, HolderEnters
    <3>2. Cardinality(Holders(n)) \in Nat
      BY HoldersFinite
    <3>3. set[n].val + Cardinality(Holders(n)) = init_value
      BY <1>2, <1>7 DEF Exact
    <3>4. set'[n].val + Cardinality(Holders(n)') = init_value
      BY <2>2, <2>3, <3>1, <3>2, <3>3
    <3>5. ASSUME NEW m \in SemNum, m # n
          PROVE  set'[m].val + Cardinality(Holders(m)') = init_value
      BY <1>2, <1>5, <1>7, <2>3, <3>5 DEF Exact
    <3> QED BY <3>4, <3>5 DEF Exact
  <2> QED BY <1>3, <1>4, <2>4, <2>5, <2>6 DEF SemsOK
<1> QED BY <1>6, <1>7

\* A process gives it back.
LEMMA PostKeeps ==
    ASSUME OneOpener, IInv, NEW p \in Proc, process_sem_post(p)
    PROVE  IInv'
<1> USE DEF IInv
<1>0. PICK n : n = using[p]
  OBVIOUS
<1>1. /\ pc[p] = "section" /\ pc'[p] = "idle"
      /\ \A q \in Proc : q # p => pc'[q] = pc[q] /\ using'[q] = using[q]
  BY DEF process_sem_post, Goto, PhasesOK
<1>2. n \in SemNum /\ Using # {}
  BY <1>0, <1>1 DEF UsesOne, Using
<1>3. PhasesOK'
  BY DEF process_sem_post, Goto, PhasesOK
<1>4. OpenedFirst' /\ UsesOne'
  BY <1>1, <1>2 DEF OpenedFirst, UsesOne, Using
<1>5. /\ p \in Holders(n) /\ Holders(n)' = Holders(n) \ {p}
      /\ \A m \in SemNum : m # n => Holders(m)' = Holders(m)
  BY <1>0, <1>1 DEF Holders, InSection
<1>6. CASE set = NULL
  <2>1. set' = NULL
    BY <1>6 DEF process_sem_post
  <2> QED BY <1>3, <1>4, <2>1 DEF SemsOK, AdjIsHeld, Exact
<1>7. CASE set # NULL
  <2>1. /\ set \in [SemNum -> Sem(Proc)]
        /\ set' = [set EXCEPT ![n] = V(set[n], p)]
    BY <1>0, <1>2, <1>7 DEF process_sem_post, SemsOK
  <2>2. set[n].val \in Nat /\ set[n].adj \in [Proc -> Int] /\ set[n].adj[p] = 1
    BY <1>2, <1>5, <1>7, <2>1 DEF Sem, AdjIsHeld
  <2>3. /\ set'[n].val = set[n].val + 1
        /\ set'[n].adj = [set[n].adj EXCEPT ![p] = 0]
        /\ \A m \in SemNum : m # n => set'[m] = set[m]
    BY <1>2, <2>1, <2>2 DEF V
  <2>4. set' \in [SemNum -> Sem(Proc)]
    BY <1>2, <2>1, <2>2 DEF V, Sem
  <2>5. AdjIsHeld'
    BY <1>2, <1>5, <1>7, <2>2, <2>3 DEF AdjIsHeld
  <2>6. Exact'
    <3>1. Cardinality(Holders(n)') = Cardinality(Holders(n)) - 1
      BY <1>5, HolderLeaves
    <3>2. Cardinality(Holders(n)) \in Nat
      BY HoldersFinite
    <3>3. set[n].val + Cardinality(Holders(n)) = init_value
      BY <1>2, <1>7 DEF Exact
    <3>4. set'[n].val + Cardinality(Holders(n)') = init_value
      BY <2>2, <2>3, <3>1, <3>2, <3>3
    <3>5. ASSUME NEW m \in SemNum, m # n
          PROVE  set'[m].val + Cardinality(Holders(m)') = init_value
      BY <1>2, <1>5, <1>7, <2>3, <3>5 DEF Exact
    <3> QED BY <3>4, <3>5 DEF Exact
  <2> QED BY <1>3, <1>4, <2>4, <2>5, <2>6 DEF SemsOK
<1> QED BY <1>6, <1>7

\* The set is removed.
LEMMA DeleteKeeps ==
    ASSUME IInv, NEW p \in Proc, process_sem_del(p)
    PROVE  IInv'
BY DEF IInv, process_sem_del, SemsOK, PhasesOK, OpenedFirst, UsesOne, AdjIsHeld, Exact, Using

\* A process ends: what it holds is given back by the kernel.
LEMMA ExitKeeps ==
    ASSUME OneOpener, IInv, NEW p \in Proc, exit(p)
    PROVE  IInv'
<1> USE DEF IInv
<1>1. /\ pc'[p] = "exited"
      /\ \A q \in Proc : q # p => pc'[q] = pc[q] /\ using'[q] = using[q]
  BY DEF exit, PhasesOK
<1>2. PhasesOK'
  BY DEF exit, PhasesOK
<1>3. Using' # {} => Using # {}
  BY <1>1 DEF Using
<1>4. OpenedFirst' /\ UsesOne'
  BY <1>1, <1>3 DEF OpenedFirst, UsesOne
<1>5. \A n \in SemNum : Holders(n)' = Holders(n) \ {p}
  BY <1>1 DEF Holders, InSection
<1>6. CASE set = NULL
  <2>1. set' = NULL
    BY <1>6 DEF exit
  <2> QED BY <1>2, <1>4, <2>1 DEF SemsOK, AdjIsHeld, Exact
<1>7. CASE set # NULL
  <2>1. /\ set \in [SemNum -> Sem(Proc)]
        /\ set' = [n \in SemNum |-> Undo(set[n], p)]
    BY <1>7 DEF exit, SemsOK
  <2>2. ASSUME NEW n \in SemNum
        PROVE  /\ set[n].val \in Nat /\ set[n].adj \in [Proc -> Int]
               /\ set[n].adj[p] = IF p \in Holders(n) THEN 1 ELSE 0
               /\ set'[n].val = set[n].val + set[n].adj[p]
               /\ set'[n].adj = [set[n].adj EXCEPT ![p] = 0]
               /\ set'[n] \in Sem(Proc)
    <3>1. set[n].val \in Nat /\ set[n].adj \in [Proc -> Int]
      BY <2>1 DEF Sem
    <3>2. set[n].adj[p] = IF p \in Holders(n) THEN 1 ELSE 0
      BY <1>7 DEF AdjIsHeld
    <3>3. set[n].val + set[n].adj[p] >= 0
      BY <3>1, <3>2
    <3>4. set'[n] = Undo(set[n], p)
      BY <2>1
    <3>5. /\ set'[n].val = set[n].val + set[n].adj[p]
          /\ set'[n].adj = [set[n].adj EXCEPT ![p] = 0]
      BY <3>1, <3>2, <3>3, <3>4 DEF Undo
    <3>6. set'[n] \in Sem(Proc)
      BY <3>1, <3>2, <3>3, <3>4 DEF Undo, Sem
    <3> QED BY <3>1, <3>2, <3>5, <3>6
  <2>3. SemsOK'
    BY <2>1, <2>2 DEF SemsOK
  <2>4. ASSUME NEW n \in SemNum, NEW q \in Proc
        PROVE  set'[n].adj[q] = IF q \in Holders(n)' THEN 1 ELSE 0
    <3>1. set'[n].adj[q] = IF q = p THEN 0 ELSE set[n].adj[q]
      BY <2>2
    <3>2. q \in Holders(n)' <=> q \in Holders(n) /\ q # p
      BY <1>5
    <3>3. set[n].adj[q] = IF q \in Holders(n) THEN 1 ELSE 0
      BY <1>7 DEF AdjIsHeld
    <3> QED BY <3>1, <3>2, <3>3
  <2>5. ASSUME NEW n \in SemNum, Using' # {}
        PROVE  set'[n].val + Cardinality(Holders(n)') = init_value
    <3>1. set[n].val + Cardinality(Holders(n)) = init_value /\ Cardinality(Holders(n)) \in Nat
      BY <1>3, <1>7, <2>5, HoldersFinite DEF Exact
    <3>2. CASE p \in Holders(n)
      <4>1. Cardinality(Holders(n)') = Cardinality(Holders(n)) - 1
        BY <1>5, <3>2, HolderLeaves
      <4>2. set'[n].val = set[n].val + 1 /\ set[n].val \in Nat
        BY <2>2, <2>5, <3>2
      <4> QED BY <3>1, <4>1, <4>2
    <3>3. CASE p \notin Holders(n)
      <4>1. Holders(n)' = Holders(n)
        BY <1>5, <2>5, <3>3
      <4>2. set'[n].val = set[n].val /\ set[n].val \in Nat
        <5>1. set[n].adj[p] = 0
          BY <2>2, <3>3
        <5>2. set'[n].val = set[n].val + set[n].adj[p] /\ set[n].val \in Nat
          BY <2>2
        <5> QED BY <5>1, <5>2
      <4> QED BY <3>1, <4>1, <4>2
    <3> QED BY <3>2, <3>3
  <2>6. Exact'
    BY <2>5 DEF Exact
  <2> QED BY <1>2, <1>4, <2>3, <2>4, <2>6 DEF AdjIsHeld
<1> QED BY <1>6, <1>7

-----------------------------------------------------------------------------
(* The theorems. *)

\* IInv holds always.
THEOREM InductiveInvariant == OneOpener => (Spec => []IInv)
<1> SUFFICES ASSUME OneOpener PROVE Spec => []IInv
  OBVIOUS
<1>1. ASSUME IInv, Next
      PROVE  IInv'
  <2>1. CASE Done
    BY <1>1, <2>1 DEF Done, vars, IInv, SemsOK, PhasesOK, OpenedFirst, UsesOne,
       AdjIsHeld, Exact, Using, Holders, InSection
  <2>2. ASSUME NEW p \in Proc,
               \/ Step(p) \/ inherit(p) \/ process_sem_del(p) \/ exit(p)
               \/ \E n \in SemNum : ask(p, n)
        PROVE  IInv'
    BY <1>1, <2>2, OpenKeeps, JoinKeeps, WaitKeeps, PostKeeps, DeleteKeeps, ExitKeeps
       DEF Step
  <2> QED BY <1>1, <2>1, <2>2 DEF Next
<1>2. ASSUME IInv, UNCHANGED vars
      PROVE  IInv'
  BY <1>2 DEF vars, IInv, SemsOK, PhasesOK, OpenedFirst, UsesOne, AdjIsHeld, Exact,
     Using, Holders, InSection
<1>3. IInv /\ [Next]_vars => IInv'
  BY <1>1, <1>2
<1> QED BY InitIInv, <1>3, PTL DEF Spec

\* Value and holders of a semaphore make up its first value, although holders
\* may be killed, and others forked, anywhere.
THEOREM NothingIsLost == OneOpener => (Spec => []ValueIsExact)
<1> SUFFICES ASSUME OneOpener PROVE Spec => []ValueIsExact
  OBVIOUS
<1>1. IInv => ValueIsExact
  BY DEF IInv, SemsOK, PhasesOK, Exact, Using, ValueIsExact, TypeOK
<1> QED BY <1>1, InductiveInvariant, PTL

\* No more processes than the first value says are inside, once the set is open.
THEOREM NoMoreThanInitValue == OneOpener => (Spec => []AtMostInitValue)
<1> SUFFICES ASSUME OneOpener PROVE Spec => []AtMostInitValue
  OBVIOUS
<1>1. IInv => AtMostInitValue
  <2> SUFFICES ASSUME IInv, set # NULL, NEW n \in SemNum
               PROVE  Cardinality(Holders(n)) <= init_value
    BY DEF AtMostInitValue
  <2>1. CASE Using = {}
    <3>1. Holders(n) = {}
      BY <2>1 DEF Using, Holders, InSection
    <3> QED BY <3>1, FS_EmptySet
  <2>2. CASE Using # {}
    <3>1. set[n].val \in Nat /\ Cardinality(Holders(n)) \in Nat
      BY HoldersFinite DEF IInv, SemsOK, Sem
    <3>2. set[n].val + Cardinality(Holders(n)) = init_value
      BY <2>2 DEF IInv, Exact
    <3> QED BY <3>1, <3>2
  <2> QED BY <2>1, <2>2
<1> QED BY <1>1, InductiveInvariant, PTL

=============================================================================
