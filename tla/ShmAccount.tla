----------------------------- MODULE ShmAccount -----------------------------
(***************************************************************************)
(* The bank account processes share (06_ipc/src/shm_account.c with         *)
(* sem_pv.c): the account lies in shared memory and every call is made     *)
(* between sem_P and sem_V of a semaphore that the parent creates with the *)
(* value 1.  A process may be killed at any point; sem_P and sem_V ask the *)
(* kernel (SEM_UNDO) to take back what it did.                             *)
(***************************************************************************)
EXTENDS SysVSem

CONSTANTS
    Proc,      \* the parent and its children
    Amount,    \* the amounts asked for, negative ones too
    Initial,   \* a->balance when the children are forked
    MaxCalls,  \* bound: calls a process makes
    NULL

ASSUME InitialAssumption == Initial \in Nat
ASSUME AmountAssumption == Amount \subseteq Int
ASSUME CallsAssumption == MaxCalls \in Nat

Op == {"withdraw", "deposit", "get_balance"}
Request == [op : Op, amt : Amount]

ASSUME NullAssumption == NULL \notin Int /\ NULL \notin Request

VARIABLES
    balance,  \* a->balance
    sem,      \* semaphore 0 of a->semid
    pc,       \* where each process is
    local,    \* its variable balance
    request,  \* the call it is making, or NULL
    result,   \* what the call will return, once that is fixed
    calls     \* calls it has started

vars == <<balance, sem, pc, local, request, result, calls>>

Init ==
    /\ balance = Initial
    /\ sem = Reset(Proc, 1)
    /\ pc = [p \in Proc |-> "idle"]
    /\ local = [p \in Proc |-> 0]
    /\ request = [p \in Proc |-> NULL]
    /\ result = [p \in Proc |-> NULL]
    /\ calls = [p \in Proc |-> 0]

Goto(p, from, to) == pc[p] = from /\ pc' = [pc EXCEPT ![p] = to]

-----------------------------------------------------------------------------
Call(p, r) ==
    /\ calls[p] < MaxCalls
    /\ Goto(p, "idle", "wait")
    /\ calls' = [calls EXCEPT ![p] = @ + 1]
    /\ request' = [request EXCEPT ![p] = r]
    /\ result' = [result EXCEPT ![p] = NULL]
    /\ UNCHANGED <<balance, sem, local>>

\* Mutant: the operation is not to be undone.
sem_PNoUndo(p) ==
    /\ CanP(sem)
    /\ Goto(p, "wait", "locked")
    /\ sem' = [sem EXCEPT !.val = @ - 1]
    /\ UNCHANGED <<balance, local, request, result, calls>>

\* Mutant: P does not wait.
sem_PPasses(p) ==
    /\ Goto(p, "wait", "locked")
    /\ sem' = P(sem, p)
    /\ UNCHANGED <<balance, local, request, result, calls>>

sem_P(p) ==
    /\ CanP(sem)
    /\ Goto(p, "wait", "locked")
    /\ sem' = P(sem, p)
    /\ UNCHANGED <<balance, local, request, result, calls>>

\* withdraw: amt < 0 || amt > a->balance; deposit: amt < 0.
Refused(p) ==
    LET r == request[p] IN
    \/ r.op # "get_balance" /\ r.amt < 0
    \/ r.op = "withdraw" /\ r.amt > balance

refuse(p) ==
    /\ Goto(p, "locked", "post")
    /\ Refused(p)
    /\ result' = [result EXCEPT ![p] = 0]
    /\ UNCHANGED <<balance, sem, local, request, calls>>

\* double balance = a->balance; get_balance is done with that.
load(p) ==
    /\ pc[p] = "locked"
    /\ ~Refused(p)
    /\ Goto(p, "locked",
            IF request[p].op = "get_balance" THEN "post" ELSE "loaded")
    /\ local' = [local EXCEPT ![p] = balance]
    /\ result' = IF request[p].op = "get_balance"
                 THEN [result EXCEPT ![p] = balance] ELSE result
    /\ UNCHANGED <<balance, sem, request, calls>>

\* After sleep(1): a->balance = balance -/+ amt.
store(p) ==
    /\ Goto(p, "loaded", "post")
    /\ balance' = IF request[p].op = "withdraw"
                  THEN local[p] - request[p].amt ELSE local[p] + request[p].amt
    /\ result' = [result EXCEPT ![p] = request[p].amt]
    /\ UNCHANGED <<sem, local, request, calls>>

\* Mutant: the semaphore goes up without the kernel's account of it.
sem_VNoUndo(p) ==
    /\ Goto(p, "post", "return")
    /\ sem' = [sem EXCEPT !.val = @ + 1]
    /\ UNCHANGED <<balance, local, request, result, calls>>

sem_V(p) ==
    /\ Goto(p, "post", "return")
    /\ sem' = V(sem, p)
    /\ UNCHANGED <<balance, local, request, result, calls>>

Return(p) ==
    /\ Goto(p, "return", "idle")
    /\ request' = [request EXCEPT ![p] = NULL]
    /\ UNCHANGED <<balance, sem, local, result, calls>>

\* exit, or a signal that kills the process.
Die(p) ==
    /\ pc[p] # "dead"
    /\ pc' = [pc EXCEPT ![p] = "dead"]
    /\ sem' = Undo(sem, p)
    /\ request' = [request EXCEPT ![p] = NULL]
    /\ UNCHANGED <<balance, local, result, calls>>

-----------------------------------------------------------------------------
Step(p) ==
    sem_P(p) \/ refuse(p) \/ load(p) \/ store(p) \/ sem_V(p) \/ Return(p)

\* Everybody has ended; the parent has removed the semaphore with sem_D.
Done == (\A p \in Proc : pc[p] = "dead") /\ UNCHANGED vars

Next ==
    \/ \E p \in Proc : Step(p) \/ Die(p) \/ \E r \in Request : Call(p, r)
    \/ Done

Spec == Init /\ [][Next]_vars

FairSpec == Spec /\ \A p \in Proc : WF_vars(Step(p))

-----------------------------------------------------------------------------
(* Properties. *)

TypeOK ==
    /\ balance \in Int
    /\ sem \in Sem(Proc)
    /\ pc \in [Proc -> {"idle", "wait", "locked", "loaded", "post", "return",
                        "dead"}]
    /\ local \in [Proc -> Int]
    /\ request \in [Proc -> Request \cup {NULL}]
    /\ result \in [Proc -> Int \cup {NULL}]
    /\ calls \in [Proc -> 0..MaxCalls]

InSection(p) == pc[p] \in {"locked", "loaded", "post"}

\* One process at most is between sem_P and sem_V, and the kernel's account is
\* exact: whoever dies gives back what it holds, and nothing else.
MutualExclusion ==
    /\ \A p, q \in Proc : InSection(p) /\ InSection(q) => p = q
    /\ sem.val = IF \E p \in Proc : InSection(p) THEN 0 ELSE 1
    /\ \A p \in Proc : sem.adj[p] = IF InSection(p) THEN 1 ELSE 0

\* No withdrawal takes the account below zero, whoever dies in between.
NeverOverdrawn == balance >= 0

\* Every call takes effect in one instant or, when its process dies, perhaps
\* not at all; no other call is lost through it.
Atomic == INSTANCE AtomicAccount WITH User <- Proc, Mortal <- TRUE

ImplementsAtomic == Atomic!Spec

\* Every call returns unless its process dies: a process that dies inside does
\* not leave the others waiting.
CallsReturn == \A p \in Proc : (request[p] # NULL) ~> (request[p] = NULL)

-----------------------------------------------------------------------------
(* The inductive invariant behind them. *)

Progress(p) ==
    /\ request[p] = NULL <=> pc[p] \in {"idle", "dead"}
    /\ pc[p] \in {"wait", "locked", "loaded"} => result[p] = NULL
    /\ pc[p] \in {"post", "return"} => result[p] # NULL
    /\ pc[p] = "loaded" =>
          /\ request[p].op # "get_balance"
          /\ request[p].amt >= 0
          /\ local[p] = balance
          /\ request[p].op = "withdraw" => request[p].amt <= balance

IInv ==
    /\ TypeOK /\ MutualExclusion /\ NeverOverdrawn
    /\ \A p \in Proc : Progress(p)
=============================================================================
