------------------------------ MODULE Account -------------------------------
(***************************************************************************)
(* The bank account threads share (05_thread/src/account.c): withdraw,     *)
(* deposit and get_balance between sem_wait and sem_post of a semaphore    *)
(* that create_account sets to 1.  Money is in whole units.                *)
(*                                                                         *)
(* A step is one access to the semaphore or to a->balance.  The threads    *)
(* are those of account_test.c, each free to make several calls.           *)
(***************************************************************************)
EXTENDS Integers

CONSTANTS
    Thread,
    Amount,    \* the amounts asked for, negative ones too
    Initial,   \* the balance at create_account
    MaxCalls,  \* bound: calls a thread makes
    NULL

ASSUME InitialAssumption == Initial \in Nat
ASSUME AmountAssumption == Amount \subseteq Int
ASSUME CallsAssumption == MaxCalls \in Nat

Op == {"withdraw", "deposit", "get_balance"}
Request == [op : Op, amt : Amount]

ASSUME NullAssumption == NULL \notin Int /\ NULL \notin Request

VARIABLES
    balance,  \* a->balance
    sem,      \* a->sem
    pc,       \* where each thread is
    local,    \* its variable balance
    request,  \* the call it is making, or NULL
    result,   \* what the call will return, once that is fixed
    calls     \* calls it has started

vars == <<balance, sem, pc, local, request, result, calls>>

Init ==
    /\ balance = Initial
    /\ sem = 1
    /\ pc = [t \in Thread |-> "idle"]
    /\ local = [t \in Thread |-> 0]
    /\ request = [t \in Thread |-> NULL]
    /\ result = [t \in Thread |-> NULL]
    /\ calls = [t \in Thread |-> 0]

Goto(t, from, to) == pc[t] = from /\ pc' = [pc EXCEPT ![t] = to]

-----------------------------------------------------------------------------

\* deposit looks at the sign before it takes the semaphore.
Call(t, r) ==
    /\ calls[t] < MaxCalls
    /\ Goto(t, "idle",
            IF r.op = "deposit" /\ r.amt < 0 THEN "refused" ELSE "wait")
    /\ calls' = [calls EXCEPT ![t] = @ + 1]
    /\ request' = [request EXCEPT ![t] = r]
    /\ result' = [result EXCEPT ![t] = NULL]
    /\ UNCHANGED <<balance, sem, local>>

refuseDeposit(t) ==
    /\ Goto(t, "refused", "return")
    /\ result' = [result EXCEPT ![t] = 0]
    /\ UNCHANGED <<balance, sem, local, request, calls>>

\* Mutant: the semaphore is not taken.
sem_waitPasses(t) ==
    /\ Goto(t, "wait", "locked")
    /\ UNCHANGED <<balance, sem, local, request, result, calls>>

sem_wait(t) ==
    /\ sem > 0
    /\ sem' = sem - 1
    /\ Goto(t, "wait", "locked")
    /\ UNCHANGED <<balance, local, request, result, calls>>

\* amt < 0 || amt > a->balance
Refused(t) ==
    /\ request[t].op = "withdraw"
    /\ request[t].amt < 0 \/ request[t].amt > balance

\* Mutant: a refused withdrawal returns without sem_post.
refuseKeepsSem(t) ==
    /\ Goto(t, "locked", "return")
    /\ Refused(t)
    /\ result' = [result EXCEPT ![t] = 0]
    /\ UNCHANGED <<balance, sem, local, request, calls>>

refuse(t) ==
    /\ Goto(t, "locked", "post")
    /\ Refused(t)
    /\ result' = [result EXCEPT ![t] = 0]
    /\ UNCHANGED <<balance, sem, local, request, calls>>

\* double balance = a->balance; get_balance is done with that.
load(t) ==
    /\ pc[t] = "locked"
    /\ ~Refused(t)
    /\ Goto(t, "locked",
            IF request[t].op = "get_balance" THEN "post" ELSE "loaded")
    /\ local' = [local EXCEPT ![t] = balance]
    /\ result' = IF request[t].op = "get_balance"
                 THEN [result EXCEPT ![t] = balance] ELSE result
    /\ UNCHANGED <<balance, sem, request, calls>>

\* After sleep(1): a->balance = balance -/+ amt.
store(t) ==
    /\ Goto(t, "loaded", "post")
    /\ balance' = IF request[t].op = "withdraw"
                  THEN local[t] - request[t].amt ELSE local[t] + request[t].amt
    /\ result' = [result EXCEPT ![t] = request[t].amt]
    /\ UNCHANGED <<sem, local, request, calls>>

sem_post(t) ==
    /\ Goto(t, "post", "return")
    /\ sem' = sem + 1
    /\ UNCHANGED <<balance, local, request, result, calls>>

Return(t) ==
    /\ Goto(t, "return", "idle")
    /\ request' = [request EXCEPT ![t] = NULL]
    /\ UNCHANGED <<balance, sem, local, result, calls>>

-----------------------------------------------------------------------------
Step(t) ==
    \/ refuseDeposit(t) \/ sem_wait(t) \/ refuse(t) \/ load(t) \/ store(t)
    \/ sem_post(t) \/ Return(t)

\* All threads have made their calls (main joins them).
Done == (\A t \in Thread : pc[t] = "idle" /\ calls[t] = MaxCalls) /\ UNCHANGED vars

Next ==
    \/ \E t \in Thread : Step(t) \/ \E r \in Request : Call(t, r)
    \/ Done

Spec == Init /\ [][Next]_vars

\* A thread that can go on does; sleep(1) ends.
FairSpec == Spec /\ \A t \in Thread : WF_vars(Step(t))

-----------------------------------------------------------------------------
(* Properties. *)

TypeOK ==
    /\ balance \in Int
    /\ sem \in {0, 1}
    /\ pc \in [Thread -> {"idle", "refused", "wait", "locked", "loaded", "post",
                          "return"}]
    /\ local \in [Thread -> Int]
    /\ request \in [Thread -> Request \cup {NULL}]
    /\ result \in [Thread -> Int \cup {NULL}]
    /\ calls \in [Thread -> 0..MaxCalls]

InSection(t) == pc[t] \in {"locked", "loaded", "post"}

\* Between sem_wait and sem_post there is one thread at most, and every path
\* out of withdraw gives back what it took, once.
MutualExclusion ==
    /\ \A t, u \in Thread : InSection(t) /\ InSection(u) => t = u
    /\ sem = 1 <=> \A t \in Thread : ~InSection(t)

\* No withdrawal takes the account below zero.
NeverOverdrawn == balance >= 0

\* Every call takes effect in one instant: no deposit or withdrawal is lost to
\* one that read the balance before it, and get_balance sees no half of one.
Atomic == INSTANCE AtomicAccount WITH User <- Thread, Mortal <- FALSE

ImplementsAtomic == Atomic!Spec

\* Every call returns: no path keeps the semaphore.
CallsReturn == \A t \in Thread : (request[t] # NULL) ~> (request[t] = NULL)

-----------------------------------------------------------------------------
(* The inductive invariant behind them. *)

\* A call is being made outside "idle"; what it returns is fixed from the step
\* that carries it out on; nobody changed the balance since it was read.
Progress(t) ==
    /\ request[t] = NULL <=> pc[t] = "idle"
    /\ pc[t] \in {"refused", "wait", "locked", "loaded"} => result[t] = NULL
    /\ pc[t] \in {"post", "return"} => result[t] # NULL
    /\ pc[t] = "refused" =>
          request[t].op = "deposit" /\ request[t].amt < 0
    /\ pc[t] \in {"wait", "locked", "loaded"} /\ request[t].op = "deposit" =>
          request[t].amt >= 0
    /\ pc[t] = "loaded" =>
          /\ request[t].op # "get_balance"
          /\ local[t] = balance
          /\ request[t].op = "withdraw" =>
                request[t].amt >= 0 /\ request[t].amt <= balance

IInv ==
    /\ TypeOK /\ MutualExclusion /\ NeverOverdrawn
    /\ \A t \in Thread : Progress(t)
=============================================================================
