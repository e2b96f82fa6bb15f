------------------------------ MODULE SemOrder ------------------------------
(***************************************************************************)
(* Threads that wait at a semaphore, work, and post another one:           *)
(* 05_thread/src/pthread_sem_cal.c (one computes a result, one gets it)    *)
(* and sem_test.c (a, b and c, which run in the order c, b, a).  All       *)
(* semaphores are 0 at first.                                              *)
(***************************************************************************)
EXTENDS Integers, Sequences

CONSTANTS
    Thread,
    Semaphore,
    Waits, Posts,  \* [Thread -> Semaphore \cup {NULL}]
    NULL

VARIABLES
    sem,   \* the semaphores
    pc,    \* where each thread is
    seen   \* the threads that have worked, in this order

vars == <<sem, pc, seen>>

Init ==
    /\ sem = [s \in Semaphore |-> 0]
    /\ pc = [t \in Thread |-> "wait"]
    /\ seen = <<>>

Goto(t, from, to) == pc[t] = from /\ pc' = [pc EXCEPT ![t] = to]

\* Without a semaphore to wait for, the work begins at once.
sem_wait(t) ==
    /\ Goto(t, "wait", "work")
    /\ IF Waits[t] = NULL THEN sem' = sem
       ELSE sem[Waits[t]] > 0 /\ sem' = [sem EXCEPT ![Waits[t]] = @ - 1]
    /\ UNCHANGED seen

\* A line is printed, or the result is computed or read.
work(t) ==
    /\ Goto(t, "work", "post")
    /\ seen' = Append(seen, t)
    /\ UNCHANGED sem

sem_post(t) ==
    /\ Goto(t, "post", "ended")
    /\ IF Posts[t] = NULL THEN sem' = sem
       ELSE sem' = [sem EXCEPT ![Posts[t]] = @ + 1]
    /\ UNCHANGED seen

Step(t) == sem_wait(t) \/ work(t) \/ sem_post(t)

-----------------------------------------------------------------------------
(* Properties. *)

TypeOK ==
    /\ sem \in [Semaphore -> Nat]
    /\ pc \in [Thread -> {"wait", "work", "post", "ended"}]
    /\ seen \in Seq(Thread)

\* Nobody works before the thread that posts its semaphore has.
WorksAfter ==
    \A t, u \in Thread : Posts[t] # NULL /\ Posts[t] = Waits[u] =>
        \A k \in DOMAIN seen : seen[k] = u => t \in {seen[j] : j \in 1..(k - 1)}

\* Where the threads come to rest.
Rests == \A t \in Thread : pc[t] = "ended"

-----------------------------------------------------------------------------
(* The inductive invariant behind WorksAfter. *)

Posted(s) == \E t \in Thread : Posts[t] = s /\ pc[t] = "ended"

\* Nobody gets through a semaphore that has not been posted.
IInv ==
    /\ TypeOK
    /\ \A t \in Thread : pc[t] \in {"post", "ended"} => \E k \in DOMAIN seen : seen[k] = t
    /\ \A s \in Semaphore : sem[s] > 0 => Posted(s)
    /\ \A t \in Thread : Waits[t] # NULL /\ pc[t] # "wait" => Posted(Waits[t])
    /\ WorksAfter
=============================================================================
