----------------------------- MODULE ResultCond -----------------------------
(***************************************************************************)
(* One thread computes a result, others get it: 05_thread/src/             *)
(* pthread_cal.c (one getter, which sets is_wait) and pthread_cal2.c       *)
(* (wait_num getters, which count themselves in counter).  The computing   *)
(* thread polls the counter without the mutex and broadcasts once; a       *)
(* getter counts itself and waits under the mutex.                         *)
(*                                                                         *)
(* pthread_cond_wait returns only when woken.                              *)
(***************************************************************************)
EXTENDS Integers, FiniteSets

CONSTANTS
    Getter,    \* the threads in get_fn; main creates wait_num of them
    NULL

wait_num == Cardinality(Getter)

VARIABLES
    res,      \* r->res, or NULL while it is not computed
    counter,  \* r->counter, or r->is_wait
    mutex,    \* the owner of r->mutex, or NULL
    setter,   \* where set_fn is
    pc,       \* where each getter is
    got,      \* what each getter has read from r->res, or "nothing"
    lost      \* history: has the broadcast come before a getter's wait?

vars == <<res, counter, mutex, setter, pc, got, lost>>

Init ==
    /\ res = NULL /\ counter = 0 /\ mutex = NULL
    /\ setter = "compute"
    /\ pc = [g \in Getter |-> "lock"]
    /\ got = [g \in Getter |-> "nothing"]
    /\ lost = FALSE

Goto(g, from, to) == pc[g] = from /\ pc' = [pc EXCEPT ![g] = to]

-----------------------------------------------------------------------------
(* set_fn *)

\* Mutant: the getters are waited for before the result is there.
computeLate ==
    /\ setter = "compute"
    /\ setter' = "poll"
    /\ UNCHANGED <<res, counter, mutex, pc, got, lost>>

compute ==
    /\ setter = "compute"
    /\ res' = "sum"
    /\ setter' = "poll"
    /\ UNCHANGED <<counter, mutex, pc, got, lost>>

\* while(r->counter < r->wait_num) usleep(100);
poll ==
    /\ setter = "poll"
    /\ counter >= wait_num
    /\ setter' = "broadcast"
    /\ UNCHANGED <<res, counter, mutex, pc, got, lost>>

broadcast ==
    /\ setter = "broadcast"
    /\ setter' = "end"
    /\ pc' = [g \in Getter |-> IF pc[g] = "asleep" THEN "awake" ELSE pc[g]]
    /\ lost' = \E g \in Getter : pc[g] # "asleep"
    /\ UNCHANGED <<res, counter, mutex, got>>

-----------------------------------------------------------------------------
(* get_fn *)

lock(g) ==
    /\ mutex = NULL
    /\ mutex' = g
    /\ Goto(g, "lock", "count")
    /\ UNCHANGED <<res, counter, setter, got, lost>>

count(g) ==
    /\ Goto(g, "count", "wait")
    /\ counter' = counter + 1
    /\ UNCHANGED <<res, mutex, setter, got, lost>>

\* pthread_cond_wait gives up the mutex and waits, in one step.
cond_wait(g) ==
    /\ Goto(g, "wait", "asleep")
    /\ mutex' = NULL
    /\ UNCHANGED <<res, counter, setter, got, lost>>

\* It returns with the mutex.
relock(g) ==
    /\ mutex = NULL
    /\ mutex' = g
    /\ Goto(g, "awake", "unlock")
    /\ UNCHANGED <<res, counter, setter, got, lost>>

unlock(g) ==
    /\ Goto(g, "unlock", "read")
    /\ mutex' = NULL
    /\ UNCHANGED <<res, counter, setter, got, lost>>

read(g) ==
    /\ Goto(g, "read", "end")
    /\ got' = [got EXCEPT ![g] = res]
    /\ UNCHANGED <<res, counter, mutex, setter, lost>>

-----------------------------------------------------------------------------
Setter == compute \/ poll \/ broadcast

GetterStep(g) ==
    lock(g) \/ count(g) \/ cond_wait(g) \/ relock(g) \/ unlock(g) \/ read(g)

Next == Setter \/ \E g \in Getter : GetterStep(g)

Spec == Init /\ [][Next]_vars

\* Every thread runs on when it can.
FairSpec == Spec /\ WF_vars(Setter) /\ \A g \in Getter : WF_vars(GetterStep(g))

-----------------------------------------------------------------------------
(* Properties. *)

TypeOK ==
    /\ res \in {"sum", NULL}
    /\ counter \in 0..wait_num
    /\ mutex \in Getter \cup {NULL}
    /\ setter \in {"compute", "poll", "broadcast", "end"}
    /\ pc \in [Getter -> {"lock", "count", "wait", "asleep", "awake", "unlock",
                          "read", "end"}]
    /\ got \in [Getter -> {"nothing", "sum", NULL}]
    /\ lost \in BOOLEAN

\* At most one getter is between its lock and its unlock, outside of the wait,
\* and it is the one the mutex names.
MutexHeld ==
    \A g \in Getter :
        mutex = g <=> pc[g] \in {"count", "wait", "unlock"}

\* No getter reads the result before it is computed.
ReadsResult == \A g \in Getter : got[g] # NULL

\* Where the threads come to rest: each getter has the result, or waits for ever
\* for a broadcast that came before its wait, and some do if there was such a
\* broadcast.
Rests ==
    /\ setter = "end"
    /\ \A g \in Getter : pc[g] = "asleep" \/ (pc[g] = "end" /\ got[g] = "sum")
    /\ lost <=> \E g \in Getter : pc[g] = "asleep"

-----------------------------------------------------------------------------
(* The inductive invariant behind TypeOK, MutexHeld and ReadsResult. *)

\* The getters that have counted themselves.
Counted == {g \in Getter : pc[g] \notin {"lock", "count"}}

\* Nobody wakes up before the broadcast, and the result is there by then.
IInv ==
    /\ TypeOK /\ MutexHeld /\ ReadsResult
    /\ counter = Cardinality(Counted)
    /\ res = NULL => setter = "compute"
    /\ \A g \in Getter : pc[g] \in {"awake", "unlock", "read", "end"} => setter = "end"

-----------------------------------------------------------------------------
(* What the comments say and the code does not do. *)

\* "Wake the waiting thread": the broadcast comes when the getters are ready,
\* so it finds all of them waiting.
BroadcastWakes == ~lost
=============================================================================
