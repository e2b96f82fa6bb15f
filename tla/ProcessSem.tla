----------------------------- MODULE ProcessSem -----------------------------
(***************************************************************************)
(* The semaphore sets of libcmpt (lib/libcmpt/src/ipc.c).  A process opens *)
(* the set of a path with process_sem_open, or inherits its id from the    *)
(* process that forked it, and then uses one of its semaphores through     *)
(* process_sem_wait and process_sem_post, the way ipc_p and ipc_v of       *)
(* ipc_test.c do: whatever the call returns, the caller goes on.           *)
(*                                                                         *)
(* process_sem_open is two system calls: semget, which creates the set     *)
(* with values of 0 when there is none, and SETALL.                        *)
(***************************************************************************)
EXTENDS SysVSem, FiniteSets

CONSTANTS
    Proc,
    Opener,      \* the processes that call process_sem_open, once each
    SemNum,      \* the semaphores of the set
    init_value,
    MaxWaits,    \* bound: critical sections a process enters
    Deletes,     \* may a process remove the set (process_sem_del)?
    NULL

ASSUME OpenerAssumption == Opener \subseteq Proc
ASSUME ValueAssumption == init_value \in Nat /\ MaxWaits \in Nat
\* After a removal a second process_sem_open would make a new set, with an id
\* of its own, which is not modelled.
ASSUME DeletesAssumption ==
    /\ Deletes \in BOOLEAN
    /\ Deletes => \A p, q \in Opener : p = q

VARIABLES
    set,     \* the set of the path: its semaphores, or NULL
    pc,      \* where each process is
    using,   \* the semaphore it waits for or holds, or NULL
    waits    \* critical sections it has entered

vars == <<set, pc, using, waits>>

Init ==
    /\ set = NULL
    /\ pc = [p \in Proc |-> "start"]
    /\ using = [p \in Proc |-> NULL]
    /\ waits = [p \in Proc |-> 0]

Goto(p, from, to) == pc[p] = from /\ pc' = [pc EXCEPT ![p] = to]

InSection(p) == pc[p] = "section"

-----------------------------------------------------------------------------
\* semget(key, sem_nums, IPC_CREAT|0777)
semget(p) ==
    /\ p \in Opener
    /\ Goto(p, "start", "opened")
    /\ set' = IF set = NULL THEN [n \in SemNum |-> Reset(Proc, 0)] ELSE set
    /\ UNCHANGED <<using, waits>>

\* semctl(semid, 0, SETALL, un); a set removed in between makes it fail.
setall(p) ==
    /\ Goto(p, "opened", IF set = NULL THEN "exited" ELSE "idle")
    /\ set' = IF set = NULL THEN NULL
              ELSE [n \in SemNum |-> Reset(Proc, init_value)]
    /\ UNCHANGED <<using, waits>>

\* fork() by a process that has opened the set.
inherit(p) ==
    /\ p \notin Opener
    /\ \E q \in Proc \ {p} : pc[q] \notin {"start", "opened", "exited"}
    /\ Goto(p, "start", "idle")
    /\ UNCHANGED <<set, using, waits>>

ask(p, n) ==
    /\ waits[p] < MaxWaits
    /\ Goto(p, "idle", "wait")
    /\ using' = [using EXCEPT ![p] = n]
    /\ waits' = [waits EXCEPT ![p] = @ + 1]
    /\ UNCHANGED set

\* Mutant: the kernel is not asked to undo.
process_sem_waitNoUndo(p) ==
    /\ Goto(p, "wait", "section")
    /\ set # NULL => CanP(set[using[p]])
    /\ set' = IF set = NULL THEN NULL
              ELSE [set EXCEPT ![using[p]].val = @ - 1]
    /\ UNCHANGED <<using, waits>>

\* A removed set makes semop return at once with an error.
process_sem_wait(p) ==
    /\ Goto(p, "wait", "section")
    /\ set # NULL => CanP(set[using[p]])
    /\ set' = IF set = NULL THEN NULL
              ELSE [set EXCEPT ![using[p]] = P(@, p)]
    /\ UNCHANGED <<using, waits>>

process_sem_post(p) ==
    /\ Goto(p, "section", "idle")
    /\ set' = IF set = NULL THEN NULL
              ELSE [set EXCEPT ![using[p]] = V(@, p)]
    /\ using' = [using EXCEPT ![p] = NULL]
    /\ UNCHANGED waits

process_sem_del(p) ==
    /\ Deletes
    /\ pc[p] = "idle"
    /\ set' = NULL
    /\ UNCHANGED <<pc, using, waits>>

\* A process ends, or is killed, anywhere.
exit(p) ==
    /\ pc[p] # "exited"
    /\ pc' = [pc EXCEPT ![p] = "exited"]
    /\ set' = IF set = NULL THEN NULL
              ELSE [n \in SemNum |-> Undo(set[n], p)]
    /\ using' = [using EXCEPT ![p] = NULL]
    /\ UNCHANGED waits

-----------------------------------------------------------------------------
Step(p) == semget(p) \/ setall(p) \/ process_sem_wait(p) \/ process_sem_post(p)

\* Nobody is left, or nobody will open the set for those that wait to be forked.
Done ==
    /\ \A p \in Proc :
          pc[p] = "exited" \/ (pc[p] = "start" /\ p \notin Opener)
    /\ UNCHANGED vars

Next ==
    \/ \E p \in Proc :
          \/ Step(p) \/ inherit(p) \/ process_sem_del(p) \/ exit(p)
          \/ \E n \in SemNum : ask(p, n)
    \/ Done

Spec == Init /\ [][Next]_vars

FairSpec == Spec /\ \A p \in Proc : WF_vars(Step(p))

-----------------------------------------------------------------------------
(* Properties. *)

TypeOK ==
    /\ set = NULL \/ set \in [SemNum -> Sem(Proc)]
    /\ pc \in [Proc -> {"start", "opened", "idle", "wait", "section", "exited"}]
    /\ using \in [Proc -> SemNum \cup {NULL}]
    /\ waits \in [Proc -> 0..MaxWaits]

Holders(n) == {p \in Proc : InSection(p) /\ using[p] = n}

\* The first value is the number of processes the semaphore lets in, for good:
\* nothing that is opened, forked, posted or killed lets in one more, unless
\* the set is removed.
AtMostInitValue ==
    set # NULL => \A n \in SemNum : Cardinality(Holders(n)) <= init_value

\* Nothing is lost either: once the set is open, value and holders make up the
\* first value, although holders may have been killed.
ValueIsExact ==
    /\ TypeOK
    /\ \A n \in SemNum :
          set # NULL /\ (\E p \in Proc : pc[p] \in {"idle", "wait", "section"}) =>
              set[n].val + Cardinality(Holders(n)) = init_value

\* A process that waits gets in, or ends.
WaitersEnter == \A p \in Proc : (pc[p] = "wait") ~> (pc[p] # "wait")
=============================================================================
