------------------------------ MODULE SysVSem -------------------------------
(***************************************************************************)
(* A System V semaphore as the code uses it: every operation is one semop  *)
(* of one semaphore with SEM_UNDO.  The kernel keeps, for every process,   *)
(* what it has to add to the value when the process ends (semadj).         *)
(***************************************************************************)
EXTENDS Integers

Sem(Proc) == [val : Nat, adj : [Proc -> Int]]

\* SETALL: the value is set, and what processes had to undo is forgotten.
Reset(Proc, value) == [val |-> value, adj |-> [p \in Proc |-> 0]]

\* P waits until this holds.
CanP(s) == s.val >= 1

P(s, p) == [val |-> s.val - 1, adj |-> [s.adj EXCEPT ![p] = @ + 1]]

V(s, p) == [val |-> s.val + 1, adj |-> [s.adj EXCEPT ![p] = @ - 1]]

\* The end of a process; the value stops at 0.
Undo(s, p) ==
    [val |-> IF s.val + s.adj[p] < 0 THEN 0 ELSE s.val + s.adj[p],
     adj |-> [s.adj EXCEPT ![p] = 0]]
=============================================================================
