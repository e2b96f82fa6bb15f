------------------------------ MODULE PipeTell ------------------------------
(***************************************************************************)
(* 06_ipc/src/shm_pipetell_test.c with shm_pipetell.c: the parent writes   *)
(* two numbers into shared memory and tells the child through a pipe.      *)
(* Both keep both ends of the pipe until destroy_pipe.                     *)
(***************************************************************************)
EXTENDS Integers, Sequences, Pipe

VARIABLES
    pc,    \* where parent and child are
    mem,   \* the two numbers in the shared memory
    pipe,
    seen,  \* what the child has read
    lost   \* history: has the parent's shmat failed?

vars == <<pc, mem, pipe, seen, lost>>

\* After the fork.
Init ==
    /\ pc = [parent |-> "shmat", child |-> "wait_pipe"]
    /\ mem = <<0, 0>>
    /\ pipe = NewPipe({"parent", "child"})
    /\ seen = <<>>
    /\ lost = FALSE

Goto(p, from, to) == pc[p] = from /\ pc' = [pc EXCEPT ![p] = to]

\* exit closes the ends of the pipe.
shmatFails(p) ==
    /\ Goto(p, "shmat", "ended")
    /\ pipe' = Close(pipe, p)
    /\ lost' = (lost \/ p = "parent")
    /\ UNCHANGED <<mem, seen>>

shmat(p) == Goto(p, "shmat", "attached") /\ UNCHANGED <<mem, pipe, seen, lost>>

write ==
    \/ Goto("parent", "attached", "half") /\ mem' = [mem EXCEPT ![1] = 100]
    \/ Goto("parent", "half", "written") /\ mem' = [mem EXCEPT ![2] = 200]

notify_pipe ==
    /\ Goto("parent", "written", "told")
    /\ pipe' = Write(pipe, "a")
    /\ UNCHANGED <<mem, seen, lost>>

parentDestroy ==
    /\ Goto("parent", "told", "wait")
    /\ pipe' = Close(pipe, "parent")
    /\ UNCHANGED <<mem, seen, lost>>

wait ==
    /\ pc["child"] = "ended"
    /\ Goto("parent", "wait", "ended")
    /\ UNCHANGED <<mem, pipe, seen, lost>>

\* The end of the file is not told from a byte.
wait_pipe ==
    /\ CanRead(pipe)
    /\ Goto("child", "wait_pipe", "shmat")
    /\ pipe' = AfterRead(pipe)
    /\ UNCHANGED <<mem, seen, lost>>

print ==
    /\ Goto("child", "attached", "printed")
    /\ seen' = mem
    /\ UNCHANGED <<mem, pipe, lost>>

childDestroy ==
    /\ Goto("child", "printed", "ended")
    /\ pipe' = Close(pipe, "child")
    /\ UNCHANGED <<mem, seen, lost>>

Parent ==
    \/ shmat("parent") \/ shmatFails("parent")
    \/ write /\ UNCHANGED <<pipe, seen, lost>>
    \/ notify_pipe \/ parentDestroy \/ wait
Child ==
    wait_pipe \/ shmat("child") \/ shmatFails("child") \/ print \/ childDestroy

-----------------------------------------------------------------------------
(* Properties. *)

\* The numbers are written in this order, to memory that is 0.
Memories == {<<0, 0>>, <<100, 0>>, <<100, 200>>}

TypeOK ==
    /\ pc \in [{"parent", "child"} -> {"shmat", "attached", "half", "written", "told",
                                      "wait", "ended", "wait_pipe", "printed"}]
    /\ mem \in Memories
    /\ pipe \in [data : Seq({"a"}), readers : SUBSET {"parent", "child"},
                writers : SUBSET {"parent", "child"}]
    /\ seen \in {<<>>} \cup Memories
    /\ lost \in BOOLEAN

\* The child reads both numbers, and only when both are there.
ReadsBoth == seen \in {<<>>, <<100, 200>>}

\* Where the processes come to rest: both have ended, or the parent has without
\* a word and the child waits for ever.
Rests ==
    /\ pc["parent"] = "ended"
    /\ pc["child"] = IF lost THEN "wait_pipe" ELSE "ended"

-----------------------------------------------------------------------------
(* The inductive invariant behind ReadsBoth. *)

\* The child holds a writing end itself, so it does not take the end of the
\* parent for a byte: it waits until the parent has told, which comes after
\* both numbers.
IInv ==
    /\ TypeOK
    /\ pc["parent"] \in {"shmat", "attached"} => mem = <<0, 0>>
    /\ pc["parent"] = "half" => mem = <<100, 0>>
    /\ pc["parent"] = "written" => mem = <<100, 200>>
    /\ pc["parent"] \in {"shmat", "attached", "half", "written"} =>
         pipe.data = <<>> /\ pc["child"] = "wait_pipe"
    /\ pc["child"] = "wait_pipe" => "child" \in pipe.writers
    /\ pc["child"] # "wait_pipe" \/ pipe.data # <<>> => mem = <<100, 200>>
    /\ ReadsBoth

-----------------------------------------------------------------------------
(* What the comments say and the code does not do. *)

\* "The child blocks until the parent has written": a parent that ends before
\* ends the waiting, too.
EndIsNoticed == (pc["parent"] = "ended") ~> (pc["child"] = "ended")
=============================================================================
