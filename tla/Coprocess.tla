------------------------------ MODULE Coprocess ------------------------------
(***************************************************************************)
(* 06_ipc/src/co_process.c and add.c: the parent writes two numbers into   *)
(* pipe a and reads their sum from pipe b; the child becomes bin/add, with *)
(* the pipes as its standard streams.  Numbers of one write are read by    *)
(* one read.                                                               *)
(***************************************************************************)
EXTENDS Integers, Sequences, Pipe

CONSTANTS x, y,   \* what is typed
          NULL    \* what is in a variable that nothing was read into

VARIABLES
    pc,    \* where parent and child are
    pipe,  \* the pipes a and b
    args,  \* x and y of add, as far as it has read them
    seen,  \* the result that the parent has printed
    lost   \* history: has execlp failed?

vars == <<pc, pipe, args, seen, lost>>

Procs == {"parent", "child"}

Init ==
    /\ pc = [parent |-> "close", child |-> "close"]
    /\ pipe = [a |-> NewPipe(Procs), b |-> NewPipe(Procs)]
    /\ args = <<>>
    /\ seen = <<>>
    /\ lost = FALSE

Goto(p, from, to) == pc[p] = from /\ pc' = [pc EXCEPT ![p] = to]

Closed(p) == [a |-> Close(pipe.a, p), b |-> Close(pipe.b, p)]

\* Mutant: the parent keeps the writing end of the pipe it reads from.
parentClosesOne ==
    /\ Goto("parent", "close", "x")
    /\ pipe' = [pipe EXCEPT !.a = CloseRead(@, "parent")]
    /\ UNCHANGED <<args, seen, lost>>

parentCloses ==
    /\ Goto("parent", "close", "x")
    /\ pipe' = [a |-> CloseRead(pipe.a, "parent"), b |-> CloseWrite(pipe.b, "parent")]
    /\ UNCHANGED <<args, seen, lost>>

parentWrites(from, to, number) ==
    /\ CanWrite(pipe.a)
    /\ Goto("parent", from, to)
    /\ pipe' = [pipe EXCEPT !.a = Write(@, number)]
    /\ UNCHANGED <<args, seen, lost>>

parentIsKilled ==
    /\ ~CanWrite(pipe.a)
    /\ pc["parent"] \in {"x", "y"} /\ pc' = [pc EXCEPT !["parent"] = "ended"]
    /\ pipe' = Closed("parent")
    /\ UNCHANGED <<args, seen, lost>>

parentReads ==
    /\ CanRead(pipe.b)
    /\ Goto("parent", "read", "printed")
    /\ seen' = <<Read(pipe.b, NULL)>>
    /\ pipe' = [pipe EXCEPT !.b = AfterRead(@)]
    /\ UNCHANGED <<args, lost>>

parentDone ==
    /\ Goto("parent", "printed", "wait")
    /\ pipe' = Closed("parent")
    /\ UNCHANGED <<args, seen, lost>>

parentWaits ==
    /\ pc["child"] = "ended"
    /\ Goto("parent", "wait", "ended")
    /\ UNCHANGED <<pipe, args, seen, lost>>

Parent ==
    \/ parentCloses
    \/ parentWrites("x", "y", x) \/ parentWrites("y", "read", y)
    \/ parentIsKilled \/ parentReads \/ parentDone \/ parentWaits

-----------------------------------------------------------------------------
childCloses ==
    /\ Goto("child", "close", "exec")
    /\ pipe' = [a |-> CloseWrite(pipe.a, "child"), b |-> CloseRead(pipe.b, "child")]
    /\ UNCHANGED <<args, seen, lost>>

execlp == Goto("child", "exec", "add") /\ UNCHANGED <<pipe, args, seen, lost>>

execlpFails ==
    /\ Goto("child", "exec", "ended")
    /\ pipe' = Closed("child")
    /\ lost' = TRUE
    /\ UNCHANGED <<args, seen>>

addReads ==
    /\ pc["child"] = "add" /\ Len(args) < 2
    /\ CanRead(pipe.a)
    /\ args' = Append(args, Read(pipe.a, NULL))
    /\ pipe' = [pipe EXCEPT !.a = AfterRead(@)]
    /\ UNCHANGED <<pc, seen, lost>>

addWrites ==
    /\ Len(args) = 2
    /\ Goto("child", "add", "written")
    /\ pipe' = [pipe EXCEPT !.b = Write(@, args[1] + args[2])]
    /\ UNCHANGED <<args, seen, lost>>

addEnds ==
    /\ Goto("child", "written", "ended")
    /\ pipe' = Closed("child")
    /\ UNCHANGED <<args, seen, lost>>

Child ==
    childCloses \/ execlp \/ execlpFails \/ addReads \/ addWrites \/ addEnds

-----------------------------------------------------------------------------
(* Properties. *)

PipeSet == [data : Seq(Int), readers : SUBSET Procs, writers : SUBSET Procs]

TypeOK ==
    /\ pc["parent"] \in {"close", "x", "y", "read", "printed", "wait", "ended"}
    /\ pc["child"] \in {"close", "exec", "add", "written", "ended"}
    /\ pc = [p \in Procs |-> pc[p]]
    /\ pipe = [a |-> pipe.a, b |-> pipe.b] /\ pipe.a \in PipeSet /\ pipe.b \in PipeSet
    /\ args \in Seq(Int)
    /\ seen \in Seq(Int \cup {NULL})
    /\ lost \in BOOLEAN

\* What is printed is the sum, if there was an add at all.
ReadsSum == seen \in {<<>>, <<x + y>>} \/ lost

\* Where the processes come to rest: both end, also without an add: neither keeps an end of a pipe whose other
\* end it waits at.
Rests == pc["parent"] = "ended" /\ pc["child"] = "ended"

-----------------------------------------------------------------------------
(* The inductive invariant behind ReadsSum. *)

\* What the parent has sent is in pipe a, or has been read.
Sent ==
    CASE pc["parent"] \in {"close", "x"} -> {<<<<>>, <<>>>>}
      [] pc["parent"] = "y" -> {<<<<>>, <<x>>>>, <<<<x>>, <<>>>>}
      [] OTHER -> {<<<<>>, <<x, y>>>>, <<<<x>>, <<y>>>>, <<<<x, y>>, <<>>>>}

\* With an add at the other end, nobody finds a pipe ended before it has read
\* what it waits for, and the sum is in pipe b until the parent has read it.
WithAdd ==
    /\ <<args, pipe.a.data>> \in Sent
    /\ pc["child"] \in {"close", "exec"} => args = <<>>
    /\ pc["child"] \in {"written", "ended"} => args = <<x, y>>
    /\ pc["child"] # "ended" => "child" \in pipe.a.readers /\ "child" \in pipe.b.writers
    /\ pc["parent"] \in {"close", "x", "y", "read"} => seen = <<>> /\ "parent" \in pipe.a.writers
    /\ pc["parent"] \in {"printed", "wait", "ended"} =>
         seen = <<x + y>> /\ pc["child"] \in {"written", "ended"}
    /\ pc["parent"] \in {"close", "x", "y", "read"} =>
         pipe.b.data = IF pc["child"] \in {"written", "ended"} THEN <<x + y>> ELSE <<>>

\* Without one nothing comes from pipe b.
WithoutAdd ==
    /\ pc["child"] = "ended"
    /\ args = <<>> /\ pipe.b.data = <<>>
    /\ seen \in {<<>>, <<NULL>>}

IInv == TypeOK /\ IF lost THEN WithoutAdd ELSE WithAdd
=============================================================================
