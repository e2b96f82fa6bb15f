-------------------------------- MODULE Pipe --------------------------------
(***************************************************************************)
(* A pipe as the programs use it: what is in it, and who holds its ends.   *)
(***************************************************************************)
EXTENDS Sequences

\* After fork both processes hold both ends.
NewPipe(procs) == [data |-> <<>>, readers |-> procs, writers |-> procs]

\* read returns: there is something to read, or the end, because nobody is left
\* who could write.
CanRead(p) == p.data # <<>> \/ p.writers = {}

\* What read puts where it is told to: nothing at the end.
Read(p, untouched) == IF p.data = <<>> THEN untouched ELSE Head(p.data)
AfterRead(p) == IF p.data = <<>> THEN p ELSE [p EXCEPT !.data = Tail(@)]

\* A write without readers kills the writer by SIGPIPE.
CanWrite(p) == p.readers # {}
Write(p, d) == [p EXCEPT !.data = Append(@, d)]

CloseRead(p, proc) == [p EXCEPT !.readers = @ \ {proc}]
CloseWrite(p, proc) == [p EXCEPT !.writers = @ \ {proc}]
Close(p, proc) == CloseRead(CloseWrite(p, proc), proc)
=============================================================================
