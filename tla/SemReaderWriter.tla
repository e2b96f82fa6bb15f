--------------------------- MODULE SemReaderWriter --------------------------
(***************************************************************************)
(* The writer and the reader of 06_ipc/src/sem_reader_writer.c: a parent   *)
(* writes the numbers 1, 2, ... to shared memory, its child reads them,    *)
(* and two semaphores, both 0 at first, make them take turns: s1 says that *)
(* there is a number to read, s2 that it has been read.                    *)
(*                                                                         *)
(* Both end after Rounds rounds.  All operations carry SEM_UNDO, so the    *)
(* end of a process changes the semaphores once more.                      *)
(***************************************************************************)
EXTENDS SysVSem, Sequences

CONSTANTS
    Rounds        \* 100 in the code

Proc == {"writer", "reader"}

VARIABLES
    val,      \* s->val
    s1, s2,   \* the semaphores 0 and 1 of s->semid
    pc, i,    \* where each process is, and its variable i
    seen      \* history: what the reader has printed

vars == <<val, s1, s2, pc, i, seen>>

Init ==
    /\ val = 0
    /\ s1 = Reset(Proc, 0) /\ s2 = Reset(Proc, 0)
    /\ pc = [writer |-> "write", reader |-> "P"]
    /\ i = [p \in Proc |-> 1]
    /\ seen = <<>>

Goto(p, from, to) == pc[p] = from /\ pc' = [pc EXCEPT ![p] = to]

-----------------------------------------------------------------------------
(* rwer_write(s, i), i = 1, ..., 100. *)

write ==
    /\ Goto("writer", "write", "V")
    /\ val' = i["writer"]
    /\ UNCHANGED <<s1, s2, i, seen>>

writerV ==
    /\ Goto("writer", "V", "P")
    /\ s1' = V(s1, "writer")
    /\ UNCHANGED <<val, s2, i, seen>>

writerP ==
    /\ CanP(s2)
    /\ Goto("writer", "P", "usleep")
    /\ s2' = P(s2, "writer")
    /\ UNCHANGED <<val, s1, i, seen>>

\* usleep(200000) and the next number, or wait(0).
writerNext ==
    /\ Goto("writer", "usleep", IF i["writer"] < Rounds THEN "write" ELSE "join")
    /\ i' = [i EXCEPT !["writer"] = @ + 1]
    /\ UNCHANGED <<val, s1, s2, seen>>

\* wait(0), rwer_destroy and the end.
writerEnd ==
    /\ pc["reader"] = "exited"
    /\ Goto("writer", "join", "exited")
    /\ UNCHANGED <<val, s1, s2, i, seen>>

-----------------------------------------------------------------------------
(* rwer_read(s), 100 times. *)

readerP ==
    /\ CanP(s1)
    /\ Goto("reader", "P", "print")
    /\ s1' = P(s1, "reader")
    /\ UNCHANGED <<val, s2, i, seen>>

print ==
    /\ Goto("reader", "print", "V")
    /\ seen' = Append(seen, val)
    /\ UNCHANGED <<val, s1, s2, i>>

readerV ==
    /\ Goto("reader", "V", "usleep")
    /\ s2' = V(s2, "reader")
    /\ UNCHANGED <<val, s1, i, seen>>

readerNext ==
    /\ Goto("reader", "usleep", IF i["reader"] < Rounds THEN "P" ELSE "end")
    /\ i' = [i EXCEPT !["reader"] = @ + 1]
    /\ UNCHANGED <<val, s1, s2, seen>>

\* The kernel undoes what the reader did to both semaphores.
readerEnd ==
    /\ Goto("reader", "end", "exited")
    /\ s1' = Undo(s1, "reader")
    /\ s2' = Undo(s2, "reader")
    /\ UNCHANGED <<val, i, seen>>

-----------------------------------------------------------------------------
Writer == write \/ writerV \/ writerP \/ writerNext \/ writerEnd
Reader == readerP \/ print \/ readerV \/ readerNext \/ readerEnd

Done == (\A p \in Proc : pc[p] = "exited") /\ UNCHANGED vars

Next == Writer \/ Reader \/ Done

Spec == Init /\ [][Next]_vars

\* Each process runs on when it can.
FairSpec == Spec /\ WF_vars(Writer) /\ WF_vars(Reader)

-----------------------------------------------------------------------------
(* Properties. *)

TypeOK ==
    /\ val \in 0..Rounds
    /\ s1 \in Sem(Proc) /\ s2 \in Sem(Proc)
    /\ pc \in [Proc -> {"write", "V", "P", "usleep", "join", "print", "end",
                        "exited"}]
    /\ i \in [Proc -> 1..(Rounds + 1)]
    /\ seen \in Seq(0..Rounds)

\* Every number written is read once and in order: the writer never overwrites
\* one that has not been read, and the reader never reads one twice.
ReadsInOrder == \A k \in DOMAIN seen : seen[k] = k

\* The writer writes only while the reader has read all there was.
TurnsAlternate == [][val' # val => Len(seen) = i["writer"] - 1]_vars

\* The end of the reader has taken its last V back before the writer's P.
TakenBack == pc["reader"] = "exited" /\ pc["writer"] = "P"

\* Where the processes come to rest: every number is read and both have ended,
\* or the reader's last usleep was over before the writer's last P and the
\* writer waits for ever in it.
Rests ==
    Len(seen) = Rounds /\ (TakenBack \/ \A p \in Proc : pc[p] = "exited")

-----------------------------------------------------------------------------
(* The inductive invariant behind ReadsInOrder and TurnsAlternate: the values  *)
(* of the semaphores are what both processes have done to them, so neither is  *)
(* ever more than one step ahead.                                              *)

\* How often the writer and the reader have done V and P.
WriterVs == IF pc["writer"] \in {"P", "usleep"} THEN i["writer"] ELSE i["writer"] - 1
WriterPs == IF pc["writer"] = "usleep" THEN i["writer"] ELSE i["writer"] - 1
ReaderVs == IF pc["reader"] = "usleep" THEN i["reader"] ELSE i["reader"] - 1
ReaderPs ==
    IF pc["reader"] \in {"print", "V", "usleep"} THEN i["reader"] ELSE i["reader"] - 1

\* The numbers of P and V, before the end of the reader takes its own back.
Counted ==
    pc["reader"] # "exited" =>
        /\ s1.val = WriterVs - ReaderPs
        /\ s2.val = ReaderVs - WriterPs
        /\ s1.adj["reader"] = ReaderPs
        /\ s2.adj["reader"] = - ReaderVs

\* Afterwards all has been written and read.
AllDone ==
    pc["reader"] = "exited" =>
        /\ i["reader"] = Rounds + 1 /\ WriterVs = Rounds
        /\ s2.val = 0

Places ==
    /\ pc["writer"] \in {"write", "V", "P", "usleep", "join", "exited"}
    /\ pc["reader"] \in {"P", "print", "V", "usleep", "end", "exited"}
    /\ i["writer"] = Rounds + 1 <=> pc["writer"] \in {"join", "exited"}
    /\ i["reader"] = Rounds + 1 <=> pc["reader"] \in {"end", "exited"}

IInv ==
    /\ TypeOK /\ ReadsInOrder /\ Places
    /\ val = IF pc["writer"] \in {"V", "P", "usleep"} THEN i["writer"] ELSE i["writer"] - 1
    /\ Len(seen) = IF pc["reader"] \in {"V", "usleep"} THEN i["reader"] ELSE i["reader"] - 1
    /\ Counted /\ AllDone

-----------------------------------------------------------------------------
(* What the comments say and the code does not do. *)

\* The parent waits for the end of its child, and ends.
WriterEnds == <>(pc["writer"] = "exited")
=============================================================================
