---------------------------- MODULE ReaderWriter ----------------------------
(***************************************************************************)
(* The writer and the reader of 05_thread/src/reader_writer.c, two threads *)
(* that take turns by two condition variables.  Each says in a flag        *)
(* (r_wait, w_wait) that it is about to wait, and the other one polls the  *)
(* flag, clears it and broadcasts, without the mutex: so the broadcast may *)
(* come before the wait, and is lost then.                                 *)
(*                                                                         *)
(* Each mutex is locked by one thread only, so no lock ever blocks and the *)
(* mutexes are left out.  pthread_cond_wait returns only when woken.       *)
(***************************************************************************)
EXTENDS Integers, Sequences

CONSTANTS
    WriterRounds,  \* 100 in the code
    ReaderRounds   \* 99: the reader's loop runs while i < 100

Thread == {"writer", "reader"}
Other(t) == IF t = "writer" THEN "reader" ELSE "writer"

VARIABLES
    value,  \* s->value
    wait,   \* the flags: wait["reader"] is s->r_wait, wait["writer"] s->w_wait
    pc, i,  \* where each thread is, and its variable i
    seen,   \* history: what the reader has printed
    lost    \* history: has a broadcast come before the wait?

vars == <<value, wait, pc, i, seen, lost>>

Init ==
    /\ value = 0
    /\ wait = [t \in Thread |-> 0]
    /\ pc = [writer |-> "set", reader |-> "flag"]
    /\ i = [t \in Thread |-> 1]
    /\ seen = <<>>
    /\ lost = FALSE

Goto(t, from, to) == pc[t] = from /\ pc' = [pc EXCEPT ![t] = to]

-----------------------------------------------------------------------------
(* What both threads do to hand over to the other one. *)

\* while(!wait) usleep(1000);
spin(t) ==
    /\ wait[Other(t)] = 1
    /\ Goto(t, "spin", "clear")
    /\ UNCHANGED <<value, wait, i, seen, lost>>

clear(t) ==
    /\ Goto(t, "clear", "broadcast")
    /\ wait' = [wait EXCEPT ![Other(t)] = 0]
    /\ UNCHANGED <<value, i, seen, lost>>

\* pthread_cond_broadcast wakes the other thread if it is waiting.
broadcast(t, to) ==
    /\ pc[t] = "broadcast"
    /\ pc' = [pc EXCEPT ![t] = to,
                        ![Other(t)] = IF @ = "asleep" THEN "awake" ELSE @]
    /\ lost' = (lost \/ pc[Other(t)] # "asleep")
    /\ UNCHANGED <<value, wait, i, seen>>

(* What both threads do to wait for the other one. *)

flag(t) ==
    /\ Goto(t, "flag", "wait")
    /\ wait' = [wait EXCEPT ![t] = 1]
    /\ UNCHANGED <<value, i, seen, lost>>

\* pthread_cond_wait: from here on a broadcast wakes the thread.
cond_wait(t) ==
    /\ Goto(t, "wait", "asleep")
    /\ UNCHANGED <<value, wait, i, seen, lost>>

-----------------------------------------------------------------------------
(* write_fn: set, hand over, wait.  read_fn: wait, read, hand over. *)

set_data ==
    /\ Goto("writer", "set", "spin")
    /\ value' = i["writer"]
    /\ UNCHANGED <<wait, i, seen, lost>>

\* Mutant: the writer does not wait for its number to be read.
writerBroadcastGoesOn ==
    /\ pc["writer"] = "broadcast"
    /\ i["writer"] < WriterRounds
    /\ pc' = [pc EXCEPT !["writer"] = "set",
                        !["reader"] = IF @ = "asleep" THEN "awake" ELSE @]
    /\ i' = [i EXCEPT !["writer"] = @ + 1]
    /\ UNCHANGED <<value, wait, seen, lost>>

writerBroadcast == broadcast("writer", "flag")

writerWoken ==
    /\ Goto("writer", "awake", IF i["writer"] < WriterRounds THEN "set" ELSE "end")
    /\ i' = [i EXCEPT !["writer"] = @ + 1]
    /\ UNCHANGED <<value, wait, seen, lost>>

print ==
    /\ Goto("reader", "awake", "spin")
    /\ seen' = Append(seen, value)
    /\ UNCHANGED <<value, wait, i, lost>>

readerBroadcast == broadcast("reader", "next")

\* Mutant: the loop is left one round late.
readerNextLate ==
    /\ Goto("reader", "next", IF i["reader"] <= ReaderRounds THEN "flag" ELSE "end")
    /\ i' = [i EXCEPT !["reader"] = @ + 1]
    /\ UNCHANGED <<value, wait, seen, lost>>

readerNext ==
    /\ Goto("reader", "next", IF i["reader"] < ReaderRounds THEN "flag" ELSE "end")
    /\ i' = [i EXCEPT !["reader"] = @ + 1]
    /\ UNCHANGED <<value, wait, seen, lost>>

-----------------------------------------------------------------------------
Writer ==
    \/ set_data \/ spin("writer") \/ clear("writer") \/ writerBroadcast
    \/ flag("writer") \/ cond_wait("writer") \/ writerWoken

Reader ==
    \/ flag("reader") \/ cond_wait("reader") \/ print \/ spin("reader")
    \/ clear("reader") \/ readerBroadcast \/ readerNext

Next == Writer \/ Reader

Spec == Init /\ [][Next]_vars

\* Both threads run on when they can.
FairSpec == Spec /\ WF_vars(Writer) /\ WF_vars(Reader)

-----------------------------------------------------------------------------
(* Properties. *)

TypeOK ==
    /\ value \in 0..WriterRounds
    /\ wait \in [Thread -> {0, 1}]
    /\ pc \in [Thread -> {"set", "spin", "clear", "broadcast", "flag", "wait",
                          "asleep", "awake", "next", "end"}]
    /\ i \in [Thread -> Nat \ {0}]
    /\ i["writer"] <= WriterRounds + 1 /\ i["reader"] <= ReaderRounds + 1
    /\ seen \in Seq(0..WriterRounds)
    /\ lost \in BOOLEAN

\* What is read is what was written, each number once and in order, even if a
\* broadcast is lost: then both wait, and nothing is read twice or skipped.
ReadsInOrder == \A k \in DOMAIN seen : seen[k] = k

\* The writer writes only when all it wrote before has been read.
TurnsAlternate == [][value' # value => Len(seen) = i["writer"] - 1]_vars

\* Where the threads come to rest.  The reader gets its numbers and ends; the
\* writer has a round more and polls for ever for a reader to give its last
\* number to.  After a broadcast that came before the wait it was meant for, the
\* writer waits for ever, and so does the reader unless it was in its last round.
Rests ==
    IF lost
    THEN /\ pc["writer"] = "asleep"
         /\ pc["reader"] = "asleep" \/ (pc["reader"] = "end" /\ Len(seen) = ReaderRounds)
    ELSE /\ pc["reader"] = "end" /\ Len(seen) = ReaderRounds
         /\ pc["writer"] = "spin" /\ i["writer"] = WriterRounds

-----------------------------------------------------------------------------
(* The inductive invariant behind ReadsInOrder and TurnsAlternate: where one   *)
(* thread is says where the other one may be.                                  *)

\* The reader has told that it waits, and has not been woken.
Waiting == pc["reader"] \in {"wait", "asleep"}

\* The reader is done with a number, or has not begun.
Between == pc["reader"] \in {"next", "flag", "wait", "asleep", "end"}

\* The reader has read the number of its round from print on.
ReaderCounts ==
    Len(seen) = IF pc["reader"] \in {"spin", "clear", "broadcast", "next"}
                THEN i["reader"] ELSE i["reader"] - 1

\* The writer has the turn: it writes and looks for the reader.
WriterTurn ==
    pc["writer"] \in {"set", "spin", "clear", "broadcast", "awake", "end"} =>
        /\ wait["writer"] = 0
        /\ Len(seen) = IF pc["writer"] = "awake" THEN i["writer"] ELSE i["writer"] - 1
        /\ IF pc["writer"] \in {"clear", "broadcast"} THEN Waiting ELSE Between
        /\ Waiting => wait["reader"] = IF pc["writer"] = "broadcast" THEN 0 ELSE 1

\* The writer has broadcast and waits for the reader, or is about to.
ReaderTurn ==
    pc["writer"] \in {"flag", "wait", "asleep"} =>
        /\ \/ /\ pc["reader"] = "awake" \/ (Waiting /\ wait["reader"] = 0)
              /\ Len(seen) = i["writer"] - 1
           \/ /\ pc["reader"] # "awake" /\ (Waiting => wait["reader"] = 1)
              /\ Len(seen) = i["writer"]
        /\ pc["writer"] = "flag" =>
             /\ wait["writer"] = 0
             /\ pc["reader"] = "spin" \/ Len(seen) = i["writer"] - 1
        /\ pc["reader"] = "broadcast" => wait["writer"] = 0

IInv ==
    /\ TypeOK /\ ReadsInOrder
    /\ pc["writer"] # "next" /\ pc["reader"] # "set"
    /\ pc["writer"] # "end" => i["writer"] <= WriterRounds
    /\ pc["reader"] # "end" => i["reader"] <= ReaderRounds
    /\ pc["writer"] \notin {"set", "end"} => value = i["writer"]
    /\ wait["reader"] = 1 => Waiting
    /\ ReaderCounts /\ WriterTurn /\ ReaderTurn

-----------------------------------------------------------------------------
(* What the comments say and the code does not do. *)

\* "Wake the reader": whoever broadcasts has seen the flag of the other thread,
\* so the broadcast finds it waiting.
BroadcastWakes == ~lost

\* The writer waits until the reader has read its number and wakes it, then
\* goes on: so it gets through all its rounds.
WriterEnds == <>(lost \/ pc["writer"] = "end")
=============================================================================
