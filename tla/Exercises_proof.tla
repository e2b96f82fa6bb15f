-------------------------- MODULE Exercises_proof ---------------------------
(***************************************************************************)
(* Theorems about two parts of the exercise programs.  Of Handovers, the   *)
(* programs in which threads and processes hand values to each other:      *)
(* nobody reads what is not there yet.  Of MStdio, for every length of the *)
(* buffer and every content of the file: _nextc and _left fit together,    *)
(* and the buffer is not to be seen, that is, the stream implements        *)
(* ByteStream.                                                             *)
(***************************************************************************)
EXTENDS Handovers, MStdio, FiniteSetTheorems, SequenceTheorems, TLAPS

-----------------------------------------------------------------------------
(* reader_writer: two threads that take turns by flags and broadcasts.       *)

CondPc == {"set", "spin", "clear", "broadcast", "flag", "wait", "asleep", "awake", "next", "end"}

\* The types of the two threads, one by one.
CondTypes ==
    /\ value \in 0..100
    /\ wait \in [{"writer", "reader"} -> {0, 1}]
    /\ pc \in [{"writer", "reader"} -> CondPc]
    /\ i \in [{"writer", "reader"} -> Nat \ {0}]
    /\ i["writer"] <= 101 /\ i["reader"] <= 100
    /\ seen \in Seq(0..100) /\ Len(seen) \in Nat /\ lost \in BOOLEAN

\* The invariant without the types and what has been read.
CondCore ==
    /\ pc["writer"] # "next" /\ pc["reader"] # "set"
    /\ pc["writer"] # "end" => i["writer"] <= 100
    /\ pc["reader"] # "end" => i["reader"] <= 99
    /\ pc["writer"] \notin {"set", "end"} => value = i["writer"]
    /\ wait["reader"] = 1 => Cond!Waiting
    /\ Cond!ReaderCounts /\ Cond!WriterTurn /\ Cond!ReaderTurn

LEMMA CondHas ==
    ASSUME Cond!IInv
    PROVE  CondTypes /\ Cond!ReadsInOrder /\ CondCore
<1>1. Cond!TypeOK /\ Cond!ReadsInOrder /\ CondCore
  BY DEF Cond!IInv, CondCore
<1>2. Len(seen) \in Nat
  BY <1>1, LenProperties DEF Cond!TypeOK
<1> QED BY <1>1, <1>2 DEF Cond!TypeOK, CondTypes, Cond!Thread, CondPc

LEMMA CondHasNext ==
    ASSUME CondTypes', Cond!ReadsInOrder', CondCore'
    PROVE  Cond!IInv'
<1>1. Cond!TypeOK'
  BY DEF CondTypes, Cond!TypeOK, Cond!Thread, CondPc
<1> QED BY <1>1 DEF Cond!IInv, CondCore

LEMMA CondInit ==
    ASSUME Cond!Init
    PROVE  Cond!IInv
<1>1. /\ value = 0 /\ seen = <<>> /\ lost = FALSE
      /\ wait = [t \in {"writer", "reader"} |-> 0]
      /\ pc = [writer |-> "set", reader |-> "flag"]
      /\ i = [t \in {"writer", "reader"} |-> 1]
  BY DEF Cond!Init, Cond!Thread
<1>2. /\ pc["writer"] = "set" /\ pc["reader"] = "flag" /\ Len(seen) = 0
      /\ wait["writer"] = 0 /\ wait["reader"] = 0 /\ i["writer"] = 1 /\ i["reader"] = 1
      /\ seen \in Seq(0..100)
  BY <1>1
<1>3. /\ pc \in [{"writer", "reader"} -> CondPc]
      /\ wait \in [{"writer", "reader"} -> {0, 1}]
      /\ i \in [{"writer", "reader"} -> Nat \ {0}]
  BY <1>1 DEF CondPc
<1>4. Cond!TypeOK
  <2>1. value \in 0..100 /\ i["writer"] <= 100 + 1 /\ i["reader"] <= 99 + 1
    BY <1>1, <1>2
  <2>2. lost \in BOOLEAN
    BY <1>1
  <2> QED BY <1>2, <1>3, <2>1, <2>2 DEF Cond!TypeOK, Cond!Thread, CondPc
<1>5. Cond!ReadsInOrder
  BY <1>1 DEF Cond!ReadsInOrder
<1>6. CondCore
  BY <1>1, <1>2 DEF CondCore, Cond!Waiting, Cond!Between, Cond!ReaderCounts, Cond!WriterTurn,
                    Cond!ReaderTurn
<1> QED BY <1>4, <1>5, <1>6 DEF Cond!IInv, CondCore

LEMMA CondWriterKeeps ==
    ASSUME Cond!IInv, Cond!Writer
    PROVE  Cond!IInv'
<1> USE DEF CondPc
<1>1. CondTypes /\ Cond!ReadsInOrder /\ CondCore
  BY CondHas
<1>2. /\ pc["writer"] # "end" => i["writer"] <= 100
      /\ pc["reader"] # "end" => i["reader"] <= 99
      /\ pc["writer"] \notin {"set", "end"} => value = i["writer"]
  BY <1>1 DEF CondCore
<1>3. ASSUME seen' = seen, CondTypes', CondCore'
      PROVE  Cond!IInv'
  <2>1. Cond!ReadsInOrder'
    BY <1>1, <1>3 DEF Cond!ReadsInOrder
  <2> QED BY <1>3, <2>1, CondHasNext
<1>4. ASSUME Cond!set_data
      PROVE  Cond!IInv'
  <2>1. /\ pc["writer"] = "set" /\ pc' = [pc EXCEPT !["writer"] = "spin"]
        /\ value' = i["writer"] /\ UNCHANGED <<wait, i, seen, lost>>
    BY <1>4 DEF Cond!set_data, Cond!Goto
  <2>2. /\ pc'["writer"] = "spin" /\ pc'["reader"] = pc["reader"]
    BY <1>1, <2>1 DEF CondTypes
  <2>3. i["writer"] \in Nat \ {0} /\ i["writer"] <= 100
    BY <1>1, <1>2, <2>1 DEF CondTypes
  <2>4. CondTypes'
    <3>1. value' \in 0..100
      BY <2>1, <2>3
    <3> QED BY <1>1, <2>1, <2>2, <3>1 DEF CondTypes
  <2>5. CondCore'
    BY <1>1, <2>1, <2>2 DEF CondTypes, CondCore, Cond!Waiting, Cond!Between,
       Cond!ReaderCounts, Cond!WriterTurn, Cond!ReaderTurn
  <2> QED BY <1>3, <2>1, <2>4, <2>5
<1>5. ASSUME Cond!spin("writer")
      PROVE  Cond!IInv'
  <2>1. /\ pc["writer"] = "spin" /\ pc' = [pc EXCEPT !["writer"] = "clear"]
        /\ wait["reader"] = 1 /\ UNCHANGED <<value, wait, i, seen, lost>>
    BY <1>5 DEF Cond!spin, Cond!Goto, Cond!Other
  <2>2. /\ pc'["writer"] = "clear" /\ pc'["reader"] = pc["reader"]
    BY <1>1, <2>1 DEF CondTypes
  <2>4. CondTypes'
    BY <1>1, <2>1, <2>2 DEF CondTypes
  <2>5. CondCore'
    BY <1>1, <2>1, <2>2 DEF CondTypes, CondCore, Cond!Waiting, Cond!Between,
       Cond!ReaderCounts, Cond!WriterTurn, Cond!ReaderTurn
  <2> QED BY <1>3, <2>1, <2>4, <2>5
<1>6. ASSUME Cond!clear("writer")
      PROVE  Cond!IInv'
  <2>1. /\ pc["writer"] = "clear" /\ pc' = [pc EXCEPT !["writer"] = "broadcast"]
        /\ wait' = [wait EXCEPT !["reader"] = 0] /\ UNCHANGED <<value, i, seen, lost>>
    BY <1>6 DEF Cond!clear, Cond!Goto, Cond!Other
  <2>2. /\ pc'["writer"] = "broadcast" /\ pc'["reader"] = pc["reader"]
        /\ wait'["reader"] = 0 /\ wait'["writer"] = wait["writer"]
    BY <1>1, <2>1 DEF CondTypes
  <2>4. CondTypes'
    BY <1>1, <2>1, <2>2 DEF CondTypes
  <2>5. CondCore'
    BY <1>1, <2>1, <2>2 DEF CondTypes, CondCore, Cond!Waiting, Cond!Between,
       Cond!ReaderCounts, Cond!WriterTurn, Cond!ReaderTurn
  <2> QED BY <1>3, <2>1, <2>4, <2>5
<1>7. ASSUME Cond!writerBroadcast
      PROVE  Cond!IInv'
  <2>1. /\ pc["writer"] = "broadcast"
        /\ pc' = [pc EXCEPT !["writer"] = "flag",
                            !["reader"] = IF @ = "asleep" THEN "awake" ELSE @]
        /\ lost' = (lost \/ pc["reader"] # "asleep") /\ UNCHANGED <<value, wait, i, seen>>
    BY <1>7 DEF Cond!writerBroadcast, Cond!broadcast, Cond!Other
  <2>2. /\ pc'["writer"] = "flag"
        /\ pc'["reader"] = IF pc["reader"] = "asleep" THEN "awake" ELSE pc["reader"]
    BY <1>1, <2>1 DEF CondTypes
  <2>4. CondTypes'
    BY <1>1, <2>1, <2>2 DEF CondTypes
  <2>5. CondCore'
    BY <1>1, <2>1, <2>2 DEF CondTypes, CondCore, Cond!Waiting, Cond!Between,
       Cond!ReaderCounts, Cond!WriterTurn, Cond!ReaderTurn
  <2> QED BY <1>3, <2>1, <2>4, <2>5
<1>8. ASSUME Cond!flag("writer")
      PROVE  Cond!IInv'
  <2>1. /\ pc["writer"] = "flag" /\ pc' = [pc EXCEPT !["writer"] = "wait"]
        /\ wait' = [wait EXCEPT !["writer"] = 1] /\ UNCHANGED <<value, i, seen, lost>>
    BY <1>8 DEF Cond!flag, Cond!Goto
  <2>2. /\ pc'["writer"] = "wait" /\ pc'["reader"] = pc["reader"]
        /\ wait'["writer"] = 1 /\ wait'["reader"] = wait["reader"]
    BY <1>1, <2>1 DEF CondTypes
  <2>4. CondTypes'
    BY <1>1, <2>1, <2>2 DEF CondTypes
  <2>5. CondCore'
    BY <1>1, <2>1, <2>2 DEF CondTypes, CondCore, Cond!Waiting, Cond!Between,
       Cond!ReaderCounts, Cond!WriterTurn, Cond!ReaderTurn
  <2> QED BY <1>3, <2>1, <2>4, <2>5
<1>9. ASSUME Cond!cond_wait("writer")
      PROVE  Cond!IInv'
  <2>1. /\ pc["writer"] = "wait" /\ pc' = [pc EXCEPT !["writer"] = "asleep"]
        /\ UNCHANGED <<value, wait, i, seen, lost>>
    BY <1>9 DEF Cond!cond_wait, Cond!Goto
  <2>2. /\ pc'["writer"] = "asleep" /\ pc'["reader"] = pc["reader"]
    BY <1>1, <2>1 DEF CondTypes
  <2>4. CondTypes'
    BY <1>1, <2>1, <2>2 DEF CondTypes
  <2>5. CondCore'
    BY <1>1, <2>1, <2>2 DEF CondTypes, CondCore, Cond!Waiting, Cond!Between,
       Cond!ReaderCounts, Cond!WriterTurn, Cond!ReaderTurn
  <2> QED BY <1>3, <2>1, <2>4, <2>5
<1>10. ASSUME Cond!writerWoken
      PROVE  Cond!IInv'
  <2>1. /\ pc["writer"] = "awake"
        /\ pc' = [pc EXCEPT !["writer"] = IF i["writer"] < 100 THEN "set" ELSE "end"]
        /\ i' = [i EXCEPT !["writer"] = @ + 1] /\ UNCHANGED <<value, wait, seen, lost>>
    BY <1>10 DEF Cond!writerWoken, Cond!Goto
  <2>2. /\ pc'["writer"] = (IF i["writer"] < 100 THEN "set" ELSE "end")
        /\ pc'["reader"] = pc["reader"]
        /\ i'["writer"] = i["writer"] + 1 /\ i'["reader"] = i["reader"]
    BY <1>1, <2>1 DEF CondTypes
  <2>3. i["writer"] \in Nat \ {0} /\ i["writer"] <= 100
    BY <1>1, <1>2, <2>1 DEF CondTypes
  <2>4. CondTypes'
    BY <1>1, <2>1, <2>2, <2>3 DEF CondTypes
  <2>5. CondCore'
    BY <1>1, <2>1, <2>2 DEF CondTypes, CondCore, Cond!Waiting, Cond!Between,
       Cond!ReaderCounts, Cond!WriterTurn, Cond!ReaderTurn
  <2> QED BY <1>3, <2>1, <2>4, <2>5
<1> QED BY <1>4, <1>5, <1>6, <1>7, <1>8, <1>9, <1>10 DEF Cond!Writer

LEMMA CondReaderKeeps ==
    ASSUME Cond!IInv, Cond!Reader
    PROVE  Cond!IInv'
<1> USE DEF CondPc
<1>1. CondTypes /\ Cond!ReadsInOrder /\ CondCore
  BY CondHas
<1>2. /\ pc["writer"] # "end" => i["writer"] <= 100
      /\ pc["reader"] # "end" => i["reader"] <= 99
      /\ pc["writer"] \notin {"set", "end"} => value = i["writer"]
  BY <1>1 DEF CondCore
<1>3. ASSUME seen' = seen, CondTypes', CondCore'
      PROVE  Cond!IInv'
  <2>1. Cond!ReadsInOrder'
    BY <1>1, <1>3 DEF Cond!ReadsInOrder
  <2> QED BY <1>3, <2>1, CondHasNext
<1>4. ASSUME Cond!flag("reader")
      PROVE  Cond!IInv'
  <2>1. /\ pc["reader"] = "flag" /\ pc' = [pc EXCEPT !["reader"] = "wait"]
        /\ wait' = [wait EXCEPT !["reader"] = 1] /\ UNCHANGED <<value, i, seen, lost>>
    BY <1>4 DEF Cond!flag, Cond!Goto
  <2>2. /\ pc'["reader"] = "wait" /\ pc'["writer"] = pc["writer"]
        /\ wait'["reader"] = 1 /\ wait'["writer"] = wait["writer"]
    BY <1>1, <2>1 DEF CondTypes
  <2>4. CondTypes'
    BY <1>1, <2>1, <2>2 DEF CondTypes
  <2>5. CondCore'
    BY <1>1, <2>1, <2>2 DEF CondTypes, CondCore, Cond!Waiting, Cond!Between,
       Cond!ReaderCounts, Cond!WriterTurn, Cond!ReaderTurn
  <2> QED BY <1>3, <2>1, <2>4, <2>5
<1>5. ASSUME Cond!cond_wait("reader")
      PROVE  Cond!IInv'
  <2>1. /\ pc["reader"] = "wait" /\ pc' = [pc EXCEPT !["reader"] = "asleep"]
        /\ UNCHANGED <<value, wait, i, seen, lost>>
    BY <1>5 DEF Cond!cond_wait, Cond!Goto
  <2>2. /\ pc'["reader"] = "asleep" /\ pc'["writer"] = pc["writer"]
    BY <1>1, <2>1 DEF CondTypes
  <2>4. CondTypes'
    BY <1>1, <2>1, <2>2 DEF CondTypes
  <2>5. CondCore'
    BY <1>1, <2>1, <2>2 DEF CondTypes, CondCore, Cond!Waiting, Cond!Between,
       Cond!ReaderCounts, Cond!WriterTurn, Cond!ReaderTurn
  <2> QED BY <1>3, <2>1, <2>4, <2>5
<1>6. ASSUME Cond!print
      PROVE  Cond!IInv'
  <2>1. /\ pc["reader"] = "awake" /\ pc' = [pc EXCEPT !["reader"] = "spin"]
        /\ seen' = Append(seen, value) /\ UNCHANGED <<value, wait, i, lost>>
    BY <1>6 DEF Cond!print, Cond!Goto
  <2>2. /\ pc'["reader"] = "spin" /\ pc'["writer"] = pc["writer"]
        /\ Len(seen') = Len(seen) + 1 /\ seen' \in Seq(0..100)
    BY <1>1, <2>1 DEF CondTypes
  <2>4. CondTypes'
    BY <1>1, <2>1, <2>2 DEF CondTypes
  <2>5. CondCore'
    BY <1>1, <2>1, <2>2 DEF CondTypes, CondCore, Cond!Waiting, Cond!Between,
       Cond!ReaderCounts, Cond!WriterTurn, Cond!ReaderTurn
  <2>6. value = Len(seen) + 1
    BY <1>1, <2>1 DEF CondTypes, CondCore, Cond!Waiting, Cond!Between, Cond!ReaderCounts,
       Cond!WriterTurn, Cond!ReaderTurn
  <2>7. Cond!ReadsInOrder'
    BY <1>1, <2>1, <2>6 DEF CondTypes, Cond!ReadsInOrder
  <2> QED BY <2>4, <2>5, <2>7, CondHasNext
<1>7. ASSUME Cond!spin("reader")
      PROVE  Cond!IInv'
  <2>1. /\ pc["reader"] = "spin" /\ pc' = [pc EXCEPT !["reader"] = "clear"]
        /\ wait["writer"] = 1 /\ UNCHANGED <<value, wait, i, seen, lost>>
    BY <1>7 DEF Cond!spin, Cond!Goto, Cond!Other
  <2>2. /\ pc'["reader"] = "clear" /\ pc'["writer"] = pc["writer"]
    BY <1>1, <2>1 DEF CondTypes
  <2>4. CondTypes'
    BY <1>1, <2>1, <2>2 DEF CondTypes
  <2>5. CondCore'
    BY <1>1, <2>1, <2>2 DEF CondTypes, CondCore, Cond!Waiting, Cond!Between,
       Cond!ReaderCounts, Cond!WriterTurn, Cond!ReaderTurn
  <2> QED BY <1>3, <2>1, <2>4, <2>5
<1>8. ASSUME Cond!clear("reader")
      PROVE  Cond!IInv'
  <2>1. /\ pc["reader"] = "clear" /\ pc' = [pc EXCEPT !["reader"] = "broadcast"]
        /\ wait' = [wait EXCEPT !["writer"] = 0] /\ UNCHANGED <<value, i, seen, lost>>
    BY <1>8 DEF Cond!clear, Cond!Goto, Cond!Other
  <2>2. /\ pc'["reader"] = "broadcast" /\ pc'["writer"] = pc["writer"]
        /\ wait'["writer"] = 0 /\ wait'["reader"] = wait["reader"]
    BY <1>1, <2>1 DEF CondTypes
  <2>4. CondTypes'
    BY <1>1, <2>1, <2>2 DEF CondTypes
  <2>5. CondCore'
    BY <1>1, <2>1, <2>2 DEF CondTypes, CondCore, Cond!Waiting, Cond!Between,
       Cond!ReaderCounts, Cond!WriterTurn, Cond!ReaderTurn
  <2> QED BY <1>3, <2>1, <2>4, <2>5
<1>9. ASSUME Cond!readerBroadcast
      PROVE  Cond!IInv'
  <2>1. /\ pc["reader"] = "broadcast"
        /\ pc' = [pc EXCEPT !["reader"] = "next",
                            !["writer"] = IF @ = "asleep" THEN "awake" ELSE @]
        /\ lost' = (lost \/ pc["writer"] # "asleep") /\ UNCHANGED <<value, wait, i, seen>>
    BY <1>9 DEF Cond!readerBroadcast, Cond!broadcast, Cond!Other
  <2>2. /\ pc'["reader"] = "next"
        /\ pc'["writer"] = IF pc["writer"] = "asleep" THEN "awake" ELSE pc["writer"]
    BY <1>1, <2>1 DEF CondTypes
  <2>4. CondTypes'
    BY <1>1, <2>1, <2>2 DEF CondTypes
  <2>5. CondCore'
    BY <1>1, <2>1, <2>2 DEF CondTypes, CondCore, Cond!Waiting, Cond!Between,
       Cond!ReaderCounts, Cond!WriterTurn, Cond!ReaderTurn
  <2> QED BY <1>3, <2>1, <2>4, <2>5
<1>10. ASSUME Cond!readerNext
      PROVE  Cond!IInv'
  <2>1. /\ pc["reader"] = "next"
        /\ pc' = [pc EXCEPT !["reader"] = IF i["reader"] < 99 THEN "flag" ELSE "end"]
        /\ i' = [i EXCEPT !["reader"] = @ + 1] /\ UNCHANGED <<value, wait, seen, lost>>
    BY <1>10 DEF Cond!readerNext, Cond!Goto
  <2>2. /\ pc'["reader"] = (IF i["reader"] < 99 THEN "flag" ELSE "end")
        /\ pc'["writer"] = pc["writer"]
        /\ i'["reader"] = i["reader"] + 1 /\ i'["writer"] = i["writer"]
    BY <1>1, <2>1 DEF CondTypes
  <2>3. i["reader"] \in Nat \ {0} /\ i["reader"] <= 99
    BY <1>1, <1>2, <2>1 DEF CondTypes
  <2>4. CondTypes'
    BY <1>1, <2>1, <2>2, <2>3 DEF CondTypes
  <2>5. CondCore'
    BY <1>1, <2>1, <2>2 DEF CondTypes, CondCore, Cond!Waiting, Cond!Between,
       Cond!ReaderCounts, Cond!WriterTurn, Cond!ReaderTurn
  <2> QED BY <1>3, <2>1, <2>4, <2>5
<1> QED BY <1>4, <1>5, <1>6, <1>7, <1>8, <1>9, <1>10 DEF Cond!Reader

-----------------------------------------------------------------------------
(* sem_reader_writer: two processes that take turns by two semaphores.       *)

SemPc == {"write", "V", "P", "usleep", "join", "print", "end", "exited"}

\* A semaphore of the two processes.
SemSet == [val : Nat, adj : [{"writer", "reader"} -> Int]]

\* What P, V and the end of a process do to the value, and to what is undone
\* for the reader.
LEMMA SemChanges ==
    ASSUME NEW s \in SemSet, NEW p \in {"writer", "reader"}
    PROVE  /\ s.val \in Nat /\ s.adj["reader"] \in Int
           /\ s.val >= 1 =>
                /\ Sem!P(s, p) \in SemSet /\ Sem!P(s, p).val = s.val - 1
                /\ Sem!P(s, p).adj["reader"] =
                     IF p = "reader" THEN s.adj["reader"] + 1 ELSE s.adj["reader"]
           /\ Sem!V(s, p) \in SemSet /\ Sem!V(s, p).val = s.val + 1
           /\ Sem!V(s, p).adj["reader"] =
                IF p = "reader" THEN s.adj["reader"] - 1 ELSE s.adj["reader"]
           /\ Sem!Undo(s, p) \in SemSet
           /\ Sem!Undo(s, p).val = IF s.val + s.adj[p] < 0 THEN 0 ELSE s.val + s.adj[p]
<1>1. s.val \in Nat /\ s.adj \in [{"writer", "reader"} -> Int]
  BY DEF SemSet
<1>2. s.adj[p] \in Int /\ s.adj["reader"] \in Int
  BY <1>1
<1>3. ASSUME s.val >= 1
      PROVE  /\ Sem!P(s, p) \in SemSet /\ Sem!P(s, p).val = s.val - 1
             /\ Sem!P(s, p).adj["reader"] =
                  IF p = "reader" THEN s.adj["reader"] + 1 ELSE s.adj["reader"]
  BY <1>1, <1>2, <1>3 DEF Sem!P, SemSet
<1>4. /\ Sem!V(s, p) \in SemSet /\ Sem!V(s, p).val = s.val + 1
      /\ Sem!V(s, p).adj["reader"] =
           IF p = "reader" THEN s.adj["reader"] - 1 ELSE s.adj["reader"]
  BY <1>1, <1>2 DEF Sem!V, SemSet
<1>5. /\ Sem!Undo(s, p) \in SemSet
      /\ Sem!Undo(s, p).val = IF s.val + s.adj[p] < 0 THEN 0 ELSE s.val + s.adj[p]
  BY <1>1, <1>2 DEF Sem!Undo, SemSet
<1> QED BY <1>1, <1>2, <1>3, <1>4, <1>5

SemTypes ==
    /\ val \in 0..100
    /\ s1 \in SemSet /\ s2 \in SemSet
    /\ pc \in [{"writer", "reader"} -> SemPc]
    /\ i \in [{"writer", "reader"} -> 1..101]
    /\ seen \in Seq(0..100) /\ Len(seen) \in Nat

SemVal ==
    val = IF pc["writer"] \in {"V", "P", "usleep"} THEN i["writer"] ELSE i["writer"] - 1

SemLen ==
    Len(seen) = IF pc["reader"] \in {"V", "usleep"} THEN i["reader"] ELSE i["reader"] - 1

\* The invariant without the types and what has been read.
SemCore ==
    Sem!Places /\ SemVal /\ SemLen /\ Sem!Counted /\ Sem!AllDone

LEMMA SemHas ==
    ASSUME Sem!IInv
    PROVE  SemTypes /\ Sem!ReadsInOrder /\ SemCore
<1>1. Sem!TypeOK /\ Sem!ReadsInOrder /\ SemCore
  BY DEF Sem!IInv, SemCore, SemVal, SemLen
<1>2. seen \in Seq(0..100)
  BY <1>1 DEF Sem!TypeOK
<1>3. Len(seen) \in Nat
  BY <1>2, LenProperties
<1> QED BY <1>1, <1>2, <1>3 DEF Sem!TypeOK, SemTypes, Sem!Proc, SemPc, Sem!Sem, SemSet

LEMMA SemHasNext ==
    ASSUME SemTypes', Sem!ReadsInOrder', SemCore'
    PROVE  Sem!IInv'
<1>1. Sem!TypeOK'
  BY DEF SemTypes, Sem!TypeOK, Sem!Proc, SemPc, Sem!Sem, SemSet
<1> QED BY <1>1 DEF Sem!IInv, SemCore, SemVal, SemLen

\* The numbers of P and V are numbers, and what they are.
SemNumbers ==
    /\ Sem!WriterVs \in Int /\ Sem!WriterPs \in Int
    /\ Sem!ReaderVs \in Int /\ Sem!ReaderPs \in Int
    /\ s1.val \in Nat /\ s1.adj["reader"] \in Int
    /\ s2.val \in Nat /\ s2.adj["reader"] \in Int
    /\ i["writer"] \in 1..101 /\ i["reader"] \in 1..101
    /\ val \in 0..100

SemWhere ==
    /\ Sem!WriterVs = i["writer"] \/ Sem!WriterVs = i["writer"] - 1
    /\ Sem!WriterPs = i["writer"] \/ Sem!WriterPs = i["writer"] - 1
    /\ Sem!ReaderVs = i["reader"] \/ Sem!ReaderVs = i["reader"] - 1
    /\ Sem!ReaderPs = i["reader"] \/ Sem!ReaderPs = i["reader"] - 1
    /\ Sem!WriterVs = i["writer"] <=> pc["writer"] \in {"P", "usleep"}
    /\ Sem!WriterPs = i["writer"] <=> pc["writer"] = "usleep"
    /\ Sem!ReaderVs = i["reader"] <=> pc["reader"] = "usleep"
    /\ Sem!ReaderPs = i["reader"] <=> pc["reader"] \in {"print", "V", "usleep"}

LEMMA SemCounts ==
    ASSUME SemTypes
    PROVE  SemNumbers /\ SemWhere
<1>1. /\ i["writer"] \in 1..101 /\ i["reader"] \in 1..101
      /\ val \in 0..100
  BY DEF SemTypes
<1>2. /\ s1.val \in Nat /\ s1.adj["reader"] \in Int
      /\ s2.val \in Nat /\ s2.adj["reader"] \in Int
  BY SemChanges DEF SemTypes
<1>3. i["writer"] - 1 \in Int /\ i["reader"] - 1 \in Int
  BY <1>1
<1>4. /\ Sem!WriterVs = i["writer"] \/ Sem!WriterVs = i["writer"] - 1
      /\ Sem!WriterVs = i["writer"] <=> pc["writer"] \in {"P", "usleep"}
  BY <1>1, <1>3 DEF Sem!WriterVs
<1>5. /\ Sem!WriterPs = i["writer"] \/ Sem!WriterPs = i["writer"] - 1
      /\ Sem!WriterPs = i["writer"] <=> pc["writer"] = "usleep"
  BY <1>1, <1>3 DEF Sem!WriterPs
<1>6. /\ Sem!ReaderVs = i["reader"] \/ Sem!ReaderVs = i["reader"] - 1
      /\ Sem!ReaderVs = i["reader"] <=> pc["reader"] = "usleep"
  BY <1>1, <1>3 DEF Sem!ReaderVs
<1>7. /\ Sem!ReaderPs = i["reader"] \/ Sem!ReaderPs = i["reader"] - 1
      /\ Sem!ReaderPs = i["reader"] <=> pc["reader"] \in {"print", "V", "usleep"}
  BY <1>1, <1>3 DEF Sem!ReaderPs
<1>8. SemWhere
  BY <1>4, <1>5, <1>6, <1>7 DEF SemWhere
<1>9. /\ Sem!WriterVs \in Int /\ Sem!WriterPs \in Int
      /\ Sem!ReaderVs \in Int /\ Sem!ReaderPs \in Int
  BY <1>1, <1>3, <1>4, <1>5, <1>6, <1>7
<1> QED BY <1>1, <1>2, <1>8, <1>9 DEF SemNumbers

LEMMA SemInit ==
    ASSUME Sem!Init
    PROVE  Sem!IInv
<1> DEFINE zero == [p \in {"writer", "reader"} |-> 0]
<1>1. /\ val = 0 /\ seen = <<>>
      /\ s1 = [val |-> 0, adj |-> zero] /\ s2 = [val |-> 0, adj |-> zero]
      /\ pc = [writer |-> "write", reader |-> "P"]
      /\ i = [p \in {"writer", "reader"} |-> 1]
  BY DEF Sem!Init, Sem!Proc, Sem!Reset
<1>2. /\ pc["writer"] = "write" /\ pc["reader"] = "P" /\ Len(seen) = 0
      /\ i["writer"] = 1 /\ i["reader"] = 1 /\ seen \in Seq(0..100)
  BY <1>1
<1>3. zero \in [{"writer", "reader"} -> Int] /\ zero["reader"] = 0
  OBVIOUS
<1> HIDE DEF zero
<1>4. /\ s1.val = 0 /\ s1.adj["reader"] = 0 /\ s1 \in SemSet
      /\ s2.val = 0 /\ s2.adj["reader"] = 0 /\ s2 \in SemSet
  BY <1>1, <1>3 DEF SemSet
<1>5. /\ pc \in [{"writer", "reader"} -> SemPc]
      /\ i \in [{"writer", "reader"} -> 1..101]
  BY <1>1 DEF SemPc
<1>6. Sem!TypeOK
  <2>1. val \in 0..100
    BY <1>1
  <2> QED BY <1>2, <1>4, <1>5, <2>1 DEF Sem!TypeOK, Sem!Proc, Sem!Sem, SemSet, SemPc
<1>7. Sem!ReadsInOrder
  BY <1>1 DEF Sem!ReadsInOrder
<1>8. SemCore
  BY <1>1, <1>2, <1>4 DEF SemCore, SemVal, SemLen, Sem!Places, Sem!Counted, Sem!AllDone, Sem!WriterVs,
     Sem!WriterPs, Sem!ReaderVs, Sem!ReaderPs
<1> QED BY <1>6, <1>7, <1>8 DEF Sem!IInv, SemCore, SemVal, SemLen

LEMMA SemWriterKeeps ==
    ASSUME Sem!IInv, Sem!Writer
    PROVE  Sem!IInv'
<1> USE DEF SemPc
<1>1. SemTypes /\ Sem!ReadsInOrder /\ SemCore
  BY SemHas
<1>2. ASSUME seen' = seen, SemTypes', SemCore'
      PROVE  Sem!IInv'
  <2>1. Sem!ReadsInOrder'
    BY <1>1, <1>2 DEF Sem!ReadsInOrder
  <2> QED BY <1>2, <2>1, SemHasNext
<1>4. Sem!Places /\ SemVal /\ SemLen /\ Sem!Counted /\ Sem!AllDone
  BY <1>1 DEF SemCore
<1>5. ASSUME Sem!write
      PROVE  Sem!IInv'
  <2>1. /\ pc["writer"] = "write" /\ pc' = [pc EXCEPT !["writer"] = "V"]
        /\ val' = i["writer"] /\ UNCHANGED <<s1, s2, i, seen>>
    BY <1>5 DEF Sem!write, Sem!Goto
  <2>2. /\ pc'["writer"] = "V" /\ pc'["reader"] = pc["reader"]
    BY <1>1, <2>1 DEF SemTypes
  <2>3. i["writer"] \in 1..101
    BY <1>1 DEF SemTypes
  <2>4. SemTypes'
    <3>1. val' \in 0..100
      BY <1>1, <2>1, <2>3 DEF SemCore, Sem!Places
    <3> QED BY <1>1, <2>1, <2>2, <3>1 DEF SemTypes
  <2>5. SemNumbers /\ SemWhere
    BY <1>1, SemCounts
  <2>6. /\ Sem!WriterVs' = Sem!WriterVs /\ Sem!WriterPs' = Sem!WriterPs
        /\ Sem!ReaderVs' = Sem!ReaderVs /\ Sem!ReaderPs' = Sem!ReaderPs
    BY <2>1, <2>2, <2>5 DEF SemNumbers, Sem!WriterVs, Sem!WriterPs, Sem!ReaderVs, Sem!ReaderPs
  <2>7. SemCore'
    <3>1. Sem!Places'
      BY <1>4, <2>1, <2>2, <2>3, <2>5 DEF SemNumbers, Sem!Places
    <3>2. SemVal'
      BY <1>4, <2>1, <2>2, <2>5 DEF SemNumbers, SemVal
    <3>3. SemLen'
      BY <1>1, <1>4, <2>1, <2>2, <2>3 DEF SemTypes, SemLen
    <3>4. Sem!Counted'
      BY <1>4, <2>1, <2>2, <2>3, <2>5, <2>6 DEF SemNumbers, Sem!Counted
    <3>5. Sem!AllDone'
      BY <1>4, <2>1, <2>2, <2>3, <2>5, <2>6 DEF SemNumbers, SemWhere, Sem!Places,
         Sem!Counted, Sem!AllDone
    <3> QED BY <3>1, <3>2, <3>3, <3>4, <3>5 DEF SemCore
  <2> QED BY <1>2, <2>1, <2>4, <2>7
<1>6. ASSUME Sem!writerV
      PROVE  Sem!IInv'
  <2>1. /\ pc["writer"] = "V" /\ pc' = [pc EXCEPT !["writer"] = "P"]
        /\ s1' = Sem!V(s1, "writer") /\ UNCHANGED <<val, s2, i, seen>>
    BY <1>6 DEF Sem!writerV, Sem!Goto
  <2>2. /\ pc'["writer"] = "P" /\ pc'["reader"] = pc["reader"]
    BY <1>1, <2>1 DEF SemTypes
  <2>3. /\ s1' \in SemSet /\ s1'.val = s1.val + 1 /\ s1'.adj["reader"] = s1.adj["reader"]
    BY <1>1, <2>1, SemChanges DEF SemTypes
  <2>4. SemTypes'
    BY <1>1, <2>1, <2>2, <2>3 DEF SemTypes
  <2>5. SemNumbers /\ SemWhere
    BY <1>1, SemCounts
  <2>6. /\ Sem!WriterVs' = Sem!WriterVs + 1 /\ Sem!WriterPs' = Sem!WriterPs
        /\ Sem!ReaderVs' = Sem!ReaderVs /\ Sem!ReaderPs' = Sem!ReaderPs
    BY <2>1, <2>2, <2>5 DEF SemNumbers, Sem!WriterVs, Sem!WriterPs, Sem!ReaderVs, Sem!ReaderPs
  <2>7. SemCore'
    <3>1. Sem!Places'
      BY <1>4, <2>1, <2>2, <2>3, <2>5 DEF SemNumbers, Sem!Places
    <3>2. SemVal'
      BY <1>4, <2>1, <2>2, <2>5 DEF SemNumbers, SemVal
    <3>3. SemLen'
      BY <1>1, <1>4, <2>1, <2>2, <2>3 DEF SemTypes, SemLen
    <3>4. Sem!Counted'
      BY <1>4, <2>1, <2>2, <2>3, <2>5, <2>6 DEF SemNumbers, Sem!Counted
    <3>5. Sem!AllDone'
      BY <1>4, <2>1, <2>2, <2>3, <2>5, <2>6 DEF SemNumbers, SemWhere, Sem!Places,
         Sem!Counted, Sem!AllDone
    <3> QED BY <3>1, <3>2, <3>3, <3>4, <3>5 DEF SemCore
  <2> QED BY <1>2, <2>1, <2>4, <2>7
<1>7. ASSUME Sem!writerP
      PROVE  Sem!IInv'
  <2>1. /\ pc["writer"] = "P" /\ pc' = [pc EXCEPT !["writer"] = "usleep"]
        /\ s2.val >= 1 /\ s2' = Sem!P(s2, "writer") /\ UNCHANGED <<val, s1, i, seen>>
    BY <1>7 DEF Sem!writerP, Sem!Goto, Sem!CanP
  <2>2. /\ pc'["writer"] = "usleep" /\ pc'["reader"] = pc["reader"]
    BY <1>1, <2>1 DEF SemTypes
  <2>3. /\ s2' \in SemSet /\ s2'.val = s2.val - 1 /\ s2'.adj["reader"] = s2.adj["reader"]
    BY <1>1, <2>1, SemChanges DEF SemTypes
  <2>4. SemTypes'
    BY <1>1, <2>1, <2>2, <2>3 DEF SemTypes
  <2>5. SemNumbers /\ SemWhere
    BY <1>1, SemCounts
  <2>6. /\ Sem!WriterVs' = Sem!WriterVs /\ Sem!WriterPs' = Sem!WriterPs + 1
        /\ Sem!ReaderVs' = Sem!ReaderVs /\ Sem!ReaderPs' = Sem!ReaderPs
    BY <2>1, <2>2, <2>5 DEF SemNumbers, Sem!WriterVs, Sem!WriterPs, Sem!ReaderVs, Sem!ReaderPs
  <2>7. SemCore'
    <3>1. Sem!Places'
      BY <1>4, <2>1, <2>2, <2>3, <2>5 DEF SemNumbers, Sem!Places
    <3>2. SemVal'
      BY <1>4, <2>1, <2>2, <2>5 DEF SemNumbers, SemVal
    <3>3. SemLen'
      BY <1>1, <1>4, <2>1, <2>2, <2>3 DEF SemTypes, SemLen
    <3>4. Sem!Counted'
      BY <1>4, <2>1, <2>2, <2>3, <2>5, <2>6 DEF SemNumbers, Sem!Counted
    <3>5. Sem!AllDone'
      BY <1>4, <2>1, <2>2, <2>3, <2>5, <2>6 DEF SemNumbers, SemWhere, Sem!Places,
         Sem!Counted, Sem!AllDone
    <3> QED BY <3>1, <3>2, <3>3, <3>4, <3>5 DEF SemCore
  <2> QED BY <1>2, <2>1, <2>4, <2>7
<1>8. ASSUME Sem!writerNext
      PROVE  Sem!IInv'
  <2>1. /\ pc["writer"] = "usleep"
        /\ pc' = [pc EXCEPT !["writer"] = IF i["writer"] < 100 THEN "write" ELSE "join"]
        /\ i' = [i EXCEPT !["writer"] = @ + 1] /\ UNCHANGED <<val, s1, s2, seen>>
    BY <1>8 DEF Sem!writerNext, Sem!Goto
  <2>2. /\ pc'["writer"] = (IF i["writer"] < 100 THEN "write" ELSE "join")
        /\ pc'["reader"] = pc["reader"]
        /\ i'["writer"] = i["writer"] + 1 /\ i'["reader"] = i["reader"]
    BY <1>1, <2>1 DEF SemTypes
  <2>3. i["writer"] \in 1..100
    BY <1>1, <2>1 DEF SemTypes, SemCore, Sem!Places
  <2>4. SemTypes'
    <3>1. i' \in [{"writer", "reader"} -> 1..101]
      <4>1. i["writer"] + 1 \in 1..101
        BY <2>3
      <4> QED BY <1>1, <2>1, <4>1 DEF SemTypes
    <3> QED BY <1>1, <2>1, <2>2, <3>1 DEF SemTypes
  <2>5. SemNumbers /\ SemWhere
    BY <1>1, SemCounts
  <2>6. /\ Sem!WriterVs' = Sem!WriterVs /\ Sem!WriterPs' = Sem!WriterPs
        /\ Sem!ReaderVs' = Sem!ReaderVs /\ Sem!ReaderPs' = Sem!ReaderPs
    BY <2>1, <2>2, <2>5 DEF SemNumbers, Sem!WriterVs, Sem!WriterPs, Sem!ReaderVs, Sem!ReaderPs
  <2>7. SemCore'
    <3>1. Sem!Places'
      BY <1>4, <2>1, <2>2, <2>3, <2>5 DEF SemNumbers, Sem!Places
    <3>2. SemVal'
      BY <1>4, <2>1, <2>2, <2>5 DEF SemNumbers, SemVal
    <3>3. SemLen'
      BY <1>1, <1>4, <2>1, <2>2, <2>3 DEF SemTypes, SemLen
    <3>4. Sem!Counted'
      BY <1>4, <2>1, <2>2, <2>3, <2>5, <2>6 DEF SemNumbers, Sem!Counted
    <3>5. Sem!AllDone'
      BY <1>4, <2>1, <2>2, <2>3, <2>5, <2>6 DEF SemNumbers, SemWhere, Sem!Places,
         Sem!Counted, Sem!AllDone
    <3> QED BY <3>1, <3>2, <3>3, <3>4, <3>5 DEF SemCore
  <2> QED BY <1>2, <2>1, <2>4, <2>7
<1>9. ASSUME Sem!writerEnd
      PROVE  Sem!IInv'
  <2>1. /\ pc["writer"] = "join" /\ pc' = [pc EXCEPT !["writer"] = "exited"]
        /\ UNCHANGED <<val, s1, s2, i, seen>>
    BY <1>9 DEF Sem!writerEnd, Sem!Goto
  <2>2. /\ pc'["writer"] = "exited" /\ pc'["reader"] = pc["reader"]
    BY <1>1, <2>1 DEF SemTypes
  <2>3. i["writer"] \in 1..101
    BY <1>1 DEF SemTypes
  <2>4. SemTypes'
    BY <1>1, <2>1, <2>2, <2>3 DEF SemTypes
  <2>5. SemNumbers /\ SemWhere
    BY <1>1, SemCounts
  <2>6. /\ Sem!WriterVs' = Sem!WriterVs /\ Sem!WriterPs' = Sem!WriterPs
        /\ Sem!ReaderVs' = Sem!ReaderVs /\ Sem!ReaderPs' = Sem!ReaderPs
    BY <2>1, <2>2, <2>5 DEF SemNumbers, Sem!WriterVs, Sem!WriterPs, Sem!ReaderVs, Sem!ReaderPs
  <2>7. SemCore'
    <3>1. Sem!Places'
      BY <1>4, <2>1, <2>2, <2>3, <2>5 DEF SemNumbers, Sem!Places
    <3>2. SemVal'
      BY <1>4, <2>1, <2>2, <2>5 DEF SemNumbers, SemVal
    <3>3. SemLen'
      BY <1>1, <1>4, <2>1, <2>2, <2>3 DEF SemTypes, SemLen
    <3>4. Sem!Counted'
      BY <1>4, <2>1, <2>2, <2>3, <2>5, <2>6 DEF SemNumbers, Sem!Counted
    <3>5. Sem!AllDone'
      BY <1>4, <2>1, <2>2, <2>3, <2>5, <2>6 DEF SemNumbers, SemWhere, Sem!Places,
         Sem!Counted, Sem!AllDone
    <3> QED BY <3>1, <3>2, <3>3, <3>4, <3>5 DEF SemCore
  <2> QED BY <1>2, <2>1, <2>4, <2>7
<1> QED BY <1>5, <1>6, <1>7, <1>8, <1>9 DEF Sem!Writer

LEMMA SemReaderKeeps ==
    ASSUME Sem!IInv, Sem!Reader
    PROVE  Sem!IInv'
<1> USE DEF SemPc
<1>1. SemTypes /\ Sem!ReadsInOrder /\ SemCore
  BY SemHas
<1>2. ASSUME seen' = seen, SemTypes', SemCore'
      PROVE  Sem!IInv'
  <2>1. Sem!ReadsInOrder'
    BY <1>1, <1>2 DEF Sem!ReadsInOrder
  <2> QED BY <1>2, <2>1, SemHasNext
<1>4. Sem!Places /\ SemVal /\ SemLen /\ Sem!Counted /\ Sem!AllDone
  BY <1>1 DEF SemCore
<1>5. ASSUME Sem!readerP
      PROVE  Sem!IInv'
  <2>1. /\ pc["reader"] = "P" /\ pc' = [pc EXCEPT !["reader"] = "print"]
        /\ s1.val >= 1 /\ s1' = Sem!P(s1, "reader") /\ UNCHANGED <<val, s2, i, seen>>
    BY <1>5 DEF Sem!readerP, Sem!Goto, Sem!CanP
  <2>2. /\ pc'["reader"] = "print" /\ pc'["writer"] = pc["writer"]
    BY <1>1, <2>1 DEF SemTypes
  <2>3. /\ s1' \in SemSet /\ s1'.val = s1.val - 1 /\ s1'.adj["reader"] = s1.adj["reader"] + 1
    BY <1>1, <2>1, SemChanges DEF SemTypes
  <2>4. SemTypes'
    BY <1>1, <2>1, <2>2, <2>3 DEF SemTypes
  <2>5. SemNumbers /\ SemWhere
    BY <1>1, SemCounts
  <2>6. /\ Sem!WriterVs' = Sem!WriterVs /\ Sem!WriterPs' = Sem!WriterPs
        /\ Sem!ReaderVs' = Sem!ReaderVs /\ Sem!ReaderPs' = Sem!ReaderPs + 1
    BY <2>1, <2>2, <2>5 DEF SemNumbers, Sem!WriterVs, Sem!WriterPs, Sem!ReaderVs, Sem!ReaderPs
  <2>7. SemCore'
    <3>1. Sem!Places'
      BY <1>4, <2>1, <2>2, <2>3, <2>5 DEF SemNumbers, Sem!Places
    <3>2. SemVal'
      BY <1>4, <2>1, <2>2, <2>5 DEF SemNumbers, SemVal
    <3>3. SemLen'
      BY <1>1, <1>4, <2>1, <2>2, <2>3 DEF SemTypes, SemLen
    <3>4. Sem!Counted'
      BY <1>4, <2>1, <2>2, <2>3, <2>5, <2>6 DEF SemNumbers, Sem!Counted
    <3>5. Sem!AllDone'
      BY <1>4, <2>1, <2>2, <2>3, <2>5, <2>6 DEF SemNumbers, SemWhere, Sem!Places,
         Sem!Counted, Sem!AllDone
    <3> QED BY <3>1, <3>2, <3>3, <3>4, <3>5 DEF SemCore
  <2> QED BY <1>2, <2>1, <2>4, <2>7
<1>6. ASSUME Sem!print
      PROVE  Sem!IInv'
  <2>1. /\ pc["reader"] = "print" /\ pc' = [pc EXCEPT !["reader"] = "V"]
        /\ seen' = Append(seen, val) /\ UNCHANGED <<val, s1, s2, i>>
    BY <1>6 DEF Sem!print, Sem!Goto
  <2>2. /\ pc'["reader"] = "V" /\ pc'["writer"] = pc["writer"]
        /\ Len(seen') = Len(seen) + 1 /\ seen' \in Seq(0..100)
    BY <1>1, <2>1 DEF SemTypes
  <2>3. i["writer"] \in 1..101
    BY <1>1 DEF SemTypes
  <2>4. SemTypes'
    BY <1>1, <2>1, <2>2, <2>3 DEF SemTypes
  <2>5. SemNumbers /\ SemWhere
    BY <1>1, SemCounts
  <2>6. /\ Sem!WriterVs' = Sem!WriterVs /\ Sem!WriterPs' = Sem!WriterPs
        /\ Sem!ReaderVs' = Sem!ReaderVs /\ Sem!ReaderPs' = Sem!ReaderPs
    BY <2>1, <2>2, <2>5 DEF SemNumbers, Sem!WriterVs, Sem!WriterPs, Sem!ReaderVs, Sem!ReaderPs
  <2>8. Len(seen) = i["reader"] - 1 /\ i["reader"] \in Nat /\ Len(seen) \in Nat
    <3>1. Len(seen) = i["reader"] - 1
      BY <1>4, <2>1 DEF SemLen
    <3>2. i["reader"] \in Nat
      BY <2>5 DEF SemNumbers
    <3> QED BY <1>1, <3>1, <3>2 DEF SemTypes
  <2>7. SemCore'
    <3>1. Sem!Places'
      BY <1>4, <2>1, <2>2, <2>3, <2>5 DEF SemNumbers, Sem!Places
    <3>2. SemVal'
      BY <1>4, <2>1, <2>2, <2>5 DEF SemNumbers, SemVal
    <3>3. SemLen'
      <4>1. Len(seen') = i'["reader"]
        BY <2>1, <2>2, <2>8
      <4> QED BY <2>2, <4>1 DEF SemLen
    <3>4. Sem!Counted'
      BY <1>4, <2>1, <2>2, <2>3, <2>5, <2>6 DEF SemNumbers, Sem!Counted
    <3>5. Sem!AllDone'
      BY <1>4, <2>1, <2>2, <2>3, <2>5, <2>6 DEF SemNumbers, SemWhere, Sem!Places,
         Sem!Counted, Sem!AllDone
    <3> QED BY <3>1, <3>2, <3>3, <3>4, <3>5 DEF SemCore
  <2>9. val = i["reader"]
    <3>1. /\ Sem!ReaderPs = i["reader"] /\ Sem!ReaderVs = i["reader"] - 1
          /\ Sem!Counted /\ pc["reader"] # "exited"
      BY <1>4, <2>1, <2>5 DEF SemNumbers, SemWhere
    <3>2. Sem!WriterVs = i["reader"] /\ Sem!WriterPs = i["reader"] - 1
      BY <2>5, <3>1 DEF SemNumbers, SemWhere, Sem!Counted
    <3> QED BY <1>4, <2>5, <3>2 DEF SemNumbers, SemWhere, SemVal
  <2>10. val = Len(seen) + 1
    BY <2>8, <2>9
  <2>11. Sem!ReadsInOrder'
    BY <1>1, <2>1, <2>10 DEF SemTypes, Sem!ReadsInOrder
  <2> QED BY <2>4, <2>7, <2>11, SemHasNext
<1>7. ASSUME Sem!readerV
      PROVE  Sem!IInv'
  <2>1. /\ pc["reader"] = "V" /\ pc' = [pc EXCEPT !["reader"] = "usleep"]
        /\ s2' = Sem!V(s2, "reader") /\ UNCHANGED <<val, s1, i, seen>>
    BY <1>7 DEF Sem!readerV, Sem!Goto
  <2>2. /\ pc'["reader"] = "usleep" /\ pc'["writer"] = pc["writer"]
    BY <1>1, <2>1 DEF SemTypes
  <2>3. /\ s2' \in SemSet /\ s2'.val = s2.val + 1 /\ s2'.adj["reader"] = s2.adj["reader"] - 1
    BY <1>1, <2>1, SemChanges DEF SemTypes
  <2>4. SemTypes'
    BY <1>1, <2>1, <2>2, <2>3 DEF SemTypes
  <2>5. SemNumbers /\ SemWhere
    BY <1>1, SemCounts
  <2>6. /\ Sem!WriterVs' = Sem!WriterVs /\ Sem!WriterPs' = Sem!WriterPs
        /\ Sem!ReaderVs' = Sem!ReaderVs + 1 /\ Sem!ReaderPs' = Sem!ReaderPs
    BY <2>1, <2>2, <2>5 DEF SemNumbers, Sem!WriterVs, Sem!WriterPs, Sem!ReaderVs, Sem!ReaderPs
  <2>7. SemCore'
    <3>1. Sem!Places'
      BY <1>4, <2>1, <2>2, <2>3, <2>5 DEF SemNumbers, Sem!Places
    <3>2. SemVal'
      BY <1>4, <2>1, <2>2, <2>5 DEF SemNumbers, SemVal
    <3>3. SemLen'
      BY <1>1, <1>4, <2>1, <2>2, <2>3 DEF SemTypes, SemLen
    <3>4. Sem!Counted'
      BY <1>4, <2>1, <2>2, <2>3, <2>5, <2>6 DEF SemNumbers, Sem!Counted
    <3>5. Sem!AllDone'
      BY <1>4, <2>1, <2>2, <2>3, <2>5, <2>6 DEF SemNumbers, SemWhere, Sem!Places,
         Sem!Counted, Sem!AllDone
    <3> QED BY <3>1, <3>2, <3>3, <3>4, <3>5 DEF SemCore
  <2> QED BY <1>2, <2>1, <2>4, <2>7
<1>8. ASSUME Sem!readerNext
      PROVE  Sem!IInv'
  <2>1. /\ pc["reader"] = "usleep"
        /\ pc' = [pc EXCEPT !["reader"] = IF i["reader"] < 100 THEN "P" ELSE "end"]
        /\ i' = [i EXCEPT !["reader"] = @ + 1] /\ UNCHANGED <<val, s1, s2, seen>>
    BY <1>8 DEF Sem!readerNext, Sem!Goto
  <2>2. /\ pc'["reader"] = (IF i["reader"] < 100 THEN "P" ELSE "end")
        /\ pc'["writer"] = pc["writer"]
        /\ i'["reader"] = i["reader"] + 1 /\ i'["writer"] = i["writer"]
    BY <1>1, <2>1 DEF SemTypes
  <2>3. i["reader"] \in 1..100
    BY <1>1, <2>1 DEF SemTypes, SemCore, Sem!Places
  <2>4. SemTypes'
    <3>1. i' \in [{"writer", "reader"} -> 1..101]
      <4>1. i["reader"] + 1 \in 1..101
        BY <2>3
      <4> QED BY <1>1, <2>1, <4>1 DEF SemTypes
    <3> QED BY <1>1, <2>1, <2>2, <3>1 DEF SemTypes
  <2>5. SemNumbers /\ SemWhere
    BY <1>1, SemCounts
  <2>6. /\ Sem!WriterVs' = Sem!WriterVs /\ Sem!WriterPs' = Sem!WriterPs
        /\ Sem!ReaderVs' = Sem!ReaderVs /\ Sem!ReaderPs' = Sem!ReaderPs
    BY <2>1, <2>2, <2>5 DEF SemNumbers, Sem!WriterVs, Sem!WriterPs, Sem!ReaderVs, Sem!ReaderPs
  <2>7. SemCore'
    <3>1. Sem!Places'
      BY <1>4, <2>1, <2>2, <2>3, <2>5 DEF SemNumbers, Sem!Places
    <3>2. SemVal'
      BY <1>4, <2>1, <2>2, <2>5 DEF SemNumbers, SemVal
    <3>3. SemLen'
      BY <1>1, <1>4, <2>1, <2>2, <2>3 DEF SemTypes, SemLen
    <3>4. Sem!Counted'
      BY <1>4, <2>1, <2>2, <2>3, <2>5, <2>6 DEF SemNumbers, Sem!Counted
    <3>5. Sem!AllDone'
      BY <1>4, <2>1, <2>2, <2>3, <2>5, <2>6 DEF SemNumbers, SemWhere, Sem!Places,
         Sem!Counted, Sem!AllDone
    <3> QED BY <3>1, <3>2, <3>3, <3>4, <3>5 DEF SemCore
  <2> QED BY <1>2, <2>1, <2>4, <2>7
<1>9. ASSUME Sem!readerEnd
      PROVE  Sem!IInv'
  <2>1. /\ pc["reader"] = "end" /\ pc' = [pc EXCEPT !["reader"] = "exited"]
        /\ s1' = Sem!Undo(s1, "reader") /\ s2' = Sem!Undo(s2, "reader")
        /\ UNCHANGED <<val, i, seen>>
    BY <1>9 DEF Sem!readerEnd, Sem!Goto
  <2>2. /\ pc'["reader"] = "exited" /\ pc'["writer"] = pc["writer"]
    BY <1>1, <2>1 DEF SemTypes
  <2>3. /\ s1' \in SemSet /\ s2' \in SemSet
        /\ s2'.val = IF s2.val + s2.adj["reader"] < 0 THEN 0 ELSE s2.val + s2.adj["reader"]
    BY <1>1, <2>1, SemChanges DEF SemTypes
  <2>4. SemTypes'
    BY <1>1, <2>1, <2>2, <2>3 DEF SemTypes
  <2>5. SemNumbers /\ SemWhere
    BY <1>1, SemCounts
  <2>6. /\ Sem!WriterVs' = Sem!WriterVs /\ Sem!WriterPs' = Sem!WriterPs
        /\ Sem!ReaderVs' = Sem!ReaderVs /\ Sem!ReaderPs' = Sem!ReaderPs
    BY <2>1, <2>2, <2>5 DEF SemNumbers, Sem!WriterVs, Sem!WriterPs, Sem!ReaderVs, Sem!ReaderPs
  <2>7. SemCore'
    <3>1. Sem!Places'
      BY <1>4, <2>1, <2>2, <2>3, <2>5 DEF SemNumbers, Sem!Places
    <3>2. SemVal'
      BY <1>4, <2>1, <2>2, <2>5 DEF SemNumbers, SemVal
    <3>3. SemLen'
      BY <1>1, <1>4, <2>1, <2>2, <2>3 DEF SemTypes, SemLen
    <3>4. Sem!Counted'
      BY <1>4, <2>1, <2>2, <2>3, <2>5, <2>6 DEF SemNumbers, Sem!Counted
    <3>5. Sem!AllDone'
      BY <1>4, <2>1, <2>2, <2>3, <2>5, <2>6 DEF SemNumbers, SemWhere, Sem!Places,
         Sem!Counted, Sem!AllDone
    <3> QED BY <3>1, <3>2, <3>3, <3>4, <3>5 DEF SemCore
  <2> QED BY <1>2, <2>1, <2>4, <2>7
<1> QED BY <1>5, <1>6, <1>7, <1>8, <1>9 DEF Sem!Reader

\* The writer of both programs writes when all it wrote before has been read.
LEMMA CondTurns ==
    ASSUME Cond!IInv, Cond!Writer \/ Cond!Reader, value' # value
    PROVE  Len(seen) = i["writer"] - 1
<1>1. pc["writer"] = "set"
  BY DEF Cond!Writer, Cond!Reader, Cond!set_data, Cond!spin, Cond!clear, Cond!writerBroadcast,
         Cond!broadcast, Cond!flag, Cond!cond_wait, Cond!writerWoken, Cond!print,
         Cond!readerBroadcast, Cond!readerNext, Cond!Goto
<1> QED BY <1>1 DEF Cond!IInv, Cond!WriterTurn

LEMMA SemTurns ==
    ASSUME Sem!IInv, Sem!Writer \/ Sem!Reader, val' # val
    PROVE  Len(seen) = i["writer"] - 1
<1>1. pc["writer"] = "write"
  BY DEF Sem!Writer, Sem!Reader, Sem!write, Sem!writerV, Sem!writerP, Sem!writerNext,
         Sem!writerEnd, Sem!readerP, Sem!print, Sem!readerV, Sem!readerNext, Sem!readerEnd,
         Sem!Goto
<1>2. SemTypes /\ SemCore
  BY SemHas
<1>3. SemNumbers /\ SemWhere
  BY <1>2, SemCounts
<1>4. Sem!Places /\ SemLen /\ Sem!Counted /\ Sem!AllDone
  BY <1>2 DEF SemCore
<1>5. /\ pc["reader"] # "exited"
      /\ IF pc["reader"] \in {"V", "usleep"} THEN i["reader"] = i["writer"] - 1
         ELSE i["reader"] = i["writer"]
  BY <1>1, <1>3, <1>4 DEF SemNumbers, SemWhere, Sem!Places,
         Sem!Counted, Sem!AllDone
<1>6. i["writer"] \in Nat /\ i["reader"] \in Nat
  BY <1>3 DEF SemNumbers
<1> QED BY <1>4, <1>5, <1>6 DEF SemLen

-----------------------------------------------------------------------------
(* pthread_cal and pthread_cal2: a result and any number of getters.         *)

Result(Getter) == INSTANCE ResultCond

ResultPc == {"lock", "count", "wait", "asleep", "awake", "unlock", "read", "end"}

\* What a set of getters has to be for the proofs: finite, and NULL is none of
\* them nor one of the values that they may read.
Getters(G) == IsFiniteSet(G) /\ NULL \notin G /\ NULL # "nothing" /\ NULL # "sum"

\* The invariant without the counter.
ResultCore(G) ==
    /\ res \in {"sum", NULL} /\ mutex \in G \cup {NULL}
    /\ setter \in {"compute", "poll", "broadcast", "end"}
    /\ pc \in [G -> ResultPc] /\ got \in [G -> {"nothing", "sum", NULL}]
    /\ Result(G)!MutexHeld /\ Result(G)!ReadsResult
    /\ res = NULL => setter = "compute"
    /\ \A g \in G : pc[g] \in {"awake", "unlock", "read", "end"} => setter = "end"

\* The module counts as this one does.
LEMMA ResultCounts ==
    ASSUME NEW G, NEW S
    PROVE  Result(G)!Cardinality(S) = Cardinality(S)
BY Zenon DEF Result!Cardinality, Cardinality

LEMMA ResultIs ==
    ASSUME NEW G, Getters(G)
    PROVE  Result(G)!IInv <=>
             ResultCore(G) /\ lost \in BOOLEAN /\ counter = Cardinality(Result(G)!Counted)
<1>1. /\ Cardinality(Result(G)!Counted) \in 0..Cardinality(G)
      /\ Result(G)!wait_num = Cardinality(G)
  <2>1. Result(G)!Counted \subseteq G
    BY DEF Result!Counted
  <2>2. /\ Cardinality(G) \in Nat /\ Cardinality(Result(G)!Counted) \in Nat
        /\ Cardinality(Result(G)!Counted) <= Cardinality(G)
    BY <2>1, FS_Subset, FS_CardinalityType DEF Getters
  <2>3. Cardinality(Result(G)!Counted) \in 0..Cardinality(G)
    BY <2>2
  <2>4. Result(G)!wait_num = Cardinality(G)
    BY ResultCounts, Zenon DEF Result!wait_num
  <2> QED BY <2>3, <2>4
<1>2. /\ Result(G)!TypeOK <=>
           /\ res \in {"sum", NULL} /\ mutex \in G \cup {NULL}
           /\ setter \in {"compute", "poll", "broadcast", "end"}
           /\ pc \in [G -> ResultPc] /\ got \in [G -> {"nothing", "sum", NULL}]
           /\ lost \in BOOLEAN /\ counter \in 0..Cardinality(G)
  BY <1>1 DEF Result!TypeOK, ResultPc
<1>3. counter = Cardinality(Result(G)!Counted) => counter \in 0..Cardinality(G)
  BY <1>1
<1> QED BY <1>2, <1>3, ResultCounts, Zenon DEF Result!IInv, ResultCore

LEMMA ResultHasNext ==
    ASSUME NEW G, Getters(G), ResultCore(G)', lost' \in BOOLEAN,
           counter' = Cardinality(Result(G)!Counted')
    PROVE  Result(G)!IInv'
<1>1. counter' \in 0..Cardinality(G)
  <2>1. Result(G)!Counted' \subseteq G
    BY DEF Result!Counted
  <2> QED BY <2>1, FS_Subset, FS_CardinalityType DEF Getters
<1>2. Result(G)!TypeOK'
  BY <1>1, ResultCounts, Zenon DEF Result!TypeOK, Result!wait_num, ResultCore, ResultPc
<1> QED BY <1>2, ResultCounts, Zenon DEF Result!IInv, ResultCore

LEMMA ResultInit ==
    ASSUME NEW G, Getters(G), Result(G)!Init
    PROVE  Result(G)!IInv
<1>1. /\ res = NULL /\ counter = 0 /\ mutex = NULL /\ setter = "compute" /\ lost = FALSE
      /\ pc = [g \in G |-> "lock"] /\ got = [g \in G |-> "nothing"]
  BY DEF Result!Init
<1>2. \A g \in G : pc[g] = "lock" /\ got[g] = "nothing"
  BY <1>1
<1>3. Result(G)!Counted = {}
  BY <1>2 DEF Result!Counted
<1>4. counter = Cardinality(Result(G)!Counted)
  BY <1>1, <1>3, FS_EmptySet
<1>5. pc \in [G -> ResultPc] /\ got \in [G -> {"nothing", "sum", NULL}]
  BY <1>1 DEF ResultPc
<1>6. ResultCore(G)
  BY <1>1, <1>2, <1>5 DEF ResultCore, Result!MutexHeld, Result!ReadsResult, Getters
<1>7. lost \in BOOLEAN
  BY <1>1
<1> QED BY <1>4, <1>6, <1>7, ResultIs

LEMMA ResultKeeps ==
    ASSUME NEW G, Getters(G), Result(G)!IInv,
           Result(G)!Setter \/ \E g \in G : Result(G)!GetterStep(g)
    PROVE  Result(G)!IInv'
<1>1. ResultCore(G) /\ lost \in BOOLEAN /\ counter = Cardinality(Result(G)!Counted)
  BY ResultIs
<1>2. /\ res \in {"sum", NULL} /\ mutex \in G \cup {NULL}
      /\ setter \in {"compute", "poll", "broadcast", "end"}
      /\ pc \in [G -> ResultPc] /\ got \in [G -> {"nothing", "sum", NULL}]
      /\ \A g \in G : mutex = g <=> pc[g] \in {"count", "wait", "unlock"}
      /\ \A g \in G : got[g] # NULL
      /\ res = NULL => setter = "compute"
      /\ \A g \in G : pc[g] \in {"awake", "unlock", "read", "end"} => setter = "end"
  BY <1>1 DEF ResultCore, Result!MutexHeld, Result!ReadsResult
\* What is left to show of a step that does not count anybody.
<1>3. ASSUME ResultCore(G)', lost' \in BOOLEAN, UNCHANGED counter,
             \A g \in G : pc'[g] \in {"lock", "count"} <=> pc[g] \in {"lock", "count"}
      PROVE  Result(G)!IInv'
  <2>1. Result(G)!Counted' = Result(G)!Counted
    BY <1>3 DEF Result!Counted
  <2>2. counter' = Cardinality(Result(G)!Counted')
    BY <1>1, <1>3, <2>1
  <2> QED BY <1>3, <2>2, ResultHasNext
<1>4. ASSUME Result(G)!compute
      PROVE  Result(G)!IInv'
  <2>1. /\ setter = "compute" /\ res' = "sum" /\ setter' = "poll"
        /\ UNCHANGED <<counter, mutex, pc, got, lost>>
    BY <1>4 DEF Result!compute
  <2>2. ResultCore(G)'
    BY <1>2, <2>1 DEF ResultCore, Result!MutexHeld, Result!ReadsResult, Getters
  <2> QED BY <1>1, <1>3, <2>1, <2>2
<1>5. ASSUME Result(G)!poll
      PROVE  Result(G)!IInv'
  <2>1. /\ setter = "poll" /\ setter' = "broadcast"
        /\ UNCHANGED <<res, counter, mutex, pc, got, lost>>
    BY <1>5 DEF Result!poll
  <2>2. ResultCore(G)'
    BY <1>2, <2>1 DEF ResultCore, Result!MutexHeld, Result!ReadsResult, Getters
  <2> QED BY <1>1, <1>3, <2>1, <2>2
<1>6. ASSUME Result(G)!broadcast
      PROVE  Result(G)!IInv'
  <2>1. /\ setter = "broadcast" /\ setter' = "end"
        /\ pc' = [g \in G |-> IF pc[g] = "asleep" THEN "awake" ELSE pc[g]]
        /\ lost' \in BOOLEAN /\ UNCHANGED <<res, counter, mutex, got>>
    BY <1>6 DEF Result!broadcast
  <2>2. \A g \in G : pc'[g] = IF pc[g] = "asleep" THEN "awake" ELSE pc[g]
    BY <2>1
  <2>3. pc' \in [G -> ResultPc]
    BY <1>2, <2>1 DEF ResultPc
  <2>4. ResultCore(G)'
    BY <1>2, <2>1, <2>2, <2>3 DEF ResultCore, Result!MutexHeld, Result!ReadsResult, Getters
  <2> QED BY <1>3, <2>1, <2>2, <2>4
<1>7. ASSUME NEW g \in G, Result(G)!lock(g)
      PROVE  Result(G)!IInv'
  <2>1. /\ pc[g] = "lock" /\ pc' = [pc EXCEPT ![g] = "count"]
        /\ mutex = NULL /\ mutex' = g
        /\ UNCHANGED <<res, counter, setter, got, lost>>
    BY <1>7 DEF Result!lock, Result!Goto
  <2>2. /\ pc'[g] = "count" /\ pc' \in [G -> ResultPc]
        /\ \A h \in G : h # g => pc'[h] = pc[h]
    BY <1>2, <2>1 DEF ResultPc
  <2>3. ResultCore(G)'
    BY <1>2, <2>1, <2>2 DEF ResultCore, Result!MutexHeld, Result!ReadsResult, Getters
  <2>4. \A h \in G : pc'[h] \in {"lock", "count"} <=> pc[h] \in {"lock", "count"}
    BY <2>1, <2>2
  <2> QED BY <1>1, <1>3, <2>1, <2>3, <2>4
<1>8. ASSUME NEW g \in G, Result(G)!count(g)
      PROVE  Result(G)!IInv'
  <2>1. /\ pc[g] = "count" /\ pc' = [pc EXCEPT ![g] = "wait"]
        /\ counter' = counter + 1
        /\ UNCHANGED <<res, mutex, setter, got, lost>>
    BY <1>8 DEF Result!count, Result!Goto
  <2>2. /\ pc'[g] = "wait" /\ pc' \in [G -> ResultPc]
        /\ \A h \in G : h # g => pc'[h] = pc[h]
    BY <1>2, <2>1 DEF ResultPc
  <2>3. ResultCore(G)'
    BY <1>2, <2>1, <2>2 DEF ResultCore, Result!MutexHeld, Result!ReadsResult, Getters
  <2>4. g \notin Result(G)!Counted /\ Result(G)!Counted \subseteq G
    BY <2>1 DEF Result!Counted
  <2>5. Result(G)!Counted' = Result(G)!Counted \cup {g}
    BY <1>2, <2>1, <2>2 DEF Result!Counted
  <2>6. IsFiniteSet(Result(G)!Counted)
    BY <2>4, FS_Subset DEF Getters
  <2>7. Cardinality(Result(G)!Counted') = Cardinality(Result(G)!Counted) + 1
    BY <2>4, <2>5, <2>6, FS_AddElement
  <2>8. counter' = Cardinality(Result(G)!Counted')
    BY <1>1, <2>1, <2>7
  <2>9. lost' \in BOOLEAN
    BY <1>1, <2>1
  <2> QED BY <2>3, <2>8, <2>9, ResultHasNext
<1>9. ASSUME NEW g \in G, Result(G)!cond_wait(g)
      PROVE  Result(G)!IInv'
  <2>1. /\ pc[g] = "wait" /\ pc' = [pc EXCEPT ![g] = "asleep"]
        /\ mutex' = NULL
        /\ UNCHANGED <<res, counter, setter, got, lost>>
    BY <1>9 DEF Result!cond_wait, Result!Goto
  <2>2. /\ pc'[g] = "asleep" /\ pc' \in [G -> ResultPc]
        /\ \A h \in G : h # g => pc'[h] = pc[h]
    BY <1>2, <2>1 DEF ResultPc
  <2>3. ResultCore(G)'
    BY <1>2, <2>1, <2>2 DEF ResultCore, Result!MutexHeld, Result!ReadsResult, Getters
  <2>4. \A h \in G : pc'[h] \in {"lock", "count"} <=> pc[h] \in {"lock", "count"}
    BY <2>1, <2>2
  <2> QED BY <1>1, <1>3, <2>1, <2>3, <2>4
<1>10. ASSUME NEW g \in G, Result(G)!relock(g)
      PROVE  Result(G)!IInv'
  <2>1. /\ pc[g] = "awake" /\ pc' = [pc EXCEPT ![g] = "unlock"]
        /\ mutex = NULL /\ mutex' = g
        /\ UNCHANGED <<res, counter, setter, got, lost>>
    BY <1>10 DEF Result!relock, Result!Goto
  <2>2. /\ pc'[g] = "unlock" /\ pc' \in [G -> ResultPc]
        /\ \A h \in G : h # g => pc'[h] = pc[h]
    BY <1>2, <2>1 DEF ResultPc
  <2>3. ResultCore(G)'
    BY <1>2, <2>1, <2>2 DEF ResultCore, Result!MutexHeld, Result!ReadsResult, Getters
  <2>4. \A h \in G : pc'[h] \in {"lock", "count"} <=> pc[h] \in {"lock", "count"}
    BY <2>1, <2>2
  <2> QED BY <1>1, <1>3, <2>1, <2>3, <2>4
<1>11. ASSUME NEW g \in G, Result(G)!unlock(g)
      PROVE  Result(G)!IInv'
  <2>1. /\ pc[g] = "unlock" /\ pc' = [pc EXCEPT ![g] = "read"]
        /\ mutex' = NULL
        /\ UNCHANGED <<res, counter, setter, got, lost>>
    BY <1>11 DEF Result!unlock, Result!Goto
  <2>2. /\ pc'[g] = "read" /\ pc' \in [G -> ResultPc]
        /\ \A h \in G : h # g => pc'[h] = pc[h]
    BY <1>2, <2>1 DEF ResultPc
  <2>3. ResultCore(G)'
    BY <1>2, <2>1, <2>2 DEF ResultCore, Result!MutexHeld, Result!ReadsResult, Getters
  <2>4. \A h \in G : pc'[h] \in {"lock", "count"} <=> pc[h] \in {"lock", "count"}
    BY <2>1, <2>2
  <2> QED BY <1>1, <1>3, <2>1, <2>3, <2>4
<1>12. ASSUME NEW g \in G, Result(G)!read(g)
      PROVE  Result(G)!IInv'
  <2>1. /\ pc[g] = "read" /\ pc' = [pc EXCEPT ![g] = "end"]
        /\ got' = [got EXCEPT ![g] = res]
        /\ UNCHANGED <<res, counter, mutex, setter, lost>>
    BY <1>12 DEF Result!read, Result!Goto
  <2>2. /\ pc'[g] = "end" /\ pc' \in [G -> ResultPc]
        /\ \A h \in G : h # g => pc'[h] = pc[h]
    BY <1>2, <2>1 DEF ResultPc
  <2>3. /\ got' \in [G -> {"nothing", "sum", NULL}] /\ got'[g] = res
        /\ \A h \in G : h # g => got'[h] = got[h]
    BY <1>2, <2>1
  <2>4. ResultCore(G)'
    BY <1>2, <2>1, <2>2, <2>3 DEF ResultCore, Result!MutexHeld, Result!ReadsResult, Getters
  <2>5. \A h \in G : pc'[h] \in {"lock", "count"} <=> pc[h] \in {"lock", "count"}
    BY <2>1, <2>2
  <2> QED BY <1>1, <1>3, <2>1, <2>4, <2>5
<1> QED BY <1>4, <1>5, <1>6, <1>7, <1>8, <1>9, <1>10, <1>11, <1>12
        DEF Result!Setter, Result!GetterStep

-----------------------------------------------------------------------------
(* pthread_sem_cal and sem_test: threads that wait for each other in order.  *)

Order(Thread, Semaphore, Waits, Posts) == INSTANCE SemOrder

OrderPc == {"wait", "work", "post", "ended"}

\* No two threads post the same semaphore.
OnePoster(T, S, W, P) ==
    /\ W \in [T -> S \cup {NULL}] /\ P \in [T -> S \cup {NULL}] /\ NULL \notin S
    /\ \A t, u \in T : P[t] # NULL /\ P[t] = P[u] => t = u

\* The invariant without the history.
OrderCore(T, S, W, P) ==
    /\ sem \in [S -> Nat]
    /\ pc \in [T -> OrderPc]
    /\ \A s \in S : sem[s] > 0 => \E t \in T : P[t] = s /\ pc[t] = "ended"
    /\ \A t \in T : W[t] # NULL /\ pc[t] # "wait" =>
         \E u \in T : P[u] = W[t] /\ pc[u] = "ended"

OrderSeen(T, S, W, P) ==
    /\ seen \in Seq(T)
    /\ \A t \in T : pc[t] \in {"post", "ended"} => \E k \in DOMAIN seen : seen[k] = t

LEMMA OrderHas ==
    ASSUME NEW T, NEW S, NEW W, NEW P, Order(T, S, W, P)!IInv
    PROVE  OrderCore(T, S, W, P) /\ OrderSeen(T, S, W, P) /\ Order(T, S, W, P)!WorksAfter
BY DEF Order!IInv, Order!TypeOK, Order!Posted, OrderCore, OrderSeen, OrderPc

LEMMA OrderHasNext ==
    ASSUME NEW T, NEW S, NEW W, NEW P, OrderCore(T, S, W, P)', OrderSeen(T, S, W, P)',
           Order(T, S, W, P)!WorksAfter'
    PROVE  Order(T, S, W, P)!IInv'
BY DEF Order!IInv, Order!TypeOK, Order!Posted, OrderCore, OrderSeen, OrderPc

LEMMA OrderInit ==
    ASSUME NEW T, NEW S, NEW W, NEW P, Order(T, S, W, P)!Init
    PROVE  Order(T, S, W, P)!IInv
<1>1. sem = [s \in S |-> 0] /\ pc = [t \in T |-> "wait"] /\ seen = <<>>
  BY DEF Order!Init
<1>2. /\ sem \in [S -> Nat] /\ pc \in [T -> OrderPc] /\ seen \in Seq(T)
      /\ \A s \in S : sem[s] = 0
      /\ \A t \in T : pc[t] = "wait"
  BY <1>1 DEF OrderPc
<1>3. DOMAIN seen = {}
  BY <1>1
<1>4. Order(T, S, W, P)!WorksAfter
  BY <1>3 DEF Order!WorksAfter
<1>5. \A s \in S : ~(sem[s] > 0)
  BY <1>2
<1> QED BY <1>2, <1>4, <1>5 DEF Order!IInv, Order!TypeOK, Order!Posted, OrderPc

LEMMA OrderKeeps ==
    ASSUME NEW T, NEW S, NEW W, NEW P, OnePoster(T, S, W, P), Order(T, S, W, P)!IInv,
           NEW t \in T, Order(T, S, W, P)!Step(t)
    PROVE  Order(T, S, W, P)!IInv'
<1>1. OrderCore(T, S, W, P) /\ OrderSeen(T, S, W, P) /\ Order(T, S, W, P)!WorksAfter
  BY OrderHas
<1>2. /\ sem \in [S -> Nat] /\ pc \in [T -> OrderPc] /\ seen \in Seq(T)
      /\ \A s \in S : sem[s] > 0 => \E u \in T : P[u] = s /\ pc[u] = "ended"
      /\ \A u \in T : W[u] # NULL /\ pc[u] # "wait" =>
           \E v \in T : P[v] = W[u] /\ pc[v] = "ended"
      /\ \A u \in T : pc[u] \in {"post", "ended"} => \E k \in DOMAIN seen : seen[k] = u
  BY <1>1 DEF OrderCore, OrderSeen
<1>3. /\ W \in [T -> S \cup {NULL}] /\ P \in [T -> S \cup {NULL}] /\ NULL \notin S
      /\ \A u, v \in T : P[u] # NULL /\ P[u] = P[v] => u = v
  BY DEF OnePoster
<1>4. ASSUME Order(T, S, W, P)!sem_wait(t)
      PROVE  Order(T, S, W, P)!IInv'
  <2>1. /\ pc[t] = "wait" /\ pc' = [pc EXCEPT ![t] = "work"] /\ seen' = seen
        /\ W[t] = NULL => sem' = sem
        /\ W[t] # NULL => sem[W[t]] > 0 /\ sem' = [sem EXCEPT ![W[t]] = @ - 1]
    BY <1>4 DEF Order!sem_wait, Order!Goto
  <2>2. /\ pc' \in [T -> OrderPc] /\ pc'[t] = "work"
        /\ \A u \in T : u # t => pc'[u] = pc[u]
    BY <1>2, <2>1 DEF OrderPc
  <2>3. \A u \in T : pc'[u] = "ended" <=> pc[u] = "ended"
    BY <2>1, <2>2
  <2>4. sem' \in [S -> Nat] /\ \A s \in S : sem'[s] > 0 => sem[s] > 0
    <3>1. CASE W[t] = NULL
      BY <1>2, <2>1, <3>1
    <3>2. CASE W[t] # NULL
      <4>1. W[t] \in S /\ sem[W[t]] \in Nat /\ sem[W[t]] - 1 \in Nat
        BY <1>2, <1>3, <2>1, <3>2
      <4>2. sem' = [sem EXCEPT ![W[t]] = sem[W[t]] - 1]
        BY <2>1, <3>2
      <4>3. sem' \in [S -> Nat] /\ \A s \in S : sem'[s] = IF s = W[t] THEN sem[s] - 1 ELSE sem[s]
        BY <1>2, <4>1, <4>2
      <4> QED BY <1>2, <4>1, <4>3
    <3> QED BY <3>1, <3>2
  <2>5. W[t] # NULL => \E u \in T : P[u] = W[t] /\ pc[u] = "ended"
    BY <1>2, <1>3, <2>1
  <2>6. OrderCore(T, S, W, P)'
    BY <1>2, <2>1, <2>2, <2>3, <2>4, <2>5 DEF OrderCore
  <2>7. OrderSeen(T, S, W, P)' /\ Order(T, S, W, P)!WorksAfter'
    BY <1>1, <1>2, <2>1, <2>2 DEF OrderSeen, Order!WorksAfter
  <2> QED BY <2>6, <2>7, OrderHasNext
<1>5. ASSUME Order(T, S, W, P)!work(t)
      PROVE  Order(T, S, W, P)!IInv'
  <2>1. /\ pc[t] = "work" /\ pc' = [pc EXCEPT ![t] = "post"] /\ sem' = sem
        /\ seen' = Append(seen, t)
    BY <1>5 DEF Order!work, Order!Goto
  <2>2. /\ pc' \in [T -> OrderPc] /\ pc'[t] = "post"
        /\ \A u \in T : u # t => pc'[u] = pc[u]
    BY <1>2, <2>1 DEF OrderPc
  <2>3. \A u \in T : pc'[u] = "ended" <=> pc[u] = "ended"
    BY <2>1, <2>2
  <2>4. OrderCore(T, S, W, P)'
    BY <1>2, <2>1, <2>2, <2>3 DEF OrderCore
  <2>5. PICK n \in Nat : n = Len(seen)
    BY <1>2
  <2>6. /\ DOMAIN seen = 1..n /\ seen' \in Seq(T) /\ DOMAIN seen' = 1..(n + 1)
        /\ seen'[n + 1] = t /\ \A k \in 1..n : seen'[k] = seen[k]
    BY <1>2, <2>1, <2>5
  <2>7. OrderSeen(T, S, W, P)'
    <3>1. ASSUME NEW u \in T, pc'[u] \in {"post", "ended"}
          PROVE  \E k \in 1..(n + 1) : seen'[k] = u
      <4>1. CASE u = t
        BY <2>6, <4>1
      <4>2. CASE u # t
        <5>1. PICK k \in 1..n : seen[k] = u
          BY <1>2, <2>2, <2>6, <3>1, <4>2
        <5> QED BY <2>6, <5>1
      <4> QED BY <4>1, <4>2
    <3> QED BY <2>6, <3>1 DEF OrderSeen
  <2>8. ASSUME NEW v \in T, NEW u \in T, P[v] # NULL, P[v] = W[u], NEW k \in 1..(n + 1),
               seen'[k] = u
        PROVE  v \in {seen'[j] : j \in 1..(k - 1)}
    <3>1. CASE k = n + 1
      <4>1. u = t /\ W[u] # NULL /\ pc[u] # "wait"
        BY <2>1, <2>6, <2>8, <3>1
      <4>2. PICK w \in T : P[w] = W[u] /\ pc[w] = "ended"
        BY <1>2, <4>1
      <4>3. w = v
        BY <1>3, <2>8, <4>2
      <4>4. PICK j \in 1..n : seen[j] = v
        BY <1>2, <2>6, <4>2, <4>3
      <4>5. seen'[j] = v /\ j \in 1..(k - 1)
        BY <2>6, <3>1, <4>4
      <4> QED BY <4>5
    <3>2. CASE k # n + 1
      <4>1. k \in 1..n /\ seen[k] = u
        BY <2>6, <2>8, <3>2
      <4>2. v \in {seen[j] : j \in 1..(k - 1)}
        BY <1>1, <2>6, <2>8, <4>1 DEF Order!WorksAfter
      <4>3. PICK j \in 1..(k - 1) : seen[j] = v
        BY <4>2
      <4>4. j \in 1..n
        BY <4>1, <4>3
      <4> QED BY <2>6, <4>3, <4>4
    <3> QED BY <3>1, <3>2
  <2>9. Order(T, S, W, P)!WorksAfter'
    BY <2>6, <2>8 DEF Order!WorksAfter
  <2> QED BY <2>4, <2>7, <2>9, OrderHasNext
<1>6. ASSUME Order(T, S, W, P)!sem_post(t)
      PROVE  Order(T, S, W, P)!IInv'
  <2>1. /\ pc[t] = "post" /\ pc' = [pc EXCEPT ![t] = "ended"] /\ seen' = seen
        /\ P[t] = NULL => sem' = sem
        /\ P[t] # NULL => sem' = [sem EXCEPT ![P[t]] = @ + 1]
    BY <1>6 DEF Order!sem_post, Order!Goto
  <2>2. /\ pc' \in [T -> OrderPc] /\ pc'[t] = "ended"
        /\ \A u \in T : u # t => pc'[u] = pc[u]
    BY <1>2, <2>1 DEF OrderPc
  <2>3. \A u \in T : pc[u] = "ended" => pc'[u] = "ended"
    BY <2>1, <2>2
  <2>4. sem' \in [S -> Nat] /\ \A s \in S : sem'[s] > 0 => sem[s] > 0 \/ P[t] = s
    <3>1. CASE P[t] = NULL
      BY <1>2, <2>1, <3>1
    <3>2. CASE P[t] # NULL
      <4>1. P[t] \in S /\ sem[P[t]] \in Nat /\ sem[P[t]] + 1 \in Nat
        BY <1>2, <1>3, <3>2
      <4>2. sem' = [sem EXCEPT ![P[t]] = sem[P[t]] + 1]
        BY <2>1, <3>2
      <4> QED BY <1>2, <4>1, <4>2
    <3> QED BY <3>1, <3>2
  <2>5. OrderCore(T, S, W, P)'
    BY <1>2, <2>1, <2>2, <2>3, <2>4 DEF OrderCore
  <2>6. OrderSeen(T, S, W, P)' /\ Order(T, S, W, P)!WorksAfter'
    BY <1>1, <1>2, <2>1, <2>2 DEF OrderSeen, Order!WorksAfter
  <2> QED BY <2>5, <2>6, OrderHasNext
<1> QED BY <1>4, <1>5, <1>6 DEF Order!Step

-----------------------------------------------------------------------------
(* shm_pipetell: the parent tells the child through a pipe.                  *)

TellPc ==
    {"shmat", "attached", "half", "written", "told", "wait", "ended", "wait_pipe", "printed"}

TellPipe ==
    [data : Seq({"a"}), readers : SUBSET {"parent", "child"},
     writers : SUBSET {"parent", "child"}]

\* A pipe of which one field is changed.
LEMMA PipeEdit ==
    ASSUME NEW D, NEW R, NEW p \in [data : D, readers : R, writers : R], NEW d \in D, NEW r \in R
    PROVE  /\ p.data \in D /\ p.readers \in R /\ p.writers \in R
           /\ [p EXCEPT !.data = d] \in [data : D, readers : R, writers : R]
           /\ [p EXCEPT !.data = d].data = d
           /\ [p EXCEPT !.data = d].readers = p.readers
           /\ [p EXCEPT !.data = d].writers = p.writers
           /\ [p EXCEPT !.readers = r] \in [data : D, readers : R, writers : R]
           /\ [p EXCEPT !.readers = r].data = p.data
           /\ [p EXCEPT !.readers = r].readers = r
           /\ [p EXCEPT !.readers = r].writers = p.writers
           /\ [p EXCEPT !.writers = r] \in [data : D, readers : R, writers : R]
           /\ [p EXCEPT !.writers = r].data = p.data
           /\ [p EXCEPT !.writers = r].readers = p.readers
           /\ [p EXCEPT !.writers = r].writers = r
OBVIOUS

\* What the operations of the pipe do to what is in it and to its writers.
LEMMA TellPipeChanges ==
    ASSUME NEW p \in TellPipe, NEW q \in {"parent", "child"}
    PROVE  /\ Tell!Write(p, "a") \in TellPipe
           /\ Tell!Write(p, "a").data = Append(p.data, "a")
           /\ Tell!Write(p, "a").writers = p.writers
           /\ Tell!Close(p, q) \in TellPipe /\ Tell!Close(p, q).data = p.data
           /\ Tell!Close(p, q).writers = p.writers \ {q}
           /\ Tell!AfterRead(p) \in TellPipe /\ Tell!AfterRead(p).writers = p.writers
<1> DEFINE D == Seq({"a"})
           R == SUBSET {"parent", "child"}
           Pipes == [data : D, readers : R, writers : R]
<1>1. TellPipe = Pipes
  BY DEF TellPipe
<1>2. <<>> \in D /\ {} \in R
  OBVIOUS
<1>3. \A x \in R : x \ {q} \in R
  OBVIOUS
<1>4. \A e \in D : Append(e, "a") \in D /\ (e # <<>> => Tail(e) \in D)
  OBVIOUS
<1> HIDE DEF D, R
<1>5. \A o \in Pipes : o.data \in D /\ o.readers \in R /\ o.writers \in R
  BY <1>2, PipeEdit
<1>6. ASSUME NEW d \in D
      PROVE  /\ [p EXCEPT !.data = d] \in Pipes /\ [p EXCEPT !.data = d].data = d
             /\ [p EXCEPT !.data = d].writers = p.writers
  BY <1>1, <1>2, PipeEdit
<1>7. Tell!Write(p, "a") = [p EXCEPT !.data = Append(p.data, "a")]
  BY DEF Tell!Write
<1>8. Tell!AfterRead(p) = IF p.data = <<>> THEN p ELSE [p EXCEPT !.data = Tail(p.data)]
  BY DEF Tell!AfterRead
<1>9. p.data \in D /\ p.readers \in R /\ p.writers \in R
  BY <1>1, <1>5
<1>10. /\ Tell!Write(p, "a") \in Pipes
       /\ Tell!Write(p, "a").data = Append(p.data, "a")
       /\ Tell!Write(p, "a").writers = p.writers
  <2>1. Append(p.data, "a") \in D
    BY <1>4, <1>9
  <2> QED BY <1>6, <1>7, <2>1, Zenon
<1>11. Tell!AfterRead(p) \in Pipes /\ Tell!AfterRead(p).writers = p.writers
  <2>1. CASE p.data = <<>>
    BY <1>1, <1>8, <2>1
  <2>2. CASE p.data # <<>>
    <3>1. Tail(p.data) \in D
      BY <1>4, <1>9, <2>2
    <3>2. Tell!AfterRead(p) = [p EXCEPT !.data = Tail(p.data)]
      BY <1>8, <2>2
    <3> QED BY <1>6, <3>1, <3>2, Zenon
  <2> QED BY <2>1, <2>2
<1>12. PICK o : o = Tell!CloseWrite(p, q)
  OBVIOUS
<1>13. o \in Pipes /\ o.data = p.data /\ o.readers = p.readers /\ o.writers = p.writers \ {q}
  <2>1. o = [p EXCEPT !.writers = p.writers \ {q}]
    BY <1>12 DEF Tell!CloseWrite
  <2>2. p.writers \ {q} \in R
    BY <1>3, <1>9
  <2> QED BY <1>1, <1>2, <2>1, <2>2, PipeEdit
<1>14. Tell!Close(p, q) = [o EXCEPT !.readers = o.readers \ {q}]
  BY <1>12 DEF Tell!Close, Tell!CloseRead
<1>15. o.readers \ {q} \in R
  BY <1>3, <1>9, <1>13
<1>16. /\ Tell!Close(p, q) \in Pipes /\ Tell!Close(p, q).data = p.data
       /\ Tell!Close(p, q).writers = p.writers \ {q}
  <2>1. PICK c : c = o.readers \ {q}
    OBVIOUS
  <2>2. c \in R /\ Tell!Close(p, q) = [o EXCEPT !.readers = c]
    BY <1>14, <1>15, <2>1
  <2>3. /\ [o EXCEPT !.readers = c] \in Pipes /\ [o EXCEPT !.readers = c].data = o.data
        /\ [o EXCEPT !.readers = c].writers = o.writers
    BY <1>2, <1>13, <2>2, PipeEdit
  <2> QED BY <1>13, <2>2, <2>3
<1> QED BY <1>1, <1>10, <1>11, <1>16, Zenon

TellTypes == pc \in [{"parent", "child"} -> TellPc] /\ pipe \in TellPipe

TellMem == mem \in Tell!Memories /\ lost \in BOOLEAN

\* The invariant without the types and what has been read.
TellCore ==
    /\ pc["parent"] \in {"shmat", "attached"} => mem = <<0, 0>>
    /\ pc["parent"] = "half" => mem = <<100, 0>>
    /\ pc["parent"] = "written" => mem = <<100, 200>>
    /\ pc["parent"] \in {"shmat", "attached", "half", "written"} =>
         pipe.data = <<>> /\ pc["child"] = "wait_pipe"
    /\ pc["child"] = "wait_pipe" => "child" \in pipe.writers
    /\ pc["child"] # "wait_pipe" \/ pipe.data # <<>> => mem = <<100, 200>>

LEMMA TellHas ==
    ASSUME Tell!IInv
    PROVE  TellTypes /\ TellMem /\ TellCore /\ Tell!ReadsBoth
BY DEF Tell!IInv, Tell!TypeOK, TellMem, TellTypes, TellCore, TellPc, TellPipe

LEMMA TellHasNext ==
    ASSUME TellTypes', TellMem', TellCore', Tell!ReadsBoth'
    PROVE  Tell!IInv'
BY DEF Tell!IInv, Tell!TypeOK, Tell!ReadsBoth, Tell!Memories, TellMem, TellTypes, TellCore, TellPc, TellPipe

LEMMA TellInit ==
    ASSUME Tell!Init
    PROVE  Tell!IInv
<1>1. /\ pc = [parent |-> "shmat", child |-> "wait_pipe"] /\ mem = <<0, 0>> /\ seen = <<>>
      /\ lost = FALSE
      /\ pipe = [data |-> <<>>, readers |-> {"parent", "child"},
                 writers |-> {"parent", "child"}]
  BY DEF Tell!Init, Tell!NewPipe
<1>2. /\ pc["parent"] = "shmat" /\ pc["child"] = "wait_pipe"
      /\ pipe.data = <<>> /\ pipe.writers = {"parent", "child"}
      /\ pc \in [{"parent", "child"} -> TellPc]
  BY <1>1 DEF TellPc
<1>3. pipe \in TellPipe
  BY <1>1 DEF TellPipe
<1>4. Tell!ReadsBoth
  BY <1>1 DEF Tell!ReadsBoth
<1> QED BY <1>1, <1>2, <1>3, <1>4 DEF Tell!IInv, Tell!TypeOK, Tell!Memories, TellPc, TellPipe

LEMMA TellParentKeeps ==
    ASSUME Tell!IInv, Tell!Parent
    PROVE  Tell!IInv'
<1>1. TellTypes /\ TellMem /\ TellCore /\ Tell!ReadsBoth
  BY TellHas
<1>2. ASSUME Tell!shmat("parent")
      PROVE  Tell!IInv'
  <2>1. /\ pc["parent"] = "shmat" /\ pc' = [pc EXCEPT !["parent"] = "attached"]
        /\ UNCHANGED <<mem, pipe, seen, lost>>
    BY <1>2 DEF Tell!shmat, Tell!Goto
  <2>2. /\ pc'["parent"] = "attached" /\ pc'["child"] = pc["child"]
        /\ pc' \in [{"parent", "child"} -> TellPc]
    BY <1>1, <2>1 DEF TellTypes, TellPc
  <2>4. TellTypes' /\ TellCore'
    BY <1>1, <2>1, <2>2 DEF TellTypes, TellCore
  <2>5. Tell!ReadsBoth' /\ TellMem'
    BY <1>1, <2>1 DEF Tell!ReadsBoth, TellMem
  <2> QED BY <2>4, <2>5, TellHasNext
<1>3. ASSUME Tell!shmatFails("parent")
      PROVE  Tell!IInv'
  <2>1. /\ pc["parent"] = "shmat" /\ pc' = [pc EXCEPT !["parent"] = "ended"]
        /\ pipe' = Tell!Close(pipe, "parent") /\ UNCHANGED <<mem, seen>>
        /\ lost' \in BOOLEAN
    BY <1>3 DEF Tell!shmatFails, Tell!Goto
  <2>2. /\ pc'["parent"] = "ended" /\ pc'["child"] = pc["child"]
        /\ pc' \in [{"parent", "child"} -> TellPc]
    BY <1>1, <2>1 DEF TellTypes, TellPc
  <2>3. /\ pipe' \in TellPipe /\ pipe'.data = pipe.data /\ pipe'.writers = pipe.writers \ {"parent"}
    BY <1>1, <2>1, TellPipeChanges DEF TellTypes
  <2>4. TellTypes' /\ TellCore'
    BY <1>1, <2>1, <2>2, <2>3 DEF TellTypes, TellCore
  <2>5. Tell!ReadsBoth' /\ TellMem'
    BY <1>1, <2>1 DEF Tell!ReadsBoth, TellMem
  <2> QED BY <2>4, <2>5, TellHasNext
<1>4. ASSUME Tell!write, pc["parent"] = "attached", UNCHANGED <<pipe, seen, lost>>
      PROVE  Tell!IInv'
  <2>1. /\ pc["parent"] = "attached" /\ pc' = [pc EXCEPT !["parent"] = "half"]
        /\ mem' = [mem EXCEPT ![1] = 100] /\ UNCHANGED <<pipe, seen, lost>>
    BY <1>4 DEF Tell!write, Tell!Goto
  <2>2. /\ pc'["parent"] = "half" /\ pc'["child"] = pc["child"]
        /\ pc' \in [{"parent", "child"} -> TellPc]
    BY <1>1, <2>1 DEF TellTypes, TellPc
  <2>3. mem' = <<100, 0>>
    <3>1. mem = <<0, 0>>
      BY <1>1, <2>1 DEF TellCore
    <3> QED BY <2>1, <3>1
  <2>4. TellTypes' /\ TellCore'
    BY <1>1, <2>1, <2>2, <2>3 DEF TellTypes, TellCore
  <2>5. Tell!ReadsBoth' /\ TellMem'
    BY <1>1, <2>1, <2>3 DEF Tell!ReadsBoth, TellMem, Tell!Memories
  <2> QED BY <2>4, <2>5, TellHasNext
<1>5. ASSUME Tell!write, pc["parent"] # "attached", UNCHANGED <<pipe, seen, lost>>
      PROVE  Tell!IInv'
  <2>1. /\ pc["parent"] = "half" /\ pc' = [pc EXCEPT !["parent"] = "written"]
        /\ mem' = [mem EXCEPT ![2] = 200] /\ UNCHANGED <<pipe, seen, lost>>
    BY <1>5 DEF Tell!write, Tell!Goto
  <2>2. /\ pc'["parent"] = "written" /\ pc'["child"] = pc["child"]
        /\ pc' \in [{"parent", "child"} -> TellPc]
    BY <1>1, <2>1 DEF TellTypes, TellPc
  <2>3. mem' = <<100, 200>>
    <3>1. mem = <<100, 0>>
      BY <1>1, <2>1 DEF TellCore
    <3> QED BY <2>1, <3>1
  <2>4. TellTypes' /\ TellCore'
    BY <1>1, <2>1, <2>2, <2>3 DEF TellTypes, TellCore
  <2>5. Tell!ReadsBoth' /\ TellMem'
    BY <1>1, <2>1, <2>3 DEF Tell!ReadsBoth, TellMem, Tell!Memories
  <2> QED BY <2>4, <2>5, TellHasNext
<1>6. ASSUME Tell!notify_pipe
      PROVE  Tell!IInv'
  <2>1. /\ pc["parent"] = "written" /\ pc' = [pc EXCEPT !["parent"] = "told"]
        /\ pipe' = Tell!Write(pipe, "a") /\ UNCHANGED <<mem, seen, lost>>
    BY <1>6 DEF Tell!notify_pipe, Tell!Goto
  <2>2. /\ pc'["parent"] = "told" /\ pc'["child"] = pc["child"]
        /\ pc' \in [{"parent", "child"} -> TellPc]
    BY <1>1, <2>1 DEF TellTypes, TellPc
  <2>3. pipe' \in TellPipe /\ pipe'.writers = pipe.writers
    BY <1>1, <2>1, TellPipeChanges DEF TellTypes
  <2>4. TellTypes' /\ TellCore'
    BY <1>1, <2>1, <2>2, <2>3 DEF TellTypes, TellCore
  <2>5. Tell!ReadsBoth' /\ TellMem'
    BY <1>1, <2>1 DEF Tell!ReadsBoth, TellMem
  <2> QED BY <2>4, <2>5, TellHasNext
<1>7. ASSUME Tell!parentDestroy
      PROVE  Tell!IInv'
  <2>1. /\ pc["parent"] = "told" /\ pc' = [pc EXCEPT !["parent"] = "wait"]
        /\ pipe' = Tell!Close(pipe, "parent") /\ UNCHANGED <<mem, seen, lost>>
    BY <1>7 DEF Tell!parentDestroy, Tell!Goto
  <2>2. /\ pc'["parent"] = "wait" /\ pc'["child"] = pc["child"]
        /\ pc' \in [{"parent", "child"} -> TellPc]
    BY <1>1, <2>1 DEF TellTypes, TellPc
  <2>3. /\ pipe' \in TellPipe /\ pipe'.data = pipe.data /\ pipe'.writers = pipe.writers \ {"parent"}
    BY <1>1, <2>1, TellPipeChanges DEF TellTypes
  <2>4. TellTypes' /\ TellCore'
    BY <1>1, <2>1, <2>2, <2>3 DEF TellTypes, TellCore
  <2>5. Tell!ReadsBoth' /\ TellMem'
    BY <1>1, <2>1 DEF Tell!ReadsBoth, TellMem
  <2> QED BY <2>4, <2>5, TellHasNext
<1>8. ASSUME Tell!wait
      PROVE  Tell!IInv'
  <2>1. /\ pc["parent"] = "wait" /\ pc' = [pc EXCEPT !["parent"] = "ended"]
        /\ UNCHANGED <<mem, pipe, seen, lost>>
    BY <1>8 DEF Tell!wait, Tell!Goto
  <2>2. /\ pc'["parent"] = "ended" /\ pc'["child"] = pc["child"]
        /\ pc' \in [{"parent", "child"} -> TellPc]
    BY <1>1, <2>1 DEF TellTypes, TellPc
  <2>4. TellTypes' /\ TellCore'
    BY <1>1, <2>1, <2>2 DEF TellTypes, TellCore
  <2>5. Tell!ReadsBoth' /\ TellMem'
    BY <1>1, <2>1 DEF Tell!ReadsBoth, TellMem
  <2> QED BY <2>4, <2>5, TellHasNext
<1>9. Tell!write => pc["parent"] = "attached" \/ pc["parent"] # "attached"
  OBVIOUS
<1> QED BY <1>2, <1>3, <1>4, <1>5, <1>6, <1>7, <1>8, <1>9 DEF Tell!Parent

LEMMA TellChildKeeps ==
    ASSUME Tell!IInv, Tell!Child
    PROVE  Tell!IInv'
<1>1. TellTypes /\ TellMem /\ TellCore /\ Tell!ReadsBoth
  BY TellHas
<1>2. ASSUME Tell!wait_pipe
      PROVE  Tell!IInv'
  <2>1. /\ pc["child"] = "wait_pipe" /\ pc' = [pc EXCEPT !["child"] = "shmat"]
        /\ pipe.data # <<>> \/ pipe.writers = {}
        /\ pipe' = Tell!AfterRead(pipe) /\ UNCHANGED <<mem, seen, lost>>
    BY <1>2 DEF Tell!wait_pipe, Tell!Goto, Tell!CanRead
  <2>2. /\ pc'["child"] = "shmat" /\ pc'["parent"] = pc["parent"]
        /\ pc' \in [{"parent", "child"} -> TellPc]
    BY <1>1, <2>1 DEF TellTypes, TellPc
  <2>3. pipe' \in TellPipe /\ pipe'.writers = pipe.writers
    BY <1>1, <2>1, TellPipeChanges DEF TellTypes
  <2>4. TellTypes' /\ TellCore'
    BY <1>1, <2>1, <2>2, <2>3 DEF TellTypes, TellCore
  <2>5. Tell!ReadsBoth' /\ TellMem'
    BY <1>1, <2>1 DEF Tell!ReadsBoth, TellMem
  <2> QED BY <2>4, <2>5, TellHasNext
<1>3. ASSUME Tell!shmat("child")
      PROVE  Tell!IInv'
  <2>1. /\ pc["child"] = "shmat" /\ pc' = [pc EXCEPT !["child"] = "attached"]
        /\ UNCHANGED <<mem, pipe, seen, lost>>
    BY <1>3 DEF Tell!shmat, Tell!Goto
  <2>2. /\ pc'["child"] = "attached" /\ pc'["parent"] = pc["parent"]
        /\ pc' \in [{"parent", "child"} -> TellPc]
    BY <1>1, <2>1 DEF TellTypes, TellPc
  <2>4. TellTypes' /\ TellCore'
    BY <1>1, <2>1, <2>2 DEF TellTypes, TellCore
  <2>5. Tell!ReadsBoth' /\ TellMem'
    BY <1>1, <2>1 DEF Tell!ReadsBoth, TellMem
  <2> QED BY <2>4, <2>5, TellHasNext
<1>4. ASSUME Tell!shmatFails("child")
      PROVE  Tell!IInv'
  <2>1. /\ pc["child"] = "shmat" /\ pc' = [pc EXCEPT !["child"] = "ended"]
        /\ pipe' = Tell!Close(pipe, "child") /\ UNCHANGED <<mem, seen>>
        /\ lost' \in BOOLEAN
    BY <1>4 DEF Tell!shmatFails, Tell!Goto
  <2>2. /\ pc'["child"] = "ended" /\ pc'["parent"] = pc["parent"]
        /\ pc' \in [{"parent", "child"} -> TellPc]
    BY <1>1, <2>1 DEF TellTypes, TellPc
  <2>3. /\ pipe' \in TellPipe /\ pipe'.data = pipe.data /\ pipe'.writers = pipe.writers \ {"child"}
    BY <1>1, <2>1, TellPipeChanges DEF TellTypes
  <2>4. TellTypes' /\ TellCore'
    BY <1>1, <2>1, <2>2, <2>3 DEF TellTypes, TellCore
  <2>5. Tell!ReadsBoth' /\ TellMem'
    BY <1>1, <2>1 DEF Tell!ReadsBoth, TellMem
  <2> QED BY <2>4, <2>5, TellHasNext
<1>5. ASSUME Tell!print
      PROVE  Tell!IInv'
  <2>1. /\ pc["child"] = "attached" /\ pc' = [pc EXCEPT !["child"] = "printed"]
        /\ seen' = mem /\ UNCHANGED <<mem, pipe, lost>>
    BY <1>5 DEF Tell!print, Tell!Goto
  <2>2. /\ pc'["child"] = "printed" /\ pc'["parent"] = pc["parent"]
        /\ pc' \in [{"parent", "child"} -> TellPc]
    BY <1>1, <2>1 DEF TellTypes, TellPc
  <2>4. TellTypes' /\ TellCore'
    BY <1>1, <2>1, <2>2 DEF TellTypes, TellCore
  <2>5. Tell!ReadsBoth' /\ TellMem'
    BY <1>1, <2>1 DEF Tell!ReadsBoth, TellMem, TellCore
  <2> QED BY <2>4, <2>5, TellHasNext
<1>6. ASSUME Tell!childDestroy
      PROVE  Tell!IInv'
  <2>1. /\ pc["child"] = "printed" /\ pc' = [pc EXCEPT !["child"] = "ended"]
        /\ pipe' = Tell!Close(pipe, "child") /\ UNCHANGED <<mem, seen, lost>>
    BY <1>6 DEF Tell!childDestroy, Tell!Goto
  <2>2. /\ pc'["child"] = "ended" /\ pc'["parent"] = pc["parent"]
        /\ pc' \in [{"parent", "child"} -> TellPc]
    BY <1>1, <2>1 DEF TellTypes, TellPc
  <2>3. /\ pipe' \in TellPipe /\ pipe'.data = pipe.data /\ pipe'.writers = pipe.writers \ {"child"}
    BY <1>1, <2>1, TellPipeChanges DEF TellTypes
  <2>4. TellTypes' /\ TellCore'
    BY <1>1, <2>1, <2>2, <2>3 DEF TellTypes, TellCore
  <2>5. Tell!ReadsBoth' /\ TellMem'
    BY <1>1, <2>1 DEF Tell!ReadsBoth, TellMem
  <2> QED BY <2>4, <2>5, TellHasNext
<1> QED BY <1>2, <1>3, <1>4, <1>5, <1>6 DEF Tell!Child

-----------------------------------------------------------------------------
(* co_process: the sum that add returns.                                     *)

CoPc ==
    {"close", "x", "y", "read", "printed", "wait", "ended", "exec", "add", "written"}

CoPipe ==
    [data : Seq(Int), readers : SUBSET {"parent", "child"},
     writers : SUBSET {"parent", "child"}]

\* What the operations of a pipe do to what is in it and to its ends.
LEMMA CoPipeChanges ==
    ASSUME NEW p \in CoPipe, NEW q \in {"parent", "child"}, NEW n \in Int
    PROVE  /\ Co!Write(p, n) \in CoPipe /\ Co!Write(p, n).data = Append(p.data, n)
           /\ Co!Write(p, n).readers = p.readers /\ Co!Write(p, n).writers = p.writers
           /\ Co!CloseRead(p, q) \in CoPipe /\ Co!CloseRead(p, q).data = p.data
           /\ Co!CloseRead(p, q).readers = p.readers \ {q}
           /\ Co!CloseRead(p, q).writers = p.writers
           /\ Co!CloseWrite(p, q) \in CoPipe /\ Co!CloseWrite(p, q).data = p.data
           /\ Co!CloseWrite(p, q).readers = p.readers
           /\ Co!CloseWrite(p, q).writers = p.writers \ {q}
           /\ Co!Close(p, q) \in CoPipe /\ Co!Close(p, q).data = p.data
           /\ Co!Close(p, q).readers = p.readers \ {q}
           /\ Co!Close(p, q).writers = p.writers \ {q}
           /\ p.data # <<>> =>
                /\ Co!AfterRead(p) \in CoPipe /\ Co!AfterRead(p).data = Tail(p.data)
                /\ Co!AfterRead(p).readers = p.readers /\ Co!AfterRead(p).writers = p.writers
<1> DEFINE D == Seq(Int)
           R == SUBSET {"parent", "child"}
           Pipes == [data : D, readers : R, writers : R]
<1>1. CoPipe = Pipes
  BY DEF CoPipe
<1>2. <<>> \in D /\ {} \in R
  OBVIOUS
<1>3. \A c \in R : c \ {q} \in R
  OBVIOUS
<1>4. \A e \in D : Append(e, n) \in D /\ (e # <<>> => Tail(e) \in D)
  OBVIOUS
<1> HIDE DEF D, R
<1>5. ASSUME NEW o \in Pipes
      PROVE  o.data \in D /\ o.readers \in R /\ o.writers \in R
  BY <1>2, PipeEdit
<1>6. ASSUME NEW o \in Pipes, NEW d \in D
      PROVE  /\ [o EXCEPT !.data = d] \in Pipes /\ [o EXCEPT !.data = d].data = d
             /\ [o EXCEPT !.data = d].readers = o.readers
             /\ [o EXCEPT !.data = d].writers = o.writers
  BY <1>2, PipeEdit
<1>7. ASSUME NEW o \in Pipes, NEW c, c = o.readers \ {q}
      PROVE  /\ [o EXCEPT !.readers = c] \in Pipes /\ [o EXCEPT !.readers = c].data = o.data
             /\ [o EXCEPT !.readers = c].readers = c
             /\ [o EXCEPT !.readers = c].writers = o.writers
  <2>1. c \in R
    BY <1>3, <1>5, <1>7
  <2> QED BY <1>2, <2>1, PipeEdit
<1>8. ASSUME NEW o \in Pipes, NEW c, c = o.writers \ {q}
      PROVE  /\ [o EXCEPT !.writers = c] \in Pipes /\ [o EXCEPT !.writers = c].data = o.data
             /\ [o EXCEPT !.writers = c].readers = o.readers
             /\ [o EXCEPT !.writers = c].writers = c
  <2>1. c \in R
    BY <1>3, <1>5, <1>8
  <2> QED BY <1>2, <2>1, PipeEdit
<1>9. ASSUME NEW o \in Pipes
      PROVE  /\ Co!CloseRead(o, q) \in Pipes /\ Co!CloseRead(o, q).data = o.data
             /\ Co!CloseRead(o, q).readers = o.readers \ {q}
             /\ Co!CloseRead(o, q).writers = o.writers
  <2>1. PICK c : c = o.readers \ {q}
    OBVIOUS
  <2>2. Co!CloseRead(o, q) = [o EXCEPT !.readers = c]
    BY <2>1 DEF Co!CloseRead
  <2>3. /\ [o EXCEPT !.readers = c] \in Pipes /\ [o EXCEPT !.readers = c].data = o.data
        /\ [o EXCEPT !.readers = c].readers = c
        /\ [o EXCEPT !.readers = c].writers = o.writers
    BY <1>7, <2>1
  <2> QED BY <2>1, <2>2, <2>3
<1>10. ASSUME NEW o \in Pipes
       PROVE  /\ Co!CloseWrite(o, q) \in Pipes /\ Co!CloseWrite(o, q).data = o.data
              /\ Co!CloseWrite(o, q).readers = o.readers
              /\ Co!CloseWrite(o, q).writers = o.writers \ {q}
  <2>1. PICK c : c = o.writers \ {q}
    OBVIOUS
  <2>2. Co!CloseWrite(o, q) = [o EXCEPT !.writers = c]
    BY <2>1 DEF Co!CloseWrite
  <2>3. /\ [o EXCEPT !.writers = c] \in Pipes /\ [o EXCEPT !.writers = c].data = o.data
        /\ [o EXCEPT !.writers = c].readers = o.readers
        /\ [o EXCEPT !.writers = c].writers = c
    BY <1>8, <2>1
  <2> QED BY <2>1, <2>2, <2>3
<1>11. PICK o : o = Co!CloseWrite(p, q)
  OBVIOUS
<1>12. o \in Pipes /\ o.data = p.data /\ o.readers = p.readers /\ o.writers = p.writers \ {q}
  BY <1>1, <1>10, <1>11
<1>13. /\ Co!Close(p, q) \in Pipes /\ Co!Close(p, q).data = p.data
       /\ Co!Close(p, q).readers = p.readers \ {q}
       /\ Co!Close(p, q).writers = p.writers \ {q}
  <2>1. Co!Close(p, q) = Co!CloseRead(o, q)
    BY <1>11 DEF Co!Close
  <2>2. /\ Co!CloseRead(o, q) \in Pipes /\ Co!CloseRead(o, q).data = o.data
        /\ Co!CloseRead(o, q).readers = o.readers \ {q}
        /\ Co!CloseRead(o, q).writers = o.writers
    BY <1>9, <1>12
  <2> QED BY <1>12, <2>1, <2>2
<1>14. p.data \in D
  BY <1>1, <1>5
<1>15. /\ Co!Write(p, n) \in Pipes /\ Co!Write(p, n).data = Append(p.data, n)
       /\ Co!Write(p, n).readers = p.readers /\ Co!Write(p, n).writers = p.writers
  <2>1. PICK e : e = Append(p.data, n)
    OBVIOUS
  <2>2. e \in D
    BY <1>4, <1>14, <2>1
  <2>3. Co!Write(p, n) = [p EXCEPT !.data = e]
    BY <2>1 DEF Co!Write
  <2> QED BY <1>1, <1>6, <2>1, <2>2, <2>3
<1>16. ASSUME p.data # <<>>
       PROVE  /\ Co!AfterRead(p) \in Pipes /\ Co!AfterRead(p).data = Tail(p.data)
              /\ Co!AfterRead(p).readers = p.readers /\ Co!AfterRead(p).writers = p.writers
  <2>1. PICK e : e = Tail(p.data)
    OBVIOUS
  <2>2. e \in D
    BY <1>4, <1>14, <1>16, <2>1
  <2>3. Co!AfterRead(p) = [p EXCEPT !.data = e]
    BY <1>16, <2>1 DEF Co!AfterRead
  <2> QED BY <1>1, <1>6, <2>1, <2>2, <2>3
<1>17. /\ Co!CloseRead(p, q) \in Pipes /\ Co!CloseRead(p, q).data = p.data
       /\ Co!CloseRead(p, q).readers = p.readers \ {q}
       /\ Co!CloseRead(p, q).writers = p.writers
  BY <1>1, <1>9
<1> QED BY <1>1, <1>11, <1>12, <1>13, <1>15, <1>16, <1>17, Zenon

LEMMA CoWrites ==
    ASSUME NEW p \in CoPipe, NEW n \in Int
    PROVE  /\ Co!Write(p, n) \in CoPipe /\ Co!Write(p, n).data = Append(p.data, n)
           /\ Co!Write(p, n).readers = p.readers /\ Co!Write(p, n).writers = p.writers
<1>1. "child" \in {"parent", "child"}
  OBVIOUS
<1> QED BY <1>1, CoPipeChanges

\* The sequences that the numbers pass through.
LEMMA CoSequences ==
    /\ Append(<<>>, 1) = <<1>> /\ Append(<<1>>, 2) = <<1, 2>> /\ Append(<<>>, 2) = <<2>>
    /\ Head(<<1>>) = 1 /\ Tail(<<1>>) = <<>>
    /\ Head(<<1, 2>>) = 1 /\ Tail(<<1, 2>>) = <<2>>
    /\ Head(<<2>>) = 2 /\ Tail(<<2>>) = <<>>
    /\ Len(<<>>) = 0 /\ Len(<<1>>) = 1
<1>1. Append(<<>>, 1) = <<1>> /\ Append(<<>>, 2) = <<2>>
  OBVIOUS
<1>2. Append(<<1>>, 2) = <<1, 2>>
  <2>1. <<1>> \in Seq(Int) /\ <<1, 2>> \in Seq(Int) /\ 2 \in Int
    OBVIOUS
  <2>2. PICK s : s = Append(<<1>>, 2)
    OBVIOUS
  <2>3. s \in Seq(Int) /\ Len(s) = 2 /\ s[1] = 1 /\ s[2] = 2
    BY <2>1, <2>2
  <2>4. Len(<<1, 2>>) = 2 /\ <<1, 2>>[1] = 1 /\ <<1, 2>>[2] = 2
    OBVIOUS
  <2>5. \A k \in 1..Len(s) : s[k] = <<1, 2>>[k]
    BY <2>3, <2>4
  <2>6. s = <<1, 2>>
    BY <2>1, <2>3, <2>4, <2>5, SeqEqual
  <2> QED BY <2>2, <2>6
<1>3. Head(<<1>>) = 1 /\ Head(<<1, 2>>) = 1 /\ Head(<<2>>) = 2
  OBVIOUS
<1>4. Tail(<<1>>) = <<>> /\ Tail(<<2>>) = <<>>
  OBVIOUS
<1>5. Tail(<<1, 2>>) = <<2>>
  OBVIOUS
<1>6. Len(<<>>) = 0 /\ Len(<<1>>) = 1
  OBVIOUS
<1> QED BY <1>1, <1>2, <1>3, <1>4, <1>5, <1>6

CoTypes ==
    /\ pc \in [{"parent", "child"} -> CoPc]
    /\ pc["parent"] \in {"close", "x", "y", "read", "printed", "wait", "ended"}
    /\ pc["child"] \in {"close", "exec", "add", "written", "ended"}

\* What pipe a and the arguments of add hold, as cases.
CoSent ==
    /\ pc["parent"] \in {"close", "x"} => args = <<>> /\ pipe.a.data = <<>>
    /\ pc["parent"] = "y" =>
         \/ args = <<>> /\ pipe.a.data = <<1>>
         \/ args = <<1>> /\ pipe.a.data = <<>>
    /\ pc["parent"] \notin {"close", "x", "y"} =>
         \/ args = <<>> /\ pipe.a.data = <<1, 2>>
         \/ args = <<1>> /\ pipe.a.data = <<2>>
         \/ args = <<1, 2>> /\ pipe.a.data = <<>>

CoCore ==
    /\ CoSent
    /\ pc["child"] \in {"close", "exec"} => args = <<>>
    /\ pc["child"] \in {"written", "ended"} => args = <<1, 2>>
    /\ pc["child"] # "ended" => "child" \in pipe.a.readers /\ "child" \in pipe.b.writers
    /\ pc["parent"] \in {"close", "x", "y", "read"} =>
         seen = <<>> /\ "parent" \in pipe.a.writers
    /\ pc["parent"] \in {"printed", "wait", "ended"} =>
         seen = <<3>> /\ pc["child"] \in {"written", "ended"}
    /\ pc["parent"] \in {"close", "x", "y", "read"} =>
         pipe.b.data = IF pc["child"] \in {"written", "ended"} THEN <<3>> ELSE <<>>

CoPipes == pipe = [a |-> pipe.a, b |-> pipe.b] /\ pipe.a \in CoPipe /\ pipe.b \in CoPipe

\* What holds with an add, and what holds without one.
CoRest == (lost => Co!WithoutAdd) /\ (~lost => CoCore)

LEMMA CoHas ==
    ASSUME Co!IInv
    PROVE  CoTypes /\ CoPipes /\ lost \in BOOLEAN /\ CoRest
<1>1. CoTypes
  <2>1. /\ pc = [p \in {"parent", "child"} |-> pc[p]]
        /\ pc["parent"] \in CoPc /\ pc["child"] \in CoPc
    BY DEF Co!IInv, Co!TypeOK, Co!Procs, CoPc
  <2>2. pc \in [{"parent", "child"} -> CoPc]
    BY <2>1
  <2> QED BY <2>2 DEF Co!IInv, Co!TypeOK, CoTypes
<1>2. CoPipes /\ lost \in BOOLEAN
  BY DEF Co!IInv, Co!TypeOK, Co!PipeSet, Co!Procs, CoPipes, CoPipe
<1>3. ASSUME Co!WithAdd
      PROVE  CoCore
  <2>1. CoSent
    BY <1>1, <1>3 DEF CoTypes, Co!WithAdd, Co!Sent, CoSent
  <2>2. 1 + 2 = 3
    OBVIOUS
  <2> QED BY <1>3, <2>1, <2>2 DEF Co!WithAdd, CoCore
<1> QED BY <1>1, <1>2, <1>3 DEF Co!IInv, CoRest

LEMMA CoHasNext ==
    ASSUME CoTypes', CoPipes', lost' \in BOOLEAN, CoRest'
    PROVE  Co!IInv'
<1>1. /\ pc' = [p \in {"parent", "child"} |-> pc'[p]]
      /\ pc'["parent"] \in {"close", "x", "y", "read", "printed", "wait", "ended"}
      /\ pc'["child"] \in {"close", "exec", "add", "written", "ended"}
  BY DEF CoTypes
<1>2. ASSUME CoCore'
      PROVE  Co!WithAdd' /\ args' \in Seq(Int) /\ seen' \in {<<>>, <<3>>}
  <2>1. <<args', pipe'.a.data>> \in Co!Sent'
    BY <1>1, <1>2 DEF CoCore, CoSent, Co!Sent
  <2>2. 1 + 2 = 3
    OBVIOUS
  <2>3. args' \in {<<>>, <<1>>, <<1, 2>>}
    BY <1>1, <1>2 DEF CoCore, CoSent
  <2>4. seen' \in {<<>>, <<3>>}
    BY <1>1, <1>2 DEF CoCore
  <2>5. Co!WithAdd'
    BY <1>2, <2>1, <2>2 DEF Co!WithAdd, CoCore
  <2>6. <<>> \in Seq(Int) /\ <<1>> \in Seq(Int) /\ <<1, 2>> \in Seq(Int)
    OBVIOUS
  <2>7. args' \in Seq(Int)
    BY <2>3, <2>6
  <2> QED BY <2>4, <2>5, <2>7
<1>3. ASSUME Co!WithoutAdd'
      PROVE  args' \in Seq(Int) /\ seen' \in {<<>>, <<NULL>>}
  BY <1>3 DEF Co!WithoutAdd
<1>4. <<>> \in Seq(Int \cup {NULL}) /\ <<3>> \in Seq(Int \cup {NULL}) /\ <<NULL>> \in Seq(Int \cup {NULL})
  OBVIOUS
<1>5. lost' => Co!WithoutAdd'
  BY DEF CoRest
<1>6. ~lost' => CoCore'
  BY DEF CoRest
<1>7. args' \in Seq(Int) /\ seen' \in Seq(Int \cup {NULL})
  BY <1>2, <1>3, <1>4, <1>5, <1>6
<1>8. Co!TypeOK'
  BY <1>1, <1>7 DEF Co!TypeOK, Co!PipeSet, Co!Procs, CoPipes, CoPipe
<1> QED BY <1>2, <1>5, <1>6, <1>8 DEF Co!IInv

LEMMA CoInit ==
    ASSUME Co!Init
    PROVE  Co!IInv
<1> DEFINE new == [data |-> <<>>, readers |-> {"parent", "child"},
                   writers |-> {"parent", "child"}]
<1>1. /\ pc = [parent |-> "close", child |-> "close"] /\ args = <<>> /\ seen = <<>>
      /\ lost = FALSE
      /\ pipe = [a |-> new, b |-> new]
  BY DEF Co!Init, Co!Procs, Co!NewPipe
<1>2. /\ new \in [data : Seq(Int), readers : SUBSET {"parent", "child"},
                 writers : SUBSET {"parent", "child"}]
      /\ new.data = <<>> /\ new.readers = {"parent", "child"}
      /\ new.writers = {"parent", "child"}
  OBVIOUS
<1> HIDE DEF new
<1>3. /\ pc["parent"] = "close" /\ pc["child"] = "close"
      /\ pc = [p \in {"parent", "child"} |-> pc[p]]
      /\ pipe.a = new /\ pipe.b = new /\ pipe = [a |-> pipe.a, b |-> pipe.b]
  BY <1>1
<1>4. <<args, pipe.a.data>> \in Co!Sent
  BY <1>1, <1>2, <1>3 DEF Co!Sent
<1>5. Co!WithAdd
  BY <1>1, <1>2, <1>3, <1>4 DEF Co!WithAdd
<1>6. args \in Seq(Int) /\ seen \in Seq(Int \cup {NULL}) /\ lost \in BOOLEAN
  <2>1. \A S : <<>> \in Seq(S)
    OBVIOUS
  <2> QED BY <1>1, <2>1
<1>7. new \in Co!PipeSet
  BY <1>2 DEF Co!PipeSet, Co!Procs
<1>8. Co!TypeOK
  BY <1>3, <1>6, <1>7 DEF Co!TypeOK, Co!Procs
<1> QED BY <1>1, <1>5, <1>8 DEF Co!IInv

LEMMA CoParentKeeps ==
    ASSUME Co!IInv, Co!Parent
    PROVE  Co!IInv'
<1> USE DEF CoPc
<1>1. CoTypes /\ CoPipes /\ lost \in BOOLEAN /\ CoRest
  BY CoHas
<1>2. ASSUME CoTypes', CoPipes', UNCHANGED lost,
             lost => Co!WithoutAdd', ~lost => CoCore'
      PROVE  Co!IInv'
  <2>1. CoRest' /\ lost' \in BOOLEAN
    BY <1>1, <1>2 DEF CoRest
  <2> QED BY <1>2, <2>1, CoHasNext
<1>3. ASSUME Co!parentCloses
      PROVE  Co!IInv'
  <2>1. /\ pc["parent"] = "close" /\ pc' = [pc EXCEPT !["parent"] = "x"]
        /\ pipe' = [a |-> Co!CloseRead(pipe.a, "parent"), b |-> Co!CloseWrite(pipe.b, "parent")]
        /\ UNCHANGED <<args, seen, lost>>
    BY <1>3 DEF Co!parentCloses, Co!Goto
  <2>2. /\ pc'["parent"] = "x" /\ pc'["child"] = pc["child"]
        /\ pc' \in [{"parent", "child"} -> CoPc]
    BY <1>1, <2>1 DEF CoTypes
  <2>3. CoTypes'
    BY <1>1, <2>2 DEF CoTypes
  <2>4. /\ CoPipes'
        /\ pipe'.a.data = pipe.a.data
        /\ pipe'.a.readers = pipe.a.readers \ {"parent"}
        /\ pipe'.a.writers = pipe.a.writers
        /\ pipe'.b.data = pipe.b.data
        /\ pipe'.b.readers = pipe.b.readers
        /\ pipe'.b.writers = pipe.b.writers \ {"parent"}
    <3>1. pipe'.a = Co!CloseRead(pipe.a, "parent") /\ pipe'.b = Co!CloseWrite(pipe.b, "parent")
      BY <2>1
    <3>2. pipe' = [a |-> pipe'.a, b |-> pipe'.b]
      BY <2>1, <3>1
    <3> QED BY <1>1, <3>1, <3>2, CoPipeChanges DEF CoPipes
  <2>5. ASSUME lost
        PROVE  Co!WithoutAdd'
    BY <1>1, <2>1, <2>2, <2>4, <2>5 DEF CoRest, Co!WithoutAdd
  <2>6. ASSUME ~lost
        PROVE  CoCore'
    <3>1. CoCore /\ CoSent
      BY <1>1, <2>6 DEF CoRest, CoCore
    <3>8. CoSent'
      BY <2>1, <2>2, <3>1, <2>4 DEF CoTypes, CoCore, CoSent
    <3>9. CoCore'
      BY <1>1, <2>1, <2>2, <3>1, <2>4, <3>8 DEF CoTypes, CoCore
    <3> QED BY <3>9
  <2> QED BY <1>2, <2>1, <2>3, <2>4, <2>5, <2>6
<1>4. ASSUME Co!parentWrites("x", "y", 1)
      PROVE  Co!IInv'
  <2>1. /\ pc["parent"] = "x" /\ pc' = [pc EXCEPT !["parent"] = "y"]
        /\ pipe' = [pipe EXCEPT !.a = Co!Write(@, 1)] /\ UNCHANGED <<args, seen, lost>>
    BY <1>4 DEF Co!parentWrites, Co!Goto
  <2>2. /\ pc'["parent"] = "y" /\ pc'["child"] = pc["child"]
        /\ pc' \in [{"parent", "child"} -> CoPc]
    BY <1>1, <2>1 DEF CoTypes
  <2>3. CoTypes'
    BY <1>1, <2>2 DEF CoTypes
  <2>4. /\ CoPipes' /\ pipe'.b = pipe.b
        /\ pipe'.a.data = Append(pipe.a.data, 1)
        /\ pipe'.a.readers = pipe.a.readers
        /\ pipe'.a.writers = pipe.a.writers
    <3>1. pipe' = [a |-> Co!Write(pipe.a, 1), b |-> pipe.b]
      BY <2>1, <1>1 DEF CoPipes
    <3>2. pipe'.a = Co!Write(pipe.a, 1) /\ pipe'.b = pipe.b /\ pipe' = [a |-> pipe'.a, b |-> pipe'.b]
      BY <3>1
    <3> QED BY <1>1, CoWrites, <3>2, CoPipeChanges, 1 \in Int, 2 \in Int, 3 \in Int DEF CoPipes
  <2>5. ASSUME lost
        PROVE  Co!WithoutAdd'
    BY <1>1, <2>1, <2>2, <2>4, <2>5 DEF CoRest, Co!WithoutAdd
  <2>6. ASSUME ~lost
        PROVE  CoCore'
    <3>1. CoCore /\ CoSent
      BY <1>1, <2>6 DEF CoRest, CoCore
    <3>3. args = <<>> /\ pipe.a.data = <<>> /\ pipe'.a.data = <<1>>
      <4>1. args = <<>> /\ pipe.a.data = <<>>
        BY <2>1, <3>1 DEF CoSent
      <4> QED BY <2>4, <4>1
    <3>8. CoSent'
      BY <2>1, <2>2, <3>1, <2>4, <3>3 DEF CoTypes, CoCore, CoSent
    <3>9. CoCore'
      BY <1>1, <2>1, <2>2, <3>1, <2>4, <3>8, <3>3 DEF CoTypes, CoCore
    <3> QED BY <3>9
  <2> QED BY <1>2, <2>1, <2>3, <2>4, <2>5, <2>6
<1>5. ASSUME Co!parentWrites("y", "read", 2)
      PROVE  Co!IInv'
  <2>1. /\ pc["parent"] = "y" /\ pc' = [pc EXCEPT !["parent"] = "read"]
        /\ pipe' = [pipe EXCEPT !.a = Co!Write(@, 2)] /\ UNCHANGED <<args, seen, lost>>
    BY <1>5 DEF Co!parentWrites, Co!Goto
  <2>2. /\ pc'["parent"] = "read" /\ pc'["child"] = pc["child"]
        /\ pc' \in [{"parent", "child"} -> CoPc]
    BY <1>1, <2>1 DEF CoTypes
  <2>3. CoTypes'
    BY <1>1, <2>2 DEF CoTypes
  <2>4. /\ CoPipes' /\ pipe'.b = pipe.b
        /\ pipe'.a.data = Append(pipe.a.data, 2)
        /\ pipe'.a.readers = pipe.a.readers
        /\ pipe'.a.writers = pipe.a.writers
    <3>1. pipe' = [a |-> Co!Write(pipe.a, 2), b |-> pipe.b]
      BY <2>1, <1>1 DEF CoPipes
    <3>2. pipe'.a = Co!Write(pipe.a, 2) /\ pipe'.b = pipe.b /\ pipe' = [a |-> pipe'.a, b |-> pipe'.b]
      BY <3>1
    <3> QED BY <1>1, CoWrites, <3>2, CoPipeChanges, 1 \in Int, 2 \in Int, 3 \in Int DEF CoPipes
  <2>5. ASSUME lost
        PROVE  Co!WithoutAdd'
    BY <1>1, <2>1, <2>2, <2>4, <2>5 DEF CoRest, Co!WithoutAdd
  <2>6. ASSUME ~lost
        PROVE  CoCore'
    <3>1. CoCore /\ CoSent
      BY <1>1, <2>6 DEF CoRest, CoCore
    <3>3. \/ args = <<>> /\ pipe.a.data = <<1>> /\ pipe'.a.data = <<1, 2>>
          \/ args = <<1>> /\ pipe.a.data = <<>> /\ pipe'.a.data = <<2>>
      <4>1. \/ args = <<>> /\ pipe.a.data = <<1>>
            \/ args = <<1>> /\ pipe.a.data = <<>>
        BY <2>1, <3>1 DEF CoSent
      <4> QED BY <2>4, <4>1, CoSequences
    <3>8. CoSent'
      BY <2>1, <2>2, <3>1, <2>4, <3>3 DEF CoTypes, CoCore, CoSent
    <3>9. CoCore'
      BY <1>1, <2>1, <2>2, <3>1, <2>4, <3>8, <3>3 DEF CoTypes, CoCore
    <3> QED BY <3>9
  <2> QED BY <1>2, <2>1, <2>3, <2>4, <2>5, <2>6
<1>6. ASSUME Co!parentIsKilled
      PROVE  Co!IInv'
  <2>1. /\ pipe.a.readers = {} /\ pc["parent"] \in {"x", "y"}
        /\ pc' = [pc EXCEPT !["parent"] = "ended"]
        /\ pipe' = [a |-> Co!Close(pipe.a, "parent"), b |-> Co!Close(pipe.b, "parent")]
        /\ UNCHANGED <<args, seen, lost>>
    BY <1>6 DEF Co!parentIsKilled, Co!CanWrite, Co!Closed
  <2>2. /\ pc'["parent"] = "ended" /\ pc'["child"] = pc["child"]
        /\ pc' \in [{"parent", "child"} -> CoPc]
    BY <1>1, <2>1 DEF CoTypes
  <2>3. CoTypes'
    BY <1>1, <2>2 DEF CoTypes
  \* Somebody can read pipe a until add has read both numbers.
  <2>4. ~lost => FALSE
    <3>1. SUFFICES ASSUME ~lost PROVE FALSE
      OBVIOUS
    <3>2. CoCore /\ CoSent
      BY <1>1, <3>1 DEF CoRest, CoCore
    <3>3. args = <<1, 2>>
      BY <2>1, <3>2 DEF CoCore
    <3>4. args = <<>> \/ args = <<1>>
      BY <2>1, <3>2 DEF CoSent
    <3> QED BY <3>3, <3>4
  <2>5. CoPipes' /\ pipe'.b.data = pipe.b.data
    <3>1. pipe'.a = Co!Close(pipe.a, "parent") /\ pipe'.b = Co!Close(pipe.b, "parent")
      BY <2>1
    <3>2. pipe' = [a |-> pipe'.a, b |-> pipe'.b]
      BY <2>1, <3>1
    <3> QED BY <1>1, <3>1, <3>2, CoPipeChanges DEF CoPipes
  <2>6. ASSUME lost
        PROVE  Co!WithoutAdd'
    BY <1>1, <2>1, <2>2, <2>5, <2>6 DEF CoRest, Co!WithoutAdd
  <2> QED BY <1>2, <2>1, <2>3, <2>4, <2>5, <2>6
<1>7. ASSUME Co!parentReads
      PROVE  Co!IInv'
  <2>1. /\ pc["parent"] = "read" /\ pc' = [pc EXCEPT !["parent"] = "printed"]
        /\ pipe.b.data # <<>> \/ pipe.b.writers = {}
        /\ seen' = <<Co!Read(pipe.b, NULL)>> /\ pipe' = [pipe EXCEPT !.b = Co!AfterRead(@)]
        /\ UNCHANGED <<args, lost>>
    BY <1>7 DEF Co!parentReads, Co!Goto, Co!CanRead
  <2>2. /\ pc'["parent"] = "printed" /\ pc'["child"] = pc["child"]
        /\ pc' \in [{"parent", "child"} -> CoPc]
    BY <1>1, <2>1 DEF CoTypes
  <2>3. CoTypes'
    BY <1>1, <2>2 DEF CoTypes
  <2>4. /\ pipe' = [a |-> pipe.a, b |-> Co!AfterRead(pipe.b)]
        /\ pipe'.a = pipe.a /\ pipe'.b = Co!AfterRead(pipe.b)
    BY <1>1, <2>1 DEF CoPipes
  <2>5. ASSUME lost
        PROVE  CoPipes' /\ Co!WithoutAdd'
    <3>1. Co!WithoutAdd
      BY <1>1, <2>5 DEF CoRest
    <3>2. pipe'.b = pipe.b /\ pipe' = pipe /\ seen' = <<NULL>>
      BY <1>1, <2>1, <2>4, <3>1 DEF Co!WithoutAdd, Co!AfterRead, Co!Read, CoPipes
    <3> QED BY <1>1, <2>1, <2>2, <3>1, <3>2 DEF CoPipes, Co!WithoutAdd
  <2>6. ASSUME ~lost
        PROVE  CoPipes' /\ CoCore'
    <3>1. CoCore /\ CoSent
      BY <1>1, <2>6 DEF CoRest, CoCore
    <3>2. pipe.b.data = <<3>> /\ pc["child"] \in {"written", "ended"}
      BY <1>1, <2>1, <3>1 DEF CoTypes, CoCore
    <3>3. seen' = <<3>>
      <4>1. pipe.b.data # <<>> /\ Head(pipe.b.data) = 3
        BY <3>2
      <4> QED BY <2>1, <4>1 DEF Co!Read
    <3>4. pipe.b.data # <<>>
      BY <3>2
    <3>5. CoPipes' /\ pipe'.b.readers = pipe.b.readers /\ pipe'.b.writers = pipe.b.writers
      <4>1. pipe' = [a |-> pipe'.a, b |-> pipe'.b]
        BY <2>4
      <4> QED BY <1>1, <2>4, <3>4, <4>1, CoPipeChanges, 1 \in Int DEF CoPipes
    <3>6. CoSent'
      BY <2>1, <2>2, <2>4, <3>1 DEF CoTypes, CoSent
    <3>7. CoCore'
      BY <1>1, <2>1, <2>2, <2>4, <3>1, <3>2, <3>3, <3>5, <3>6 DEF CoTypes, CoCore
    <3> QED BY <3>5, <3>7
  <2> QED BY <1>2, <2>1, <2>3, <2>5, <2>6
<1>8. ASSUME Co!parentDone
      PROVE  Co!IInv'
  <2>1. /\ pc["parent"] = "printed" /\ pc' = [pc EXCEPT !["parent"] = "wait"]
        /\ pipe' = [a |-> Co!Close(pipe.a, "parent"), b |-> Co!Close(pipe.b, "parent")]
        /\ UNCHANGED <<args, seen, lost>>
    BY <1>8 DEF Co!parentDone, Co!Goto, Co!Closed
  <2>2. /\ pc'["parent"] = "wait" /\ pc'["child"] = pc["child"]
        /\ pc' \in [{"parent", "child"} -> CoPc]
    BY <1>1, <2>1 DEF CoTypes
  <2>3. CoTypes'
    BY <1>1, <2>2 DEF CoTypes
  <2>4. /\ CoPipes'
        /\ pipe'.a.data = pipe.a.data
        /\ pipe'.a.readers = pipe.a.readers \ {"parent"}
        /\ pipe'.a.writers = pipe.a.writers \ {"parent"}
        /\ pipe'.b.data = pipe.b.data
        /\ pipe'.b.readers = pipe.b.readers \ {"parent"}
        /\ pipe'.b.writers = pipe.b.writers \ {"parent"}
    <3>1. pipe'.a = Co!Close(pipe.a, "parent") /\ pipe'.b = Co!Close(pipe.b, "parent")
      BY <2>1
    <3>2. pipe' = [a |-> pipe'.a, b |-> pipe'.b]
      BY <2>1, <3>1
    <3> QED BY <1>1, <3>1, <3>2, CoPipeChanges DEF CoPipes
  <2>5. ASSUME lost
        PROVE  Co!WithoutAdd'
    BY <1>1, <2>1, <2>2, <2>4, <2>5 DEF CoRest, Co!WithoutAdd
  <2>6. ASSUME ~lost
        PROVE  CoCore'
    <3>1. CoCore /\ CoSent
      BY <1>1, <2>6 DEF CoRest, CoCore
    <3>8. CoSent'
      BY <2>1, <2>2, <3>1, <2>4 DEF CoTypes, CoCore, CoSent
    <3>9. CoCore'
      BY <1>1, <2>1, <2>2, <3>1, <2>4, <3>8 DEF CoTypes, CoCore
    <3> QED BY <3>9
  <2> QED BY <1>2, <2>1, <2>3, <2>4, <2>5, <2>6
<1>9. ASSUME Co!parentWaits
      PROVE  Co!IInv'
  <2>1. /\ pc["parent"] = "wait" /\ pc' = [pc EXCEPT !["parent"] = "ended"]
        /\ UNCHANGED <<pipe, args, seen, lost>>
    BY <1>9 DEF Co!parentWaits, Co!Goto
  <2>2. /\ pc'["parent"] = "ended" /\ pc'["child"] = pc["child"]
        /\ pc' \in [{"parent", "child"} -> CoPc]
    BY <1>1, <2>1 DEF CoTypes
  <2>3. CoTypes'
    BY <1>1, <2>2 DEF CoTypes
  <2>4. CoPipes'
    BY <2>1, <1>1 DEF CoPipes
  <2>5. ASSUME lost
        PROVE  Co!WithoutAdd'
    BY <1>1, <2>1, <2>2, <2>4, <2>5 DEF CoRest, Co!WithoutAdd
  <2>6. ASSUME ~lost
        PROVE  CoCore'
    <3>1. CoCore /\ CoSent
      BY <1>1, <2>6 DEF CoRest, CoCore
    <3>8. CoSent'
      BY <2>1, <2>2, <3>1, <2>4 DEF CoTypes, CoCore, CoSent
    <3>9. CoCore'
      BY <1>1, <2>1, <2>2, <3>1, <2>4, <3>8 DEF CoTypes, CoCore
    <3> QED BY <3>9
  <2> QED BY <1>2, <2>1, <2>3, <2>4, <2>5, <2>6
<1> QED BY <1>3, <1>4, <1>5, <1>6, <1>7, <1>8, <1>9 DEF Co!Parent

LEMMA CoChildKeeps ==
    ASSUME Co!IInv, Co!Child
    PROVE  Co!IInv'
<1> USE DEF CoPc
<1>1. CoTypes /\ CoPipes /\ lost \in BOOLEAN /\ CoRest
  BY CoHas
\* A child that could not become add has ended.
<1>2. ASSUME CoTypes', UNCHANGED lost, pc["child"] # "ended",
             ~lost => CoPipes' /\ CoCore'
      PROVE  Co!IInv'
  <2>1. ~lost
    BY <1>1, <1>2 DEF CoRest, Co!WithoutAdd
  <2>2. CoPipes' /\ CoRest' /\ lost' \in BOOLEAN
    BY <1>1, <1>2, <2>1 DEF CoRest
  <2> QED BY <1>2, <2>2, CoHasNext
<1>3. ASSUME Co!childCloses
      PROVE  Co!IInv'
  <2>1. /\ pc["child"] = "close" /\ pc' = [pc EXCEPT !["child"] = "exec"]
        /\ pipe' = [a |-> Co!CloseWrite(pipe.a, "child"), b |-> Co!CloseRead(pipe.b, "child")]
        /\ UNCHANGED <<args, seen, lost>>
    BY <1>3 DEF Co!childCloses, Co!Goto
  <2>2. /\ pc'["child"] = "exec" /\ pc'["parent"] = pc["parent"]
        /\ pc' \in [{"parent", "child"} -> CoPc]
    BY <1>1, <2>1 DEF CoTypes
  <2>3. CoTypes'
    BY <1>1, <2>2 DEF CoTypes
  <2>4. ASSUME ~lost
        PROVE  CoPipes' /\ CoCore'
    <3>1. CoPipes /\ CoCore /\ CoSent
      BY <1>1, <2>4 DEF CoRest, CoCore
    <3>2. /\ CoPipes'
          /\ pipe'.a.data = pipe.a.data
          /\ pipe'.a.readers = pipe.a.readers
          /\ pipe'.a.writers = pipe.a.writers \ {"child"}
          /\ pipe'.b.data = pipe.b.data
          /\ pipe'.b.readers = pipe.b.readers \ {"child"}
          /\ pipe'.b.writers = pipe.b.writers
      <4>1. pipe'.a = Co!CloseWrite(pipe.a, "child") /\ pipe'.b = Co!CloseRead(pipe.b, "child")
        BY <2>1
      <4>2. pipe' = [a |-> pipe'.a, b |-> pipe'.b]
        BY <2>1, <4>1
      <4> QED BY <3>1, <4>1, <4>2, CoPipeChanges DEF CoPipes
    <3>8. CoSent'
      BY <2>1, <2>2, <3>1, <3>2 DEF CoTypes, CoCore, CoSent
    <3>9. CoCore'
      BY <1>1, <2>1, <2>2, <3>1, <3>2, <3>8 DEF CoTypes, CoCore
    <3> QED BY <3>2, <3>9
  <2> QED BY <1>2, <2>1, <2>3, <2>4
<1>4. ASSUME Co!execlp
      PROVE  Co!IInv'
  <2>1. /\ pc["child"] = "exec" /\ pc' = [pc EXCEPT !["child"] = "add"]
        /\ UNCHANGED <<pipe, args, seen, lost>>
    BY <1>4 DEF Co!execlp, Co!Goto
  <2>2. /\ pc'["child"] = "add" /\ pc'["parent"] = pc["parent"]
        /\ pc' \in [{"parent", "child"} -> CoPc]
    BY <1>1, <2>1 DEF CoTypes
  <2>3. CoTypes'
    BY <1>1, <2>2 DEF CoTypes
  <2>4. ASSUME ~lost
        PROVE  CoPipes' /\ CoCore'
    <3>1. CoPipes /\ CoCore /\ CoSent
      BY <1>1, <2>4 DEF CoRest, CoCore
    <3>2. CoPipes'
      BY <2>1, <3>1 DEF CoPipes
    <3>8. CoSent'
      BY <2>1, <2>2, <3>1, <3>2 DEF CoTypes, CoCore, CoSent
    <3>9. CoCore'
      BY <1>1, <2>1, <2>2, <3>1, <3>2, <3>8 DEF CoTypes, CoCore
    <3> QED BY <3>2, <3>9
  <2> QED BY <1>2, <2>1, <2>3, <2>4
<1>5. ASSUME Co!execlpFails
      PROVE  Co!IInv'
  <2>1. /\ pc["child"] = "exec" /\ pc' = [pc EXCEPT !["child"] = "ended"] /\ lost' = TRUE
        /\ pipe' = [a |-> Co!Close(pipe.a, "child"), b |-> Co!Close(pipe.b, "child")]
        /\ UNCHANGED <<args, seen>>
    BY <1>5 DEF Co!execlpFails, Co!Goto, Co!Closed
  <2>2. /\ pc'["child"] = "ended" /\ pc'["parent"] = pc["parent"]
        /\ pc' \in [{"parent", "child"} -> CoPc]
    BY <1>1, <2>1 DEF CoTypes
  <2>3. CoTypes'
    BY <1>1, <2>2 DEF CoTypes
  <2>4. CoPipes' /\ pipe'.b.data = pipe.b.data
    <3>1. pipe'.a = Co!Close(pipe.a, "child") /\ pipe'.b = Co!Close(pipe.b, "child")
      BY <2>1
    <3>2. pipe' = [a |-> pipe'.a, b |-> pipe'.b]
      BY <2>1, <3>1
    <3> QED BY <1>1, <3>1, <3>2, CoPipeChanges DEF CoPipes
  \* Up to here there could have been an add, which has read nothing.
  <2>5. args = <<>> /\ pipe.b.data = <<>> /\ seen = <<>>
    <3>1. CoCore
      BY <1>1, <2>1 DEF CoRest, Co!WithoutAdd
    <3>2. pc["parent"] \in {"close", "x", "y", "read"}
      BY <1>1, <2>1, <3>1 DEF CoTypes, CoCore
    <3> QED BY <2>1, <3>1, <3>2 DEF CoCore
  <2>6. CoRest' /\ lost' \in BOOLEAN
    BY <2>1, <2>2, <2>4, <2>5 DEF CoRest, Co!WithoutAdd
  <2> QED BY <2>3, <2>4, <2>6, CoHasNext
<1>6. ASSUME Co!addReads
      PROVE  Co!IInv'
  <2>1. /\ pc["child"] = "add" /\ (pipe.a.data # <<>> \/ pipe.a.writers = {})
        /\ args' = Append(args, Co!Read(pipe.a, NULL)) /\ pipe' = [pipe EXCEPT !.a = Co!AfterRead(@)]
        /\ UNCHANGED <<pc, seen, lost>>
    BY <1>6 DEF Co!addReads, Co!CanRead
  <2>2. CoTypes'
    BY <1>1, <2>1 DEF CoTypes
  <2>3. ASSUME ~lost
        PROVE  CoPipes' /\ CoCore'
    <3>1. CoPipes /\ CoCore /\ CoSent
      BY <1>1, <2>3 DEF CoRest, CoCore
    <3>2. pipe.a.data # <<>> /\ pc["parent"] \notin {"printed", "wait", "ended"}
      BY <1>1, <2>1, <3>1 DEF CoTypes, CoCore
    <3>3. args' = Append(args, Head(pipe.a.data))
      BY <2>1, <3>2 DEF Co!Read
    <3>4. /\ CoPipes' /\ pipe'.b = pipe.b
          /\ pipe'.a.data = Tail(pipe.a.data)
          /\ pipe'.a.readers = pipe.a.readers
          /\ pipe'.a.writers = pipe.a.writers
      <4>1. pipe' = [a |-> Co!AfterRead(pipe.a), b |-> pipe.b]
        BY <2>1, <3>1 DEF CoPipes
      <4>2. pipe'.a = Co!AfterRead(pipe.a) /\ pipe'.b = pipe.b /\ pipe' = [a |-> pipe'.a, b |-> pipe'.b]
        BY <4>1
      <4> QED BY <3>1, <3>2, <4>2, CoPipeChanges, 1 \in Int, 2 \in Int, 3 \in Int DEF CoPipes
    <3>5. CoSent'
      <4>1. \/ args = <<>> /\ pipe.a.data = <<1>> /\ pc["parent"] = "y"
            \/ args = <<>> /\ pipe.a.data = <<1, 2>> /\ pc["parent"] \notin {"close", "x", "y"}
            \/ args = <<1>> /\ pipe.a.data = <<2>> /\ pc["parent"] \notin {"close", "x", "y"}
        BY <3>1, <3>2 DEF CoSent
      <4>2. CASE args = <<>> /\ pipe.a.data = <<1>> /\ pc["parent"] = "y"
        <5>1. args' = <<1>> /\ pipe'.a.data = <<>>
          BY <3>3, <3>4, <4>2, CoSequences
        <5> QED BY <2>1, <4>2, <5>1 DEF CoSent
      <4>3. CASE args = <<>> /\ pipe.a.data = <<1, 2>> /\ pc["parent"] \notin {"close", "x", "y"}
        <5>1. args' = <<1>> /\ pipe'.a.data = <<2>>
          BY <3>3, <3>4, <4>3, CoSequences
        <5> QED BY <2>1, <4>3, <5>1 DEF CoSent
      <4>4. CASE args = <<1>> /\ pipe.a.data = <<2>> /\ pc["parent"] \notin {"close", "x", "y"}
        <5>1. args' = <<1, 2>> /\ pipe'.a.data = <<>>
          BY <3>3, <3>4, <4>4, CoSequences
        <5> QED BY <2>1, <4>4, <5>1 DEF CoSent
      <4> QED BY <4>1, <4>2, <4>3, <4>4
    <3>6. CoCore'
      BY <1>1, <2>1, <3>1, <3>2, <3>4, <3>5 DEF CoTypes, CoCore
    <3> QED BY <3>4, <3>6
  <2> QED BY <1>2, <2>1, <2>2, <2>3
<1>7. ASSUME Co!addWrites
      PROVE  Co!IInv'
  <2>1. /\ pc["child"] = "add" /\ pc' = [pc EXCEPT !["child"] = "written"]
        /\ Len(args) = 2 /\ pipe' = [pipe EXCEPT !.b = Co!Write(@, args[1] + args[2])]
        /\ UNCHANGED <<args, seen, lost>>
    BY <1>7 DEF Co!addWrites, Co!Goto
  <2>2. /\ pc'["child"] = "written" /\ pc'["parent"] = pc["parent"]
        /\ pc' \in [{"parent", "child"} -> CoPc]
    BY <1>1, <2>1 DEF CoTypes
  <2>3. CoTypes'
    BY <1>1, <2>2 DEF CoTypes
  <2>4. ASSUME ~lost
        PROVE  CoPipes' /\ CoCore'
    <3>1. CoPipes /\ CoCore /\ CoSent
      BY <1>1, <2>4 DEF CoRest, CoCore
    <3>3. args = <<1, 2>> /\ pipe.b.data = <<>> /\ pc["parent"] \in {"close", "x", "y", "read"}
      <4>1. args = <<1, 2>>
        <5>1. args = <<>> \/ args = <<1>> \/ args = <<1, 2>>
          BY <3>1 DEF CoSent
        <5> QED BY <2>1, <5>1, CoSequences
      <4> QED BY <1>1, <2>1, <3>1, <4>1 DEF CoTypes, CoCore
    <3>4. pipe' = [pipe EXCEPT !.b = Co!Write(@, 3)]
      <4>1. args[1] + args[2] = 3
        BY <3>3
      <4> QED BY <2>1, <4>1
    <3>2. /\ CoPipes' /\ pipe'.a = pipe.a
          /\ pipe'.b.data = Append(pipe.b.data, 3)
          /\ pipe'.b.readers = pipe.b.readers
          /\ pipe'.b.writers = pipe.b.writers
      <4>1. pipe' = [a |-> pipe.a, b |-> Co!Write(pipe.b, 3)]
        BY <3>1, <3>4 DEF CoPipes
      <4>2. pipe'.a = pipe.a /\ pipe'.b = Co!Write(pipe.b, 3) /\ pipe' = [a |-> pipe'.a, b |-> pipe'.b]
        BY <4>1
      <4> QED BY <3>1, CoWrites, <4>2, CoPipeChanges, 1 \in Int, 2 \in Int, 3 \in Int DEF CoPipes
    <3>5. pipe'.b.data = <<3>>
      BY <3>2, <3>3
    <3>8. CoSent'
      BY <2>1, <2>2, <3>1, <3>2, <3>3, <3>5 DEF CoTypes, CoCore, CoSent
    <3>9. CoCore'
      BY <1>1, <2>1, <2>2, <3>1, <3>2, <3>8, <3>3, <3>5 DEF CoTypes, CoCore
    <3> QED BY <3>2, <3>9
  <2> QED BY <1>2, <2>1, <2>3, <2>4
<1>8. ASSUME Co!addEnds
      PROVE  Co!IInv'
  <2>1. /\ pc["child"] = "written" /\ pc' = [pc EXCEPT !["child"] = "ended"]
        /\ pipe' = [a |-> Co!Close(pipe.a, "child"), b |-> Co!Close(pipe.b, "child")]
        /\ UNCHANGED <<args, seen, lost>>
    BY <1>8 DEF Co!addEnds, Co!Goto, Co!Closed
  <2>2. /\ pc'["child"] = "ended" /\ pc'["parent"] = pc["parent"]
        /\ pc' \in [{"parent", "child"} -> CoPc]
    BY <1>1, <2>1 DEF CoTypes
  <2>3. CoTypes'
    BY <1>1, <2>2 DEF CoTypes
  <2>4. ASSUME ~lost
        PROVE  CoPipes' /\ CoCore'
    <3>1. CoPipes /\ CoCore /\ CoSent
      BY <1>1, <2>4 DEF CoRest, CoCore
    <3>2. /\ CoPipes'
          /\ pipe'.a.data = pipe.a.data
          /\ pipe'.a.readers = pipe.a.readers \ {"child"}
          /\ pipe'.a.writers = pipe.a.writers \ {"child"}
          /\ pipe'.b.data = pipe.b.data
          /\ pipe'.b.readers = pipe.b.readers \ {"child"}
          /\ pipe'.b.writers = pipe.b.writers \ {"child"}
      <4>1. pipe'.a = Co!Close(pipe.a, "child") /\ pipe'.b = Co!Close(pipe.b, "child")
        BY <2>1
      <4>2. pipe' = [a |-> pipe'.a, b |-> pipe'.b]
        BY <2>1, <4>1
      <4> QED BY <3>1, <4>1, <4>2, CoPipeChanges DEF CoPipes
    <3>8. CoSent'
      BY <2>1, <2>2, <3>1, <3>2 DEF CoTypes, CoCore, CoSent
    <3>9. CoCore'
      BY <1>1, <2>1, <2>2, <3>1, <3>2, <3>8 DEF CoTypes, CoCore
    <3> QED BY <3>2, <3>9
  <2> QED BY <1>2, <2>1, <2>3, <2>4
<1> QED BY <1>3, <1>4, <1>5, <1>6, <1>7, <1>8 DEF Co!Child

-----------------------------------------------------------------------------
(* The programs with their constants are instances of what is proved for any. *)

LEMMA OneIsResult ==
    /\ One!Init => Result({g1})!Init
    /\ One!IInv <=> Result({g1})!IInv
    /\ Result({g1})!IInv' => One!IInv'
    /\ One!Setter => Result({g1})!Setter
    /\ One!GetterStep(g1) => Result({g1})!GetterStep(g1)
<1>1. \A S : One!Cardinality(S) = Cardinality(S) /\ Result({g1})!Cardinality(S) = Cardinality(S)
  BY ResultCounts, Zenon DEF One!Cardinality, Cardinality
<1>2. One!wait_num = Result({g1})!wait_num
  BY <1>1, Zenon DEF One!wait_num, Result!wait_num
<1>3. One!Init => Result({g1})!Init
  BY Zenon DEF One!Init, Result!Init
<1>4. One!Counted = Result({g1})!Counted
  BY Zenon DEF One!Counted, Result!Counted
<1>5. One!IInv <=> Result({g1})!IInv
  BY <1>1, <1>2, <1>4, Zenon DEF One!IInv, Result!IInv, One!TypeOK, Result!TypeOK,
     One!MutexHeld, Result!MutexHeld, One!ReadsResult, Result!ReadsResult
<1>6. One!Counted' = Result({g1})!Counted'
  BY Zenon DEF One!Counted, Result!Counted
<1>7. Result({g1})!IInv' => One!IInv'
  BY <1>1, <1>2, <1>6, Zenon DEF One!IInv, Result!IInv, One!TypeOK, Result!TypeOK,
     One!MutexHeld, Result!MutexHeld, One!ReadsResult, Result!ReadsResult
<1>8. One!Setter => Result({g1})!Setter
  BY <1>2, Zenon DEF One!Setter, Result!Setter, One!compute, Result!compute, One!poll,
     Result!poll, One!broadcast, Result!broadcast
<1>9. One!GetterStep(g1) => Result({g1})!GetterStep(g1)
  BY Zenon DEF One!GetterStep, Result!GetterStep, One!lock, Result!lock, One!count,
     Result!count, One!cond_wait, Result!cond_wait, One!relock, Result!relock, One!unlock,
     Result!unlock, One!read, Result!read, One!Goto, Result!Goto
<1> QED BY <1>3, <1>5, <1>7, <1>8, <1>9

LEMMA AllIsResult ==
    /\ All!Init => Result({g1, g2})!Init
    /\ All!IInv <=> Result({g1, g2})!IInv
    /\ Result({g1, g2})!IInv' => All!IInv'
    /\ All!Setter => Result({g1, g2})!Setter
    /\ \A g \in {g1, g2} : All!GetterStep(g) => Result({g1, g2})!GetterStep(g)
<1>1. \A S : All!Cardinality(S) = Cardinality(S) /\ Result({g1, g2})!Cardinality(S) = Cardinality(S)
  BY ResultCounts, Zenon DEF All!Cardinality, Cardinality
<1>2. All!wait_num = Result({g1, g2})!wait_num
  BY <1>1, Zenon DEF All!wait_num, Result!wait_num
<1>3. All!Init => Result({g1, g2})!Init
  BY Zenon DEF All!Init, Result!Init
<1>4. All!Counted = Result({g1, g2})!Counted
  BY Zenon DEF All!Counted, Result!Counted
<1>5. All!IInv <=> Result({g1, g2})!IInv
  BY <1>1, <1>2, <1>4, Zenon DEF All!IInv, Result!IInv, All!TypeOK, Result!TypeOK,
     All!MutexHeld, Result!MutexHeld, All!ReadsResult, Result!ReadsResult
<1>6. All!Counted' = Result({g1, g2})!Counted'
  BY Zenon DEF All!Counted, Result!Counted
<1>7. Result({g1, g2})!IInv' => All!IInv'
  BY <1>1, <1>2, <1>6, Zenon DEF All!IInv, Result!IInv, All!TypeOK, Result!TypeOK,
     All!MutexHeld, Result!MutexHeld, All!ReadsResult, Result!ReadsResult
<1>8. All!Setter => Result({g1, g2})!Setter
  BY <1>2, Zenon DEF All!Setter, Result!Setter, All!compute, Result!compute, All!poll,
     Result!poll, All!broadcast, Result!broadcast
<1>9. \A g \in {g1, g2} : All!GetterStep(g) => Result({g1, g2})!GetterStep(g)
  BY Zenon DEF All!GetterStep, Result!GetterStep, All!lock, Result!lock, All!count,
     Result!count, All!cond_wait, Result!cond_wait, All!relock, Result!relock, All!unlock,
     Result!unlock, All!read, Result!read, All!Goto, Result!Goto
<1> QED BY <1>3, <1>5, <1>7, <1>8, <1>9

CalWaits == [cal |-> NULL, get |-> "sem"]
CalPosts == [cal |-> "sem", get |-> NULL]

LEMMA CalIsOrder ==
    /\ Cal!Init => Order({"cal", "get"}, {"sem"}, CalWaits, CalPosts)!Init
    /\ Cal!IInv <=> Order({"cal", "get"}, {"sem"}, CalWaits, CalPosts)!IInv
    /\ Order({"cal", "get"}, {"sem"}, CalWaits, CalPosts)!IInv' => Cal!IInv'
    /\ \A t \in {"cal", "get"} :
         Cal!Step(t) => Order({"cal", "get"}, {"sem"}, CalWaits, CalPosts)!Step(t)
    /\ OnePoster({"cal", "get"}, {"sem"}, CalWaits, CalPosts)
<1>1. Cal!Init => Order({"cal", "get"}, {"sem"}, CalWaits, CalPosts)!Init
  BY Zenon DEF Cal!Init, Order!Init
<1>2. Cal!IInv <=> Order({"cal", "get"}, {"sem"}, CalWaits, CalPosts)!IInv
  BY Zenon DEF Cal!IInv, Order!IInv, Cal!TypeOK, Order!TypeOK, Cal!Posted, Order!Posted,
     Cal!WorksAfter, Order!WorksAfter, CalWaits, CalPosts
<1>3. Order({"cal", "get"}, {"sem"}, CalWaits, CalPosts)!IInv' => Cal!IInv'
  BY Zenon DEF Cal!IInv, Order!IInv, Cal!TypeOK, Order!TypeOK, Cal!Posted, Order!Posted,
     Cal!WorksAfter, Order!WorksAfter, CalWaits, CalPosts
<1>4. \A t \in {"cal", "get"} :
         Cal!Step(t) => Order({"cal", "get"}, {"sem"}, CalWaits, CalPosts)!Step(t)
  BY Zenon DEF Cal!Step, Order!Step, Cal!sem_wait, Order!sem_wait, Cal!work, Order!work,
     Cal!sem_post, Order!sem_post, Cal!Goto, Order!Goto, CalWaits, CalPosts
<1>5. OnePoster({"cal", "get"}, {"sem"}, CalWaits, CalPosts)
  BY NullAssumption DEF OnePoster, CalWaits, CalPosts
<1> QED BY <1>1, <1>2, <1>3, <1>4, <1>5

AbcWaits == [a |-> "sem1", b |-> "sem2", c |-> NULL]
AbcPosts == [a |-> NULL, b |-> "sem1", c |-> "sem2"]

LEMMA AbcIsOrder ==
    /\ Abc!Init => Order({"a", "b", "c"}, {"sem1", "sem2"}, AbcWaits, AbcPosts)!Init
    /\ Abc!IInv <=> Order({"a", "b", "c"}, {"sem1", "sem2"}, AbcWaits, AbcPosts)!IInv
    /\ Order({"a", "b", "c"}, {"sem1", "sem2"}, AbcWaits, AbcPosts)!IInv' => Abc!IInv'
    /\ \A t \in {"a", "b", "c"} :
         Abc!Step(t) => Order({"a", "b", "c"}, {"sem1", "sem2"}, AbcWaits, AbcPosts)!Step(t)
    /\ OnePoster({"a", "b", "c"}, {"sem1", "sem2"}, AbcWaits, AbcPosts)
<1>1. Abc!Init => Order({"a", "b", "c"}, {"sem1", "sem2"}, AbcWaits, AbcPosts)!Init
  BY Zenon DEF Abc!Init, Order!Init
<1>2. Abc!IInv <=> Order({"a", "b", "c"}, {"sem1", "sem2"}, AbcWaits, AbcPosts)!IInv
  BY Zenon DEF Abc!IInv, Order!IInv, Abc!TypeOK, Order!TypeOK, Abc!Posted, Order!Posted,
     Abc!WorksAfter, Order!WorksAfter, AbcWaits, AbcPosts
<1>3. Order({"a", "b", "c"}, {"sem1", "sem2"}, AbcWaits, AbcPosts)!IInv' => Abc!IInv'
  BY Zenon DEF Abc!IInv, Order!IInv, Abc!TypeOK, Order!TypeOK, Abc!Posted, Order!Posted,
     Abc!WorksAfter, Order!WorksAfter, AbcWaits, AbcPosts
<1>4. \A t \in {"a", "b", "c"} :
         Abc!Step(t) => Order({"a", "b", "c"}, {"sem1", "sem2"}, AbcWaits, AbcPosts)!Step(t)
  BY Zenon DEF Abc!Step, Order!Step, Abc!sem_wait, Order!sem_wait, Abc!work, Order!work,
     Abc!sem_post, Order!sem_post, Abc!Goto, Order!Goto, AbcWaits, AbcPosts
<1>5. OnePoster({"a", "b", "c"}, {"sem1", "sem2"}, AbcWaits, AbcPosts)
  BY NullAssumption DEF OnePoster, AbcWaits, AbcPosts
<1> QED BY <1>1, <1>2, <1>3, <1>4, <1>5

LEMMA OneAndAllGetters ==
    Getters({g1}) /\ Getters({g1, g2})
<1>1. IsFiniteSet({g1}) /\ IsFiniteSet({g1, g2})
  BY FS_EmptySet, FS_AddElement, FS_Singleton
<1> QED BY <1>1, NullAssumption DEF Getters

-----------------------------------------------------------------------------
(* All programs together.                                                    *)

LEMMA HInitInv ==
    ASSUME HInit
    PROVE  HInv
<1>1. CASE program = "reader_writer" /\ Cond!Init
  BY <1>1, CondInit DEF HInv
<1>2. CASE program = "sem_reader_writer" /\ Sem!Init
  BY <1>2, SemInit DEF HInv
<1>3. CASE program = "pthread_cal" /\ One!Init
  BY <1>3, OneIsResult, OneAndAllGetters, ResultInit DEF HInv
<1>4. CASE program = "pthread_cal2" /\ All!Init
  BY <1>4, AllIsResult, OneAndAllGetters, ResultInit DEF HInv
<1>5. CASE program = "pthread_sem_cal" /\ Cal!Init
  BY <1>5, CalIsOrder, OrderInit DEF HInv
<1>6. CASE program = "sem_test" /\ Abc!Init
  BY <1>6, AbcIsOrder, OrderInit DEF HInv
<1>7. CASE program = "shm_pipetell" /\ Tell!Init
  BY <1>7, TellInit DEF HInv
<1>8. CASE program = "co_process" /\ Co!Init
  BY <1>8, CoInit DEF HInv
<1> QED BY <1>1, <1>2, <1>3, <1>4, <1>5, <1>6, <1>7, <1>8 DEF HInit

LEMMA HNextInv ==
    ASSUME HInv, HNext
    PROVE  HInv'
<1>1. CASE condWriter \/ condReader
  BY <1>1, CondWriterKeeps, CondReaderKeeps DEF HInv, condWriter, condReader, condRest
<1>2. CASE semWriter \/ semReader
  BY <1>2, SemWriterKeeps, SemReaderKeeps DEF HInv, semWriter, semReader, semRest
<1>3. CASE oneSetter \/ oneGetter
  <2>1. /\ program = "pthread_cal" /\ program' = program /\ One!IInv
        /\ Result({g1})!Setter \/ \E g \in {g1} : Result({g1})!GetterStep(g)
    BY <1>3, OneIsResult DEF HInv, oneSetter, oneGetter, resultRest
  <2>2. Result({g1})!IInv'
    BY <2>1, OneIsResult, OneAndAllGetters, ResultKeeps
  <2> QED BY <2>1, <2>2, OneIsResult DEF HInv
<1>4. CASE allSetter \/ \E g \in {g1, g2} : allGetter(g)
  <2>1. /\ program = "pthread_cal2" /\ program' = program /\ All!IInv
        /\ Result({g1, g2})!Setter \/ \E g \in {g1, g2} : Result({g1, g2})!GetterStep(g)
    BY <1>4, AllIsResult DEF HInv, allSetter, allGetter, resultRest
  <2>2. Result({g1, g2})!IInv'
    BY <2>1, AllIsResult, OneAndAllGetters, ResultKeeps
  <2> QED BY <2>1, <2>2, AllIsResult DEF HInv
<1>5. CASE set_fn \/ get_fn
  <2>1. /\ program = "pthread_sem_cal" /\ program' = program /\ Cal!IInv
        /\ \E t \in {"cal", "get"} : Cal!Step(t)
    BY <1>5 DEF HInv, set_fn, get_fn, orderRest
  <2>2. Order({"cal", "get"}, {"sem"}, CalWaits, CalPosts)!IInv'
    BY <2>1, CalIsOrder, OrderKeeps
  <2> QED BY <2>1, <2>2, CalIsOrder DEF HInv
<1>6. CASE a_fn \/ b_fn \/ c_fn
  <2>1. /\ program = "sem_test" /\ program' = program /\ Abc!IInv
        /\ \E t \in {"a", "b", "c"} : Abc!Step(t)
    BY <1>6 DEF HInv, a_fn, b_fn, c_fn, orderRest
  <2>2. Order({"a", "b", "c"}, {"sem1", "sem2"}, AbcWaits, AbcPosts)!IInv'
    BY <2>1, AbcIsOrder, OrderKeeps
  <2> QED BY <2>1, <2>2, AbcIsOrder DEF HInv
<1>7. CASE tellParent \/ tellChild
  BY <1>7, TellParentKeeps, TellChildKeeps DEF HInv, tellParent, tellChild, tellRest
<1>8. CASE coParent \/ coChild
  BY <1>8, CoParentKeeps, CoChildKeeps DEF HInv, coParent, coChild, coRest
<1> QED BY <1>1, <1>2, <1>3, <1>4, <1>5, <1>6, <1>7, <1>8 DEF HNext

LEMMA HStutterInv ==
    ASSUME HInv, UNCHANGED hVars
    PROVE  HInv'
<1>1. /\ program' = program /\ pc' = pc /\ i' = i /\ seen' = seen /\ lost' = lost
      /\ value' = value /\ wait' = wait /\ val' = val /\ s1' = s1 /\ s2' = s2
      /\ res' = res /\ counter' = counter /\ mutex' = mutex /\ setter' = setter
      /\ got' = got /\ sem' = sem /\ mem' = mem /\ pipe' = pipe /\ args' = args
  BY DEF hVars, condVars, semVars, resultVars, pipeVars
<1>2. Cond!IInv => Cond!IInv'
  BY <1>1 DEF Cond!IInv, Cond!TypeOK, Cond!ReadsInOrder, Cond!Waiting, Cond!Between,
     Cond!ReaderCounts, Cond!WriterTurn, Cond!ReaderTurn
<1>3. Sem!IInv => Sem!IInv'
  BY ZenonT(30), <1>1 DEF Sem!IInv, Sem!TypeOK, Sem!ReadsInOrder, Sem!Places, Sem!Counted, Sem!AllDone,
     Sem!WriterVs, Sem!WriterPs, Sem!ReaderVs, Sem!ReaderPs
<1>4. One!IInv => One!IInv'
  BY <1>1 DEF One!IInv, One!TypeOK, One!MutexHeld, One!ReadsResult, One!Counted
<1>5. All!IInv => All!IInv'
  BY <1>1 DEF All!IInv, All!TypeOK, All!MutexHeld, All!ReadsResult, All!Counted
<1>6. Cal!IInv => Cal!IInv'
  BY <1>1 DEF Cal!IInv, Cal!TypeOK, Cal!Posted, Cal!WorksAfter
<1>7. Abc!IInv => Abc!IInv'
  BY <1>1 DEF Abc!IInv, Abc!TypeOK, Abc!Posted, Abc!WorksAfter
<1>8. Tell!IInv => Tell!IInv'
  BY <1>1 DEF Tell!IInv, Tell!TypeOK, Tell!ReadsBoth
<1>9. Co!IInv => Co!IInv'
  BY <1>1 DEF Co!IInv, Co!TypeOK, Co!WithoutAdd, Co!WithAdd, Co!Sent
<1> QED BY <1>1, <1>2, <1>3, <1>4, <1>5, <1>6, <1>7, <1>8, <1>9, Zenon DEF HInv

\* The invariant of the program that runs: where one thread or process is says
\* where the others may be, so that nobody takes what is not there yet.
THEOREM HandoverInvariant ==
    HSpec => []HInv
<1>1. HInit => HInv
  BY HInitInv
<1>2. HInv /\ [HNext]_hVars => HInv'
  BY HNextInv, HStutterInv
<1> QED BY <1>1, <1>2, PTL DEF HSpec

\* Every variable has its type, and a mutex is held by the getter it names and by
\* nobody else.
THEOREM HandoverTypes ==
    HSpec => []HTypeOK
<1>1. HInv => HTypeOK
  BY DEF HInv, HTypeOK, Cond!IInv, Sem!IInv, One!IInv, All!IInv, Cal!IInv, Abc!IInv,
     Tell!IInv, Co!IInv
<1> QED BY <1>1, HandoverInvariant, PTL

\* Nobody reads what has not been written, or reads it twice, or skips it, also
\* when a broadcast comes before the wait or a process ends early.
THEOREM HandoverReads ==
    HSpec => []ReadsWhatWasWritten
<1>1. HInv => ReadsWhatWasWritten
  <2>1. Co!IInv => Co!ReadsSum
    <3>1. SUFFICES ASSUME Co!IInv, ~lost PROVE Co!ReadsSum
      BY DEF Co!ReadsSum
    <3> QED BY <3>1 DEF Co!IInv, Co!TypeOK, Co!WithAdd, Co!ReadsSum
  <2> QED BY <2>1 DEF HInv, ReadsWhatWasWritten, Cond!IInv, Sem!IInv, One!IInv, All!IInv,
        Cal!IInv, Abc!IInv, Tell!IInv
<1> QED BY <1>1, HandoverInvariant, PTL

\* The two writers change the number only when the reader has read all that was
\* written before.
THEOREM WritersWait ==
    HSpec => TurnsAlternate
<1>1. ASSUME HInv, HNext, program \in {"reader_writer", "sem_reader_writer"},
             <<value, val>>' # <<value, val>>
      PROVE  Len(seen) = i["writer"] - 1
  <2>1. CASE condWriter \/ condReader
    BY <1>1, <2>1, CondTurns DEF HInv, condWriter, condReader, condRest, semVars
  <2>2. CASE semWriter \/ semReader
    BY <1>1, <2>2, SemTurns DEF HInv, semWriter, semReader, semRest, condVars
  <2>3. program = "reader_writer" \/ program = "sem_reader_writer"
    BY <1>1
  <2> QED BY <1>1, <2>1, <2>2, <2>3 DEF HNext, oneSetter, oneGetter, allSetter, allGetter,
        set_fn, get_fn, a_fn, b_fn, c_fn, tellParent, tellChild, coParent, coChild
<1>2. HInv /\ [HNext]_hVars =>
        [(program \in {"reader_writer", "sem_reader_writer"} /\ <<value, val>>' # <<value, val>>)
          => Len(seen) = i["writer"] - 1]_hVars
  BY <1>1
<1> QED BY <1>2, HandoverInvariant, PTL DEF HSpec, TurnsAlternate

-----------------------------------------------------------------------------
(* MStdio.                                                                   *)

USE BytesAssumption, LenAssumption

-----------------------------------------------------------------------------
(* The inductive invariant. *)

\* What is left to write has been put there.
WritePosition ==
    mode # "READ" =>
        /\ nextc + left = BUFFER_LEN
        /\ \A k \in 1..nextc : buffer[k] \in Byte

\* What is left to read has been read from the file, just before pos.
ReadPosition ==
    mode = "READ" =>
        /\ nextc + left <= BUFFER_LEN /\ left <= pos
        /\ \A k \in 1..left : buffer[nextc + k] = file[pos - left + k]

\* What has been put is in the file or in the buffer.
WriteBytes ==
    mode # "READ" /\ ~broken =>
        bytes = SubSeq(file, start + 1, Len(file)) \o SubSeq(buffer, 1, nextc)

\* What has been got is what pos and _left say.
ReadBytes ==
    mode = "READ" /\ ~broken => bytes = SubSeq(file, 1, pos - left)

\* A stream that is written ends when it is closed.
EndOK == mode # "READ" /\ ended => ~open

StreamOK ==
    StreamTypeOK /\ WritePosition /\ ReadPosition /\ WriteBytes /\ ReadBytes /\ EndOK

\* The call under way is one for the mode of the stream.
CallOK ==
    /\ CallTypeOK
    /\ call.text # <<>> \/ call.flush \/ call.op \in {"mfputs", "mfwrite"} => Writing
    /\ call.want > 0 => Reading

\* A line that has been put whole is not in the buffer.
LineOK ==
    /\ call.op \in {"mfputs", "mfwrite"} /\ call.text = <<>> /\ ~call.flush /\ ~broken
    => nextc = 0 \/ bytes[Len(bytes)] # NL

IInv == StreamOK /\ CallOK /\ LineOK
-----------------------------------------------------------------------------
(* Facts about sequences. *)

\* The first bytes of an array.
LEMMA FirstBytes ==
    ASSUME NEW b, NEW n \in Nat, \A k \in 1..n : b[k] \in Byte
    PROVE  /\ SubSeq(b, 1, n) \in Seq(Byte)
           /\ Len(SubSeq(b, 1, n)) = n
           /\ \A k \in 1..n : SubSeq(b, 1, n)[k] = b[k]
<1>1. \A k \in 1..n : b[k] \in Byte
  OBVIOUS
<1>2. /\ SubSeq(b, 1, n) \in Seq(Byte)
      /\ Len(SubSeq(b, 1, n)) = IF 1 <= n THEN n - 1 + 1 ELSE 0
      /\ \A k \in 1..(n - 1 + 1) : SubSeq(b, 1, n)[k] = b[1 + k - 1]
  BY <1>1, SubSeqProperties
<1> QED BY <1>2

\* One byte more.
LEMMA OneMore ==
    ASSUME NEW b, NEW d, NEW n \in Nat, \A k \in 1..n : b[k] \in Byte /\ d[k] = b[k],
           d[n + 1] \in Byte
    PROVE  SubSeq(d, 1, n + 1) = Append(SubSeq(b, 1, n), d[n + 1])
<1>1. \A k \in 1..(n + 1) : d[k] \in Byte
  OBVIOUS
<1> DEFINE s == SubSeq(b, 1, n)
           t == SubSeq(d, 1, n + 1)
<1>2. s \in Seq(Byte) /\ Len(s) = n /\ \A k \in 1..n : s[k] = b[k]
  BY FirstBytes
<1>3. t \in Seq(Byte) /\ Len(t) = n + 1 /\ \A k \in 1..(n + 1) : t[k] = d[k]
  BY <1>1, FirstBytes
<1> HIDE DEF s, t
<1>4. /\ Append(s, d[n + 1]) \in Seq(Byte)
      /\ Len(Append(s, d[n + 1])) = n + 1
      /\ \A k \in 1..n : Append(s, d[n + 1])[k] = s[k]
      /\ Append(s, d[n + 1])[n + 1] = d[n + 1]
  BY <1>2, AppendProperties
<1>5. t = Append(s, d[n + 1])
  <2>1. \A k \in 1..(n + 1) : t[k] = Append(s, d[n + 1])[k]
    BY <1>2, <1>3, <1>4
  <2> QED BY <1>3, <1>4, <2>1, SeqEqual
<1> QED BY <1>5 DEF s, t

\* What is behind the first bytes of a file, when something is written to its end.
LEMMA Appended ==
    ASSUME NEW f \in Seq(Byte), NEW g \in Seq(Byte), NEW m \in 0..Len(f)
    PROVE  SubSeq(f \o g, m + 1, Len(f \o g)) = SubSeq(f, m + 1, Len(f)) \o g
<1> DEFINE s == SubSeq(f \o g, m + 1, Len(f \o g))
           t == SubSeq(f, m + 1, Len(f))
<1>1. /\ f \o g \in Seq(Byte) /\ Len(f \o g) = Len(f) + Len(g)
      /\ \A k \in 1..(Len(f) + Len(g)) :
             (f \o g)[k] = IF k <= Len(f) THEN f[k] ELSE g[k - Len(f)]
  BY ConcatProperties
<1>2. Len(f) \in Nat /\ Len(g) \in Nat
  BY LenProperties
<1>3. /\ \A k \in (m + 1)..Len(f) : f[k] \in Byte
      /\ \A k \in (m + 1)..Len(f \o g) : (f \o g)[k] \in Byte
  BY <1>1, <1>2, ElementOfSeq
<1>4. /\ s \in Seq(Byte) /\ Len(s) = Len(f) + Len(g) - m
      /\ \A k \in 1..(Len(f) + Len(g) - m) : s[k] = (f \o g)[m + k]
  <2>1. /\ s \in Seq(Byte)
        /\ Len(s) = IF m + 1 <= Len(f \o g) THEN Len(f \o g) - (m + 1) + 1 ELSE 0
        /\ \A k \in 1..(Len(f \o g) - (m + 1) + 1) : s[k] = (f \o g)[m + 1 + k - 1]
    BY <1>1, <1>2, <1>3, SubSeqProperties
  <2> QED BY <1>1, <1>2, <2>1
<1>5. /\ t \in Seq(Byte) /\ Len(t) = Len(f) - m
      /\ \A k \in 1..(Len(f) - m) : t[k] = f[m + k]
  <2>1. /\ t \in Seq(Byte)
        /\ Len(t) = IF m + 1 <= Len(f) THEN Len(f) - (m + 1) + 1 ELSE 0
        /\ \A k \in 1..(Len(f) - (m + 1) + 1) : t[k] = f[m + 1 + k - 1]
    BY <1>2, <1>3, SubSeqProperties
  <2> QED BY <1>2, <2>1
<1> HIDE DEF s, t
<1>6. /\ t \o g \in Seq(Byte) /\ Len(t \o g) = Len(t) + Len(g)
      /\ \A k \in 1..(Len(t) + Len(g)) :
             (t \o g)[k] = IF k <= Len(t) THEN t[k] ELSE g[k - Len(t)]
  BY <1>5, ConcatProperties
<1>7. ASSUME NEW k \in 1..Len(s)
      PROVE  s[k] = (t \o g)[k]
  <2>1. s[k] = IF m + k <= Len(f) THEN f[m + k] ELSE g[m + k - Len(f)]
    BY <1>1, <1>2, <1>4
  <2>2. (t \o g)[k] = IF k <= Len(f) - m THEN f[m + k] ELSE g[k - (Len(f) - m)]
    BY <1>2, <1>4, <1>5, <1>6
  <2>3. m + k - Len(f) = k - (Len(f) - m) /\ (m + k <= Len(f) <=> k <= Len(f) - m)
    BY <1>2, <1>4
  <2> QED BY <2>1, <2>2, <2>3
<1>8. s = t \o g
  <2>1. Len(s) = Len(t \o g)
    BY <1>2, <1>4, <1>5, <1>6
  <2> QED BY <1>4, <1>6, <1>7, <2>1, SeqEqual
<1> QED BY <1>8 DEF s, t

LEMMA AppendToConcat ==
    ASSUME NEW r \in Seq(Byte), NEW s \in Seq(Byte), NEW c \in Byte
    PROVE  Append(r \o s, c) = r \o Append(s, c)
<1>1. r \o s \in Seq(Byte) /\ <<c>> \in Seq(Byte)
  BY ConcatProperties
<1>2. Append(r \o s, c) = (r \o s) \o <<c>> /\ Append(s, c) = s \o <<c>>
  BY <1>1, AppendIsConcat
<1> QED BY <1>1, <1>2, ConcatAssociative

\* A part of a file.
LEMMA Part ==
    ASSUME NEW f \in Seq(Byte), NEW m \in 1..(Len(f) + 1), NEW n \in 0..Len(f)
    PROVE  SubSeq(f, m, n) \in Seq(Byte)
<1>1. \A k \in m..n : f[k] \in Byte
  BY ElementOfSeq, LenProperties
<1> QED BY <1>1, SubSeqProperties, LenProperties

LEMMA PrefixOfConcat ==
    ASSUME NEW s \in Seq(Byte), NEW t \in Seq(Byte)
    PROVE  Stream!IsPrefix(s, s \o t)
<1>1. Len(s) \in Nat /\ Len(t) \in Nat /\ Len(s \o t) = Len(s) + Len(t)
  BY LenProperties, ConcatProperties
<1>2. SubSeq(s, 1, Len(s)) = SubSeq(s \o t, 1, Len(s))
  <2>1. CASE Len(s) = 0
    BY <2>1, SubSeqEmpty
  <2>2. CASE Len(s) > 0
    <3>1. 1 \in 1..Len(s) /\ Len(s) \in 1..Len(s)
      BY <1>1, <2>2
    <3>2. SubSeq(s \o t, 1, Len(s)) = SubSeq(s, 1, Len(s))
      BY <3>1, SubSeqOfConcat1
    <3> QED BY <3>2
  <2> QED BY <1>1, <2>1, <2>2
<1> QED BY <1>1, <1>2 DEF Stream!IsPrefix

LEMMA PrefixOfItself ==
    ASSUME NEW s \in Seq(Byte)
    PROVE  Stream!IsPrefix(s, s)
BY LenProperties DEF Stream!IsPrefix

LEMMA PrefixOfPart ==
    ASSUME NEW f \in Seq(Byte), NEW k \in 0..Len(f), NEW j \in 0..k
    PROVE  Stream!IsPrefix(SubSeq(f, 1, j), SubSeq(f, 1, k))
<1>1. SubSeq(f, 1, j) \o SubSeq(f, j + 1, k) = SubSeq(f, 1, k)
  BY ConcatAdjacentSubSeq, LenProperties
<1>2. SubSeq(f, 1, j) \in Seq(Byte) /\ SubSeq(f, j + 1, k) \in Seq(Byte)
  BY Part, LenProperties
<1> QED BY <1>1, <1>2, PrefixOfConcat

-----------------------------------------------------------------------------
(* The steps of the stream, each with the step of ByteStream it is. *)

Implements == [Stream!Next]_(Stream!vars)

\* What the file and the buffer hold, in a stream that is written.
LEMMA Written0 ==
    ASSUME StreamTypeOK, WritePosition, mode # "READ"
    PROVE  /\ SubSeq(buffer, 1, nextc) \in Seq(Byte)
           /\ Len(SubSeq(buffer, 1, nextc)) = nextc
           /\ Arrived \in Seq(Byte)
           /\ Arrived = SubSeq(file, start + 1, Len(file))
<1>1. nextc \in Nat /\ \A k \in 1..nextc : buffer[k] \in Byte
  BY DEF StreamTypeOK, WritePosition
<1>2. SubSeq(buffer, 1, nextc) \in Seq(Byte) /\ Len(SubSeq(buffer, 1, nextc)) = nextc
  BY <1>1, FirstBytes
<1>3. Len(file) \in Nat /\ file \in Seq(Byte) /\ start \in 0..Len(file)
  BY LenProperties DEF StreamTypeOK
<1>4. SubSeq(file, start + 1, Len(file)) \in Seq(Byte)
  BY <1>3, Part
<1> QED BY <1>2, <1>4 DEF Arrived

\* What writing n bytes does to the file.
LEMMA WrittenFile ==
    ASSUME StreamTypeOK, WritePosition, mode # "READ", NEW n \in 0..nextc
    PROVE  /\ Written(n) \in Seq(Byte)
           /\ Len(Written(n)) = Len(file) + n
           /\ SubSeq(Written(n), start + 1, Len(Written(n)))
                = SubSeq(file, start + 1, Len(file)) \o SubSeq(buffer, 1, n)
<1>1. n \in Nat /\ \A k \in 1..n : buffer[k] \in Byte
  BY DEF StreamTypeOK, WritePosition
<1>2. SubSeq(buffer, 1, n) \in Seq(Byte) /\ Len(SubSeq(buffer, 1, n)) = n
  BY <1>1, FirstBytes
<1>3. file \in Seq(Byte) /\ start \in 0..Len(file)
  BY DEF StreamTypeOK
<1> QED BY ZenonT(30), <1>2, <1>3, Appended, ConcatProperties DEF Written

LEMMA PutKeeps ==
    ASSUME StreamOK, Writing, NEW c \in Byte, putWhole(c)
    PROVE  StreamOK' /\ Implements
<1> DEFINE rest == SubSeq(file, start + 1, Len(file))
<1>0. mode # "READ" /\ open /\ ~ended
  BY DEF Writing, StreamOK, EndOK
<1>1. /\ SubSeq(buffer, 1, nextc) \in Seq(Byte) /\ rest \in Seq(Byte) /\ Arrived = rest
      /\ nextc + left = BUFFER_LEN /\ \A k \in 1..nextc : buffer[k] \in Byte
  BY <1>0, Written0 DEF StreamOK, WritePosition
<1>2. UNCHANGED <<mode, open, pos, start, ended, broken>> /\ bytes' = Append(bytes, c)
  BY DEF putWhole
<1>3. CASE left > 0
  <2>1. /\ buffer' = [buffer EXCEPT ![nextc + 1] = c] /\ nextc' = nextc + 1
        /\ left' = left - 1 /\ file' = file
    BY <1>3 DEF putWhole, Store, StreamOK, StreamTypeOK
  <2>2. nextc + 1 \in 1..BUFFER_LEN
    BY <1>1, <1>3 DEF StreamOK, StreamTypeOK
  <2>3. buffer'[nextc + 1] = c /\ \A k \in 1..nextc : buffer'[k] = buffer[k]
    BY <1>1, <2>1, <2>2 DEF StreamOK, StreamTypeOK
  <2>4. SubSeq(buffer', 1, nextc + 1) = Append(SubSeq(buffer, 1, nextc), c)
    <3>1. nextc \in Nat
      BY DEF StreamOK, StreamTypeOK
    <3>2. SubSeq(buffer', 1, nextc + 1) = Append(SubSeq(buffer, 1, nextc), buffer'[nextc + 1])
      BY <1>1, <2>3, <3>1, OneMore
    <3> QED BY <2>3, <3>2
  <2>5. StreamTypeOK'
    BY <1>2, <1>3, <2>1, <2>2, AppendProperties DEF StreamOK, StreamTypeOK
  <2>6. WritePosition' /\ ReadPosition' /\ ReadBytes' /\ EndOK'
    BY <1>0, <1>1, <1>2, <1>3, <2>1, <2>2, <2>3
       DEF WritePosition, ReadPosition, ReadBytes, EndOK, StreamOK, StreamTypeOK
  <2>7. WriteBytes'
    <3>1. ~broken => bytes = rest \o SubSeq(buffer, 1, nextc)
      BY <1>0 DEF StreamOK, WriteBytes
    <3>2. Append(rest \o SubSeq(buffer, 1, nextc), c)
            = rest \o Append(SubSeq(buffer, 1, nextc), c)
      <4> HIDE DEF rest
      <4> QED BY <1>1, AppendToConcat
    <3> QED BY <1>2, <2>1, <2>4, <3>1, <3>2 DEF WriteBytes
  <2>8. Implements
    <3>1. Sent' = Append(Sent, c) /\ Arrived' = Arrived
      BY <1>0, <1>2, <2>1 DEF Sent, Arrived
    <3> QED BY <1>0, <1>2, <3>1 DEF Implements, Stream!Next, Stream!Send
  <2> QED BY <2>5, <2>6, <2>7, <2>8 DEF StreamOK
<1>4. CASE left = 0
  <2>1. /\ buffer' = [buffer EXCEPT ![1] = c] /\ nextc' = 1
        /\ left' = BUFFER_LEN - 1 /\ file' = Written(BUFFER_LEN)
    BY <1>4 DEF putWhole, Store, StreamOK, StreamTypeOK
  <2>2. nextc = BUFFER_LEN /\ BUFFER_LEN \in 0..nextc /\ 1 \in 1..BUFFER_LEN
    BY <1>1, <1>4 DEF StreamOK, StreamTypeOK
  <2>3. buffer'[1] = c
    BY <2>1, <2>2 DEF StreamOK, StreamTypeOK
  <2>4. /\ file' \in Seq(Byte) /\ Len(file') = Len(file) + BUFFER_LEN
        /\ SubSeq(file', start + 1, Len(file')) = rest \o SubSeq(buffer, 1, nextc)
    BY <1>0, <2>1, <2>2, WrittenFile DEF StreamOK
  <2>5. StreamTypeOK'
    <3>1. Len(file) \in Nat /\ Append(bytes, c) \in Seq(Byte)
      BY LenProperties, AppendProperties DEF StreamOK, StreamTypeOK
    <3> QED BY <1>2, <2>1, <2>2, <2>4, <3>1 DEF StreamOK, StreamTypeOK
  <2>6. WritePosition' /\ ReadPosition' /\ ReadBytes' /\ EndOK'
    BY <1>0, <1>2, <2>1, <2>2, <2>3
       DEF WritePosition, ReadPosition, ReadBytes, EndOK, StreamOK, StreamTypeOK
  <2>7. ~broken => SubSeq(file', start + 1, Len(file')) = bytes
    BY <1>0, <2>4 DEF StreamOK, WriteBytes
  <2>8. WriteBytes'
    <3>1. SubSeq(buffer', 1, 1) = <<c>>
      <4>1. SubSeq(buffer', 1, 0 + 1) = Append(SubSeq(buffer', 1, 0), buffer'[0 + 1])
        BY <2>3, OneMore
      <4>2. SubSeq(buffer', 1, 0) = <<>> /\ 0 + 1 = 1
        BY SubSeqEmpty
      <4>3. SubSeq(buffer', 1, 1) = Append(<<>>, c)
        BY <2>3, <4>1, <4>2
      <4> QED BY <4>3
    <3>2. Append(bytes, c) = bytes \o <<c>>
      BY AppendIsConcat DEF StreamOK, StreamTypeOK
    <3> QED BY <1>2, <2>1, <2>7, <3>1, <3>2 DEF WriteBytes
  <2>9. Implements
    <3>1. Sent' = Append(Sent, c) /\ Sent = bytes /\ Arrived' = rest \o SubSeq(buffer, 1, nextc)
      BY <1>0, <1>2, <2>4 DEF Sent, Arrived
    <3>2. CASE broken
      BY <1>2, <3>2 DEF Implements, Stream!Next, Stream!Break
    <3>3. CASE ~broken
      <4>1. bytes = rest \o SubSeq(buffer, 1, nextc) /\ bytes \in Seq(Byte)
        BY <1>0, <3>3 DEF StreamOK, StreamTypeOK, WriteBytes
      <4>2. Stream!IsPrefix(Arrived, Arrived') /\ Stream!IsPrefix(Arrived', Sent)
        <5> HIDE DEF rest
        <5> QED BY <1>1, <3>1, <4>1, PrefixOfConcat, PrefixOfItself
      <4> QED BY <1>2, <3>1, <4>2 DEF Implements, Stream!Next, Stream!Deliver
    <3> QED BY <3>2, <3>3
  <2> QED BY <2>5, <2>6, <2>8, <2>9 DEF StreamOK
<1> QED BY <1>3, <1>4 DEF StreamOK, StreamTypeOK

\* A byte is refused.
LEMMA PutFailsKeeps ==
    ASSUME StreamOK, Writing, NEW told \in BOOLEAN, putFails(told)
    PROVE  StreamOK' /\ Implements
<1>0. mode # "READ" /\ nextc = BUFFER_LEN /\ left = 0
  BY DEF Writing, putFails, StreamOK, StreamTypeOK, WritePosition
<1>1. PICK n \in 0..(BUFFER_LEN - 1) :
          file' = Written(n) /\ broken' = (broken \/ n > 0 \/ ~told)
  BY DEF putFails
<1>2. UNCHANGED <<mode, buffer, nextc, left, open, pos, bytes, start, ended>>
  BY DEF putFails, stream
<1>3. /\ file' \in Seq(Byte) /\ Len(file') = Len(file) + n
      /\ SubSeq(file', start + 1, Len(file'))
           = SubSeq(file, start + 1, Len(file)) \o SubSeq(buffer, 1, n)
  <2>1. n \in 0..nextc
    BY <1>0
  <2> QED BY <1>0, <1>1, <2>1, WrittenFile DEF StreamOK
<1>4. broken' \in BOOLEAN /\ Len(file) \in Nat
  BY <1>1, LenProperties DEF StreamOK, StreamTypeOK
<1>5. StreamTypeOK'
  BY <1>2, <1>3, <1>4 DEF StreamOK, StreamTypeOK
<1>6. WritePosition' /\ ReadPosition' /\ ReadBytes' /\ EndOK'
  BY <1>0, <1>2 DEF StreamOK, WritePosition, ReadPosition, ReadBytes, EndOK
<1>7. CASE broken'
  BY <1>5, <1>6, <1>7 DEF StreamOK, WriteBytes, Implements, Stream!Next, Stream!Break
<1>8. CASE ~broken'
  <2>1. n = 0 /\ ~broken
    <3>1. ~broken /\ ~(n > 0)
      BY <1>1, <1>8, Zenon
    <3> QED BY <3>1
  <2>2. SubSeq(buffer, 1, 0) = <<>>
    BY SubSeqEmpty
  <2>3. file' = file
    BY <1>1, <2>1, <2>2, ConcatEmptySeq DEF Written, StreamOK, StreamTypeOK
  <2>4. WriteBytes'
    BY <1>2, <1>8, <2>1, <2>3 DEF StreamOK, WriteBytes
  <2>5. broken' = broken
    BY <1>4, <1>8, <2>1 DEF StreamOK, StreamTypeOK
  <2>6. Implements
    BY <1>2, <2>3, <2>5 DEF Implements, Stream!vars, Sent, Arrived
  <2> QED BY <1>5, <1>6, <2>4, <2>6 DEF StreamOK
<1> QED BY <1>4, <1>7, <1>8

\* The buffer is written, and the stream perhaps closed.
LEMMA FlushWriteKeeps ==
    ASSUME StreamOK, mode # "READ", open, flushWrite,
           UNCHANGED <<mode, buffer, pos, bytes, start>>,
           (open' = open /\ ended' = ended) \/ (open' = FALSE /\ ended' = TRUE)
    PROVE  /\ StreamOK' /\ Implements
           /\ nextc' = 0
<1>0. nextc + left = BUFFER_LEN /\ ~ended
  BY DEF StreamOK, WritePosition, EndOK, StreamTypeOK
<1>1. PICK n \in 0..nextc : file' = Written(n) /\ broken' = (broken \/ n < nextc)
  <2>1. BUFFER_LEN - left = nextc
    BY <1>0 DEF StreamOK, StreamTypeOK
  <2> QED BY <2>1 DEF flushWrite
<1>2. nextc' = 0 /\ left' = BUFFER_LEN
  BY DEF flushWrite
<1>3. /\ file' \in Seq(Byte) /\ Len(file') = Len(file) + n
      /\ SubSeq(file', start + 1, Len(file'))
           = SubSeq(file, start + 1, Len(file)) \o SubSeq(buffer, 1, n)
  BY <1>1, WrittenFile DEF StreamOK
<1>4. broken' \in BOOLEAN /\ Len(file) \in Nat /\ open' \in BOOLEAN /\ ended' \in BOOLEAN
  BY <1>1, LenProperties DEF StreamOK, StreamTypeOK
<1>5. StreamTypeOK'
  BY <1>2, <1>3, <1>4 DEF StreamOK, StreamTypeOK
<1>6. WritePosition' /\ ReadPosition' /\ ReadBytes' /\ EndOK'
  <2>1. WritePosition' /\ ReadPosition' /\ ReadBytes'
    BY <1>2 DEF WritePosition, ReadPosition, ReadBytes
  <2>2. EndOK'
    BY <1>0 DEF EndOK
  <2> QED BY <2>1, <2>2
<1>7. CASE broken'
  BY <1>2, <1>5, <1>6, <1>7 DEF StreamOK, WriteBytes, Implements, Stream!Next, Stream!Break
<1>8. CASE ~broken'
  <2>1. n = nextc /\ ~broken /\ broken' = broken
    <3>1. ~broken /\ ~(n < nextc)
      BY <1>1, <1>8, Zenon
    <3>2. broken' = broken
      BY <1>4, <1>8, <3>1, Zenon DEF StreamOK, StreamTypeOK
    <3>3. n = nextc
      BY <3>1 DEF StreamOK, StreamTypeOK
    <3> QED BY <3>1, <3>2, <3>3
  <2>2. SubSeq(file', start + 1, Len(file')) = bytes /\ bytes \in Seq(Byte)
    BY <1>3, <2>1 DEF StreamOK, WriteBytes, StreamTypeOK
  <2>3. bytes \o SubSeq(buffer, 1, 0) = bytes
    BY <2>2, SubSeqEmpty, ConcatEmptySeq
  <2>4. WriteBytes'
    BY <1>2, <2>2, <2>3 DEF WriteBytes
  <2>5. Arrived' = bytes /\ Sent' = bytes /\ Sent = bytes
    BY <2>2 DEF Arrived, Sent
  <2>6. Implements
    <3>1. CASE ended' = TRUE
      BY <2>1, <2>5, <3>1 DEF Implements, Stream!Next, Stream!End
    <3>2. CASE ended' = ended
      <4>1. /\ SubSeq(buffer, 1, nextc) \in Seq(Byte) /\ Arrived \in Seq(Byte)
            /\ bytes = Arrived \o SubSeq(buffer, 1, nextc)
        BY <2>1, Written0 DEF StreamOK, WriteBytes
      <4>2. Stream!IsPrefix(Arrived, bytes) /\ Stream!IsPrefix(bytes, bytes)
        <5>1. Stream!IsPrefix(Arrived, Arrived \o SubSeq(buffer, 1, nextc))
          BY <4>1, PrefixOfConcat
        <5> QED BY <2>2, <4>1, <5>1, PrefixOfItself
      <4> QED BY <2>1, <2>5, <3>2, <4>2 DEF Implements, Stream!Next, Stream!Deliver
    <3> QED BY <3>1, <3>2
  <2> QED BY <1>2, <1>5, <1>6, <2>4, <2>6 DEF StreamOK
<1> QED BY <1>4, <1>7, <1>8, <1>2

\* What has been read ahead is dropped, and the stream perhaps closed.
LEMMA FlushReadKeeps ==
    ASSUME StreamOK, mode = "READ", flushRead, open' \in BOOLEAN,
           UNCHANGED <<mode, buffer, pos, bytes, start, ended>>
    PROVE  StreamOK' /\ Implements
<1>1. nextc' = 0 /\ left' = 0 /\ file' = file /\ broken' = (broken \/ left > 0)
  BY DEF flushRead
<1>2. broken' \in BOOLEAN
  BY <1>1 DEF StreamOK, StreamTypeOK
<1>3. StreamTypeOK'
  BY <1>1, <1>2 DEF StreamOK, StreamTypeOK
<1>4. WritePosition' /\ ReadPosition' /\ WriteBytes' /\ EndOK'
  BY <1>1 DEF StreamOK, StreamTypeOK, WritePosition, ReadPosition, WriteBytes, EndOK
<1>5. CASE broken'
  BY <1>3, <1>4, <1>5 DEF StreamOK, ReadBytes, Implements, Stream!Next, Stream!Break
<1>6. CASE ~broken'
  <2>1. left = 0 /\ ~broken /\ broken' = broken
    <3>1. ~broken /\ ~(left > 0)
      BY <1>1, <1>6, Zenon
    <3>2. broken' = broken
      BY <1>2, <1>6, <3>1, Zenon DEF StreamOK, StreamTypeOK
    <3>3. left = 0
      BY <3>1 DEF StreamOK, StreamTypeOK
    <3> QED BY <3>1, <3>2, <3>3
  <2>2. ReadBytes'
    BY <1>1, <2>1 DEF StreamOK, ReadBytes
  <2>3. Implements
    BY <1>1, <2>1 DEF Implements, Stream!vars, Sent, Arrived
  <2> QED BY <1>3, <1>4, <2>2, <2>3 DEF StreamOK
<1> QED BY <1>2, <1>5, <1>6

\* A byte is taken from the buffer, which is filled before if it is empty.
LEMMA GetKeeps ==
    ASSUME StreamOK, Reading, getByte
    PROVE  StreamOK' /\ Implements
<1> DEFINE c == buffer'[nextc']
           k == pos - left
<1>0. mode = "READ" /\ UNCHANGED <<mode, open, file, start, ended>>
  BY DEF Reading, getByte
<1>1. /\ nextc + left <= BUFFER_LEN /\ left <= pos /\ pos <= Len(file) /\ Len(file) \in Nat
      /\ \A m \in 1..left : buffer[nextc + m] = file[pos - left + m]
  BY <1>0, LenProperties DEF StreamOK, StreamTypeOK, ReadPosition
<1>2. \A m \in 1..Len(file) : file[m] \in Byte
  BY ElementOfSeq DEF StreamOK, StreamTypeOK
<1>3. /\ buffer' \in [1..BUFFER_LEN -> Byte \cup {Unset}]
      /\ nextc' \in 0..BUFFER_LEN /\ left' \in 0..BUFFER_LEN /\ pos' \in 0..Len(file)
      /\ ReadPosition'
      /\ c = file[k + 1] /\ k + 1 \in 1..Len(file) /\ pos' - left' = k + 1
  <2>1. CASE Buffered
    <3>1. left > 0 /\ nextc' = nextc + 1 /\ left' = left - 1 /\ UNCHANGED <<buffer, pos>>
      BY <2>1 DEF Buffered
    <3>2. c = file[k + 1]
      <4>1. 1 \in 1..left /\ c = buffer[nextc + 1]
        BY <3>1 DEF StreamOK, StreamTypeOK
      <4>2. buffer[nextc + 1] = file[pos - left + 1]
        BY <1>1, <4>1
      <4> QED BY <4>1, <4>2
    <3>3. ReadPosition'
      <4>1. nextc' + left' <= BUFFER_LEN /\ left' <= pos'
        BY <1>1, <3>1 DEF StreamOK, StreamTypeOK
      <4>2. ASSUME NEW m \in 1..left'
            PROVE  buffer'[nextc' + m] = file'[pos' - left' + m]
        <5>1. /\ m + 1 \in 1..left /\ nextc' + m = nextc + (m + 1)
              /\ pos' - left' + m = pos - left + (m + 1)
          BY <3>1 DEF StreamOK, StreamTypeOK
        <5> QED BY <1>0, <1>1, <3>1, <5>1
      <4> QED BY <4>1, <4>2 DEF ReadPosition
    <3> QED BY SMTT(20), <1>1, <3>1, <3>2, <3>3 DEF StreamOK, StreamTypeOK
  <2>2. CASE \E n \in 1..BUFFER_LEN : Fill(n)
    <3>1. PICK n \in 1..BUFFER_LEN : Fill(n)
      BY <2>2
    <3>2. /\ left = 0 /\ pos + n <= Len(file) /\ pos' = pos + n
          /\ nextc' = 1 /\ left' = n - 1
          /\ buffer' = [m \in 1..BUFFER_LEN |-> IF m <= n THEN file[pos + m] ELSE buffer[m]]
      BY <3>1 DEF Fill
    <3>3. \A m \in 1..n : buffer'[m] = file[pos + m] /\ pos + m \in 1..Len(file)
      BY <1>1, <3>2 DEF StreamOK, StreamTypeOK
    <3>4. buffer' \in [1..BUFFER_LEN -> Byte \cup {Unset}]
      BY <1>2, <3>2, <3>3 DEF StreamOK, StreamTypeOK
    <3>5. c = file[k + 1] /\ pos' - left' = k + 1
      BY <1>1, <3>2, <3>3 DEF StreamOK, StreamTypeOK
    <3>6. ReadPosition'
      <4>1. nextc' + left' <= BUFFER_LEN /\ left' <= pos'
        BY <1>1, <3>2 DEF StreamOK, StreamTypeOK
      <4>2. ASSUME NEW m \in 1..left'
            PROVE  buffer'[nextc' + m] = file'[pos' - left' + m]
        <5>1. /\ m + 1 \in 1..n /\ nextc' + m = m + 1
              /\ pos' - left' + m = pos + (m + 1)
          BY <3>2 DEF StreamOK, StreamTypeOK
        <5> QED BY <1>0, <3>3, <5>1
      <4> QED BY <4>1, <4>2 DEF ReadPosition
    <3> QED BY <1>1, <3>2, <3>4, <3>5, <3>6 DEF StreamOK, StreamTypeOK
  <2> QED BY <2>1, <2>2 DEF getByte
<1>4. c \in Byte
  BY <1>2, <1>3
<1>5. /\ broken' = (c = FF \/ broken)
      /\ bytes' = IF c = FF THEN bytes ELSE Append(bytes, c)
  BY DEF getByte, StreamOK, StreamTypeOK
<1> HIDE DEF c, k
<1>6. StreamTypeOK'
  <2>1. bytes' \in Seq(Byte)
    BY <1>4, <1>5, AppendProperties DEF StreamOK, StreamTypeOK
  <2>2. broken' \in BOOLEAN
    BY <1>5 DEF StreamOK, StreamTypeOK
  <2> QED BY <1>0, <1>3, <2>1, <2>2 DEF StreamOK, StreamTypeOK
<1>7. WritePosition' /\ WriteBytes' /\ EndOK'
  BY <1>0 DEF WritePosition, WriteBytes, EndOK
<1>8. CASE broken'
  BY <1>3, <1>6, <1>7, <1>8 DEF StreamOK, ReadBytes, Implements, Stream!Next, Stream!Break
<1>9. CASE ~broken'
  <2>1. ~broken /\ broken' = broken /\ bytes' = Append(bytes, c)
    BY <1>5, <1>9 DEF StreamOK, StreamTypeOK
  <2>2. bytes = SubSeq(file, 1, k)
    BY <1>0, <2>1 DEF StreamOK, ReadBytes, k
  <2>3. k \in 0..Len(file) /\ k \in 0..(k + 1) /\ k + 1 \in 0..Len(file)
    BY <1>1, <1>3 DEF k, StreamOK, StreamTypeOK
  <2>4. SubSeq(file, 1, k + 1) = Append(SubSeq(file, 1, k), c)
    <3>1. k \in Nat /\ file[k + 1] \in Byte /\ \A m \in 1..k : file[m] \in Byte
      BY <1>2, <1>3, <2>3
    <3>2. SubSeq(file, 1, k + 1) = Append(SubSeq(file, 1, k), file[k + 1])
      BY <3>1, OneMore
    <3> QED BY <1>3, <3>2
  <2>5. bytes' = SubSeq(file, 1, k + 1)
    BY <2>1, <2>2, <2>4
  <2>6. ReadBytes'
    BY <1>0, <1>3, <2>5 DEF ReadBytes
  <2>7. Implements
    <3>1. Sent = file /\ Sent' = file /\ Arrived = bytes /\ Arrived' = bytes'
      BY <1>0 DEF Sent, Arrived
    <3>2. Stream!IsPrefix(bytes, bytes') /\ Stream!IsPrefix(bytes', file)
      <4>1. file \in Seq(Byte) /\ SubSeq(file, 1, Len(file)) = file
            /\ Len(file) \in 0..Len(file)
        BY <1>1, SubSeqFull DEF StreamOK, StreamTypeOK
      <4>2. Stream!IsPrefix(SubSeq(file, 1, k), SubSeq(file, 1, k + 1))
        BY <2>3, <4>1, PrefixOfPart
      <4>3. Stream!IsPrefix(SubSeq(file, 1, k + 1), SubSeq(file, 1, Len(file)))
        BY <2>3, <4>1, PrefixOfPart
      <4> QED BY <2>2, <2>5, <4>1, <4>2, <4>3
    <3> QED BY <1>0, <2>1, <3>1, <3>2 DEF Implements, Stream!Next, Stream!Deliver
  <2> QED BY <1>3, <1>6, <1>7, <2>6, <2>7 DEF StreamOK
<1> QED BY <1>6, <1>8, <1>9 DEF StreamTypeOK

\* The end of the file.
LEMMA GetEndKeeps ==
    ASSUME StreamOK, Reading, getEnd
    PROVE  StreamOK' /\ Implements
<1>1. /\ mode = "READ" /\ left = 0 /\ pos = Len(file) /\ ended' = TRUE
      /\ UNCHANGED <<mode, buffer, nextc, left, open, file, pos, bytes, start, broken>>
  BY DEF Reading, getEnd, stream
<1>2. StreamTypeOK'
  BY <1>1 DEF StreamOK, StreamTypeOK
<1>3. WritePosition' /\ ReadPosition' /\ WriteBytes' /\ ReadBytes' /\ EndOK'
  BY <1>1 DEF StreamOK, WritePosition, ReadPosition, WriteBytes, ReadBytes, EndOK
<1>4. Implements
  <2>1. CASE broken
    BY <1>1, <2>1 DEF Implements, Stream!Next, Stream!Break, StreamOK, StreamTypeOK
  <2>2. CASE ~broken
    <3>1. bytes = SubSeq(file, 1, Len(file)) /\ Len(file) \in Nat
      BY <1>1, <2>2, LenProperties DEF StreamOK, ReadBytes, StreamTypeOK
    <3>2. bytes = file
      BY <3>1, SubSeqFull DEF StreamOK, StreamTypeOK
    <3> QED BY <1>1, <3>2 DEF Implements, Stream!Next, Stream!End, Sent, Arrived
  <2> QED BY <2>1, <2>2
<1> QED BY <1>2, <1>3, <1>4 DEF StreamOK

-----------------------------------------------------------------------------
(* The calls. *)

LEMMA InitOK == Init => IInv /\ Stream!Init
<1> SUFFICES ASSUME Init PROVE IInv /\ Stream!Init
  OBVIOUS
<1>1. file \in Seq(Byte) /\ Len(file) \in Nat
  BY ContentAssumption, LenProperties DEF Init
<1>2. StreamTypeOK /\ CallTypeOK
  <2>1. StreamTypeOK
    <3>1. <<>> \in Seq(Byte) /\ mode \in {"READ", "WRITE", "APPEND"}
      BY EmptySeq DEF Init
    <3>2. left \in 0..BUFFER_LEN /\ nextc \in 0..BUFFER_LEN
      BY DEF Init
    <3>3. buffer \in [1..BUFFER_LEN -> Byte \cup {Unset}]
      BY DEF Init
    <3>4. /\ open \in BOOLEAN /\ ended \in BOOLEAN /\ broken \in BOOLEAN
          /\ pos \in 0..Len(file) /\ start \in 0..Len(file) /\ bytes \in Seq(Byte)
      <4>1. open \in BOOLEAN /\ ended \in BOOLEAN /\ broken \in BOOLEAN
        BY Zenon DEF Init
      <4>2. pos = 0 /\ start = Len(file) /\ bytes = <<>>
        BY DEF Init
      <4> QED BY <1>1, <3>1, <4>1, <4>2
    <3> QED BY <1>1, <3>1, <3>2, <3>3, <3>4 DEF StreamTypeOK
  <2>2. CallTypeOK
    BY EmptySeq DEF Init, CallTypeOK, Idle
  <2> QED BY <2>1, <2>2
<1>3. WritePosition /\ ReadPosition /\ EndOK
  BY <1>1 DEF Init, WritePosition, ReadPosition, EndOK
<1>4. SubSeq(file, Len(file) + 1, Len(file)) = <<>> /\ SubSeq(buffer, 1, 0) = <<>>
      /\ SubSeq(file, 1, 0) = <<>>
  BY <1>1, SubSeqEmpty
<1>5. WriteBytes /\ ReadBytes
  BY <1>1, <1>4 DEF Init, WriteBytes, ReadBytes
<1>6. CallOK /\ LineOK
  BY <1>2 DEF Init, CallOK, LineOK, Idle
<1>7. Stream!Init
  BY <1>1, <1>4 DEF Init, Stream!Init, Sent, Arrived
<1> QED BY <1>2, <1>3, <1>5, <1>6, <1>7 DEF IInv, StreamOK

\* A step that does not touch the stream.
LEMMA NothingKeeps ==
    ASSUME StreamOK, UNCHANGED <<stream, file, pos, history>>
    PROVE  StreamOK' /\ Implements
<1>1. UNCHANGED <<mode, buffer, nextc, left, open, file, pos, bytes, start, ended, broken>>
  BY DEF stream, history
<1>2. Implements
  BY <1>1 DEF Implements, Stream!vars, Sent, Arrived
<1>3. StreamTypeOK' /\ WritePosition' /\ ReadPosition'
  BY <1>1 DEF StreamOK, StreamTypeOK, WritePosition, ReadPosition
<1>4. WriteBytes' /\ ReadBytes' /\ EndOK'
  BY <1>1 DEF StreamOK, WriteBytes, ReadBytes, EndOK
<1> QED BY <1>2, <1>3, <1>4 DEF StreamOK

\* No call is under way.
LEMMA IdleOK ==
    ASSUME call' = Idle
    PROVE  CallOK' /\ LineOK'
BY EmptySeq DEF CallOK, LineOK, CallTypeOK, Idle

LEMMA PutStep ==
    ASSUME IInv,
           \/ \E c \in Byte : mfputc(c)
           \/ \E text \in Text : putText("mfputs", text) \/ putText("mfwrite", text)
           \/ putNext \/ putFlush \/ putReturns
    PROVE  IInv' /\ Implements
<1>1. ASSUME NEW c \in Byte, mfputc(c)
      PROVE  IInv' /\ Implements
  <2>1. Writing /\ call' = Idle /\ (putWhole(c) \/ putFails(TRUE))
    BY <1>1 DEF mfputc
  <2> QED BY <2>1, PutKeeps, PutFailsKeeps, IdleOK DEF IInv
<1>2. ASSUME NEW text \in Text, NEW op \in {"mfputs", "mfwrite"}, putText(op, text)
      PROVE  IInv' /\ Implements
  <2>1. /\ Writing /\ UNCHANGED <<stream, file, pos, history>>
        /\ call' = [Idle EXCEPT !.op = op, !.text = text]
    BY <1>2 DEF putText
  <2>2. text \in Seq(Byte) /\ text # <<>>
    BY ContentAssumption
  <2>3. call' = [op |-> op, text |-> text, want |-> 0, flush |-> FALSE]
    BY <2>1 DEF Idle
  <2>4. Writing'
    BY <2>1 DEF Writing, stream
  <2>5. CallOK' /\ LineOK'
    BY <2>2, <2>3, <2>4 DEF CallOK, CallTypeOK, LineOK
  <2> QED BY <2>1, <2>5, NothingKeeps DEF IInv
<1>3. CASE putNext
  <2> DEFINE c == Head(call.text)
  <2>1. /\ Writing /\ call \in [op : {"none", "mfputs", "mfwrite", "mfgets", "mfread"},
                             text : Seq(Byte), want : Nat, flush : BOOLEAN]
        /\ call.text # <<>>
    BY <1>3 DEF putNext, IInv, CallOK, CallTypeOK
  <2>2. c \in Byte /\ Tail(call.text) \in Seq(Byte)
    BY <2>1, HeadTailProperties
  <2> HIDE DEF c
  <2>3. putWhole(c) \/ putFails(FALSE)
    BY <1>3 DEF putNext, c
  <2>4. StreamOK' /\ Implements
    BY <2>1, <2>2, <2>3, PutKeeps, PutFailsKeeps DEF IInv
  <2>5. call' = [call EXCEPT !.text = Tail(call.text), !.flush = (c = NL)]
    BY <1>3 DEF putNext, c
  <2>6. CallTypeOK'
    BY <2>1, <2>2, <2>5 DEF CallTypeOK
  <2>7. mode' = mode /\ open' = open
    BY <2>3 DEF putWhole, putFails, stream
  <2>8. call'.want = call.want /\ (call'.flush <=> c = NL)
    BY <2>1, <2>5
  <2>9. CallOK'
    BY <2>1, <2>6, <2>7, <2>8 DEF CallOK, IInv, Writing, Reading
  <2>10. LineOK'
    <3>1. CASE putWhole(c)
      <4>1. bytes' = Append(bytes, c) /\ bytes \in Seq(Byte)
        BY <3>1 DEF putWhole, IInv, StreamOK, StreamTypeOK
      <4>2. bytes'[Len(bytes')] = c
        BY <2>2, <4>1, AppendProperties
      <4> QED BY <2>8, <4>2 DEF LineOK
    <3>2. CASE putFails(FALSE)
      BY <3>2 DEF LineOK, putFails
    <3> QED BY <2>3, <3>1, <3>2
  <2> QED BY <2>4, <2>9, <2>10 DEF IInv
<1>4. CASE putFlush
  <2>1. /\ flushWrite /\ UNCHANGED <<mode, buffer, open, pos, bytes, start, ended>>
        /\ call' = [call EXCEPT !.flush = FALSE] /\ call.flush
    BY <1>4 DEF putFlush
  <2>2. Writing /\ CallTypeOK
    BY <2>1 DEF IInv, CallOK
  <2>3. mode # "READ" /\ open
    BY <2>2 DEF Writing
  <2>4. StreamOK' /\ Implements /\ nextc' = 0
    BY <2>1, <2>3, FlushWriteKeeps DEF IInv
  <2>5. CallTypeOK' /\ call'.want = call.want
    BY <2>1, <2>2 DEF CallTypeOK
  <2>6. CallOK' /\ LineOK'
    BY <2>1, <2>3, <2>4, <2>5 DEF CallOK, LineOK, IInv, Writing, Reading
  <2> QED BY <2>4, <2>6 DEF IInv
<1>5. CASE putReturns
  BY <1>5, NothingKeeps, IdleOK DEF putReturns, IInv
<1> QED BY <1>1, <1>2, <1>3, <1>4, <1>5

LEMMA GetStep ==
    ASSUME IInv,
           \/ mfgetc
           \/ \E size \in 1..MaxSize : getText("mfgets", size) \/ getText("mfread", size)
           \/ getNext \/ getReturns
    PROVE  IInv' /\ Implements
<1>1. CASE mfgetc
  <2>1. Reading /\ call' = Idle /\ (getByte \/ getEnd)
    BY <1>1 DEF mfgetc
  <2> QED BY <2>1, GetKeeps, GetEndKeeps, IdleOK DEF IInv
<1>2. ASSUME NEW size \in 1..MaxSize, NEW op \in {"mfgets", "mfread"}, getText(op, size)
      PROVE  IInv' /\ Implements
  <2>1. /\ Reading /\ UNCHANGED <<stream, file, pos, history>>
        /\ call' = [Idle EXCEPT !.op = op, !.want = size]
    BY <1>2 DEF getText
  <2>2. call' = [op |-> op, text |-> <<>>, want |-> size, flush |-> FALSE]
    BY <2>1 DEF Idle
  <2>3. Reading' /\ size \in Nat
    BY <2>1 DEF Reading, stream
  <2>4. CallOK' /\ LineOK'
    BY <2>2, <2>3, EmptySeq DEF CallOK, CallTypeOK, LineOK
  <2> QED BY <2>1, <2>4, NothingKeeps DEF IInv
<1>3. CASE getNext
  <2>1. Reading /\ call.want > 0 /\ CallTypeOK
    BY <1>3 DEF getNext, IInv, CallOK
  <2>2. getByte \/ getEnd
    BY <1>3 DEF getNext
  <2>3. StreamOK' /\ Implements
    BY <2>1, <2>2, GetKeeps, GetEndKeeps DEF IInv
  <2>4. mode' = mode /\ open' = open
    BY <2>2 DEF getByte, getEnd, stream
  <2>5. call' = Idle \/ call' = [call EXCEPT !.want = call.want - 1]
    BY <1>3 DEF getNext
  <2>6. CASE call' = Idle
    BY <2>3, <2>6, IdleOK DEF IInv
  <2>7. CASE call' = [call EXCEPT !.want = call.want - 1]
    <3>1. CallTypeOK' /\ UNCHANGED <<call.text, call.flush, call.op>>
      BY <2>1, <2>7 DEF CallTypeOK
    <3>2. CallOK'
      BY <2>1, <2>4, <3>1 DEF CallOK, IInv, Writing, Reading
    <3>3. LineOK'
      BY <2>1, <3>1 DEF CallOK, IInv, Writing, Reading, LineOK
    <3> QED BY <2>3, <3>2, <3>3 DEF IInv
  <2> QED BY <2>5, <2>6, <2>7
<1>4. CASE getReturns
  BY <1>4, NothingKeeps, IdleOK DEF getReturns, IInv
<1> QED BY <1>1, <1>2, <1>3, <1>4

LEMMA FlushStep ==
    ASSUME IInv, mfflush \/ mfclose
    PROVE  IInv' /\ Implements
<1>1. /\ open /\ call = Idle /\ call' = call /\ flush
      /\ UNCHANGED <<mode, buffer, pos, bytes, start>>
      /\ \/ open' = open /\ ended' = ended
         \/ open' = FALSE /\ ended' = (ended \/ mode # "READ")
  BY DEF mfflush, mfclose
<1>2. CallOK' /\ LineOK'
  BY <1>1, IdleOK
<1>3. CASE mode = "READ"
  <2>1. ended' = ended /\ open' \in BOOLEAN
    BY <1>1, <1>3, Zenon DEF IInv, StreamOK, StreamTypeOK
  <2> QED BY <1>1, <1>2, <1>3, <2>1, FlushReadKeeps DEF flush, IInv
<1>4. CASE mode # "READ"
  <2>1. (open' = open /\ ended' = ended) \/ (open' = FALSE /\ ended' = TRUE)
    BY <1>1, <1>4, Zenon DEF IInv, StreamOK, StreamTypeOK
  <2> QED BY <1>1, <1>2, <1>4, <2>1, FlushWriteKeeps DEF flush, IInv
<1> QED BY <1>3, <1>4

\* Every step keeps the invariant and is a step of ByteStream, or none.
LEMMA Step ==
    ASSUME IInv, [Next]_vars
    PROVE  IInv' /\ Implements
<1>1. CASE Next
  BY <1>1, PutStep, GetStep, FlushStep DEF Next
<1>2. CASE UNCHANGED vars
  <2>1. UNCHANGED <<stream, file, pos, history>> /\ call' = call
    BY <1>2 DEF vars
  <2>2. UNCHANGED <<mode, open, nextc, bytes, broken>>
    BY <2>1 DEF stream, history
  <2>3. CallOK' /\ LineOK'
    BY <2>1, <2>2 DEF IInv, CallOK, CallTypeOK, LineOK, Writing, Reading
  <2> QED BY <2>1, <2>3, NothingKeeps DEF IInv
<1> QED BY <1>1, <1>2

-----------------------------------------------------------------------------
(* The theorems. *)

\* IInv holds always.
THEOREM InductiveInvariant == Spec => []IInv
<1>1. Init => IInv
  BY InitOK
<1>2. IInv /\ [Next]_vars => IInv'
  BY Step
<1> QED BY <1>1, <1>2, PTL DEF Spec

\* _nextc and _left fit together: neither what is written nor what is read runs
\* over the buffer, and what is left to read are the last bytes read.
THEOREM PositionAlwaysFits == Spec => []PositionFits
<1>1. IInv => PositionFits
  <2> SUFFICES ASSUME IInv PROVE PositionFits
    OBVIOUS
  <2>1. TypeOK /\ (mode # "READ" => nextc + left = BUFFER_LEN)
    BY DEF IInv, StreamOK, CallOK, TypeOK, WritePosition
  <2>2. ASSUME mode = "READ"
        PROVE  /\ nextc + left <= BUFFER_LEN
               /\ left > 0 => SubSeq(buffer, nextc + 1, nextc + left)
                                = SubSeq(file, pos - left + 1, pos)
    <3>1. /\ nextc + left <= BUFFER_LEN /\ left <= pos /\ pos <= Len(file)
          /\ \A k \in 1..left : buffer[nextc + k] = file[pos - left + k]
          /\ left \in Nat /\ pos \in Nat /\ nextc \in Nat /\ Len(file) \in Nat
          /\ file \in Seq(Byte)
      BY <2>2, LenProperties DEF IInv, StreamOK, StreamTypeOK, ReadPosition
    <3>2. ASSUME left > 0
          PROVE  SubSeq(buffer, nextc + 1, nextc + left) = SubSeq(file, pos - left + 1, pos)
      <4> DEFINE s == SubSeq(buffer, nextc + 1, nextc + left)
                 t == SubSeq(file, pos - left + 1, pos)
      <4>1. \A k \in (pos - left + 1)..pos : file[k] \in Byte
        BY <3>1, ElementOfSeq
      <4>2. \A k \in (nextc + 1)..(nextc + left) : buffer[k] \in Byte
        <5>1. ASSUME NEW k \in (nextc + 1)..(nextc + left)
              PROVE  buffer[k] \in Byte
          <6>1. /\ k - nextc \in 1..left /\ nextc + (k - nextc) = k
                /\ pos - left + (k - nextc) \in (pos - left + 1)..pos
            BY <3>1
          <6>2. buffer[nextc + (k - nextc)] = file[pos - left + (k - nextc)]
            BY <3>1, <6>1
          <6> QED BY <4>1, <6>1, <6>2
        <5> QED BY <5>1
      <4>3. /\ s \in Seq(Byte)
            /\ Len(s) = IF nextc + 1 <= nextc + left
                        THEN nextc + left - (nextc + 1) + 1 ELSE 0
            /\ \A k \in 1..(nextc + left - (nextc + 1) + 1) : s[k] = buffer[nextc + 1 + k - 1]
        BY <3>1, <4>2, SubSeqProperties
      <4>4. /\ t \in Seq(Byte)
            /\ Len(t) = IF pos - left + 1 <= pos THEN pos - (pos - left + 1) + 1 ELSE 0
            /\ \A k \in 1..(pos - (pos - left + 1) + 1) : t[k] = file[pos - left + 1 + k - 1]
        BY <3>1, <4>1, SubSeqProperties
      <4> HIDE DEF s, t
      <4>5. Len(s) = left /\ Len(t) = left
        BY <3>1, <3>2, <4>3, <4>4
      <4>6. ASSUME NEW k \in 1..left
            PROVE  s[k] = t[k]
        <5>1. s[k] = buffer[nextc + k] /\ t[k] = file[pos - left + k]
          BY <3>1, <4>3, <4>4
        <5> QED BY <3>1, <5>1
      <4>7. s = t
        BY <4>3, <4>4, <4>5, <4>6, SeqEqual
      <4> QED BY <4>7 DEF s, t
    <3> QED BY <3>1, <3>2
  <2> QED BY <2>1, <2>2 DEF PositionFits
<1> QED BY <1>1, InductiveInvariant, PTL

\* A line that mfputs or mfwrite has put at the end is in the file when it
\* returns, as long as the stream is not broken.
THEOREM LinesArriveAtOnce == Spec => LinesAreWritten
<1>1. ASSUME IInv, [Next]_vars
      PROVE  [call.op \in {"mfputs", "mfwrite"} /\ call' = Idle /\ ~broken
                => \/ bytes[Len(bytes)] # NL
                   \/ Arrived = bytes]_vars
  <2>1. SUFFICES ASSUME Next, call.op \in {"mfputs", "mfwrite"}, call' = Idle, ~broken,
                        bytes[Len(bytes)] = NL
                 PROVE  Arrived = bytes
    BY <1>1
  <2>2. Writing
    BY <1>1, <2>1 DEF IInv, CallOK
  <2>3. call.text = <<>> /\ ~call.flush
    <3>1. call # Idle /\ ~(call.want > 0)
      BY <1>1, <2>1, <2>2 DEF Idle, IInv, CallOK, Writing, Reading
    <3>2. CASE putNext \/ putFlush
      <4>1. call'.op = call.op
        BY <1>1, <3>2 DEF putNext, putFlush, IInv, CallOK, CallTypeOK
      <4> QED BY <2>1, <4>1 DEF Idle
    <3>3. CASE putReturns
      BY <3>3 DEF putReturns
    <3>4. CASE getNext \/ getReturns
      BY <2>1, <3>1, <3>4 DEF getNext, getReturns
    <3> QED BY <2>1, <3>1, <3>2, <3>3, <3>4 DEF Next, mfputc, putText, mfgetc, getText,
              mfflush, mfclose
  <2>4. nextc = 0
    BY <1>1, <2>1, <2>3 DEF IInv, LineOK
  <2>5. bytes = SubSeq(file, start + 1, Len(file)) \o SubSeq(buffer, 1, 0)
    BY <1>1, <2>1, <2>2, <2>4 DEF IInv, StreamOK, WriteBytes, Writing
  <2>6. SubSeq(buffer, 1, 0) = <<>>
    BY SubSeqEmpty
  <2>7. Arrived = SubSeq(file, start + 1, Len(file)) /\ Arrived \in Seq(Byte)
    BY <1>1, <2>2, Written0 DEF IInv, StreamOK, Writing
  <2> QED BY <2>5, <2>6, <2>7, ConcatEmptySeq
<1> QED BY <1>1, InductiveInvariant, PTL DEF Spec, LinesAreWritten

\* The buffer is not to be seen: every behaviour of the stream is one of
\* ByteStream, up to the step at which the stream is broken.
THEOREM BufferIsInvisible == Spec => ImplementsStream
<1>1. Init => Stream!Init
  BY InitOK
<1>2. IInv /\ [Next]_vars => [Stream!Next]_(Stream!vars)
  BY Step DEF Implements
<1> QED BY <1>1, <1>2, InductiveInvariant, PTL DEF Spec, ImplementsStream, Stream!Spec
=============================================================================
