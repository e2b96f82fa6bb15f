------------------------------ MODULE OListSeq ------------------------------
(***************************************************************************)
(* What an OList promises (lib/libcmpt/include/OList.h): a finite sequence *)
(* of values and iterators into it.  The caller holds one iterator, cur:   *)
(* the position of the element it denotes, or 0 when it is the end, or     *)
(* when its element is gone.  An iterator stays with its element while     *)
(* others are inserted and erased around it.                               *)
(***************************************************************************)
EXTENDS Integers, SequencesExt

CONSTANTS Value, MaxLen

VARIABLES list, cur

vars == <<list, cur>>

Position == 1..Len(list)

TypeOK ==
    /\ list \in Seq(Value)
    /\ Len(list) <= MaxLen
    /\ cur \in 0..Len(list)

Init == list = <<>> /\ cur = 0

\* An element is put at position p.
Put(p, v) ==
    /\ Len(list) < MaxLen
    /\ list' = InsertAt(list, p, v)
    /\ cur' = IF cur >= p THEN cur + 1 ELSE cur

append(v) == Put(Len(list) + 1, v)

\* Before the caller's iterator; the end appends.
insert(v) == Put(IF cur = 0 THEN Len(list) + 1 ELSE cur, v)

update(v) ==
    /\ cur # 0
    /\ list' = [list EXCEPT ![cur] = v]
    /\ cur' = cur

Drop(p) ==
    /\ list' = RemoveAt(list, p)
    /\ cur' = IF cur = p THEN 0 ELSE IF cur > p THEN cur - 1 ELSE cur

erase == cur # 0 /\ Drop(cur)

eraseAt(p) == p \in Position /\ Drop(p)

clear == list' = <<>> /\ cur' = 0

\* The caller sets its iterator to what begin, end, iterAt, next, prev, insert
\* or append returned.
seek == cur' \in 0..Len(list) /\ list' = list

Next ==
    \/ \E v \in Value : append(v) \/ insert(v) \/ update(v)
    \/ \E p \in Position : eraseAt(p)
    \/ erase \/ clear \/ seek

Spec == Init /\ [][Next]_vars
=============================================================================
