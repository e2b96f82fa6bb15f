------------------------------- MODULE OList --------------------------------
(***************************************************************************)
(* The doubly linked list of libcmpt (lib/libcmpt/src/OList.c), node by    *)
(* node.  An iterator is the address of a node.  Every operation that      *)
(* takes one looks for it among the num nodes from head on and does        *)
(* nothing when it is not there; an erased node is freed, and the          *)
(* allocator may hand its address out again.                               *)
(*                                                                         *)
(* One thread uses the list, so an operation is one step.  Memory is       *)
(* Addr; calloc returns any free address, or fails (the operation then     *)
(* returns NULL and changes nothing).                                      *)
(***************************************************************************)
EXTENDS Integers, SequencesExt

CONSTANTS
    Addr,      \* addresses of nodes
    Value,     \* the members stored
    NULL,
    ReuseHeld  \* may calloc return a freed address the caller still holds?

ASSUME NullAssumption == NULL \notin Addr
ASSUME ReuseAssumption == ReuseHeld \in BOOLEAN

Ptr == Addr \cup {NULL}

VARIABLES
    head, tail, num,    \* struct PRIVATE_DATA
    next, prev, value,  \* struct double_list_node, by address
    live,               \* addresses of allocated nodes
    iter                \* the iterator the caller holds

listVars == <<head, tail, num, next, prev, value, live>>
vars == <<head, tail, num, next, prev, value, live, iter>>

Init ==
    /\ head = NULL /\ tail = NULL /\ num = 0
    /\ next = [a \in Addr |-> NULL]
    /\ prev = [a \in Addr |-> NULL]
    /\ value = [a \in Addr |-> NULL]
    /\ live = {}
    /\ iter = NULL

-----------------------------------------------------------------------------
(* The scans: for(i=0,temp=head; i<num; i++,temp=temp->next). *)

Nodes ==
    LET node[k \in 1..num] == IF k = 1 THEN head ELSE next[node[k - 1]]
    IN  [k \in 1..num |-> node[k]]

\* What iterAt(i) returns, and the node eraseAt(i) erases: i counts from 0, and
\* the loop over cnt does not run for a negative i.
NodeAt(i) ==
    IF i + 1 > num THEN NULL ELSE IF i <= 0 THEN head ELSE Nodes[i + 1]

\* value(pos) and update(pos) first look pos up; NULL means "not in the list".
InList(pos) == pos \in ToSet(Nodes)

ValueOf(pos) == IF InList(pos) THEN value[pos] ELSE NULL

\* begin, end, next and prev.
Begin == head
End == IF tail # NULL THEN next[tail] ELSE NULL
NextOf(pos) == IF InList(pos) THEN next[pos] ELSE NULL
PrevOf(pos) ==
    IF pos = NULL THEN tail ELSE IF InList(pos) THEN prev[pos] ELSE NULL

-----------------------------------------------------------------------------
(* Operations. *)

Fresh(a) == a \in Addr \ live /\ (a = iter => ReuseHeld)

LinkLast(a, v) ==
    /\ Fresh(a)
    /\ live' = live \cup {a}
    /\ value' = [value EXCEPT ![a] = v]
    /\ IF head = NULL /\ tail = NULL /\ num = 0
       THEN /\ head' = a
            /\ UNCHANGED <<next, prev>>
       ELSE /\ prev' = [prev EXCEPT ![a] = tail]
            /\ next' = [next EXCEPT ![tail] = a]
            /\ UNCHANGED head
    /\ tail' = a
    /\ num' = num + 1

append(a, v) == LinkLast(a, v) /\ UNCHANGED iter

\* Mutant: the back pointer of pos is not set.
LinkBeforeForwardOnly(a, pos, v) ==
    /\ Fresh(a)
    /\ live' = live \cup {a}
    /\ value' = [value EXCEPT ![a] = v]
    /\ next' = IF pos = head THEN [next EXCEPT ![a] = pos]
               ELSE [next EXCEPT ![prev[pos]] = a, ![a] = pos]
    /\ prev' = [prev EXCEPT ![a] = IF pos = head THEN NULL ELSE prev[pos]]
    /\ head' = IF pos = head THEN a ELSE head
    /\ num' = num + 1
    /\ UNCHANGED tail

LinkBefore(a, pos, v) ==
    /\ Fresh(a)
    /\ live' = live \cup {a}
    /\ value' = [value EXCEPT ![a] = v]
    /\ next' = IF pos = head THEN [next EXCEPT ![a] = pos]
               ELSE [next EXCEPT ![prev[pos]] = a, ![a] = pos]
    /\ prev' = [prev EXCEPT ![a] = IF pos = head THEN NULL ELSE prev[pos],
                            ![pos] = a]
    /\ head' = IF pos = head THEN a ELSE head
    /\ num' = num + 1
    /\ UNCHANGED tail

insert(a, v) ==
    /\ \/ iter = NULL /\ LinkLast(a, v)
       \/ InList(iter) /\ LinkBefore(a, iter, v)
    /\ UNCHANGED iter

\* Mutant: the node written is the one the scan starts from.
updateHead(v) ==
    /\ InList(iter)
    /\ value' = [value EXCEPT ![head] = v]
    /\ UNCHANGED <<head, tail, num, next, prev, live, iter>>

update(v) ==
    /\ InList(iter)
    /\ value' = [value EXCEPT ![iter] = v]
    /\ UNCHANGED <<head, tail, num, next, prev, live, iter>>

\* The neighbours are linked around a node in the middle; a head or a tail
\* hands its role over; the last node resets both.
Erase(pos) ==
    /\ next' = [a \in Addr |->
                  IF a = pos THEN NULL
                  ELSE IF pos # head /\ a = prev[pos] THEN next[pos]
                  ELSE next[a]]
    /\ prev' = [a \in Addr |->
                  IF a = pos THEN NULL
                  ELSE IF a = next[pos]
                  THEN IF pos = head THEN NULL ELSE prev[pos]
                  ELSE prev[a]]
    /\ value' = [value EXCEPT ![pos] = NULL]
    /\ live' = live \ {pos}
    /\ num' = num - 1
    /\ head' = IF num' = 0 THEN NULL
               ELSE IF pos = head THEN next[pos] ELSE head
    /\ tail' = IF num' = 0 THEN NULL
               ELSE IF pos # head /\ pos = tail THEN prev[pos] ELSE tail

erase ==
    /\ InList(iter)
    /\ Erase(iter)
    /\ UNCHANGED iter

eraseAt(i) ==
    /\ NodeAt(i) # NULL
    /\ Erase(NodeAt(i))
    /\ UNCHANGED iter

\* Mutant: the list is reset without freeing its nodes.
clearWithoutFree ==
    /\ head' = NULL /\ tail' = NULL /\ num' = 0
    /\ UNCHANGED <<next, prev, value, live, iter>>

clear ==
    /\ head' = NULL /\ tail' = NULL /\ num' = 0
    /\ next' = [a \in Addr |-> IF InList(a) THEN NULL ELSE next[a]]
    /\ prev' = [a \in Addr |-> IF InList(a) THEN NULL ELSE prev[a]]
    /\ value' = [a \in Addr |-> IF InList(a) THEN NULL ELSE value[a]]
    /\ live' = live \ ToSet(Nodes)
    /\ UNCHANGED iter

\* The caller moves its iterator with begin, end, iterAt, next or prev, or takes
\* the one insert or append returned (iterAt reaches every node).
seek ==
    /\ iter' \in {Begin, End, NextOf(iter), PrevOf(iter)}
                   \cup {NodeAt(i) : i \in 0..num}
    /\ UNCHANGED listVars

Next ==
    \/ \E a \in Addr, v \in Value : append(a, v) \/ insert(a, v)
    \/ \E v \in Value : update(v)
    \/ \E i \in 0..num : eraseAt(i)
    \/ erase \/ clear \/ seek

Spec == Init /\ [][Next]_vars

-----------------------------------------------------------------------------
(* Properties. *)

TypeOK ==
    /\ head \in Ptr /\ tail \in Ptr /\ num \in Nat
    /\ next \in [Addr -> Ptr] /\ prev \in [Addr -> Ptr]
    /\ value \in [Addr -> Value \cup {NULL}]
    /\ live \subseteq Addr
    /\ iter \in Ptr

\* The chain from head has num nodes, ends in tail, and is the same chain
\* backwards: what insert, append, erase and clear have to keep in every
\* combination of head, tail, middle and single node.
DoublyLinked ==
    /\ TypeOK
    /\ num = 0 => head = NULL /\ tail = NULL
    /\ num > 0 =>
        /\ prev[head] = NULL
        /\ tail = Nodes[num] /\ next[tail] = NULL
        /\ \A k \in 1..(num - 1) : prev[Nodes[k + 1]] = Nodes[k]
    /\ \A j, k \in 1..num : Nodes[j] = Nodes[k] => j = k

\* Every allocated node is in the chain and every node in the chain is
\* allocated: no operation leaks a node or leaves a freed one linked.
NoLeakNoDangling == live = ToSet(Nodes)

\* The list implements the sequence.  The caller's iterator is the position of
\* its node; an iterator whose node is gone is worth 0.
Elements == [k \in 1..num |-> value[Nodes[k]]]
Cursor == IF InList(iter) THEN CHOOSE k \in 1..num : Nodes[k] = iter ELSE 0

Abstract == INSTANCE OListSeq WITH
    list <- Elements, cur <- Cursor, MaxLen <- Cardinality(Addr)

ImplementsSeq == Abstract!Spec

-----------------------------------------------------------------------------
(***************************************************************************)
(* The inductive invariant behind them.  LinkLast does not write the       *)
(* pointers of the first node: it relies on calloc, and on the erased      *)
(* nodes of the model being as clear as those calloc returns.              *)
(***************************************************************************)

FreeIsClear == \A a \in Addr \ live : next[a] = NULL /\ prev[a] = NULL

\* Only the caller's values are in the list.
LiveHasValue == \A a \in live : value[a] \in Value

IInv == DoublyLinked /\ NoLeakNoDangling /\ FreeIsClear /\ LiveHasValue

-----------------------------------------------------------------------------
(* What OList.h says and the code does not do. *)

\* at and iterAt return NULL for an index that does not exist.
MissingIndexIsNull ==
    \A i \in (-1)..num : i \notin 0..(num - 1) => NodeAt(i) = NULL

\* An iterator whose node was erased stays invalid (value returns NULL and
\* update fails) until the caller moves it: never does an operation that adds
\* a node make it denote another element.
StaleStaysInvalid ==
    [][~InList(iter) /\ iter' = iter /\ num' > num => ~InList(iter)']_vars
=============================================================================
