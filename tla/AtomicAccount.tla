--------------------------- MODULE AtomicAccount ----------------------------
(***************************************************************************)
(* What an account promises its users: every call takes effect at one      *)
(* instant between its start and its return.                               *)
(***************************************************************************)
EXTENDS Integers

CONSTANTS
    User,     \* the threads or processes that call
    Request,  \* the calls they make: [op, amt]
    Initial,  \* the balance create_account was given
    Mortal,   \* may a user die in the middle of a call?
    NULL

VARIABLES balance, request, result

vars == <<balance, request, result>>

Init ==
    /\ balance = Initial
    /\ request = [u \in User |-> NULL]
    /\ result = [u \in User |-> NULL]

Call(u, r) ==
    /\ request[u] = NULL
    /\ request' = [request EXCEPT ![u] = r]
    /\ result' = [result EXCEPT ![u] = NULL]
    /\ UNCHANGED balance

\* The balance after request r is carried out at balance b, and what it returns.
Refused(b, r) ==
    r.op # "get_balance" /\ (r.amt < 0 \/ (r.op = "withdraw" /\ r.amt > b))
After(b, r) ==
    IF Refused(b, r) \/ r.op = "get_balance" THEN b
    ELSE IF r.op = "withdraw" THEN b - r.amt ELSE b + r.amt
Returned(b, r) ==
    IF Refused(b, r) THEN 0 ELSE IF r.op = "get_balance" THEN b ELSE r.amt

Apply(u) ==
    /\ request[u] # NULL /\ result[u] = NULL
    /\ balance' = After(balance, request[u])
    /\ result' = [result EXCEPT ![u] = Returned(balance, request[u])]
    /\ UNCHANGED request

Return(u) ==
    /\ request[u] # NULL /\ result[u] # NULL
    /\ request' = [request EXCEPT ![u] = NULL]
    /\ UNCHANGED <<balance, result>>

\* What a user had applied when it dies stays.
Die(u) ==
    /\ Mortal
    /\ request[u] # NULL
    /\ request' = [request EXCEPT ![u] = NULL]
    /\ UNCHANGED <<balance, result>>

Next ==
    \E u \in User : (\E r \in Request : Call(u, r)) \/ Apply(u) \/ Return(u)
                        \/ Die(u)

Spec == Init /\ [][Next]_vars
=============================================================================
