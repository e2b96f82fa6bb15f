---------------------------- MODULE DictService -----------------------------
(***************************************************************************)
(* What the dictionary promises its users: a request takes effect on the   *)
(* two tables at one instant, its answer tells of the tables as they are   *)
(* at that instant, and the rows of a history arrive whole and in order    *)
(* unless the connection breaks.  A request may be refused for no reason   *)
(* the user can see.                                                       *)
(***************************************************************************)
EXTENDS Naturals, Sequences

CONSTANTS Client, Name, Passwd, Word, DictWord, Nothing

VARIABLES
    user, record,  \* the two tables
    call,          \* the request of each client that has had no effect yet
    answer,        \* the answer to the one that has had
    session,       \* the name under which the client is logged in
    broken,        \* clients whose connection has broken
    gone           \* clients that have left

vars == <<user, record, call, answer, session, broken, gone>>

Text(kind, x) == [kind |-> kind, of |-> x]
Plain(kind) == Text(kind, Nothing)
NoCall == [type |-> Nothing, name |-> Nothing, data |-> Plain("")]
NoAnswer == [name |-> Nothing, texts |-> <<>>]

Init ==
    /\ \A n \in Name \ DOMAIN user : record[n] = <<>>
    /\ call = [c \in Client |-> NoCall]
    /\ answer = [c \in Client |-> NoAnswer]
    /\ session = [c \in Client |-> Nothing]
    /\ broken = {} /\ gone = {}

\* Before the login the user gives a name and a password; after it words are
\* asked for, and the history, in the name of the session.
Requests(c) ==
    IF session[c] = Nothing
    THEN [type : {"register", "login"}, name : Name,
          data : {Text("passwd", p) : p \in Passwd}]
    ELSE [type : {"query"}, name : {session[c]},
          data : {Text("input", w) : w \in Word}]
             \cup {[type |-> "history", name |-> session[c],
                    data |-> Plain("")]}

Ask(c) ==
    /\ c \notin broken \cup gone
    /\ call[c] = NoCall /\ answer[c] = NoAnswer
    /\ \E m \in Requests(c) : call' = [call EXCEPT ![c] = m]
    /\ UNCHANGED <<user, record, answer, session, broken, gone>>

History(n) ==
    [i \in 1 .. Len(record[n]) |-> Text("row", record[n][i])]

\* The texts that answer request m when it leaves the tables alone.
Told(m) ==
    CASE m.type = "register" -> {<<Plain("already exist")>>}
      [] m.type = "login" ->
             {<<Plain("wrong")>>} \cup
                 IF m.name \in DOMAIN user /\ user[m.name] = m.data.of
                 THEN {<<Plain("OK")>>} ELSE {}
      [] m.type = "query" ->
             {<<Plain("fail to open dict.txt")>>} \cup
                 IF m.data.of \in DictWord THEN {} ELSE {<<Plain("Not found")>>}
      [] m.type = "history" ->
             {History(m.name) \o <<Plain("")>>, <<Plain("")>>}

\* The effect of m, and the texts that answer it.
Effect(m, texts) ==
    \/ texts \in Told(m) /\ UNCHANGED <<user, record>>
    \/ /\ m.type = "register" /\ m.name \notin DOMAIN user
       /\ texts = <<Plain("register ok")>>
       /\ user' = [n \in DOMAIN user \cup {m.name} |->
                      IF n = m.name THEN m.data.of ELSE user[n]]
       /\ UNCHANGED record
    \/ /\ m.type = "query" /\ m.data.of \in DictWord
       /\ texts = <<Text("meaning", m.data.of)>>
       /\ record' = [record EXCEPT ![m.name] = Append(@, m.data.of)]
       /\ UNCHANGED user

PossibleTexts(m) ==
    Told(m) \cup {<<Plain("register ok")>>, <<Text("meaning", m.data.of)>>}

\* A client that has left gets no answer to what it asked before.
TakeEffect(c) ==
    /\ c \notin broken /\ call[c] # NoCall
    /\ call' = [call EXCEPT ![c] = NoCall]
    /\ \E texts \in PossibleTexts(call[c]) :
           /\ Effect(call[c], texts)
           /\ answer' = IF c \in gone THEN answer
                        ELSE [answer EXCEPT ![c] =
                                 [name |-> call[c].name, texts |-> texts]]
    /\ UNCHANGED <<session, broken, gone>>

\* A query may be given up without an effect and without an answer.
GiveUp(c) ==
    /\ call[c].type = "query"
    /\ call' = [call EXCEPT ![c] = NoCall]
    /\ UNCHANGED <<user, record, answer, session, broken, gone>>

Return(c) ==
    /\ answer[c] # NoAnswer
    /\ answer' = [answer EXCEPT ![c] = NoAnswer]
    /\ session' = IF answer[c].texts = <<Plain("OK")>>
                  THEN [session EXCEPT ![c] = answer[c].name] ELSE session
    /\ UNCHANGED <<user, record, call, broken, gone>>

Leave(c) ==
    /\ gone' = gone \cup {c}
    /\ answer' = [answer EXCEPT ![c] = NoAnswer]
    /\ session' = [session EXCEPT ![c] = Nothing]
    /\ UNCHANGED <<user, record, call, broken>>

\* The request is lost, and so are the last texts of the answer.
Break(c) ==
    /\ broken' = broken \cup {c}
    /\ call' = [call EXCEPT ![c] = NoCall]
    /\ \E k \in 0 .. Len(answer[c].texts) :
           answer' = [answer EXCEPT ![c] =
               IF k = 0 THEN NoAnswer
               ELSE [name |-> answer[c].name, texts |-> SubSeq(answer[c].texts, 1, k)]]
    /\ UNCHANGED <<user, record, session, gone>>

Next ==
    \E c \in Client :
        Ask(c) \/ TakeEffect(c) \/ GiveUp(c) \/ Return(c) \/ Leave(c) \/ Break(c)

Spec == Init /\ [][Next]_vars
=============================================================================
