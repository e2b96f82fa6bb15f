-------------------------------- MODULE Dict --------------------------------
(***************************************************************************)
(* The dictionary server and its clients (dict/src/server.c, client.c).    *)
(* The server forks a child for every connection; the children share the   *)
(* tables user and record of one sqlite3 database.  A client runs its two  *)
(* menus and one request at a time: register and login in the first menu,  *)
(* query and history in the second.                                        *)
(*                                                                         *)
(* A channel is a sequence of whole MSG_T's, although TCP may cut them.    *)
(* sqlite3 has no busy handler here: a statement fails at once when the    *)
(* statement of another child locks it out.                                *)
(***************************************************************************)
EXTENDS Naturals, Sequences

CONSTANTS
    Client,
    Name,
    Passwd,
    Word,         \* the words users ask for
    DictWord,     \* those of them that dict.txt has
    MaxRequests,  \* bound: requests a client sends
    Nothing       \* no name, no word, no type

\* The number in MSG_T.type: what the client waits for, and the server's case.
Type == {"register", "login", "query", "history"}

ASSUME DictAssumption == DictWord \subseteq Word
ASSUME NothingAssumption == Nothing \notin Name \cup Word \cup Type
ASSUME BoundAssumption == MaxRequests \in Nat

\* The texts of MSG_T.data, with the password or the word they hold.
Text(kind, x) == [kind |-> kind, of |-> x]
EndOfRows == Text("", Nothing)
RegisterOk == Text("register ok", Nothing)
Exists == Text("already exist", Nothing)
LoginOk == Text("OK", Nothing)
Wrong == Text("wrong", Nothing)
NotFound == Text("Not found", Nothing)
NoFile == Text("fail to open dict.txt", Nothing)

Data ==
    {EndOfRows, RegisterOk, Exists, LoginOk, Wrong, NotFound, NoFile}
        \cup [kind : {"passwd"}, of : Passwd]
        \cup [kind : {"input"}, of : Word \cup {Nothing}]
        \cup [kind : {"meaning", "row"}, of : Word]

Msg == [type : Type \cup {Nothing}, name : Name \cup {Nothing}, data : Data]
Message(t, n, d) == [type |-> t, name |-> n, data |-> d]
NoMsg == Message(Nothing, Nothing, EndOfRows)

VARIABLES
    pc,         \* where each client is; in a member of Type: in its recv
    msg,        \* its send_msg, from a request of the first menu until it is back there
    shown,      \* what the history it is receiving has printed so far
    requests,   \* requests it has sent
    child,      \* where its child of the server is
    recvMsg,    \* the child's recv_msg
    row,        \* how many rows its history statement has called back for
    c2s, s2c,   \* the two directions of the connection
    listening,  \* is the server's parent running?
    user,       \* table user: name -> passwd
    record      \* table record: the words of each name, in the order of insertion

clientVars == <<pc, msg, shown, requests>>
childVars == <<child, recvMsg, row>>
database == <<user, record>>
vars == <<clientVars, childVars, c2s, s2c, listening, database>>

NoRecords == [n \in Name |-> <<>>]

\* The database file may have been used by earlier servers.
OldDatabase ==
    \/ user = [n \in {} |-> Nothing] /\ record = NoRecords
    \/ \E n \in Name, p \in Passwd :
           /\ user = [m \in {n} |-> p]
           /\ \/ record = NoRecords
              \/ \E w \in DictWord : record = [NoRecords EXCEPT ![n] = <<w>>]

Init ==
    /\ pc = [c \in Client |-> "start"]
    /\ msg = [c \in Client |-> NoMsg]
    /\ shown = [c \in Client |-> <<>>]
    /\ requests = [c \in Client |-> 0]
    /\ child = [c \in Client |-> "none"]
    /\ recvMsg = [c \in Client |-> NoMsg]
    /\ row = [c \in Client |-> 0]
    /\ c2s = [c \in Client |-> <<>>]
    /\ s2c = [c \in Client |-> <<>>]
    /\ listening = TRUE
    /\ OldDatabase

-----------------------------------------------------------------------------
(* The client.                                                             *)

\* In the first menu, memset clears send_msg before anything reads it.
Resume(c, at, m) ==
    /\ pc' = [pc EXCEPT ![c] = at]
    /\ msg' = [msg EXCEPT ![c] = IF at \in {"menu", "quit"} THEN NoMsg ELSE m]

connect(c) ==
    /\ pc[c] = "start"
    /\ pc' = [pc EXCEPT ![c] = IF listening THEN "menu" ELSE "quit"]
    /\ UNCHANGED <<msg, shown, requests, childVars, c2s, s2c, listening,
                   database>>

\* send.  To a child that has ended it succeeds, or SIGPIPE ends the client.
Send(c, m) ==
    /\ requests[c] < MaxRequests
    /\ requests' = [requests EXCEPT ![c] = @ + 1]
    /\ \/ /\ Resume(c, m.type, m)
          /\ c2s' = IF child[c] = "dead" THEN c2s
                    ELSE [c2s EXCEPT ![c] = Append(@, m)]
       \/ /\ child[c] = "dead"
          /\ Resume(c, "quit", m)
          /\ UNCHANGED c2s
    /\ UNCHANGED <<shown, childVars, s2c, listening, database>>

doRegister(c) ==
    /\ pc[c] = "menu"
    /\ \E n \in Name, p \in Passwd :
           Send(c, Message("register", n, Text("passwd", p)))

doLogin(c) ==
    /\ pc[c] = "menu"
    /\ \E n \in Name, p \in Passwd :
           Send(c, Message("login", n, Text("passwd", p)))

\* do_query goes on asking for words until the input is "#".
chooseQuery(c) ==
    /\ pc[c] = "session"
    /\ pc' = [pc EXCEPT ![c] = "word"]
    /\ msg' = [msg EXCEPT ![c].type = "query"]
    /\ UNCHANGED <<shown, requests, childVars, c2s, s2c, listening, database>>

doQuery(c) ==
    /\ pc[c] = "word"
    /\ \E w \in Word : Send(c, [msg[c] EXCEPT !.data = Text("input", w)])

endQuery(c) ==
    /\ pc[c] = "word"
    /\ pc' = [pc EXCEPT ![c] = "session"]
    /\ msg' = [msg EXCEPT ![c].data = Text("input", Nothing)]
    /\ UNCHANGED <<shown, requests, childVars, c2s, s2c, listening, database>>

doHistory(c) ==
    /\ pc[c] = "session"
    /\ Send(c, [msg[c] EXCEPT !.type = "history"])

\* Mutant: do_history does not notice the end of the rows.
AfterGoesOn(c, m) ==
    CASE pc[c] = "register" -> "menu"
      [] pc[c] = "login" -> IF m.data = LoginOk THEN "session" ELSE "menu"
      [] pc[c] = "query" -> "word"
      [] pc[c] = "history" -> "history"

\* Mutant: do_history takes one row for the answer.
AfterOneRow(c, m) ==
    CASE pc[c] = "register" -> "menu"
      [] pc[c] = "login" -> IF m.data = LoginOk THEN "session" ELSE "menu"
      [] pc[c] = "query" -> "word"
      [] pc[c] = "history" -> "session"

\* Where the client goes on after recv, with m in its send_msg.
After(c, m) ==
    CASE pc[c] = "register" -> "menu"
      [] pc[c] = "login" -> IF m.data = LoginOk THEN "session" ELSE "menu"
      [] pc[c] = "query" -> "word"
      [] pc[c] = "history" -> IF m.data = EndOfRows THEN "session"
                                                    ELSE "history"

Received(c, m) == Resume(c, After(c, m), m)

receive(c) ==
    /\ pc[c] \in Type /\ s2c[c] # <<>>
    /\ Received(c, Head(s2c[c]))
    /\ s2c' = [s2c EXCEPT ![c] = Tail(@)]
    /\ shown' = [shown EXCEPT ![c] = IF pc'[c] = "history"
                     THEN Append(@, Head(s2c[c]).data) ELSE <<>>]
    /\ UNCHANGED <<requests, childVars, c2s, listening, database>>

\* recv returns 0, which the client takes for an answer, or an error.
receiveEnd(c) ==
    /\ pc[c] \in Type /\ s2c[c] = <<>> /\ child[c] = "dead"
    /\ \/ Received(c, msg[c])
       \/ Resume(c, IF pc[c] \in {"register", "login"} THEN "menu"
                                                       ELSE "session", msg[c])
    /\ shown' = [shown EXCEPT ![c] = IF pc'[c] = "history" THEN @ ELSE <<>>]
    /\ UNCHANGED <<requests, childVars, c2s, s2c, listening, database>>

\* Quit in a menu, or an interrupt anywhere.
leave(c) ==
    /\ pc[c] \notin {"start", "quit"}
    /\ Resume(c, "quit", NoMsg)
    /\ s2c' = [s2c EXCEPT ![c] = <<>>]
    /\ shown' = [shown EXCEPT ![c] = <<>>]
    /\ UNCHANGED <<requests, childVars, c2s, listening, database>>

-----------------------------------------------------------------------------
(* The server.                                                             *)

Goto(c, to) == child' = [child EXCEPT ![c] = to]

accept(c) ==
    /\ listening /\ pc[c] # "start" /\ child[c] = "none"
    /\ Goto(c, "idle")
    /\ UNCHANGED <<clientVars, recvMsg, row, c2s, s2c, listening, database>>

\* accept or fork fails, and main returns; connections not accepted are reset.
stopListening ==
    /\ listening
    /\ listening' = FALSE
    /\ UNCHANGED <<clientVars, childVars, c2s, s2c, database>>

reset(c) ==
    /\ ~listening /\ pc[c] # "start" /\ child[c] = "none"
    /\ Goto(c, "dead")
    /\ c2s' = [c2s EXCEPT ![c] = <<>>]
    /\ UNCHANGED <<clientVars, recvMsg, row, s2c, listening, database>>

recvRequest(c) ==
    /\ child[c] = "idle" /\ c2s[c] # <<>>
    /\ recvMsg' = [recvMsg EXCEPT ![c] = Head(c2s[c])]
    /\ c2s' = [c2s EXCEPT ![c] = Tail(@)]
    /\ Goto(c, Head(c2s[c]).type)
    /\ UNCHANGED <<clientVars, row, s2c, listening, database>>

recvEnd(c) ==
    /\ child[c] = "idle" /\ c2s[c] = <<>> /\ pc[c] = "quit"
    /\ Goto(c, "dead")
    /\ UNCHANGED <<clientVars, recvMsg, row, c2s, s2c, listening, database>>

\* The statements of other children that may lock out the one of c; while
\* rows are called back, the lock is held for certain.
Writing == {"register", "insert"}
Reading == {"login", "history", "rows"}
Rival(c, d) ==
    /\ d # c
    /\ \/ child[d] \in Writing
       \/ child[d] \in Reading /\ child[c] \in Writing
MayBeBusy(c) == \E d \in Client : Rival(c, d)
CanRun(c) == child[c] \in Writing =>
                 \A d \in Client \ {c} : child[d] # "rows"

\* The text is put into recv_msg, and the answer is sent in a later step.
Answer(c, text) ==
    /\ recvMsg' = [recvMsg EXCEPT ![c].data = text]
    /\ Goto(c, "answer")

register(c) ==
    /\ child[c] = "register"
    /\ LET n == recvMsg[c].name
       IN  \/ /\ CanRun(c) /\ n \notin DOMAIN user
              /\ user' = [m \in DOMAIN user \cup {n} |->
                             IF m = n THEN recvMsg[c].data.of ELSE user[m]]
              /\ Answer(c, RegisterOk)
           \/ /\ MayBeBusy(c) \/ n \in DOMAIN user
              /\ Answer(c, Exists)
              /\ UNCHANGED user
    /\ UNCHANGED <<clientVars, row, c2s, s2c, listening, record>>

Registered(n, p) == n \in DOMAIN user /\ user[n] = p

login(c) ==
    /\ child[c] = "login"
    /\ \/ /\ Registered(recvMsg[c].name, recvMsg[c].data.of)
          /\ Answer(c, LoginOk)
       \/ /\ MayBeBusy(c) \/ ~Registered(recvMsg[c].name, recvMsg[c].data.of)
          /\ Answer(c, Wrong)
    /\ UNCHANGED <<clientVars, row, c2s, s2c, listening, database>>

\* do_searchword puts the meaning into recv_msg before it is recorded.
search(c) ==
    /\ child[c] = "query"
    /\ LET w == recvMsg[c].data.of
       IN  \/ /\ w \in DictWord
              /\ recvMsg' = [recvMsg EXCEPT ![c].data = Text("meaning", w)]
              /\ Goto(c, "insert")
           \/ w \notin DictWord /\ Answer(c, NotFound)
           \/ Answer(c, NoFile)
    /\ UNCHANGED <<clientVars, row, c2s, s2c, listening, database>>

\* Mutant: do_query sends the meaning although it could not record it.
insertAnswersAnyway(c) ==
    /\ child[c] = "insert"
    /\ \/ /\ CanRun(c)
          /\ record' = [record EXCEPT ![recvMsg[c].name] =
                             Append(@, recvMsg[c].data.of)]
       \/ MayBeBusy(c) /\ UNCHANGED record
    /\ Goto(c, "answer")
    /\ UNCHANGED <<clientVars, recvMsg, row, c2s, s2c, listening, user>>

\* When the insert fails, do_query returns without an answer.
insert(c) ==
    /\ child[c] = "insert"
    /\ \/ /\ CanRun(c)
          /\ record' = [record EXCEPT ![recvMsg[c].name] =
                             Append(@, recvMsg[c].data.of)]
          /\ Goto(c, "answer")
       \/ /\ MayBeBusy(c)
          /\ Goto(c, "idle")
          /\ UNCHANGED record
    /\ UNCHANGED <<clientVars, recvMsg, row, c2s, s2c, listening, user>>

history(c) ==
    /\ child[c] = "history"
    /\ row' = [row EXCEPT ![c] = 0]
    /\ \/ Goto(c, "rows") /\ UNCHANGED recvMsg
       \/ MayBeBusy(c) /\ Answer(c, EndOfRows)
    /\ UNCHANGED <<clientVars, c2s, s2c, listening, database>>

\* send to a client that is there, or that has left: SIGPIPE may end the child.
Reply(c, m, next) ==
    IF pc[c] # "quit"
    THEN /\ s2c' = [s2c EXCEPT ![c] = Append(@, m)]
         /\ Goto(c, next)
    ELSE /\ child' \in {[child EXCEPT ![c] = to] : to \in {next, "dead"}}
         /\ UNCHANGED s2c

\* The rows the statement has not come to yet, in the table as it is now.
RowsLeft(c) ==
    LET words == record[recvMsg[c].name]
    IN  [i \in 1 .. Len(words) - row[c] |-> Text("row", words[row[c] + i])]

\* history_callback; its msg has neither a type nor a name.
sendRow(c) ==
    /\ child[c] = "rows" /\ RowsLeft(c) # <<>>
    /\ Reply(c, Message(Nothing, Nothing, Head(RowsLeft(c))), "rows")
    /\ row' = [row EXCEPT ![c] = @ + 1]
    /\ UNCHANGED <<clientVars, recvMsg, c2s, listening, database>>

endRows(c) ==
    /\ child[c] = "rows" /\ RowsLeft(c) = <<>>
    /\ Answer(c, EndOfRows)
    /\ UNCHANGED <<clientVars, row, c2s, s2c, listening, database>>

sendAnswer(c) ==
    /\ child[c] = "answer"
    /\ Reply(c, recvMsg[c], "idle")
    /\ UNCHANGED <<clientVars, recvMsg, row, c2s, listening, database>>

\* The child is killed; a statement that has not ended is undone.
kill(c) ==
    /\ child[c] \notin {"none", "dead"}
    /\ Goto(c, "dead")
    /\ c2s' = [c2s EXCEPT ![c] = <<>>]
    /\ UNCHANGED <<clientVars, recvMsg, row, s2c, listening, database>>

-----------------------------------------------------------------------------

Menu(c) ==
    \/ connect(c) \/ doRegister(c) \/ doLogin(c) \/ chooseQuery(c)
    \/ doQuery(c) \/ endQuery(c) \/ doHistory(c) \/ leave(c)
Recv(c) == receive(c) \/ receiveEnd(c)
Accept(c) == accept(c) \/ reset(c)
Serve(c) ==
    \/ recvRequest(c) \/ recvEnd(c) \/ register(c) \/ login(c) \/ search(c)
    \/ insert(c) \/ history(c) \/ sendRow(c) \/ endRows(c) \/ sendAnswer(c)

\* Everybody has quit.
Terminating == (\A c \in Client : pc[c] = "quit") /\ UNCHANGED vars

Next ==
    \/ \E c \in Client : Menu(c) \/ Recv(c) \/ Accept(c) \/ Serve(c) \/ kill(c)
    \/ stopListening
    \/ Terminating

Spec == Init /\ [][Next]_vars

\* Users and signals are free; whoever can run runs.
FairSpec ==
    Spec /\ \A c \in Client : /\ WF_vars(Recv(c))
                              /\ WF_vars(Accept(c))
                              /\ WF_vars(Serve(c))

-----------------------------------------------------------------------------

TypeOK ==
    /\ pc \in [Client -> Type \cup {"start", "menu", "session", "word", "quit"}]
    /\ msg \in [Client -> Msg]
    /\ shown \in [Client -> Seq(Data)]
    /\ requests \in [Client -> 0 .. MaxRequests]
    /\ child \in [Client -> Type \cup
                     {"none", "idle", "insert", "rows", "answer", "dead"}]
    /\ recvMsg \in [Client -> Msg]
    /\ row \in [Client -> Nat]
    /\ c2s \in [Client -> Seq(Msg)]
    /\ s2c \in [Client -> Seq(Msg)]
    /\ listening \in BOOLEAN
    /\ DOMAIN user \subseteq Name /\ user \in [DOMAIN user -> Passwd]
    /\ record \in [Name -> Seq(DictWord)]

\* Requests and answers stay in step: a client that waits for nothing has
\* nothing on its way, in either direction, and its child does nothing.
InStep ==
    /\ TypeOK
    /\ \A c \in Client :
          pc[c] \in {"menu", "session", "word"} =>
              /\ c2s[c] = <<>> /\ s2c[c] = <<>>
              /\ child[c] \in {"none", "idle", "dead"}

Waiting(c) == pc[c] \in Type

\* The request that has had no effect yet.  do_searchword has put the meaning
\* over its word when child is "insert"; what a history request has as data is
\* left over from the last answer.
Call(c) ==
    LET m == IF c2s[c] # <<>> THEN Head(c2s[c])
             ELSE IF child[c] \in Type \cup {"insert"} THEN recvMsg[c]
             ELSE NoMsg
    IN  CASE m.type = "query" -> [m EXCEPT !.data.kind = "input"]
          [] m.type = "history" -> [m EXCEPT !.data = EndOfRows]
          [] OTHER -> m

\* The answer that has been fixed: what is printed, on its way, and to come.
Texts(c) ==
    shown[c] \o [i \in 1 .. Len(s2c[c]) |-> s2c[c][i].data]
        \o CASE child[c] = "answer" -> <<recvMsg[c].data>>
             [] child[c] = "rows" -> RowsLeft(c) \o <<EndOfRows>>
             [] OTHER -> <<>>
CallAnswer(c) ==
    IF Waiting(c) /\ Texts(c) # <<>>
    THEN [name |-> recvMsg[c].name, texts |-> Texts(c)]
    ELSE [name |-> Nothing, texts |-> <<>>]

\* Rows come without a name; only the end of the rows brings it back.
SessionName(c) ==
    IF pc[c] \notin {"session", "word", "query", "history"} THEN Nothing
    ELSE IF msg[c].name = Nothing THEN recvMsg[c].name ELSE msg[c].name

Service == INSTANCE DictService WITH
    call <- [c \in Client |-> Call(c)],
    answer <- [c \in Client |-> CallAnswer(c)],
    session <- [c \in Client |-> SessionName(c)],
    broken <- {c \in Client : child[c] = "dead"},
    gone <- {c \in Client : pc[c] = "quit"}

\* What clients see of the tables is what DictService promises: each request
\* has its effect at one instant although search, insert and answer are apart,
\* a meaning is given only if it is recorded, and the rows of a history are
\* those of one instant although other children serve while they are sent.
ImplementsService == Service!Spec

\* The client waits for the result of a query, its child is back in recv, and
\* nothing is on its way: the insert has failed (server.c:236).
Unanswered(c) ==
    pc[c] = "query" /\ child[c] = "idle" /\ c2s[c] = <<>> /\ s2c[c] = <<>>

\* Whoever sends a request gets to the end of its answer, rows of a history
\* included (client.c:67-172), unless its child dies or the record of a query
\* cannot be inserted.
EveryRequestEnds ==
    \A c \in Client :
        Waiting(c) ~> (~Waiting(c) \/ child[c] = "dead" \/ Unanswered(c))

\* server.c:254 says that the result of a query is sent to the client.
QueriesAreAnswered == \A c \in Client : ~Unanswered(c)
=============================================================================
