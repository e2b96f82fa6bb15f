----------------------------- MODULE Dict_proof -----------------------------
(***************************************************************************)
(* Theorems about Dict for every set of clients, names, passwords and      *)
(* words, and every number of requests: requests and answers stay in step, *)
(* and what users see is what DictService promises.                        *)
(***************************************************************************)
EXTENDS Dict, SequenceTheorems, TLAPS

USE DictAssumption, NothingAssumption, BoundAssumption

-----------------------------------------------------------------------------
(* The inductive invariant. *)

\* What clients send, with as much of the data as the server uses.
Request ==
    [type : {"register", "login"}, name : Name,
     data : [kind : {"passwd"}, of : Passwd]]
        \cup [type : {"query"}, name : Name, data : [kind : {"input"}, of : Word]]
        \cup [type : {"history"}, name : Name, data : Data]

Busy == Type \cup {"insert", "rows", "answer"}
Resting == {"none", "idle", "dead"}
Session == {"session", "word", "query", "history"}
Row == [type : {Nothing}, name : {Nothing}, data : [kind : {"row"}, of : Word]]

\* A client that waits for nothing.
RestOK(c) ==
    /\ pc[c] \in {"start", "menu", "session", "word"} =>
           c2s[c] = <<>> /\ child[c] \in Resting
    /\ pc[c] \notin Type => s2c[c] = <<>>
    /\ pc[c] = "start" => child[c] = "none"
    /\ child[c] = "none" => s2c[c] = <<>>

\* The request on its way.
RequestOK(c) ==
    c2s[c] # <<>> =>
        /\ Len(c2s[c]) = 1 /\ c2s[c][1] \in Request
        /\ child[c] \in {"none", "idle"}
        /\ s2c[c] = <<>> /\ shown[c] = <<>>
        /\ pc[c] \in {c2s[c][1].type, "quit"}
        /\ pc[c] # "quit" => c2s[c][1].name = msg[c].name

\* The request the child works on, and the answer it is about to send.
ServeOK(c) ==
    /\ child[c] \in Type =>
           /\ recvMsg[c] \in Request
           /\ recvMsg[c].type = child[c]
           /\ s2c[c] = <<>> /\ shown[c] = <<>>
    /\ child[c] = "insert" =>
           /\ recvMsg[c].type = "query"
           /\ recvMsg[c].data.kind = "meaning" /\ recvMsg[c].data.of \in DictWord
    /\ child[c] = "rows" => recvMsg[c].type = "history"
    /\ child[c] = "answer" =>
           /\ recvMsg[c].data.kind # "row"
           /\ recvMsg[c].data = LoginOk => recvMsg[c].type = "login"
           /\ recvMsg[c].type = "history" => recvMsg[c].data = EndOfRows
    /\ child[c] \in Busy =>
           /\ recvMsg[c].type \in Type /\ recvMsg[c].name \in Name
           /\ pc[c] \in {recvMsg[c].type, "quit"}
           /\ pc[c] # "history" => s2c[c] = <<>>

\* Answers on their way: rows, and what ends the answer.
RepliesOK(c) ==
    \A i \in 1 .. Len(s2c[c]) :
        \/ s2c[c][i] \in Row /\ pc[c] = "history" /\ recvMsg[c].name \in Name
        \/ /\ i = Len(s2c[c]) /\ child[c] \notin Busy
           /\ s2c[c][i].data.kind # "row"
           /\ s2c[c][i].type = pc[c]
           /\ s2c[c][i].name \in Name /\ s2c[c][i].name = recvMsg[c].name
           /\ s2c[c][i].data = LoginOk => pc[c] = "login"
           /\ pc[c] = "history" => s2c[c][i].data = EndOfRows

\* What the client has of its request and of the answer.
ClientOK(c) ==
    /\ pc[c] # "history" => shown[c] = <<>>
    /\ \A i \in 1 .. Len(shown[c]) : shown[c][i].kind = "row"
    /\ pc[c] \in {"word", "query"} => msg[c].type = "query"
    /\ pc[c] \in {"register", "login"} =>
           msg[c].type = pc[c] /\ msg[c].data.kind = "passwd"

\* The name of the session: rows that come without a name hide it, and the
\* child still has it.
NameOK(c) ==
    pc[c] \in Session =>
        /\ msg[c].name = Nothing =>
               /\ recvMsg[c].name \in Name
               /\ pc[c] = "history" \/ child[c] = "dead"
        /\ child[c] \in Busy \/ s2c[c] # <<>> =>
               msg[c].name \in {recvMsg[c].name, Nothing}

Link(c) ==
    RestOK(c) /\ RequestOK(c) /\ ServeOK(c) /\ RepliesOK(c) /\ ClientOK(c) /\ NameOK(c)

IInv == TypeOK /\ \A c \in Client : Link(c)

-----------------------------------------------------------------------------
(* Sequences. *)

LEMMA TailFacts ==
    ASSUME NEW S, NEW s \in Seq(S), s # <<>>
    PROVE  /\ Tail(s) \in Seq(S) /\ Len(Tail(s)) \in Nat
           /\ Len(Tail(s)) = Len(s) - 1
           /\ \A i \in 1 .. Len(Tail(s)) :
                 i + 1 \in 1 .. Len(s) /\ Tail(s)[i] = s[i + 1]
           /\ Len(s) = 1 => Tail(s) = <<>>
           /\ s = <<s[1]>> \o Tail(s)
<1>1. Len(s) \in Nat \ {0} /\ Tail(s) \in Seq(S)
  BY EmptySeq, HeadTailProperties
<1>2. Len(Tail(s)) = Len(s) - 1 /\ Len(Tail(s)) \in Nat
  BY <1>1
<1>3. ASSUME NEW i \in 1 .. Len(Tail(s))
      PROVE  i + 1 \in 1 .. Len(s) /\ Tail(s)[i] = s[i + 1]
  BY <1>1, <1>2
<1>4. Len(s) = 1 => Tail(s) = <<>>
  <2> DEFINE t == Tail(s)
  <2>1. t \in Seq(S) /\ Len(s) = 1 => Len(t) = 0
    BY <1>1, <1>2
  <2>2. t \in Seq(S)
    BY <1>1
  <2> HIDE DEF t
  <2>3. Len(s) = 1 => t = <<>>
    BY <2>1, <2>2, EmptySeq
  <2> QED BY <2>3 DEF t
<1>5. s = <<s[1]>> \o Tail(s)
  <2>1. s = SubSeq(s, 1, Len(s)) /\ Tail(s) = SubSeq(s, 2, Len(s))
    BY <1>1, SubSeqFull, TailIsSubSeq
  <2>2. SubSeq(s, 1, Len(s)) = <<s[1]>> \o SubSeq(s, 1 + 1, Len(s))
    BY <1>1, SubSeqRecursiveFirst
  <2> QED BY <2>1, <2>2
<1> QED BY <1>1, <1>2, <1>3, <1>4, <1>5

LEMMA Associative ==
    \A s, t, u \in Seq(Data) : (s \o t) \o u = s \o (t \o u)
BY ConcatAssociative

-----------------------------------------------------------------------------
(* Initial states, and what a step leaves alone. *)

LEMMA InitIInv == Init => IInv
<1> SUFFICES ASSUME Init PROVE IInv
  OBVIOUS
<1>1. NoMsg \in Msg /\ NoMsg.data = EndOfRows
  BY DEF NoMsg, Message, Msg, Data, EndOfRows, Text
<1>2. DOMAIN user \subseteq Name /\ user \in [DOMAIN user -> Passwd]
      /\ record \in [Name -> Seq(DictWord)]
  <2>1. NoRecords \in [Name -> Seq(DictWord)]
    BY DEF NoRecords
  <2>2. CASE user = [n \in {} |-> Nothing] /\ record = NoRecords
    BY <2>1, <2>2
  <2>3. ASSUME NEW n \in Name, NEW p \in Passwd, user = [m \in {n} |-> p]
        PROVE  DOMAIN user \subseteq Name /\ user \in [DOMAIN user -> Passwd]
    BY <2>3
  <2>4. ASSUME NEW n \in Name, NEW w \in DictWord,
               record = [NoRecords EXCEPT ![n] = <<w>>]
        PROVE  record \in [Name -> Seq(DictWord)]
    BY <2>1, <2>4
  <2> QED BY <2>1, <2>2, <2>3, <2>4 DEF Init, OldDatabase
<1>3. TypeOK
  BY <1>1, <1>2 DEF Init, TypeOK
<1>4. ASSUME NEW c \in Client PROVE Link(c)
  BY DEF Init, Link, RestOK, RequestOK, ServeOK, RepliesOK, ClientOK, NameOK,
         Type, Busy, Resting, Session
<1> QED BY <1>3, <1>4 DEF IInv

\* Does a step leave the link of d, at both ends, as it is?
Same(d) ==
    /\ pc'[d] = pc[d] /\ msg'[d] = msg[d] /\ shown'[d] = shown[d]
    /\ child'[d] = child[d] /\ recvMsg'[d] = recvMsg[d]
    /\ c2s'[d] = c2s[d] /\ s2c'[d] = s2c[d]

\* Nothing on its way to the client.
LEMMA NoReplies ==
    ASSUME NEW c \in Client, s2c'[c] = <<>>
    PROVE  RepliesOK(c)'
<1>1. \A i \in 1 .. Len(s2c'[c]) : FALSE
  OBVIOUS
<1> QED BY <1>1 DEF RepliesOK

\* The other links of a step of c.
LEMMA Others ==
    ASSUME NEW d \in Client, Link(d), Same(d)
    PROVE  Link(d)'
<1> USE DEF Same
<1>1. RestOK(d)' BY DEF Link, RestOK
<1>2. RequestOK(d)' BY DEF Link, RequestOK
<1>3. ServeOK(d)' BY DEF Link, ServeOK
<1>4. RepliesOK(d)' BY DEF Link, RepliesOK
<1>5. ClientOK(d)' BY DEF Link, ClientOK
<1>6. NameOK(d)' BY DEF Link, NameOK
<1> QED BY <1>1, <1>2, <1>3, <1>4, <1>5, <1>6 DEF Link

\* A step is one of one link.
LEMMA OneLink ==
    ASSUME IInv, TypeOK', NEW c \in Client, Link(c)',
           \A d \in Client \ {c} : Same(d)
    PROVE  IInv'
<1>1. \A d \in Client \ {c} : Link(d)'
  BY Others DEF IInv
<1> QED BY <1>1 DEF IInv

-----------------------------------------------------------------------------
(* The client. *)

LEMMA ConnectKeeps == ASSUME IInv, NEW c \in Client, connect(c) PROVE IInv'
<1>1. TypeOK'
  BY DEF IInv, TypeOK, connect, childVars, database
<1>2. Link(c)'
  BY DEF IInv, TypeOK, connect, childVars, database, Link, RestOK, RequestOK,
         ServeOK, RepliesOK, ClientOK, NameOK, Type, Busy, Resting, Session
<1>3. \A d \in Client \ {c} : Same(d)
  BY DEF IInv, TypeOK, connect, childVars, database, Same
<1> QED BY <1>1, <1>2, <1>3, OneLink

LEMMA ChooseQueryKeeps ==
    ASSUME IInv, NEW c \in Client, chooseQuery(c) PROVE IInv'
<1> DEFINE m == [msg[c] EXCEPT !.type = "query"]
<1>a. msg' = [msg EXCEPT ![c] = m]
  BY DEF chooseQuery
<1>b. msg[c] \in Msg
  BY DEF IInv, TypeOK
<1>0. m \in Msg /\ m.type = "query" /\ m.name = msg[c].name
  BY <1>b DEF Msg, Type
<1> HIDE DEF m
<1>1. TypeOK'
  BY ZenonT(40), <1>0, <1>a DEF IInv, TypeOK, chooseQuery, childVars, database
<1>2. Link(c)'
  <2>1. RestOK(c)'
    BY <1>0, <1>a DEF IInv, TypeOK, chooseQuery, childVars, database, Link, RestOK, Type
  <2>2. RequestOK(c)'
    BY <1>0, <1>a DEF IInv, TypeOK, chooseQuery, childVars, database, Link, RestOK, RequestOK, Type
  <2>3. ServeOK(c)'
    BY <1>0, <1>a DEF IInv, TypeOK, chooseQuery, childVars, database, Link, RestOK, ServeOK, Type, Busy, Resting
  <2>4. RepliesOK(c)'
    BY <1>0, <1>a, NoReplies DEF IInv, TypeOK, chooseQuery, childVars, database, Link, RestOK, Type
  <2>5. ClientOK(c)'
    BY <1>0, <1>a DEF IInv, TypeOK, chooseQuery, childVars, database, Link, RestOK, ClientOK, Type, Busy, Resting
  <2>6. NameOK(c)'
    BY <1>0, <1>a DEF IInv, TypeOK, chooseQuery, childVars, database, Link, RestOK, NameOK, Type, Busy, Resting, Session
  <2> QED BY <2>1, <2>2, <2>3, <2>4, <2>5, <2>6 DEF Link
<1>3. \A d \in Client \ {c} : Same(d)
  BY DEF IInv, TypeOK, chooseQuery, childVars, database, Same
<1> QED BY <1>1, <1>2, <1>3, OneLink

\* A request m that is sent in a menu.
Sendable(c, m) ==
    /\ m \in Msg /\ m.type \in Type
    /\ child[c] # "dead" => m \in Request
    /\ IF m.type \in {"register", "login"} THEN pc[c] = "menu" /\ m.data.kind = "passwd"
       ELSE pc[c] \in {"session", "word"} /\ m.name = msg[c].name

LEMMA SendKeeps ==
    ASSUME IInv, NEW c \in Client, NEW m, Sendable(c, m), Send(c, m)
    PROVE  IInv'
<1>0. c2s' = IF child[c] = "dead" THEN c2s ELSE [c2s EXCEPT ![c] = <<m>>]
  <2>1. c2s[c] = <<>>
    BY DEF IInv, Link, RestOK, Sendable
  <2> QED BY <2>1 DEF Send
<1>a. /\ pc' \in [Client -> Type \cup {"start", "menu", "session", "word", "quit"}]
      /\ msg' \in [Client -> Msg]
  <2>1. NoMsg \in Msg
    BY DEF NoMsg, Message, Msg, Data, EndOfRows, Text
  <2>2. ASSUME NEW at \in Type \cup {"quit"}, Resume(c, at, m)
        PROVE  /\ pc' \in [Client -> Type \cup {"start", "menu", "session", "word", "quit"}]
               /\ msg' \in [Client -> Msg]
    BY <2>1, <2>2 DEF IInv, TypeOK, Resume, Sendable
  <2> QED BY <2>2 DEF Send, Sendable
<1>c. requests' \in [Client -> 0 .. MaxRequests]
  BY DEF IInv, TypeOK, Send
<1>b. c2s' \in [Client -> Seq(Msg)]
  BY <1>0 DEF IInv, TypeOK, Sendable
<1>1. TypeOK'
  BY <1>a, <1>b, <1>c DEF IInv, TypeOK, Send, childVars, clientVars, database
<1>2. Link(c)'
  <2>1. RestOK(c)'
    BY DEF IInv, TypeOK, Send, Resume, Sendable, childVars, clientVars, database, Link,
           RestOK, Type, Busy, Resting
  <2>2. RequestOK(c)'
    <3>1. CASE child[c] = "dead"
      BY <1>0, <3>1 DEF IInv, TypeOK, Link, RestOK, RequestOK, Sendable, Type
    <3>2. CASE child[c] # "dead"
      <4>1. c2s'[c] = <<m>> /\ m \in Request
        BY <1>0, <3>2 DEF IInv, TypeOK, Sendable
      <4>2. pc'[c] = m.type /\ m.type \in Type /\ msg'[c] = m
        BY <3>2 DEF IInv, TypeOK, Send, Resume, Sendable, Type
      <4>3. s2c'[c] = <<>> /\ shown'[c] = <<>> /\ child'[c] \in {"none", "idle"}
        BY <3>2 DEF IInv, TypeOK, Send, Link, RestOK, ClientOK, Sendable, childVars,
                    Resting, Type
      <4> QED BY <4>1, <4>2, <4>3 DEF RequestOK, Type
    <3> QED BY <3>1, <3>2
  <2>3. ServeOK(c)'
    BY DEF IInv, TypeOK, Send, Resume, Sendable, childVars, clientVars, database, Link,
           RestOK, RequestOK, ServeOK, ClientOK, Type, Busy, Resting
  <2>4. RepliesOK(c)'
    BY NoReplies DEF IInv, TypeOK, Send, Resume, Sendable, childVars, clientVars, database, Link,
           RestOK, RequestOK, ServeOK, Type, Busy, Resting
  <2>5. ClientOK(c)'
    BY DEF IInv, TypeOK, Send, Resume, Sendable, childVars, clientVars, database, Link,
           RestOK, ClientOK, Type
  <2>6. NameOK(c)'
    BY DEF IInv, TypeOK, Send, Resume, Sendable, childVars, clientVars, database, Link,
           RestOK, RequestOK, ServeOK, RepliesOK, NameOK, Type, Busy, Resting, Session
  <2> QED BY <2>1, <2>2, <2>3, <2>4, <2>5, <2>6 DEF Link
<1>3. \A d \in Client \ {c} : Same(d)
  BY DEF IInv, TypeOK, Send, Resume, Sendable, childVars, clientVars, database, Same
<1> QED BY <1>1, <1>2, <1>3, OneLink

LEMMA LeaveKeeps ==
    ASSUME IInv, NEW c \in Client, leave(c)
    PROVE  IInv'
<1>0. NoMsg \in Msg
  BY DEF NoMsg, Message, Msg, Data, EndOfRows, Text
<1>1. TypeOK'
  BY <1>0 DEF IInv, TypeOK, leave, Resume, childVars, clientVars, database
<1>2. Link(c)'
  <2>1. RestOK(c)'
    BY <1>0 DEF IInv, TypeOK, leave, Resume, childVars, clientVars, database, Link,
           RestOK, Type, Busy, Resting
  <2>2. RequestOK(c)'
    BY <1>0 DEF IInv, TypeOK, leave, Resume, childVars, clientVars, database, Link,
           RestOK, RequestOK, ServeOK, Type, Busy, Resting
  <2>3. ServeOK(c)'
    BY <1>0 DEF IInv, TypeOK, leave, Resume, childVars, clientVars, database, Link,
           RestOK, RequestOK, ServeOK, ClientOK, Type, Busy, Resting
  <2>4. RepliesOK(c)'
    BY NoReplies DEF IInv, TypeOK, leave, Resume, childVars, clientVars, database, Link,
           RestOK, RequestOK, ServeOK, Type, Busy, Resting
  <2>5. ClientOK(c)'
    BY <1>0 DEF IInv, TypeOK, leave, Resume, childVars, clientVars, database, Link,
           RestOK, ClientOK, Type
  <2>6. NameOK(c)'
    BY <1>0 DEF IInv, TypeOK, leave, Resume, childVars, clientVars, database, Link,
           RestOK, RequestOK, ServeOK, RepliesOK, NameOK, Type, Busy, Resting, Session
  <2> QED BY <2>1, <2>2, <2>3, <2>4, <2>5, <2>6 DEF Link
<1>3. \A d \in Client \ {c} : Same(d)
  BY <1>0 DEF IInv, TypeOK, leave, Resume, childVars, clientVars, database, Same
<1> QED BY <1>1, <1>2, <1>3, OneLink

LEMMA AcceptKeeps ==
    ASSUME IInv, NEW c \in Client, accept(c)
    PROVE  IInv'
<1>1. TypeOK'
  BY DEF IInv, TypeOK, accept, Goto, childVars, clientVars, database
<1>2. Link(c)'
  <2>1. RestOK(c)'
    BY DEF IInv, TypeOK, accept, Goto, childVars, clientVars, database, Link,
           RestOK, Type, Busy, Resting
  <2>2. RequestOK(c)'
    BY DEF IInv, TypeOK, accept, Goto, childVars, clientVars, database, Link,
           RestOK, RequestOK, ServeOK, Type, Busy, Resting
  <2>3. ServeOK(c)'
    BY DEF IInv, TypeOK, accept, Goto, childVars, clientVars, database, Link,
           RestOK, RequestOK, ServeOK, ClientOK, Type, Busy, Resting
  <2>4. RepliesOK(c)'
    BY DEF IInv, TypeOK, accept, Goto, childVars, clientVars, database, Link,
           RestOK, RequestOK, ServeOK, RepliesOK, Type, Busy, Resting
  <2>5. ClientOK(c)'
    BY DEF IInv, TypeOK, accept, Goto, childVars, clientVars, database, Link,
           RestOK, ClientOK, Type
  <2>6. NameOK(c)'
    BY DEF IInv, TypeOK, accept, Goto, childVars, clientVars, database, Link,
           RestOK, RequestOK, ServeOK, RepliesOK, NameOK, Type, Busy, Resting, Session
  <2> QED BY <2>1, <2>2, <2>3, <2>4, <2>5, <2>6 DEF Link
<1>3. \A d \in Client \ {c} : Same(d)
  BY DEF IInv, TypeOK, accept, Goto, childVars, clientVars, database, Same
<1> QED BY <1>1, <1>2, <1>3, OneLink

LEMMA ResetKeeps ==
    ASSUME IInv, NEW c \in Client, reset(c)
    PROVE  IInv'
<1>1. TypeOK'
  BY DEF IInv, TypeOK, reset, Goto, childVars, clientVars, database
<1>2. Link(c)'
  <2>1. RestOK(c)'
    BY DEF IInv, TypeOK, reset, Goto, childVars, clientVars, database, Link,
           RestOK, Type, Busy, Resting
  <2>2. RequestOK(c)'
    BY DEF IInv, TypeOK, reset, Goto, childVars, clientVars, database, Link,
           RestOK, RequestOK, ServeOK, Type, Busy, Resting
  <2>3. ServeOK(c)'
    BY DEF IInv, TypeOK, reset, Goto, childVars, clientVars, database, Link,
           RestOK, RequestOK, ServeOK, ClientOK, Type, Busy, Resting
  <2>4. RepliesOK(c)'
    BY DEF IInv, TypeOK, reset, Goto, childVars, clientVars, database, Link,
           RestOK, RequestOK, ServeOK, RepliesOK, Type, Busy, Resting
  <2>5. ClientOK(c)'
    BY DEF IInv, TypeOK, reset, Goto, childVars, clientVars, database, Link,
           RestOK, ClientOK, Type
  <2>6. NameOK(c)'
    BY DEF IInv, TypeOK, reset, Goto, childVars, clientVars, database, Link,
           RestOK, RequestOK, ServeOK, RepliesOK, NameOK, Type, Busy, Resting, Session
  <2> QED BY <2>1, <2>2, <2>3, <2>4, <2>5, <2>6 DEF Link
<1>3. \A d \in Client \ {c} : Same(d)
  BY DEF IInv, TypeOK, reset, Goto, childVars, clientVars, database, Same
<1> QED BY <1>1, <1>2, <1>3, OneLink

LEMMA RecvEndKeeps ==
    ASSUME IInv, NEW c \in Client, recvEnd(c)
    PROVE  IInv'
<1>1. TypeOK'
  BY DEF IInv, TypeOK, recvEnd, Goto, childVars, clientVars, database
<1>2. Link(c)'
  <2>1. RestOK(c)'
    BY DEF IInv, TypeOK, recvEnd, Goto, childVars, clientVars, database, Link,
           RestOK, Type, Busy, Resting
  <2>2. RequestOK(c)'
    BY DEF IInv, TypeOK, recvEnd, Goto, childVars, clientVars, database, Link,
           RestOK, RequestOK, ServeOK, Type, Busy, Resting
  <2>3. ServeOK(c)'
    BY DEF IInv, TypeOK, recvEnd, Goto, childVars, clientVars, database, Link,
           RestOK, RequestOK, ServeOK, ClientOK, Type, Busy, Resting
  <2>4. RepliesOK(c)'
    BY DEF IInv, TypeOK, recvEnd, Goto, childVars, clientVars, database, Link,
           RestOK, RequestOK, ServeOK, RepliesOK, Type, Busy, Resting
  <2>5. ClientOK(c)'
    BY DEF IInv, TypeOK, recvEnd, Goto, childVars, clientVars, database, Link,
           RestOK, ClientOK, Type
  <2>6. NameOK(c)'
    BY DEF IInv, TypeOK, recvEnd, Goto, childVars, clientVars, database, Link,
           RestOK, RequestOK, ServeOK, RepliesOK, NameOK, Type, Busy, Resting, Session
  <2> QED BY <2>1, <2>2, <2>3, <2>4, <2>5, <2>6 DEF Link
<1>3. \A d \in Client \ {c} : Same(d)
  BY DEF IInv, TypeOK, recvEnd, Goto, childVars, clientVars, database, Same
<1> QED BY <1>1, <1>2, <1>3, OneLink

LEMMA KillKeeps ==
    ASSUME IInv, NEW c \in Client, kill(c)
    PROVE  IInv'
<1>1. TypeOK'
  BY DEF IInv, TypeOK, kill, Goto, childVars, clientVars, database
<1>2. Link(c)'
  <2>1. RestOK(c)'
    BY DEF IInv, TypeOK, kill, Goto, childVars, clientVars, database, Link,
           RestOK, Type, Busy, Resting
  <2>2. RequestOK(c)'
    BY DEF IInv, TypeOK, kill, Goto, childVars, clientVars, database, Link,
           RestOK, RequestOK, ServeOK, Type, Busy, Resting
  <2>3. ServeOK(c)'
    BY DEF IInv, TypeOK, kill, Goto, childVars, clientVars, database, Link,
           RestOK, RequestOK, ServeOK, ClientOK, Type, Busy, Resting
  <2>4. RepliesOK(c)'
    BY DEF IInv, TypeOK, kill, Goto, childVars, clientVars, database, Link,
           RestOK, RequestOK, ServeOK, RepliesOK, Type, Busy, Resting
  <2>5. ClientOK(c)'
    BY DEF IInv, TypeOK, kill, Goto, childVars, clientVars, database, Link,
           RestOK, ClientOK, Type
  <2>6. NameOK(c)'
    BY DEF IInv, TypeOK, kill, Goto, childVars, clientVars, database, Link,
           RestOK, RequestOK, ServeOK, RepliesOK, NameOK, Type, Busy, Resting, Session
  <2> QED BY <2>1, <2>2, <2>3, <2>4, <2>5, <2>6 DEF Link
<1>3. \A d \in Client \ {c} : Same(d)
  BY DEF IInv, TypeOK, kill, Goto, childVars, clientVars, database, Same
<1> QED BY <1>1, <1>2, <1>3, OneLink

\* What is asked for: a name and a password, or a word.
WellAsked(m) ==
    /\ m.type \in {"register", "login"} =>
           \E n \in Name, p \in Passwd : m = Message(m.type, n, Text("passwd", p))
    /\ m.type = "query" => m.data.of \in Word

LEMMA AskCases ==
    ASSUME IInv, NEW c \in Client,
           doRegister(c) \/ doLogin(c) \/ doQuery(c) \/ doHistory(c)
    PROVE  \E m : Sendable(c, m) /\ WellAsked(m) /\ Send(c, m)
<1> USE DEF IInv, TypeOK
<1>1. ASSUME NEW t \in {"register", "login"}, NEW n \in Name, NEW p \in Passwd,
             pc[c] = "menu", Send(c, Message(t, n, Text("passwd", p)))
      PROVE  \E m : Sendable(c, m) /\ WellAsked(m) /\ Send(c, m)
  <2>1. Sendable(c, Message(t, n, Text("passwd", p)))
    BY <1>1 DEF Sendable, Message, Text, Msg, Data, Request, Type
  <2>2. WellAsked(Message(t, n, Text("passwd", p)))
    BY DEF WellAsked, Message
  <2> QED BY <1>1, <2>1, <2>2
<1>2. CASE doQuery(c)
  <2>1. PICK w \in Word : Send(c, [msg[c] EXCEPT !.data = Text("input", w)])
    BY <1>2 DEF doQuery
  <2> DEFINE m == [msg[c] EXCEPT !.data = Text("input", w)]
  <2>2. msg[c] \in Msg /\ Text("input", w) \in Data
    BY DEF Text, Data
  <2>3. /\ m \in Msg /\ m.type = msg[c].type /\ m.name = msg[c].name
        /\ m.data = [kind |-> "input", of |-> w]
    BY <2>2 DEF Msg, Text
  <2>4. pc[c] = "word" /\ m.type = "query"
    BY <1>2, <2>3 DEF doQuery, Link, ClientOK
  <2>5. child[c] # "dead" => m.name \in Name
    BY <2>2, <2>3, <2>4 DEF Link, NameOK, Session, Msg
  <2> HIDE DEF m
  <2>6. child[c] # "dead" => m \in Request
    <3>1. m.name \in Name =>
              m \in [type : {"query"}, name : Name, data : [kind : {"input"}, of : Word]]
      BY <2>3, <2>4 DEF Msg
    <3> QED BY <2>5, <3>1 DEF Request
  <2>7. Sendable(c, m)
    BY <2>3, <2>4, <2>6 DEF Sendable, Type
  <2>8. WellAsked(m)
    BY <2>3, <2>4 DEF WellAsked
  <2> QED BY <2>1, <2>7, <2>8 DEF m
<1>3. CASE doHistory(c)
  <2> DEFINE m == [msg[c] EXCEPT !.type = "history"]
  <2>2. msg[c] \in Msg
    OBVIOUS
  <2>3. /\ m \in Msg /\ m.type = "history" /\ m.name = msg[c].name
        /\ m.data \in Data
    BY <2>2 DEF Msg, Type
  <2>4. pc[c] = "session"
    BY <1>3 DEF doHistory
  <2>5. child[c] # "dead" => m.name \in Name
    BY <2>2, <2>3, <2>4 DEF Link, NameOK, Session, Msg
  <2> HIDE DEF m
  <2>6. child[c] # "dead" => m \in Request
    <3>1. m.name \in Name => m \in [type : {"history"}, name : Name, data : Data]
      BY <2>3 DEF Msg
    <3> QED BY <2>5, <3>1 DEF Request
  <2>7. Sendable(c, m)
    BY <2>3, <2>4, <2>6 DEF Sendable, Type
  <2>8. WellAsked(m)
    BY <2>3 DEF WellAsked
  <2> QED BY <1>3, <2>7, <2>8 DEF doHistory, m
<1> QED BY <1>1, <1>2, <1>3 DEF doRegister, doLogin

LEMMA EndQueryKeeps ==
    ASSUME IInv, NEW c \in Client, endQuery(c)
    PROVE  IInv'
<1> DEFINE m == [msg[c] EXCEPT !.data = Text("input", Nothing)]
<1>a. msg' = [msg EXCEPT ![c] = m]
  BY DEF endQuery
<1>b. msg[c] \in Msg /\ Text("input", Nothing) \in Data
  BY DEF IInv, TypeOK, Text, Data
<1>0. m \in Msg /\ m.type = msg[c].type /\ m.name = msg[c].name
  BY <1>b DEF Msg
<1> HIDE DEF m
<1>1. TypeOK'
  <2>1. msg' \in [Client -> Msg]
    BY <1>0, <1>a DEF IInv, TypeOK
  <2>2. pc' \in [Client -> Type \cup {"start", "menu", "session", "word", "quit"}]
    BY DEF IInv, TypeOK, endQuery
  <2> QED BY <2>1, <2>2 DEF IInv, TypeOK, endQuery, childVars, database
<1>2. Link(c)'
  <2>1. RestOK(c)'
    BY <1>0, <1>a DEF IInv, TypeOK, endQuery, childVars, clientVars, database, Link,
           RestOK, Type, Busy, Resting
  <2>2. RequestOK(c)'
    BY <1>0, <1>a DEF IInv, TypeOK, endQuery, childVars, clientVars, database, Link,
           RestOK, RequestOK, ServeOK, Type, Busy, Resting
  <2>3. ServeOK(c)'
    BY <1>0, <1>a DEF IInv, TypeOK, endQuery, childVars, clientVars, database, Link,
           RestOK, RequestOK, ServeOK, ClientOK, Type, Busy, Resting
  <2>4. RepliesOK(c)'
    BY <1>0, <1>a, NoReplies DEF IInv, TypeOK, endQuery, childVars, clientVars, database, Link,
           RestOK, RequestOK, ServeOK, Type, Busy, Resting
  <2>5. ClientOK(c)'
    BY <1>0, <1>a DEF IInv, TypeOK, endQuery, childVars, clientVars, database, Link,
           RestOK, ClientOK, Type
  <2>6. NameOK(c)'
    BY <1>0, <1>a DEF IInv, TypeOK, endQuery, childVars, clientVars, database, Link,
           RestOK, RequestOK, ServeOK, RepliesOK, NameOK, Type, Busy, Resting, Session
  <2> QED BY <2>1, <2>2, <2>3, <2>4, <2>5, <2>6 DEF Link
<1>3. \A d \in Client \ {c} : Same(d)
  BY <1>0, <1>a DEF IInv, TypeOK, endQuery, childVars, clientVars, database, Same
<1> QED BY <1>1, <1>2, <1>3, OneLink


\* A row is received while the child sends others, or has ended.
RowComes(c) ==
    /\ s2c[c] # <<>> /\ s2c[c][1] \in Row \cap Msg
    /\ s2c[c][1].data # EndOfRows /\ s2c[c][1].data.kind = "row"
    /\ pc[c] = "history" /\ pc' = pc
    /\ child[c] \notin Type \cup {"none"} /\ c2s[c] = <<>> /\ recvMsg[c].name \in Name
    /\ msg' = [msg EXCEPT ![c] = s2c[c][1]]
    /\ shown' = [shown EXCEPT ![c] = Append(@, s2c[c][1].data)]
    /\ s2c' = [s2c EXCEPT ![c] = Tail(@)]

\* The last message of an answer is received.
AnswerComes(c) ==
    /\ Len(s2c[c]) = 1 /\ s2c[c][1] \in Msg
    /\ s2c[c][1].type = pc[c] /\ s2c[c][1].data.kind # "row"
    /\ s2c[c][1].name \in Name /\ s2c[c][1].name = recvMsg[c].name
    /\ s2c[c][1].data = LoginOk => pc[c] = "login"
    /\ pc[c] = "history" => s2c[c][1].data = EndOfRows
    /\ pc[c] \in Type /\ child[c] \in {"idle", "dead"} /\ c2s[c] = <<>>
    /\ Resume(c, CASE pc[c] = "register" -> "menu"
                   [] pc[c] = "login" -> IF s2c[c][1].data = LoginOk THEN "session"
                                                                     ELSE "menu"
                   [] pc[c] = "query" -> "word"
                   [] pc[c] = "history" -> "session", s2c[c][1])
    /\ shown' = [shown EXCEPT ![c] = <<>>]
    /\ s2c' = [s2c EXCEPT ![c] = <<>>]

LEMMA ReceiveCases ==
    ASSUME IInv, NEW c \in Client, receive(c)
    PROVE  RowComes(c) \/ AnswerComes(c)
<1> DEFINE m == s2c[c][1]
<1>0. /\ pc[c] \in Type /\ s2c[c] \in Seq(Msg) /\ Len(s2c[c]) \in Nat \ {0}
      /\ m \in Msg /\ Head(s2c[c]) = m /\ s2c[c] # <<>>
      /\ s2c' = [s2c EXCEPT ![c] = Tail(@)]
  BY DEF IInv, TypeOK, receive
<1>a. child[c] \notin Type \cup {"none"} /\ c2s[c] = <<>>
  BY <1>0 DEF IInv, Link, ServeOK, RequestOK, RestOK
<1> HIDE DEF m
<1>1. CASE m \in Row /\ pc[c] = "history" /\ recvMsg[c].name \in Name
  <2>1. m.data # EndOfRows /\ m.data.kind = "row"
    <3>1. m.data.kind = "row"
      BY <1>1 DEF Row
    <3>2. EndOfRows.kind = ""
      BY DEF EndOfRows, Text
    <3> QED BY <3>1, <3>2
  <2>2. /\ pc' = pc /\ msg' = [msg EXCEPT ![c] = m]
        /\ shown' = [shown EXCEPT ![c] = Append(@, m.data)]
    BY <1>0, <1>1, <2>1 DEF IInv, TypeOK, receive, Received, Resume, After
  <2> QED BY <1>0, <1>a, <1>1, <2>1, <2>2 DEF RowComes, m
<1>2. CASE /\ Len(s2c[c]) = 1 /\ child[c] \notin Busy
           /\ m.data.kind # "row"
           /\ m.type = pc[c]
           /\ m.name \in Name /\ m.name = recvMsg[c].name
           /\ m.data = LoginOk => pc[c] = "login"
           /\ pc[c] = "history" => m.data = EndOfRows
  <2>1. child[c] \in {"idle", "dead"}
    BY <1>a, <1>2 DEF IInv, TypeOK, Busy
  <2>2. s2c' = [s2c EXCEPT ![c] = <<>>]
    <3>1. Tail(s2c[c]) = <<>>
      BY <1>0, <1>2, TailFacts
    <3> QED BY <1>0, <3>1
  <2> DEFINE at == CASE pc[c] = "register" -> "menu"
                     [] pc[c] = "login" -> IF m.data = LoginOk THEN "session" ELSE "menu"
                     [] pc[c] = "query" -> "word"
                     [] pc[c] = "history" -> "session"
  <2>3. After(c, m) = at /\ at # "history"
    BY <1>0, <1>2 DEF After, Type
  <2>4. Resume(c, at, m)
    BY <1>0, <2>3 DEF receive, Received
  <2>5. shown' = [shown EXCEPT ![c] = <<>>]
    <3>1. pc'[c] # "history"
      BY <2>3, <2>4 DEF IInv, TypeOK, Resume
    <3> QED BY <3>1 DEF receive
  <2> QED BY <1>0, <1>a, <1>2, <2>1, <2>2, <2>4, <2>5 DEF AnswerComes, m
<1>3. \/ m \in Row /\ pc[c] = "history" /\ recvMsg[c].name \in Name
      \/ /\ Len(s2c[c]) = 1 /\ child[c] \notin Busy
         /\ m.data.kind # "row"
         /\ m.type = pc[c]
         /\ m.name \in Name /\ m.name = recvMsg[c].name
         /\ m.data = LoginOk => pc[c] = "login"
         /\ pc[c] = "history" => m.data = EndOfRows
  <2>1. RepliesOK(c) /\ 1 \in 1 .. Len(s2c[c])
    BY <1>0 DEF IInv, Link
  <2> QED BY <2>1 DEF RepliesOK, m
<1> QED BY <1>1, <1>2, <1>3

LEMMA RowComesKeeps ==
    ASSUME IInv, NEW c \in Client, receive(c), RowComes(c)
    PROVE  IInv'
<1>a. /\ s2c[c] \in Seq(Msg) /\ Len(s2c[c]) \in Nat \ {0}
      /\ shown[c] \in Seq(Data)
  BY DEF IInv, TypeOK, RowComes
<1>b. PICK t \in Seq(Msg) :
          /\ t = Tail(s2c[c]) /\ Len(t) \in Nat /\ Len(t) = Len(s2c[c]) - 1
          /\ \A i \in 1 .. Len(t) : i + 1 \in 1 .. Len(s2c[c]) /\ t[i] = s2c[c][i + 1]
  <2>1. s2c[c] # <<>>
    BY DEF RowComes
  <2> QED BY <1>a, <2>1, TailFacts
<1>c. s2c[c][1].data \in Data
  BY DEF RowComes, Msg
<1>d. s2c[c][1].name = Nothing
  BY DEF RowComes, Row
<1>e. s2c'[c] = Tail(s2c[c])
  BY DEF IInv, TypeOK, RowComes
<1>0. /\ s2c[c] \in Seq(Msg) /\ s2c'[c] = Tail(s2c[c]) /\ s2c'[c] \in Seq(Msg)
      /\ shown[c] \in Seq(Data) /\ s2c[c][1].data \in Data
      /\ s2c[c][1].name = Nothing
  BY <1>a, <1>b, <1>c, <1>d, <1>e
<1>1. TypeOK'
  <2>1. msg' \in [Client -> Msg]
    BY DEF IInv, TypeOK, RowComes
  <2>2. shown' \in [Client -> Seq(Data)]
    BY <1>0 DEF IInv, TypeOK, RowComes
  <2>3. s2c' \in [Client -> Seq(Msg)]
    BY <1>b DEF IInv, TypeOK, RowComes
  <2> QED BY <2>1, <2>2, <2>3 DEF IInv, TypeOK, receive, RowComes, childVars, database
<1>2. Link(c)'
  <2> USE DEF receive, RowComes, childVars, Type
  <2>1. RestOK(c)'
    BY <1>0 DEF IInv, TypeOK, Link, RestOK, Resting
  <2>2. RequestOK(c)'
    BY <1>0 DEF IInv, TypeOK, Link, RequestOK
  <2>3. ServeOK(c)'
    BY <1>0 DEF IInv, TypeOK, Link, ServeOK, Busy
  <2>4. RepliesOK(c)'
    <3>1. ASSUME NEW i \in 1 .. Len(s2c'[c])
          PROVE  \/ s2c'[c][i] \in Row /\ pc[c] = "history" /\ recvMsg[c].name \in Name
                 \/ /\ i = Len(s2c'[c]) /\ child[c] \notin Busy
                    /\ s2c'[c][i].data.kind # "row"
                    /\ s2c'[c][i].type = pc[c]
                    /\ s2c'[c][i].name \in Name /\ s2c'[c][i].name = recvMsg[c].name
                    /\ s2c'[c][i].data = LoginOk => pc[c] = "login"
                    /\ pc[c] = "history" => s2c'[c][i].data = EndOfRows
      <4>1. i + 1 \in 1 .. Len(s2c[c]) /\ s2c'[c][i] = s2c[c][i + 1]
            /\ (i + 1 = Len(s2c[c]) => i = Len(s2c'[c]))
        <5>1. s2c'[c] = t
          BY <1>b, <1>e
        <5>2. i \in 1 .. Len(t) /\ Len(s2c[c]) \in Nat
          BY <1>a, <5>1
        <5>3. i + 1 \in 1 .. Len(s2c[c]) /\ t[i] = s2c[c][i + 1]
          BY <1>b, <5>2
        <5>4. i + 1 = Len(s2c[c]) => i = Len(t)
          BY <1>b, <5>2
        <5> QED BY <5>1, <5>3, <5>4
      <4>2. RepliesOK(c)
        BY DEF IInv, Link
      <4> QED BY <4>1, <4>2 DEF RepliesOK
    <3> QED BY <3>1 DEF RepliesOK
  <2>5. ClientOK(c)'
    <3>1. \A i \in 1 .. Len(shown'[c]) : shown'[c][i].kind = "row"
      <4>1. shown'[c] = Append(shown[c], s2c[c][1].data)
        BY DEF IInv, TypeOK
      <4>2. \A i \in 1 .. Len(shown[c]) : shown[c][i].kind = "row"
        BY DEF IInv, Link, ClientOK
      <4> QED BY <1>0, <4>1, <4>2
    <3> QED BY <3>1 DEF ClientOK
  <2>6. NameOK(c)'
    BY <1>0 DEF IInv, TypeOK, Link, NameOK, Session
  <2> QED BY <2>1, <2>2, <2>3, <2>4, <2>5, <2>6 DEF Link
<1>3. \A d \in Client \ {c} : Same(d)
  BY DEF IInv, TypeOK, receive, RowComes, childVars, database, Same
<1> QED BY <1>1, <1>2, <1>3, OneLink

LEMMA AnswerComesKeeps ==
    ASSUME IInv, NEW c \in Client, receive(c), AnswerComes(c)
    PROVE  IInv'
<1>0. NoMsg \in Msg
  BY DEF NoMsg, Message, Msg, Data, EndOfRows, Text
<1>1. TypeOK'
  BY <1>0 DEF IInv, TypeOK, receive, AnswerComes, Resume, childVars, database, Type
<1>2. Link(c)'
  <2> USE DEF receive, AnswerComes, Resume, childVars, Type
  <2>1. RestOK(c)'
    BY DEF IInv, TypeOK, Link, RestOK, Resting
  <2>2. RequestOK(c)'
    BY DEF IInv, TypeOK, Link, RequestOK
  <2>3. ServeOK(c)'
    BY DEF IInv, TypeOK, Link, ServeOK, Busy
  <2>4. RepliesOK(c)'
    BY NoReplies DEF IInv, TypeOK
  <2>5. ClientOK(c)'
    BY DEF IInv, TypeOK, Link, ClientOK
  <2>6. NameOK(c)'
    BY DEF IInv, TypeOK, Link, NameOK, Session, Busy
  <2> QED BY <2>1, <2>2, <2>3, <2>4, <2>5, <2>6 DEF Link
<1>3. \A d \in Client \ {c} : Same(d)
  BY DEF IInv, TypeOK, receive, AnswerComes, Resume, childVars, database, Same
<1> QED BY <1>1, <1>2, <1>3, OneLink

\* The child has ended, and the client goes on with the message it had.
GoesOn(c, at) ==
    /\ Resume(c, at, msg[c])
    /\ at = "menu" <=> pc[c] \in {"register", "login"}
    /\ at = "history" => pc[c] = "history"
    /\ at = "word" => pc[c] = "query"

LEMMA ReceiveEndCases ==
    ASSUME IInv, NEW c \in Client, receiveEnd(c)
    PROVE  \E at \in {"menu", "session", "word", "history"} : GoesOn(c, at)
<1> USE DEF GoesOn
<1>1. pc[c] = "login" => msg[c].data # LoginOk
  BY DEF IInv, Link, ClientOK, LoginOk, Text
<1>2. Received(c, msg[c]) => Resume(c, After(c, msg[c]), msg[c])
  BY DEF Received
<1>3. /\ After(c, msg[c]) \in {"menu", "session", "word", "history"}
      /\ After(c, msg[c]) = "menu" <=> pc[c] \in {"register", "login"}
      /\ After(c, msg[c]) = "history" => pc[c] = "history"
      /\ After(c, msg[c]) = "word" => pc[c] = "query"
  BY <1>1 DEF receiveEnd, After, Type
<1>4. CASE Received(c, msg[c])
  BY <1>2, <1>3, <1>4
<1>5. CASE Resume(c, IF pc[c] \in {"register", "login"} THEN "menu" ELSE "session", msg[c])
  BY <1>5
<1> QED BY <1>4, <1>5 DEF receiveEnd

LEMMA ReceiveEndKeeps == ASSUME IInv, NEW c \in Client, receiveEnd(c) PROVE IInv'
<1>0. NoMsg \in Msg
  BY DEF NoMsg, Message, Msg, Data, EndOfRows, Text
<1>b. PICK at \in {"menu", "session", "word", "history"} : GoesOn(c, at)
  BY ReceiveEndCases
<1> USE DEF GoesOn
<1>1. TypeOK'
  BY <1>0, <1>b DEF IInv, TypeOK, receiveEnd, Resume, childVars, database
<1>2. Link(c)'
  <2> USE <1>b DEF receiveEnd, Resume, childVars, Type
  <2>0. c2s[c] = <<>>
    BY DEF IInv, TypeOK, Link, RequestOK
  <2>1. RestOK(c)'
    BY <2>0 DEF IInv, TypeOK, Link, RestOK, Resting
  <2>2. RequestOK(c)'
    BY <2>0 DEF IInv, TypeOK, Link, RequestOK
  <2>3. ServeOK(c)'
    BY DEF IInv, TypeOK, Link, ServeOK, Busy
  <2>4. RepliesOK(c)'
    BY NoReplies DEF IInv, TypeOK
  <2>5. ClientOK(c)'
    BY DEF IInv, TypeOK, Link, ClientOK
  <2>6. NameOK(c)'
    BY DEF IInv, TypeOK, Link, NameOK, Session, Busy
  <2> QED BY <2>1, <2>2, <2>3, <2>4, <2>5, <2>6 DEF Link
<1>3. \A d \in Client \ {c} : Same(d)
  BY <1>b DEF IInv, TypeOK, receiveEnd, Resume, childVars, database, Same
<1> QED BY <1>1, <1>2, <1>3, OneLink

-----------------------------------------------------------------------------
(* The server. *)

LEMMA RecvRequestKeeps == ASSUME IInv, NEW c \in Client, recvRequest(c) PROVE IInv'
<1> DEFINE m == c2s[c][1]
<1>0. /\ m \in Request /\ Head(c2s[c]) = m /\ c2s' = [c2s EXCEPT ![c] = <<>>]
      /\ m \in Msg /\ m.type \in Type /\ m.name \in Name
      /\ s2c[c] = <<>> /\ shown[c] = <<>> /\ pc[c] \in {m.type, "quit"}
      /\ pc[c] # "quit" => m.name = msg[c].name
  <2>1. /\ c2s[c] \in Seq(Msg) /\ c2s[c] # <<>> /\ RequestOK(c)
    BY DEF IInv, TypeOK, Link, recvRequest
  <2>2. Tail(c2s[c]) = <<>>
    BY <2>1, TailFacts DEF RequestOK
  <2>3. m \in Request /\ m \in Msg /\ Head(c2s[c]) = m
    BY <2>1 DEF RequestOK
  <2>4. m.type \in Type /\ m.name \in Name
    BY <2>3 DEF Request, Type
  <2> QED BY <2>1, <2>2, <2>3, <2>4 DEF RequestOK, recvRequest
<1> HIDE DEF m
<1>1. TypeOK'
  BY <1>0 DEF IInv, TypeOK, recvRequest, Goto, clientVars, database
<1>2. Link(c)'
  <2> USE <1>0 DEF recvRequest, Goto, clientVars, Type
  <2>1. RestOK(c)'
    BY DEF IInv, TypeOK, Link, RestOK, Resting
  <2>2. RequestOK(c)'
    BY DEF IInv, TypeOK, RequestOK
  <2>3. ServeOK(c)'
    BY DEF IInv, TypeOK, ServeOK, Busy
  <2>4. RepliesOK(c)'
    BY NoReplies
  <2>5. ClientOK(c)'
    BY DEF IInv, TypeOK, Link, ClientOK
  <2>6. NameOK(c)'
    BY DEF IInv, TypeOK, Link, NameOK, Session, Busy
  <2> QED BY <2>1, <2>2, <2>3, <2>4, <2>5, <2>6 DEF Link
<1>3. \A d \in Client \ {c} : Same(d)
  BY <1>0 DEF IInv, TypeOK, recvRequest, Goto, clientVars, database, Same
<1> QED BY <1>1, <1>2, <1>3, OneLink

\* The answer is fixed.
LEMMA AnswerKeeps ==
    ASSUME IInv, NEW c \in Client, NEW text \in Data, Answer(c, text),
           child[c] \in Busy, text.kind # "row",
           text = LoginOk => recvMsg[c].type = "login",
           recvMsg[c].type = "history" => text = EndOfRows,
           UNCHANGED <<clientVars, c2s, s2c, listening>>,
           row' \in [Client -> Nat], record' \in [Name -> Seq(DictWord)],
           DOMAIN user' \subseteq Name, user' \in [DOMAIN user' -> Passwd]
    PROVE  IInv'
<1> DEFINE m == [recvMsg[c] EXCEPT !.data = text]
<1>a. recvMsg' = [recvMsg EXCEPT ![c] = m] /\ child' = [child EXCEPT ![c] = "answer"]
  BY DEF Answer, Goto
<1>b. recvMsg[c] \in Msg
  BY DEF IInv, TypeOK
<1>0. m \in Msg /\ m.type = recvMsg[c].type /\ m.name = recvMsg[c].name /\ m.data = text
  BY <1>b DEF Msg
<1> HIDE DEF m
<1>1. TypeOK'
  BY <1>0, <1>a DEF IInv, TypeOK, clientVars
<1>c. recvMsg'[c] = m /\ child'[c] = "answer"
  BY <1>a DEF IInv, TypeOK
<1>2. Link(c)'
  <2> USE <1>0, <1>c DEF clientVars, Type
  <2>1. RestOK(c)'
    BY DEF IInv, Link, RestOK, Resting, Busy
  <2>2. RequestOK(c)'
    BY DEF IInv, Link, RequestOK, Busy
  <2>3. ServeOK(c)'
    BY DEF IInv, Link, ServeOK, Busy
  <2>4. RepliesOK(c)'
    BY DEF IInv, Link, RepliesOK, Busy
  <2>5. ClientOK(c)'
    BY DEF IInv, Link, ClientOK
  <2>6. NameOK(c)'
    BY DEF IInv, Link, NameOK, Busy
  <2> QED BY <2>1, <2>2, <2>3, <2>4, <2>5, <2>6 DEF Link
<1>3. \A d \in Client \ {c} : Same(d)
  BY <1>a DEF IInv, TypeOK, clientVars, Same
<1> QED BY <1>1, <1>2, <1>3, OneLink

\* The texts of the answers.
LEMMA TextFacts ==
    /\ RegisterOk \in Data /\ Exists \in Data /\ LoginOk \in Data /\ Wrong \in Data
    /\ NotFound \in Data /\ NoFile \in Data /\ EndOfRows \in Data
    /\ RegisterOk.kind = "register ok" /\ Exists.kind = "already exist"
    /\ LoginOk.kind = "OK" /\ Wrong.kind = "wrong" /\ NotFound.kind = "Not found"
    /\ NoFile.kind = "fail to open dict.txt" /\ EndOfRows.kind = ""
<1>1. /\ RegisterOk.kind = "register ok" /\ Exists.kind = "already exist"
      /\ LoginOk.kind = "OK" /\ Wrong.kind = "wrong" /\ NotFound.kind = "Not found"
      /\ NoFile.kind = "fail to open dict.txt" /\ EndOfRows.kind = ""
  BY DEF RegisterOk, Exists, LoginOk, Wrong, NotFound, NoFile, EndOfRows, Text
<1> QED BY <1>1 DEF Data

LEMMA RegisterKeeps == ASSUME IInv, NEW c \in Client, register(c) PROVE IInv'
<1>0. /\ recvMsg[c] \in Request /\ recvMsg[c].type = "register" /\ child[c] \in Busy
      /\ recvMsg[c].name \in Name /\ recvMsg[c].data.of \in Passwd
  <2>1. recvMsg[c] \in Request /\ recvMsg[c].type = "register"
    BY DEF IInv, Link, ServeOK, register, Type
  <2> QED BY <2>1 DEF Request, register, Busy, Type
<1>1. /\ UNCHANGED <<clientVars, c2s, s2c, listening>> /\ row' \in [Client -> Nat]
      /\ record' \in [Name -> Seq(DictWord)]
  BY DEF IInv, TypeOK, register
<1>2. PICK text \in {RegisterOk, Exists} : Answer(c, text)
  BY DEF register
<1>3. DOMAIN user' \subseteq Name /\ user' \in [DOMAIN user' -> Passwd]
  BY <1>0 DEF IInv, TypeOK, register
<1>4. text \in Data /\ text.kind # "row" /\ text # LoginOk
  BY TextFacts
<1> QED BY <1>0, <1>1, <1>2, <1>3, <1>4, AnswerKeeps

LEMMA LoginKeeps == ASSUME IInv, NEW c \in Client, login(c) PROVE IInv'
<1>0. recvMsg[c].type = "login" /\ child[c] \in Busy
  BY DEF IInv, Link, ServeOK, login, Type, Busy
<1>1. /\ UNCHANGED <<clientVars, c2s, s2c, listening>> /\ row' \in [Client -> Nat]
      /\ record' \in [Name -> Seq(DictWord)]
      /\ DOMAIN user' \subseteq Name /\ user' \in [DOMAIN user' -> Passwd]
  BY DEF IInv, TypeOK, login, database
<1>2. PICK text \in {LoginOk, Wrong} : Answer(c, text)
  BY DEF login
<1>4. text \in Data /\ text.kind # "row"
  BY TextFacts
<1> QED BY <1>0, <1>1, <1>2, <1>4, AnswerKeeps

LEMMA EndRowsKeeps == ASSUME IInv, NEW c \in Client, endRows(c) PROVE IInv'
<1>0. recvMsg[c].type = "history" /\ child[c] \in Busy
  BY DEF IInv, Link, ServeOK, endRows, Busy
<1>1. /\ UNCHANGED <<clientVars, c2s, s2c, listening>> /\ row' \in [Client -> Nat]
      /\ record' \in [Name -> Seq(DictWord)]
      /\ DOMAIN user' \subseteq Name /\ user' \in [DOMAIN user' -> Passwd]
  BY DEF IInv, TypeOK, endRows, database
<1>2. Answer(c, EndOfRows)
  BY DEF endRows
<1>3. EndOfRows \in Data /\ EndOfRows.kind # "row" /\ EndOfRows # LoginOk
  BY TextFacts
<1> QED BY <1>0, <1>1, <1>2, <1>3, AnswerKeeps

LEMMA SearchKeeps == ASSUME IInv, NEW c \in Client, search(c) PROVE IInv'
<1>0. /\ recvMsg[c] \in Request /\ recvMsg[c].type = "query" /\ child[c] = "query"
      /\ s2c[c] = <<>>
  BY DEF IInv, Link, ServeOK, search, Type
<1>1. /\ UNCHANGED <<clientVars, c2s, s2c, listening, user, record>>
      /\ row' \in [Client -> Nat] /\ record' \in [Name -> Seq(DictWord)]
      /\ DOMAIN user' \subseteq Name /\ user' \in [DOMAIN user' -> Passwd]
  BY DEF IInv, TypeOK, search, database
<1>2. ASSUME NEW text \in {NotFound, NoFile}, Answer(c, text)
      PROVE  IInv'
  <2>1. text \in Data /\ text.kind # "row" /\ text # LoginOk
    BY TextFacts
  <2>2. child[c] \in Busy /\ recvMsg[c].type # "history"
    BY <1>0 DEF Busy, Type
  <2> QED BY <1>1, <1>2, <2>1, <2>2, AnswerKeeps
<1>3. ASSUME NEW w \in DictWord, w = recvMsg[c].data.of,
             recvMsg' = [recvMsg EXCEPT ![c].data = Text("meaning", w)],
             Goto(c, "insert")
      PROVE  IInv'
  <2> DEFINE m == [recvMsg[c] EXCEPT !.data = Text("meaning", w)]
  <2>1. Text("meaning", w) \in Data /\ Text("meaning", w).kind = "meaning"
        /\ Text("meaning", w).of = w
    BY DEF Data, Text
  <2>2. recvMsg[c] \in Msg
    BY DEF IInv, TypeOK
  <2>3. m \in Msg /\ m.type = "query" /\ m.name = recvMsg[c].name
        /\ m.data = Text("meaning", w)
    BY <1>0, <2>1, <2>2 DEF Msg
  <2>4. recvMsg' = [recvMsg EXCEPT ![c] = m]
    BY <1>3
  <2> HIDE DEF m
  <2>5. recvMsg'[c] = m /\ child'[c] = "insert"
    BY <1>3, <2>4 DEF IInv, TypeOK, Goto
  <2>6. TypeOK'
    <3>1. recvMsg' \in [Client -> Msg]
      BY <2>3, <2>4 DEF IInv, TypeOK
    <3>2. child' \in [Client -> Type \cup {"none", "idle", "insert", "rows", "answer", "dead"}]
      BY <1>3 DEF IInv, TypeOK, Goto
    <3> QED BY <1>1, <3>1, <3>2 DEF IInv, TypeOK, clientVars
  <2>7. Link(c)'
    <3> USE <1>0, <1>1, <2>1, <2>3, <2>5 DEF clientVars, Type
    <3>1. RestOK(c)'
      BY DEF IInv, Link, RestOK, Resting
    <3>2. RequestOK(c)'
      BY DEF IInv, Link, RequestOK
    <3>3. ServeOK(c)'
      BY DEF IInv, Link, ServeOK, Busy
    <3>4. RepliesOK(c)'
      BY NoReplies
    <3>5. ClientOK(c)'
      BY DEF IInv, Link, ClientOK
    <3>6. NameOK(c)'
      BY DEF IInv, Link, NameOK, Busy
    <3> QED BY <3>1, <3>2, <3>3, <3>4, <3>5, <3>6 DEF Link
  <2>8. \A d \in Client \ {c} : Same(d)
    BY <1>1, <1>3, <2>4 DEF IInv, TypeOK, Goto, clientVars, Same
  <2> QED BY <2>6, <2>7, <2>8, OneLink
<1> QED BY <1>2, <1>3 DEF search

LEMMA InsertKeeps == ASSUME IInv, NEW c \in Client, insert(c) PROVE IInv'
<1>0. /\ child[c] = "insert" /\ recvMsg[c].type = "query" /\ recvMsg[c].name \in Name
      /\ recvMsg[c].data.kind = "meaning" /\ recvMsg[c].data.of \in DictWord
      /\ pc[c] \in {"query", "quit"} /\ s2c[c] = <<>>
  BY DEF IInv, Link, ServeOK, insert, Busy
<1>a. record' \in [Name -> Seq(DictWord)]
  <2>1. Append(record[recvMsg[c].name], recvMsg[c].data.of) \in Seq(DictWord)
    BY <1>0, AppendProperties DEF IInv, TypeOK
  <2> QED BY <2>1 DEF IInv, TypeOK, insert
<1>b. child'[c] \in {"answer", "idle"} /\ child' = [child EXCEPT ![c] = child'[c]]
  BY DEF IInv, TypeOK, insert, Goto
<1>1. TypeOK'
  BY <1>a, <1>b DEF IInv, TypeOK, insert, clientVars
<1>2. Link(c)'
  <2> USE <1>0, <1>b DEF insert, clientVars, Type
  <2>1. RestOK(c)'
    BY DEF IInv, Link, RestOK, Resting
  <2>2. RequestOK(c)'
    BY DEF IInv, Link, RequestOK
  <2>3. ServeOK(c)'
    BY TextFacts DEF IInv, Link, ServeOK, Busy
  <2>4. RepliesOK(c)'
    BY NoReplies
  <2>5. ClientOK(c)'
    BY DEF IInv, Link, ClientOK
  <2>6. NameOK(c)'
    BY DEF IInv, Link, NameOK, Busy
  <2> QED BY <2>1, <2>2, <2>3, <2>4, <2>5, <2>6 DEF Link
<1>3. \A d \in Client \ {c} : Same(d)
  BY <1>b DEF IInv, TypeOK, insert, clientVars, Same
<1> QED BY <1>1, <1>2, <1>3, OneLink

LEMMA HistoryKeeps == ASSUME IInv, NEW c \in Client, history(c) PROVE IInv'
<1>0. /\ child[c] = "history" /\ recvMsg[c].type = "history" /\ child[c] \in Busy
      /\ s2c[c] = <<>>
  BY DEF IInv, Link, ServeOK, history, Busy, Type
<1>1. /\ UNCHANGED <<clientVars, c2s, s2c, listening>> /\ row' \in [Client -> Nat]
      /\ record' \in [Name -> Seq(DictWord)]
      /\ DOMAIN user' \subseteq Name /\ user' \in [DOMAIN user' -> Passwd]
  BY DEF IInv, TypeOK, history, database
<1>2. CASE Answer(c, EndOfRows)
  <2>1. EndOfRows \in Data /\ EndOfRows.kind # "row" /\ EndOfRows # LoginOk
    BY TextFacts
  <2> QED BY <1>0, <1>1, <1>2, <2>1, AnswerKeeps
<1>3. CASE Goto(c, "rows") /\ UNCHANGED recvMsg
  <2>1. TypeOK'
    BY <1>1, <1>3 DEF IInv, TypeOK, Goto, clientVars
  <2>2. child'[c] = "rows"
    BY <1>3 DEF IInv, TypeOK, Goto
  <2>3. Link(c)'
    <3> USE <1>0, <1>1, <1>3, <2>2 DEF clientVars, Type
    <3>1. RestOK(c)'
      BY DEF IInv, Link, RestOK, Resting
    <3>2. RequestOK(c)'
      BY DEF IInv, Link, RequestOK
    <3>3. ServeOK(c)'
      BY DEF IInv, Link, ServeOK, Busy
    <3>4. RepliesOK(c)'
      BY NoReplies
    <3>5. ClientOK(c)'
      BY DEF IInv, Link, ClientOK
    <3>6. NameOK(c)'
      BY DEF IInv, Link, NameOK, Busy
    <3> QED BY <3>1, <3>2, <3>3, <3>4, <3>5, <3>6 DEF Link
  <2>4. \A d \in Client \ {c} : Same(d)
    BY <1>1, <1>3 DEF IInv, TypeOK, Goto, clientVars, Same
  <2> QED BY <2>1, <2>3, <2>4, OneLink
<1> QED BY <1>2, <1>3 DEF history

\* A message of an answer goes to a client that is there, or nowhere.
LEMMA ReplyKeeps ==
    ASSUME IInv, NEW c \in Client, NEW m \in Msg, NEW next, Reply(c, m, next),
           \/ child[c] = "rows" /\ next = "rows" /\ m \in Row
           \/ child[c] = "answer" /\ next = "idle" /\ m = recvMsg[c],
           UNCHANGED <<clientVars, recvMsg, c2s, listening, database>>,
           row' \in [Client -> Nat]
    PROVE  IInv'
<1>0. recvMsg[c].type \in Type /\ recvMsg[c].name \in Name
      /\ pc[c] \in {recvMsg[c].type, "quit"} /\ c2s[c] = <<>>
      /\ (pc[c] # "history" => s2c[c] = <<>>)
  BY DEF IInv, Link, ServeOK, RequestOK, Busy, Type
<1>a. CASE pc[c] = "quit"
  <2>1. /\ child'[c] \in {next, "dead"} /\ child' = [child EXCEPT ![c] = child'[c]]
        /\ s2c' = s2c /\ s2c[c] = <<>>
    BY <1>0, <1>a DEF IInv, TypeOK, Reply
  <2>2. TypeOK'
    BY <2>1 DEF IInv, TypeOK, clientVars, database
  <2>3. Link(c)'
    <3> USE <1>0, <1>a, <2>1 DEF clientVars, Type
    <3>1. RestOK(c)'
      BY DEF IInv, Link, RestOK, Resting
    <3>2. RequestOK(c)'
      BY DEF IInv, Link, RequestOK
    <3>3. ServeOK(c)'
      BY DEF IInv, Link, ServeOK, Busy
    <3>4. RepliesOK(c)'
      BY NoReplies
    <3>5. ClientOK(c)'
      BY DEF IInv, Link, ClientOK
    <3>6. NameOK(c)'
      BY DEF IInv, Link, NameOK, Busy, Session
    <3> QED BY <3>1, <3>2, <3>3, <3>4, <3>5, <3>6 DEF Link
  <2>4. \A d \in Client \ {c} : Same(d)
    BY <2>1 DEF IInv, TypeOK, clientVars, Same
  <2> QED BY <2>2, <2>3, <2>4, OneLink
<1>b. CASE pc[c] # "quit"
  <2>a. child' = [child EXCEPT ![c] = next] /\ s2c' = [s2c EXCEPT ![c] = Append(@, m)]
    BY <1>b DEF Reply, Goto
  <2>1. /\ child'[c] = next /\ child' = [child EXCEPT ![c] = next]
        /\ s2c' = [s2c EXCEPT ![c] = Append(@, m)] /\ s2c[c] \in Seq(Msg)
        /\ s2c'[c] = Append(s2c[c], m) /\ s2c'[c] \in Seq(Msg)
    BY <2>a, AppendProperties DEF IInv, TypeOK
  <2>2. TypeOK'
    BY <2>1 DEF IInv, TypeOK, clientVars, database
  <2>b. s2c'[c] # <<>> /\ Len(s2c'[c]) = Len(s2c[c]) + 1 /\ Len(s2c[c]) \in Nat
        /\ s2c'[c][Len(s2c[c]) + 1] = m
        /\ \A i \in 1 .. Len(s2c[c]) : s2c'[c][i] = s2c[c][i]
    BY <2>1
  <2>3. Link(c)'
    <3> USE <1>0, <1>b, <2>1 DEF clientVars, Type
    <3>1. RestOK(c)'
      BY DEF IInv, Link, RestOK, Resting
    <3>2. RequestOK(c)'
      BY DEF IInv, Link, RequestOK
    <3>3. ServeOK(c)'
      BY DEF IInv, Link, ServeOK, Busy
    <3>4. RepliesOK(c)'
      <4>1. ASSUME NEW i \in 1 .. Len(s2c[c])
            PROVE  s2c[c][i] \in Row /\ pc[c] = "history"
        BY DEF IInv, Link, RepliesOK, Busy
      <4>2. /\ m \in Row => pc[c] = "history"
            /\ m \notin Row =>
                  /\ child'[c] \notin Busy /\ m.data.kind # "row" /\ m.type = pc[c]
                  /\ m.name \in Name /\ m.name = recvMsg[c].name
                  /\ m.data = LoginOk => pc[c] = "login"
                  /\ pc[c] = "history" => m.data = EndOfRows
        BY DEF IInv, Link, ServeOK, Busy, Row
      <4> QED BY <2>b, <4>1, <4>2 DEF RepliesOK
    <3>5. ClientOK(c)'
      BY DEF IInv, Link, ClientOK
    <3>6. NameOK(c)'
      BY DEF IInv, Link, NameOK, Busy
    <3> QED BY <3>1, <3>2, <3>3, <3>4, <3>5, <3>6 DEF Link
  <2>4. \A d \in Client \ {c} : Same(d)
    BY <2>1 DEF IInv, TypeOK, clientVars, Same
  <2> QED BY <2>2, <2>3, <2>4, OneLink
<1> QED BY <1>a, <1>b

\* The rows a statement that has called back for k of them has left.
RowsFrom(words, k) ==
    [i \in 1 .. Len(words) - k |-> Text("row", words[k + i])]

LEMMA RowsFromFacts ==
    ASSUME NEW words \in Seq(DictWord), NEW k \in Nat
    PROVE  /\ RowsFrom(words, k) \in Seq([kind : {"row"}, of : Word])
           /\ Len(RowsFrom(words, k)) = IF k <= Len(words) THEN Len(words) - k ELSE 0
           /\ \A i \in 1 .. Len(words) - k : RowsFrom(words, k)[i] = Text("row", words[k + i])
<1> DEFINE R == [kind : {"row"}, of : Word]
           n == IF k <= Len(words) THEN Len(words) - k ELSE 0
<1>1. Len(words) \in Nat /\ n \in Nat /\ 1 .. Len(words) - k = 1 .. n
  OBVIOUS
<1>2. ASSUME NEW i \in 1 .. n PROVE Text("row", words[k + i]) \in R
  <2>1. k + i \in 1 .. Len(words)
    BY <1>1
  <2>2. words[k + i] \in Word
    BY <2>1
  <2> QED BY <2>2 DEF Text
<1> DEFINE e(i) == Text("row", words[k + i])
<1>3. \A i \in 1 .. n : e(i) \in R
  BY <1>2
<1>4. RowsFrom(words, k) = [i \in 1 .. n |-> e(i)]
  BY <1>1 DEF RowsFrom
<1> HIDE DEF R, e, n
<1>5. RowsFrom(words, k) \in [1 .. n -> R]
  BY <1>3, <1>4
<1>6. RowsFrom(words, k) \in Seq(R) /\ Len(RowsFrom(words, k)) = n
  BY <1>1, <1>5, SeqDef
<1>7. \A i \in 1 .. n : RowsFrom(words, k)[i] = e(i)
  BY <1>4
<1> QED BY <1>1, <1>6, <1>7 DEF R, e, n

\* After the next row, the tail of them is left.
LEMMA NextRow ==
    ASSUME NEW words \in Seq(DictWord), NEW k \in Nat, RowsFrom(words, k) # <<>>
    PROVE  RowsFrom(words, k + 1) = Tail(RowsFrom(words, k))
<1> DEFINE R == [kind : {"row"}, of : Word]
           r == RowsFrom(words, k)
           t == RowsFrom(words, k + 1)
<1>1. Len(words) \in Nat /\ k + 1 \in Nat
  OBVIOUS
<1>2. /\ r \in Seq(R) /\ Len(r) = IF k <= Len(words) THEN Len(words) - k ELSE 0
      /\ \A i \in 1 .. Len(words) - k : r[i] = Text("row", words[k + i])
  BY RowsFromFacts
<1>3. /\ t \in Seq(R) /\ Len(t) = IF k + 1 <= Len(words) THEN Len(words) - (k + 1) ELSE 0
      /\ \A i \in 1 .. Len(words) - (k + 1) : t[i] = Text("row", words[k + 1 + i])
  BY <1>1, RowsFromFacts
<1> HIDE DEF R, r, t
<1>4. /\ Tail(r) \in Seq(R) /\ Len(Tail(r)) = Len(r) - 1 /\ Len(r) # 0
      /\ \A i \in 1 .. Len(Tail(r)) : i + 1 \in 1 .. Len(r) /\ Tail(r)[i] = r[i + 1]
  <2>1. r # <<>>
    BY DEF r
  <2>2. Len(r) # 0
    BY <1>2, <2>1, EmptySeq
  <2> QED BY <1>2, <2>1, <2>2, TailFacts
<1>5. Len(t) = Len(Tail(r)) /\ Len(r) = Len(words) - k /\ Len(t) = Len(words) - (k + 1)
  BY <1>1, <1>2, <1>3, <1>4
<1>6. ASSUME NEW i \in 1 .. Len(t) PROVE t[i] = Tail(r)[i]
  <2>1. i + 1 \in 1 .. Len(words) - k /\ k + 1 + i = k + (i + 1)
        /\ i \in 1 .. Len(words) - (k + 1) /\ i \in 1 .. Len(Tail(r))
    BY <1>1, <1>5
  <2>2. t[i] = Text("row", words[k + 1 + i]) /\ Tail(r)[i] = r[i + 1]
    BY <1>3, <1>4, <2>1
  <2>3. r[i + 1] = Text("row", words[k + (i + 1)])
    BY <1>2, <2>1
  <2> QED BY <2>1, <2>2, <2>3
<1>7. t = Tail(r)
  BY <1>3, <1>4, <1>5, <1>6, SeqEqual
<1> QED BY <1>7 DEF r, t

LEMMA RowsLeftFacts ==
    ASSUME TypeOK, NEW c \in Client, recvMsg[c].name \in Name
    PROVE  /\ row[c] \in Nat /\ record[recvMsg[c].name] \in Seq(DictWord)
           /\ RowsLeft(c) = RowsFrom(record[recvMsg[c].name], row[c])
           /\ RowsLeft(c) \in Seq([kind : {"row"}, of : Word])
<1>1. row[c] \in Nat /\ record[recvMsg[c].name] \in Seq(DictWord)
  BY DEF TypeOK
<1>2. RowsLeft(c) = RowsFrom(record[recvMsg[c].name], row[c])
  BY DEF RowsLeft, RowsFrom
<1> QED BY <1>1, <1>2, RowsFromFacts

LEMMA SendRowKeeps == ASSUME IInv, NEW c \in Client, sendRow(c) PROVE IInv'
<1> DEFINE m == Message(Nothing, Nothing, Head(RowsLeft(c)))
<1>1. recvMsg[c].name \in Name
  BY DEF IInv, Link, ServeOK, sendRow, Busy
<1>2. Head(RowsLeft(c)) \in [kind : {"row"}, of : Word]
  BY <1>1, RowsLeftFacts, HeadTailProperties DEF IInv, sendRow
<1>3. m \in Row /\ m \in Msg
  BY <1>2 DEF Row, Msg, Message, Data
<1>4. row' \in [Client -> Nat]
  BY DEF IInv, TypeOK, sendRow
<1> QED BY <1>3, <1>4, ReplyKeeps DEF sendRow

LEMMA SendAnswerKeeps == ASSUME IInv, NEW c \in Client, sendAnswer(c) PROVE IInv'
<1>1. recvMsg[c] \in Msg /\ row' \in [Client -> Nat]
  BY DEF IInv, TypeOK, sendAnswer
<1> QED BY <1>1, ReplyKeeps DEF sendAnswer

LEMMA NobodyKeeps == ASSUME IInv, stopListening \/ UNCHANGED vars PROVE IInv'
<1>1. TypeOK'
  BY DEF IInv, TypeOK, stopListening, vars, clientVars, childVars, database
<1>2. \A d \in Client : Same(d)
  BY DEF stopListening, vars, clientVars, childVars, database, Same
<1> QED BY <1>1, <1>2, Others DEF IInv

LEMMA Step == IInv /\ [Next]_vars => IInv'
<1> SUFFICES ASSUME IInv, [Next]_vars PROVE IInv'
  OBVIOUS
<1>1. ASSUME NEW c \in Client, Menu(c) PROVE IInv'
  BY <1>1, ConnectKeeps, AskCases, SendKeeps, ChooseQueryKeeps, EndQueryKeeps, LeaveKeeps DEF Menu
<1>2. ASSUME NEW c \in Client, Recv(c) PROVE IInv'
  BY <1>2, ReceiveCases, RowComesKeeps, AnswerComesKeeps, ReceiveEndKeeps DEF Recv
<1>3. ASSUME NEW c \in Client, Accept(c) PROVE IInv'
  BY <1>3, AcceptKeeps, ResetKeeps DEF Accept
<1>4. ASSUME NEW c \in Client, Serve(c) PROVE IInv'
  BY <1>4, RecvRequestKeeps, RecvEndKeeps, RegisterKeeps, LoginKeeps, SearchKeeps,
     InsertKeeps, HistoryKeeps, SendRowKeeps, EndRowsKeeps, SendAnswerKeeps DEF Serve
<1>5. ASSUME NEW c \in Client, kill(c) PROVE IInv'
  BY <1>5, KillKeeps
<1> QED BY <1>1, <1>2, <1>3, <1>4, <1>5, NobodyKeeps DEF Next, Terminating

-----------------------------------------------------------------------------
(* The theorems. *)

\* IInv holds always.
THEOREM InductiveInvariant == Spec => []IInv
<1> QED BY InitIInv, Step, PTL DEF Spec

\* Requests and answers stay in step: no interrupt, kill, refusal or failed
\* statement makes a client take the answer to an earlier request for its own.
THEOREM StaysInStep == Spec => []InStep
<1>1. IInv => InStep
  BY DEF IInv, InStep, Link, RestOK, Resting, Type
<1> QED BY <1>1, InductiveInvariant, PTL

-----------------------------------------------------------------------------
(* Steps of DictService, seen from one link. *)

Implements == [Service!Next]_(Service!vars)

NoAnswer == [name |-> Nothing, texts |-> <<>>]

\* A step of c leaves the requests and answers of the other clients alone.
Elsewhere(c) ==
    \A d \in Client \ {c} :
        /\ Call(d)' = Call(d) /\ CallAnswer(d)' = CallAnswer(d)
        /\ SessionName(d)' = SessionName(d)
        /\ child'[d] = child[d] /\ pc'[d] = pc[d]

LEMMA ElsewhereOK ==
    ASSUME NEW c \in Client,
           \A d \in Client \ {c} :
               /\ Same(d)
               /\ child[d] = "rows" => row'[d] = row[d]
                      /\ record'[recvMsg[d].name] = record[recvMsg[d].name]
    PROVE  Elsewhere(c)
<1>1. ASSUME NEW d \in Client \ {c}
      PROVE  /\ Call(d)' = Call(d) /\ CallAnswer(d)' = CallAnswer(d)
             /\ SessionName(d)' = SessionName(d)
             /\ child'[d] = child[d] /\ pc'[d] = pc[d]
  <2>1. Same(d)
    BY <1>1
  <2>2. Call(d)' = Call(d)
    BY <2>1 DEF Same, Call
  <2>3. SessionName(d)' = SessionName(d)
    BY <2>1 DEF Same, SessionName
  <2>4. child[d] = "rows" => RowsLeft(d)' = RowsLeft(d)
    BY <1>1, <2>1 DEF Same, RowsLeft
  <2>5. Texts(d)' = Texts(d)
    BY <2>1, <2>4 DEF Same, Texts
  <2>6. CallAnswer(d)' = CallAnswer(d)
    BY <2>1, <2>5 DEF Same, CallAnswer, Waiting
  <2> QED BY <2>1, <2>2, <2>3, <2>6 DEF Same
<1> QED BY <1>1 DEF Elsewhere

LEMMA MapsToNothing ==
    ASSUME NEW c \in Client, Elsewhere(c),
           Call(c)' = Call(c), CallAnswer(c)' = CallAnswer(c),
           SessionName(c)' = SessionName(c),
           child'[c] = "dead" <=> child[c] = "dead",
           pc'[c] = "quit" <=> pc[c] = "quit",
           user' = user, record' = record
    PROVE  Implements
BY DEF Elsewhere, Implements, Service!vars

LEMMA MapsToAsk ==
    ASSUME NEW c \in Client, Elsewhere(c),
           child[c] # "dead", child'[c] # "dead", pc[c] # "quit", pc'[c] # "quit",
           Call(c) = NoMsg, CallAnswer(c) = NoAnswer, CallAnswer(c)' = NoAnswer,
           SessionName(c)' = SessionName(c),
           IF SessionName(c) = Nothing
           THEN \E n \in Name, p \in Passwd, t \in {"register", "login"} :
                    Call(c)' = Message(t, n, Text("passwd", p))
           ELSE \/ \E w \in Word :
                       Call(c)' = Message("query", SessionName(c), Text("input", w))
                \/ Call(c)' = Message("history", SessionName(c), EndOfRows),
           user' = user, record' = record
    PROVE  Implements
<1> DEFINE call == [d \in Client |-> Call(d)]
           answer == [d \in Client |-> CallAnswer(d)]
           session == [d \in Client |-> SessionName(d)]
           broken == {d \in Client : child[d] = "dead"}
           gone == {d \in Client : pc[d] = "quit"}
<1>1. /\ answer' = answer /\ session' = session /\ broken' = broken /\ gone' = gone
      /\ call' = [call EXCEPT ![c] = Call(c)']
  BY DEF Elsewhere
<1>2. /\ c \notin broken \cup gone
      /\ call[c] = Service!NoCall /\ answer[c] = Service!NoAnswer
  BY DEF Service!NoCall, Service!NoAnswer, NoAnswer, NoMsg, Message, EndOfRows, Text,
         Service!Plain, Service!Text
<1>3. Call(c)' \in Service!Requests(c)
  <2>0. session[c] = SessionName(c)
    OBVIOUS
  <2>1. CASE SessionName(c) = Nothing
    <3>1. PICK n \in Name, p \in Passwd, t \in {"register", "login"} :
              Call(c)' = [type |-> t, name |-> n, data |-> Service!Text("passwd", p)]
      BY <2>1 DEF Message, Text, Service!Text
    <3>2. Call(c)' \in [type : {"register", "login"}, name : Name,
                         data : {Service!Text("passwd", q) : q \in Passwd}]
      BY <3>1
    <3> QED BY <2>0, <2>1, <3>2 DEF Service!Requests
  <2>2. CASE /\ SessionName(c) # Nothing
             /\ \E w \in Word :
                   Call(c)' = Message("query", SessionName(c), Text("input", w))
    <3>1. PICK w \in Word :
              Call(c)' = [type |-> "query", name |-> SessionName(c),
                          data |-> Service!Text("input", w)]
      BY <2>2 DEF Message, Text, Service!Text
    <3>2. Call(c)' \in [type : {"query"}, name : {SessionName(c)},
                         data : {Service!Text("input", v) : v \in Word}]
      BY <3>1
    <3> QED BY <2>0, <2>2, <3>2 DEF Service!Requests
  <2>3. CASE /\ SessionName(c) # Nothing
             /\ Call(c)' = Message("history", SessionName(c), EndOfRows)
    BY <2>0, <2>3 DEF Service!Requests, Message, EndOfRows, Text, Service!Text,
                      Service!Plain
  <2> QED BY <2>1, <2>2, <2>3
<1>4. Service!Ask(c)
  BY <1>1, <1>2, <1>3 DEF Service!Ask
<1> QED BY <1>4 DEF Implements, Service!Next

LEMMA MapsToEffect ==
    ASSUME NEW c \in Client, Elsewhere(c), NEW texts,
           child[c] # "dead", child'[c] # "dead", pc'[c] = pc[c],
           Call(c) # NoMsg, Call(c)' = NoMsg,
           texts \in Service!PossibleTexts(Call(c)), Service!Effect(Call(c), texts),
           CallAnswer(c)' = IF pc[c] = "quit" THEN CallAnswer(c)
                            ELSE [name |-> Call(c).name, texts |-> texts],
           SessionName(c)' = SessionName(c)
    PROVE  Implements
<1> DEFINE call == [d \in Client |-> Call(d)]
           answer == [d \in Client |-> CallAnswer(d)]
           session == [d \in Client |-> SessionName(d)]
           broken == {d \in Client : child[d] = "dead"}
           gone == {d \in Client : pc[d] = "quit"}
<1>0. NoMsg = Service!NoCall
  BY DEF NoMsg, Message, EndOfRows, Text, Service!NoCall, Service!Plain, Service!Text
<1>1. /\ session' = session /\ broken' = broken /\ gone' = gone
      /\ call' = [call EXCEPT ![c] = Service!NoCall]
      /\ answer' = IF c \in gone THEN answer
                   ELSE [answer EXCEPT ![c] = [name |-> Call(c).name, texts |-> texts]]
  BY <1>0 DEF Elsewhere
<1>2. c \notin broken /\ call[c] # Service!NoCall /\ call[c] = Call(c)
  BY <1>0
<1>3. Service!TakeEffect(c)
  BY <1>1, <1>2 DEF Service!TakeEffect
<1> QED BY <1>3 DEF Implements, Service!Next

LEMMA MapsToGiveUp ==
    ASSUME NEW c \in Client, Elsewhere(c),
           child[c] # "dead", child'[c] # "dead", pc'[c] = pc[c],
           Call(c).type = "query", Call(c)' = NoMsg,
           CallAnswer(c)' = CallAnswer(c), SessionName(c)' = SessionName(c),
           user' = user, record' = record
    PROVE  Implements
<1> DEFINE call == [d \in Client |-> Call(d)]
           answer == [d \in Client |-> CallAnswer(d)]
           session == [d \in Client |-> SessionName(d)]
           broken == {d \in Client : child[d] = "dead"}
           gone == {d \in Client : pc[d] = "quit"}
<1>0. NoMsg = Service!NoCall
  BY DEF NoMsg, Message, EndOfRows, Text, Service!NoCall, Service!Plain, Service!Text
<1>1. /\ session' = session /\ broken' = broken /\ gone' = gone /\ answer' = answer
      /\ call' = [call EXCEPT ![c] = Service!NoCall] /\ call[c] = Call(c)
  BY <1>0 DEF Elsewhere
<1>3. Service!GiveUp(c)
  BY <1>1 DEF Service!GiveUp
<1> QED BY <1>3 DEF Implements, Service!Next

LEMMA MapsToReturn ==
    ASSUME NEW c \in Client, Elsewhere(c),
           child'[c] = child[c], pc[c] # "quit", pc'[c] # "quit",
           CallAnswer(c) # NoAnswer, CallAnswer(c)' = NoAnswer, Call(c)' = Call(c),
           SessionName(c)' = IF CallAnswer(c).texts = <<LoginOk>>
                             THEN CallAnswer(c).name ELSE SessionName(c),
           user' = user, record' = record
    PROVE  Implements
<1> DEFINE call == [d \in Client |-> Call(d)]
           answer == [d \in Client |-> CallAnswer(d)]
           session == [d \in Client |-> SessionName(d)]
           broken == {d \in Client : child[d] = "dead"}
           gone == {d \in Client : pc[d] = "quit"}
<1>0. NoAnswer = Service!NoAnswer /\ LoginOk = Service!Plain("OK")
  BY DEF NoAnswer, Service!NoAnswer, LoginOk, Text, Service!Plain, Service!Text
<1>1. /\ call' = call /\ broken' = broken /\ gone' = gone
      /\ answer' = [answer EXCEPT ![c] = Service!NoAnswer]
      /\ answer[c] = CallAnswer(c) /\ session[c] = SessionName(c)
  BY <1>0 DEF Elsewhere
<1>2. session' = IF answer[c].texts = <<Service!Plain("OK")>>
                 THEN [session EXCEPT ![c] = answer[c].name] ELSE session
  BY <1>0, <1>1 DEF Elsewhere
<1>3. Service!Return(c)
  BY <1>0, <1>1, <1>2 DEF Service!Return
<1> QED BY <1>3 DEF Implements, Service!Next

LEMMA MapsToLeave ==
    ASSUME NEW c \in Client, Elsewhere(c), child'[c] = child[c], pc'[c] = "quit",
           CallAnswer(c)' = NoAnswer, Call(c)' = Call(c), SessionName(c)' = Nothing,
           user' = user, record' = record
    PROVE  Implements
<1> DEFINE call == [d \in Client |-> Call(d)]
           answer == [d \in Client |-> CallAnswer(d)]
           session == [d \in Client |-> SessionName(d)]
           broken == {d \in Client : child[d] = "dead"}
           gone == {d \in Client : pc[d] = "quit"}
<1>0. NoAnswer = Service!NoAnswer
  BY DEF NoAnswer, Service!NoAnswer
<1>1. /\ call' = call /\ broken' = broken /\ gone' = gone \cup {c}
      /\ answer' = [answer EXCEPT ![c] = Service!NoAnswer]
      /\ session' = [session EXCEPT ![c] = Nothing]
  BY <1>0 DEF Elsewhere
<1>3. Service!Leave(c)
  BY <1>1 DEF Service!Leave
<1> QED BY <1>3 DEF Implements, Service!Next

LEMMA MapsToBreak ==
    ASSUME NEW c \in Client, Elsewhere(c), child'[c] = "dead", pc'[c] = pc[c],
           Call(c)' = NoMsg, SessionName(c)' = SessionName(c),
           NEW k \in 0 .. Len(CallAnswer(c).texts),
           CallAnswer(c)' = IF k = 0 THEN NoAnswer
                            ELSE [name |-> CallAnswer(c).name,
                                  texts |-> SubSeq(CallAnswer(c).texts, 1, k)],
           user' = user, record' = record
    PROVE  Implements
<1> DEFINE call == [d \in Client |-> Call(d)]
           answer == [d \in Client |-> CallAnswer(d)]
           session == [d \in Client |-> SessionName(d)]
           broken == {d \in Client : child[d] = "dead"}
           gone == {d \in Client : pc[d] = "quit"}
<1>0. NoMsg = Service!NoCall /\ NoAnswer = Service!NoAnswer
  BY DEF NoMsg, Message, EndOfRows, Text, Service!NoCall, Service!Plain, Service!Text,
         NoAnswer, Service!NoAnswer
<1>1. /\ session' = session /\ broken' = broken \cup {c} /\ gone' = gone
      /\ call' = [call EXCEPT ![c] = Service!NoCall] /\ answer[c] = CallAnswer(c)
  BY <1>0 DEF Elsewhere
<1>2. answer' = [answer EXCEPT ![c] =
                     IF k = 0 THEN Service!NoAnswer
                     ELSE [name |-> answer[c].name,
                           texts |-> SubSeq(answer[c].texts, 1, k)]]
  BY <1>0, <1>1 DEF Elsewhere
<1>3. Service!Break(c)
  BY <1>1, <1>2 DEF Service!Break
<1> QED BY <1>3 DEF Implements, Service!Next

-----------------------------------------------------------------------------
(* Requests and answers of one link, before and after a step. *)

\* No request.
LEMMA CallNone ==
    ASSUME NEW c \in Client
    PROVE  /\ c2s[c] = <<>> /\ child[c] \notin Type \cup {"insert"} => Call(c) = NoMsg
           /\ c2s'[c] = <<>> /\ child'[c] \notin Type \cup {"insert"} => Call(c)' = NoMsg
<1>1. NoMsg.type \notin Type
  BY DEF NoMsg, Message
<1> QED BY <1>1 DEF Call, Type

\* The request m as DictService has it.
Asked(m) ==
    CASE m.type = "query" -> Message("query", m.name, Text("input", m.data.of))
      [] m.type = "history" -> Message("history", m.name, EndOfRows)
      [] OTHER -> m

LEMMA AskedOf ==
    ASSUME NEW m \in Request
    PROVE  Asked(m) = CASE m.type = "query" -> [m EXCEPT !.data.kind = "input"]
                        [] m.type = "history" -> [m EXCEPT !.data = EndOfRows]
                        [] OTHER -> m
<1>1. CASE m.type = "query"
  <2>1. m \in [type : {"query"}, name : Name, data : [kind : {"input"}, of : Word]]
    BY <1>1 DEF Request
  <2>2. [m EXCEPT !.data.kind = "input"] = Message("query", m.name, Text("input", m.data.of))
    BY <2>1 DEF Message, Text
  <2> QED BY <1>1, <2>2 DEF Asked
<1>2. CASE m.type = "history"
  <2>1. m \in [type : {"history"}, name : Name, data : Data]
    BY <1>2 DEF Request
  <2>2. [m EXCEPT !.data = EndOfRows] = Message("history", m.name, EndOfRows)
    BY <2>1 DEF Message
  <2> QED BY <1>2, <2>2 DEF Asked
<1>3. CASE m.type \notin {"query", "history"}
  BY <1>3 DEF Asked
<1> QED BY <1>1, <1>2, <1>3

\* A request that is on its way, and one the child has received.
LEMMA CallSent ==
    ASSUME NEW c \in Client, NEW m \in Request
    PROVE  /\ c2s[c] = <<m>> => Call(c) = Asked(m)
           /\ c2s'[c] = <<m>> => Call(c)' = Asked(m)
<1>1. <<m>> # <<>> /\ Head(<<m>>) = m
  OBVIOUS
<1> QED BY <1>1, AskedOf DEF Call

LEMMA CallServed ==
    ASSUME NEW c \in Client
    PROVE  /\ recvMsg[c] \in Request /\ c2s[c] = <<>> /\ child[c] \in Type =>
                  Call(c) = Asked(recvMsg[c])
           /\ recvMsg'[c] \in Request /\ c2s'[c] = <<>> /\ child'[c] \in Type =>
                  Call(c)' = Asked(recvMsg'[c])
BY AskedOf DEF Call

LEMMA AskedMeaning ==
    ASSUME NEW m \in Msg, m.type = "query"
    PROVE  [m EXCEPT !.data.kind = "input"] = Asked(m)
<1>1. m.data \in Data
  BY DEF Msg
<1>2. DOMAIN m.data = {"kind", "of"}
  BY <1>1 DEF Data, EndOfRows, RegisterOk, Exists, LoginOk, Wrong, NotFound, NoFile, Text
<1> QED BY <1>2 DEF Asked, Message, Text, Msg

LEMMA CallInserted ==
    ASSUME NEW c \in Client
    PROVE  /\ /\ recvMsg[c] \in Msg /\ recvMsg[c].type = "query"
              /\ c2s[c] = <<>> /\ child[c] = "insert"
              => Call(c) = Asked(recvMsg[c])
           /\ /\ recvMsg'[c] \in Msg /\ recvMsg'[c].type = "query"
              /\ c2s'[c] = <<>> /\ child'[c] = "insert"
              => Call(c)' = Asked(recvMsg'[c])
BY AskedMeaning DEF Call

\* No answer.
LEMMA AnswerNone ==
    ASSUME NEW c \in Client
    PROVE  /\ pc[c] \notin Type => CallAnswer(c) = NoAnswer
           /\ pc'[c] \notin Type => CallAnswer(c)' = NoAnswer
BY DEF CallAnswer, Waiting, NoAnswer

-----------------------------------------------------------------------------
(* Steps of the client. *)

\* The rest of a step of the client.
ClientStep(c) ==
    /\ UNCHANGED <<childVars, listening, database>>
    /\ \A d \in Client \ {c} : Same(d)

LEMMA ClientElsewhere ==
    ASSUME NEW c \in Client, ClientStep(c)
    PROVE  Elsewhere(c)
BY ElsewhereOK DEF ClientStep, childVars, database

LEMMA Sessions ==
    ASSUME NEW c \in Client
    PROVE  /\ SessionName(c) = IF pc[c] \notin Session THEN Nothing
                               ELSE IF msg[c].name = Nothing THEN recvMsg[c].name
                                                             ELSE msg[c].name
           /\ SessionName(c)' = IF pc'[c] \notin Session THEN Nothing
                                ELSE IF msg'[c].name = Nothing THEN recvMsg'[c].name
                                                               ELSE msg'[c].name
BY DEF SessionName, Session

LEMMA LeaveMaps == ASSUME IInv, NEW c \in Client, leave(c) PROVE Implements
<1>1. ClientStep(c)
  BY DEF IInv, TypeOK, leave, Resume, ClientStep, childVars, database, Same
<1>2. pc'[c] = "quit" /\ c2s' = c2s /\ child' = child /\ recvMsg' = recvMsg
      /\ user' = user /\ record' = record
  BY DEF IInv, TypeOK, leave, Resume, childVars, database
<1>3. Call(c)' = Call(c)
  BY <1>2 DEF Call
<1>4. CallAnswer(c)' = NoAnswer /\ SessionName(c)' = Nothing
  BY <1>2, AnswerNone, Sessions DEF Session, Type
<1> QED BY <1>1, <1>2, <1>3, <1>4, ClientElsewhere, MapsToLeave

LEMMA ConnectMaps == ASSUME IInv, NEW c \in Client, connect(c) PROVE Implements
<1>1. ClientStep(c)
  BY DEF IInv, TypeOK, connect, ClientStep, childVars, database, Same
<1>2. pc[c] = "start" /\ pc'[c] \in {"menu", "quit"} /\ c2s' = c2s /\ child' = child
      /\ recvMsg' = recvMsg /\ user' = user /\ record' = record
  BY DEF IInv, TypeOK, connect, childVars, database
<1>3. Call(c)' = Call(c)
  BY <1>2 DEF Call
<1>4. CallAnswer(c) = NoAnswer /\ CallAnswer(c)' = NoAnswer
      /\ SessionName(c) = Nothing /\ SessionName(c)' = Nothing
  BY <1>2, AnswerNone, Sessions DEF Session, Type
<1>5. CASE pc'[c] = "menu"
  BY <1>1, <1>2, <1>3, <1>4, <1>5, ClientElsewhere, MapsToNothing
<1>6. CASE pc'[c] = "quit"
  BY <1>1, <1>2, <1>3, <1>4, <1>6, ClientElsewhere, MapsToLeave
<1> QED BY <1>2, <1>5, <1>6

\* Between the menus nothing is asked or answered.
LEMMA QueryMenuMaps ==
    ASSUME IInv, NEW c \in Client, chooseQuery(c) \/ endQuery(c)
    PROVE  Implements
<1>1. ClientStep(c)
  BY DEF IInv, TypeOK, chooseQuery, endQuery, ClientStep, childVars, database, Same
<1>2. pc[c] \in {"session", "word"} /\ pc'[c] \in {"session", "word"} /\ c2s' = c2s
      /\ child' = child /\ recvMsg' = recvMsg /\ user' = user /\ record' = record
  BY DEF IInv, TypeOK, chooseQuery, endQuery, childVars, database
<1>3. msg'[c].name = msg[c].name
  BY DEF IInv, TypeOK, chooseQuery, endQuery, Msg
<1>4. Call(c)' = Call(c) /\ CallAnswer(c) = NoAnswer /\ CallAnswer(c)' = NoAnswer
  BY <1>2, AnswerNone DEF Call, Type
<1>5. SessionName(c)' = SessionName(c)
  BY <1>2, <1>3 DEF SessionName
<1> QED BY <1>1, <1>2, <1>4, <1>5, ClientElsewhere, MapsToNothing

LEMMA AskMaps ==
    ASSUME IInv, NEW c \in Client, NEW m, Sendable(c, m), WellAsked(m), Send(c, m)
    PROVE  Implements
<1> USE DEF WellAsked
<1>1. ClientStep(c)
  BY DEF IInv, TypeOK, Send, Resume, ClientStep, childVars, database, Same
<1>2. /\ pc[c] \in {"menu", "session", "word"} /\ pc'[c] \in {m.type, "quit"}
      /\ m.type \in Type /\ c2s[c] = <<>> /\ s2c[c] = <<>> /\ shown[c] = <<>>
      /\ child[c] \in Resting /\ m \in Msg
      /\ pc'[c] # "quit" => msg'[c] = m
      /\ pc'[c] = "quit" => child[c] = "dead"
  BY ZenonT(40) DEF IInv, TypeOK, Send, Resume, Sendable, Link, RestOK, ClientOK, Type
<1>3. /\ child' = child /\ recvMsg' = recvMsg /\ s2c' = s2c /\ shown' = shown
      /\ user' = user /\ record' = record
  BY DEF Send, childVars, database
<1>4. Call(c) = NoMsg /\ CallAnswer(c) = NoAnswer
  BY <1>2, CallNone, AnswerNone DEF Type, Resting
<1>5. CallAnswer(c)' = NoAnswer
  <2>1. Texts(c)' = <<>>
    BY <1>2, <1>3 DEF Texts, Resting
  <2> QED BY <2>1 DEF CallAnswer, NoAnswer
<1>6. pc'[c] # "quit" => SessionName(c)' = SessionName(c)
  BY <1>2, <1>3, Sessions DEF IInv, Link, NameOK, Sendable, Session, Type
<1>7. CASE child[c] = "dead"
  <2>1. c2s' = c2s
    BY <1>7 DEF Send
  <2>2. Call(c)' = Call(c)
    BY <1>3, <2>1 DEF Call
  <2>3. CASE pc'[c] = "quit"
    BY <1>1, <1>3, <1>5, <2>2, <2>3, ClientElsewhere, MapsToLeave, Sessions DEF Session
  <2>4. CASE pc'[c] # "quit"
    BY <1>1, <1>2, <1>3, <1>4, <1>5, <1>6, <2>2, <2>4, ClientElsewhere, MapsToNothing
  <2> QED BY <2>3, <2>4
<1>8. CASE child[c] # "dead"
  <2>1. c2s'[c] = <<m>> /\ m \in Request
    BY <1>2, <1>8 DEF IInv, TypeOK, Send, Sendable
  <2>2. Call(c)' = Asked(m)
    BY <2>1, CallSent
  <2>3. pc'[c] # "quit" /\ m.name \in Name
    BY <1>2, <1>8, <2>1 DEF Request
  <2>4. CASE m.type \in {"register", "login"}
    <3>1. SessionName(c) = Nothing
      BY <2>4, Sessions DEF Sendable, Session
    <3>2. Asked(m) = m
      BY <2>4 DEF Asked
    <3> QED BY <1>1, <1>2, <1>3, <1>4, <1>5, <1>6, <1>8, <2>2, <2>3, <2>4, <3>1, <3>2,
               ClientElsewhere, MapsToAsk
  <2>5. CASE m.type \in {"query", "history"}
    <3>1. SessionName(c) = m.name /\ m.name # Nothing
      BY <2>3, <2>5, Sessions DEF Sendable, Session
    <3>2. IF m.type = "query" THEN Asked(m) = Message("query", m.name, Text("input", m.data.of))
                              ELSE Asked(m) = Message("history", m.name, EndOfRows)
      BY <2>5 DEF Asked
    <3> QED BY <1>1, <1>2, <1>3, <1>4, <1>5, <1>6, <1>8, <2>2, <2>3, <2>5, <3>1, <3>2,
               ClientElsewhere, MapsToAsk
  <2> QED BY <1>2, <2>4, <2>5 DEF Type
<1> QED BY <1>7, <1>8

LEMMA MsgFacts ==
    ASSUME NEW s \in Seq(Msg)
    PROVE  Len(s) \in Nat /\ \A i \in 1 .. Len(s) : s[i] \in Msg /\ s[i].data \in Data
<1>1. \A m \in Msg : m.data \in Data
  BY DEF Msg
<1>2. \A i \in 1 .. Len(s) : s[i] \in Msg
  BY ElementOfSeq
<1>3. Len(s) \in Nat
  BY LenProperties
<1> QED BY <1>1, <1>2, <1>3

\* The texts of the messages s.
DataOf(s) == [i \in 1 .. Len(s) |-> s[i].data]

LEMMA DataOfFacts ==
    ASSUME NEW s \in Seq(Msg)
    PROVE  /\ DataOf(s) \in Seq(Data) /\ Len(DataOf(s)) = Len(s)
           /\ \A i \in 1 .. Len(s) : DataOf(s)[i] = s[i].data
           /\ s = <<>> => DataOf(s) = <<>>
           /\ s # <<>> => DataOf(s) = <<s[1].data>> \o DataOf(Tail(s))
           /\ \A m \in Msg : DataOf(Append(s, m)) = DataOf(s) \o <<m.data>>
<1>1. Len(s) \in Nat /\ \A i \in 1 .. Len(s) : s[i] \in Msg /\ s[i].data \in Data
  BY MsgFacts
<1>2. DataOf(s) \in [1 .. Len(s) -> Data]
  BY <1>1 DEF DataOf
<1>3. DataOf(s) \in Seq(Data) /\ Len(DataOf(s)) = Len(s)
  BY <1>1, <1>2, SeqDef
<1>4. \A i \in 1 .. Len(s) : DataOf(s)[i] = s[i].data
  BY DEF DataOf
<1>5. s = <<>> => DataOf(s) = <<>>
  BY <1>3, EmptySeq
<1>6. ASSUME s # <<>> PROVE DataOf(s) = <<s[1].data>> \o DataOf(Tail(s))
  <2> DEFINE t == Tail(s)
             a == <<s[1].data>> \o DataOf(t)
  <2>1. /\ t \in Seq(Msg) /\ Len(t) \in Nat /\ Len(s) = Len(t) + 1
        /\ \A i \in 1 .. Len(t) : i + 1 \in 1 .. Len(s) /\ t[i] = s[i + 1]
    BY <1>6, TailFacts
  <2> HIDE DEF t
  <2>2. DataOf(t) \in [1 .. Len(t) -> Data]
    <3>1. \A i \in 1 .. Len(t) : t[i] \in Msg /\ t[i].data \in Data
      BY <2>1, MsgFacts
    <3> QED BY <3>1 DEF DataOf
  <2>3. DataOf(t) \in Seq(Data) /\ Len(DataOf(t)) = Len(t)
        /\ \A i \in 1 .. Len(t) : DataOf(t)[i] = t[i].data
    BY <2>1, <2>2, SeqDef DEF DataOf
  <2>4. <<s[1].data>> \in Seq(Data) /\ Len(<<s[1].data>>) = 1
        /\ <<s[1].data>>[1] = s[1].data
    BY <1>1, <2>1
  <2>5. a \in Seq(Data) /\ Len(a) = 1 + Len(t)
        /\ \A i \in 1 .. 1 + Len(t) :
              a[i] = IF i <= 1 THEN <<s[1].data>>[i] ELSE DataOf(t)[i - 1]
    BY <2>1, <2>3, <2>4, ConcatProperties
  <2> HIDE DEF a
  <2>6. ASSUME NEW i \in 1 .. Len(s) PROVE a[i] = DataOf(s)[i]
    <3>1. CASE i = 1
      BY <1>4, <2>1, <2>4, <2>5, <3>1
    <3>2. CASE i # 1
      <4>1. i - 1 \in 1 .. Len(t) /\ i \in 1 .. 1 + Len(t) /\ ~(i <= 1) /\ i - 1 + 1 = i
        BY <2>1, <3>2
      <4>2. a[i] = t[i - 1].data /\ t[i - 1] = s[i]
        BY <2>1, <2>3, <2>5, <4>1
      <4> QED BY <1>4, <4>2
    <3> QED BY <3>1, <3>2
  <2>7. a = DataOf(s)
    BY <1>3, <2>1, <2>5, <2>6, SeqEqual
  <2> QED BY <2>7 DEF a, t
<1>7. ASSUME NEW m \in Msg PROVE DataOf(Append(s, m)) = DataOf(s) \o <<m.data>>
  <2> DEFINE t == Append(s, m)
             a == DataOf(s) \o <<m.data>>
  <2>1. t \in Seq(Msg) /\ Len(t) = Len(s) + 1 /\ t[Len(s) + 1] = m
        /\ \A i \in 1 .. Len(s) : t[i] = s[i]
    BY AppendProperties
  <2> HIDE DEF t
  <2>2. \A i \in 1 .. Len(t) : t[i] \in Msg /\ t[i].data \in Data
    BY <2>1, MsgFacts
  <2>3. DataOf(t) \in [1 .. Len(t) -> Data]
    BY <2>2 DEF DataOf
  <2>4. DataOf(t) \in Seq(Data) /\ Len(DataOf(t)) = Len(t)
        /\ \A i \in 1 .. Len(t) : DataOf(t)[i] = t[i].data
    BY <1>1, <2>1, <2>3, SeqDef DEF DataOf
  <2>5. <<m.data>> \in Seq(Data) /\ Len(<<m.data>>) = 1 /\ <<m.data>>[1] = m.data
    BY DEF Msg
  <2>6. a \in Seq(Data) /\ Len(a) = Len(s) + 1
        /\ \A i \in 1 .. Len(s) + 1 :
              a[i] = IF i <= Len(s) THEN DataOf(s)[i] ELSE <<m.data>>[i - Len(s)]
    BY <1>3, <2>5, ConcatProperties
  <2> HIDE DEF a
  <2>7. ASSUME NEW i \in 1 .. Len(t) PROVE DataOf(t)[i] = a[i]
    <3>1. CASE i \in 1 .. Len(s)
      <4>1. i \in 1 .. Len(s) + 1 /\ i <= Len(s) /\ t[i] = s[i]
        BY <1>1, <2>1, <3>1
      <4>2. a[i] = s[i].data
        BY <1>4, <2>6, <3>1, <4>1
      <4> QED BY <2>4, <4>1, <4>2
    <3>2. CASE i = Len(s) + 1
      <4>1. i \in 1 .. Len(s) + 1 /\ ~(i <= Len(s)) /\ i - Len(s) = 1
        BY <1>1, <3>2
      <4>2. a[i] = <<m.data>>[i - Len(s)]
        BY <2>6, <4>1
      <4>3. a[i] = m.data
        BY <2>5, <4>1, <4>2
      <4> QED BY <2>1, <2>4, <3>2, <4>3
    <3> QED BY <1>1, <2>1, <3>1, <3>2
  <2>8. DataOf(t) = a
    BY <2>1, <2>4, <2>6, <2>7, SeqEqual
  <2> QED BY <2>8 DEF a, t
<1> QED BY <1>3, <1>4, <1>5, <1>6, <1>7

\* The texts of an answer that are to come.
Coming(c) ==
    CASE child[c] = "answer" -> <<recvMsg[c].data>>
      [] child[c] = "rows" -> RowsLeft(c) \o <<EndOfRows>>
      [] OTHER -> <<>>

LEMMA TextsAre ==
    ASSUME NEW c \in Client
    PROVE  /\ Texts(c) = (shown[c] \o DataOf(s2c[c])) \o Coming(c)
           /\ Texts(c)' = (shown'[c] \o DataOf(s2c'[c])) \o Coming(c)'
BY DEF Texts, DataOf, Coming

\* The name of the session is that of the request the child has served.
LEMMA ServedSession ==
    ASSUME IInv, NEW c \in Client, pc[c] \in Session, child[c] \in Busy \/ s2c[c] # <<>>
    PROVE  SessionName(c) = recvMsg[c].name
BY Sessions DEF IInv, Link, NameOK

LEMMA RowComesMaps ==
    ASSUME IInv, NEW c \in Client, receive(c), RowComes(c)
    PROVE  Implements
<1> DEFINE d == s2c[c][1].data
<1>1. ClientStep(c)
  BY DEF IInv, TypeOK, receive, RowComes, ClientStep, childVars, database, Same
<1>2. /\ s2c[c] \in Seq(Msg) /\ s2c[c] # <<>> /\ shown[c] \in Seq(Data)
      /\ s2c[c][1] \in Msg /\ d \in Data
      /\ shown'[c] = Append(shown[c], d) /\ s2c'[c] = Tail(s2c[c])
      /\ pc'[c] = "history" /\ pc[c] = "history"
      /\ c2s' = c2s /\ child' = child /\ recvMsg' = recvMsg /\ row' = row
      /\ user' = user /\ record' = record
  <2>1. s2c[c][1] \in Msg
    BY DEF RowComes
  <2>2. d \in Data
    BY <2>1 DEF Msg
  <2> QED BY <2>1, <2>2 DEF IInv, TypeOK, receive, RowComes, childVars, database
<1>3. shown'[c] \o DataOf(s2c'[c]) = shown[c] \o DataOf(s2c[c])
  <2> HIDE DEF d
  <2> DEFINE t == Tail(s2c[c])
  <2>1. t \in Seq(Msg)
    BY <1>2, HeadTailProperties
  <2> HIDE DEF t
  <2>2. DataOf(t) \in Seq(Data) /\ <<d>> \in Seq(Data)
    <3>1. DataOf(t) \in Seq(Data)
      BY <2>1, DataOfFacts
    <3> QED BY <1>2, <3>1
  <2>3. DataOf(s2c[c]) = <<d>> \o DataOf(t)
    BY <1>2, DataOfFacts DEF d, t
  <2>4. Append(shown[c], d) = shown[c] \o <<d>>
    BY <1>2, AppendIsConcat
  <2>5. (shown[c] \o <<d>>) \o DataOf(t) = shown[c] \o (<<d>> \o DataOf(t))
    <3> DEFINE w == shown[c]
               u == <<d>>
               v == DataOf(t)
    <3>1. w \in Seq(Data) /\ u \in Seq(Data) /\ v \in Seq(Data)
      BY <1>2, <2>2
    <3> HIDE DEF u, v, w
    <3>2. (w \o u) \o v = w \o (u \o v)
      BY <3>1, Associative
    <3> QED BY <3>2 DEF u, v, w
  <2> QED BY <1>2, <2>3, <2>4, <2>5 DEF t, d
<1>4. Coming(c)' = Coming(c)
  BY <1>2 DEF Coming, RowsLeft
<1>5. CallAnswer(c)' = CallAnswer(c)
  BY <1>2, <1>3, <1>4, TextsAre DEF CallAnswer, Waiting
<1>6. Call(c)' = Call(c)
  BY <1>2 DEF Call
<1>7. SessionName(c)' = SessionName(c)
  <2>1. SessionName(c) = recvMsg[c].name
    BY <1>2, ServedSession DEF Session
  <2>2. msg'[c].name = Nothing
    BY DEF IInv, TypeOK, RowComes, Row
  <2> QED BY <1>2, <2>1, <2>2, Sessions DEF Session
<1> QED BY <1>1, <1>2, <1>5, <1>6, <1>7, ClientElsewhere, MapsToNothing

LEMMA AnswerComesMaps ==
    ASSUME IInv, NEW c \in Client, receive(c), AnswerComes(c)
    PROVE  Implements
<1> DEFINE m == s2c[c][1]
<1>1. ClientStep(c)
  BY DEF IInv, TypeOK, receive, AnswerComes, Resume, ClientStep, childVars, database, Same
<1>2. /\ s2c[c] \in Seq(Msg) /\ s2c[c] # <<>> /\ s2c[c] = <<m>> /\ shown[c] \in Seq(Data)
      /\ m \in Msg /\ m.data \in Data /\ m.name = recvMsg[c].name /\ m.name \in Name
      /\ pc[c] \in Type /\ child[c] \in {"idle", "dead"}
      /\ c2s' = c2s /\ child' = child /\ recvMsg' = recvMsg
      /\ user' = user /\ record' = record
  <2>1. m \in Msg /\ s2c[c] \in Seq(Msg) /\ Len(s2c[c]) = 1 /\ s2c[c] # <<>>
    BY DEF IInv, TypeOK, receive, AnswerComes
  <2>2. m.data \in Data
    BY <2>1 DEF Msg
  <2>3. s2c[c] = <<m>>
    BY <2>1
  <2> QED BY <2>1, <2>2, <2>3 DEF IInv, TypeOK, receive, AnswerComes, childVars, database
<1>3. Texts(c) = shown[c] \o <<m.data>>
  <2>1. DataOf(s2c[c]) = <<m.data>>
    <3> HIDE DEF m
    <3>1. <<m>> \in Seq(Msg) /\ Tail(<<m>>) = <<>> /\ <<m>>[1] = m /\ <<>> \in Seq(Msg)
      BY <1>2
    <3>2. DataOf(<<m>>) = <<m.data>> \o DataOf(<<>>) /\ DataOf(<<>>) = <<>>
      BY <3>1, DataOfFacts
    <3>3. <<m.data>> \in Seq(Data)
      BY <1>2
    <3> QED BY <1>2, <3>2, <3>3, ConcatEmptySeq
  <2>2. Coming(c) = <<>>
    BY <1>2 DEF Coming
  <2>3. shown[c] \o <<m.data>> \in Seq(Data)
    BY <1>2, ConcatProperties
  <2> QED BY <2>1, <2>2, <2>3, TextsAre, ConcatEmptySeq
<1>4. /\ Texts(c) # <<>> /\ Texts(c)[Len(Texts(c))] = m.data
      /\ shown[c] = <<>> => Texts(c) = <<m.data>>
  <2> DEFINE x == m.data
  <2>1. x \in Data /\ shown[c] \in Seq(Data) /\ Texts(c) = shown[c] \o <<x>>
    BY <1>2, <1>3
  <2> HIDE DEF x, m
  <2>2. Texts(c) = Append(shown[c], x)
    BY <2>1, AppendIsConcat
  <2>3. Texts(c) # <<>> /\ Texts(c)[Len(Texts(c))] = x
    BY <2>1, <2>2, AppendProperties, LenProperties
  <2>4. shown[c] = <<>> => Texts(c) = <<x>>
    <3>1. <<x>> \in Seq(Data)
      BY <2>1
    <3> QED BY <2>1, <3>1, ConcatEmptySeq
  <2> QED BY <2>3, <2>4 DEF x
<1>5. CallAnswer(c) = [name |-> m.name, texts |-> Texts(c)] /\ CallAnswer(c) # NoAnswer
  BY <1>2, <1>4 DEF CallAnswer, Waiting, NoAnswer
<1>6. /\ pc'[c] = CASE pc[c] = "register" -> "menu"
                    [] pc[c] = "login" -> IF m.data = LoginOk THEN "session" ELSE "menu"
                    [] pc[c] = "query" -> "word"
                    [] pc[c] = "history" -> "session"
      /\ pc'[c] # "menu" => msg'[c] = m
  BY <1>2 DEF IInv, TypeOK, AnswerComes, Resume, Type
<1>7. CallAnswer(c)' = NoAnswer /\ pc'[c] # "quit"
  BY <1>2, <1>6, AnswerNone DEF Type
<1>8. Call(c)' = Call(c)
  BY <1>2 DEF Call
<1>9. SessionName(c)' = IF Texts(c) = <<LoginOk>> THEN m.name ELSE SessionName(c)
  <2>1. CASE pc[c] \in {"register", "login"}
    <3>1. shown[c] = <<>>
      BY <2>1 DEF IInv, Link, ClientOK
    <3>2. Texts(c) = <<LoginOk>> <=> m.data = LoginOk
      BY <1>4, <3>1
    <3>3. SessionName(c) = Nothing
      BY <2>1, Sessions DEF Session
    <3>4. CASE m.data = LoginOk
      <4>1. pc'[c] = "session" /\ msg'[c] = m
        BY <1>6, <2>1, <3>4 DEF AnswerComes
      <4> QED BY <1>2, <3>2, <3>4, <4>1, Sessions DEF Session
    <3>5. CASE m.data # LoginOk
      <4>1. pc'[c] = "menu"
        BY <1>6, <2>1, <3>5
      <4> QED BY <3>2, <3>3, <3>5, <4>1, Sessions DEF Session
    <3> QED BY <3>4, <3>5
  <2>2. CASE pc[c] \in {"query", "history"}
    <3>1. m.data # LoginOk
      BY <2>2 DEF AnswerComes
    <3>2. Texts(c) # <<LoginOk>>
      BY <1>4, <3>1
    <3>3. SessionName(c) = m.name
      BY <1>2, <2>2, ServedSession DEF Session
    <3>4. pc'[c] \in {"word", "session"} /\ msg'[c] = m
      BY <1>6, <2>2
    <3> QED BY <1>2, <3>2, <3>3, <3>4, Sessions DEF Session
  <2> QED BY <1>2, <2>1, <2>2 DEF Type
<1>10. pc[c] # "quit" /\ child'[c] = child[c]
  BY <1>2 DEF Type
<1>11. SessionName(c)' = IF CallAnswer(c).texts = <<LoginOk>>
                         THEN CallAnswer(c).name ELSE SessionName(c)
  BY <1>5, <1>9
<1> QED BY <1>1, <1>2, <1>5, <1>7, <1>8, <1>10, <1>11, ClientElsewhere, MapsToReturn

LEMMA ReceiveEndMaps == ASSUME IInv, NEW c \in Client, receiveEnd(c) PROVE Implements
<1>a. PICK at \in {"menu", "session", "word", "history"} : GoesOn(c, at)
  BY ReceiveEndCases
<1>1. ClientStep(c)
  BY <1>a DEF IInv, TypeOK, receiveEnd, GoesOn, Resume, ClientStep, childVars, database, Same
<1>2. /\ s2c[c] = <<>> /\ s2c' = s2c /\ shown[c] \in Seq(Data) /\ child[c] = "dead"
      /\ c2s' = c2s /\ child' = child /\ recvMsg' = recvMsg
      /\ user' = user /\ record' = record /\ pc[c] \in Type /\ pc'[c] = at
      /\ at # "menu" => msg'[c] = msg[c]
      /\ at = "history" => shown'[c] = shown[c]
  BY <1>a DEF IInv, TypeOK, receiveEnd, GoesOn, Resume, childVars, database
<1>3. Texts(c) = shown[c]
  <2>1. DataOf(s2c[c]) = <<>> /\ Coming(c) = <<>>
    BY <1>2, DataOfFacts DEF DataOf, Coming
  <2> QED BY <1>2, <2>1, TextsAre, ConcatEmptySeq
<1>4. SessionName(c)' = SessionName(c)
  <2>1. CASE at = "menu"
    BY <1>a, <1>2, <2>1, Sessions DEF GoesOn, Session
  <2>2. CASE at # "menu"
    BY <1>a, <1>2, <2>2, Sessions DEF GoesOn, Session, Type
  <2> QED BY <2>1, <2>2
<1>5. Call(c)' = Call(c)
  BY <1>2 DEF Call
<1>6. CASE at = "history"
  <2>1. Texts(c)' = Texts(c)
    BY <1>2, <1>6 DEF Texts
  <2>2. CallAnswer(c)' = CallAnswer(c) /\ pc'[c] # "quit" /\ pc[c] # "quit"
    BY <1>a, <1>2, <1>6, <2>1 DEF CallAnswer, Waiting, GoesOn
  <2> QED BY <1>1, <1>2, <1>4, <1>5, <2>2, ClientElsewhere, MapsToNothing
<1>7. CASE at # "history"
  <2>1. CallAnswer(c)' = NoAnswer /\ pc'[c] # "quit" /\ pc[c] # "quit"
    BY <1>2, <1>7, AnswerNone DEF Type
  <2>2. CASE shown[c] = <<>>
    <3>1. CallAnswer(c) = NoAnswer
      BY <1>3, <2>2 DEF CallAnswer, NoAnswer
    <3> QED BY <1>1, <1>2, <1>4, <1>5, <2>1, <3>1, ClientElsewhere, MapsToNothing
  <2>3. CASE shown[c] # <<>>
    <3>1. CallAnswer(c) = [name |-> recvMsg[c].name, texts |-> shown[c]]
          /\ CallAnswer(c) # NoAnswer
      BY <1>2, <1>3, <2>3 DEF CallAnswer, NoAnswer, Waiting
    <3>2. shown[c] # <<LoginOk>>
      <4>1. 1 \in 1 .. Len(shown[c]) /\ shown[c][1].kind = "row"
        BY <1>2, <2>3, EmptySeq DEF IInv, Link, ClientOK
      <4>2. <<LoginOk>>[1].kind = "OK"
        BY TextFacts
      <4> QED BY <4>1, <4>2
    <3> QED BY <1>1, <1>2, <1>4, <1>5, <2>1, <3>1, <3>2, ClientElsewhere, MapsToReturn
  <2> QED BY <2>2, <2>3
<1> QED BY <1>6, <1>7

-----------------------------------------------------------------------------
(* Steps of the server. *)

\* The rest of a step of the child of c that leaves the tables alone.
ServerStep(c) ==
    /\ UNCHANGED <<clientVars, database>>
    /\ \A d \in Client \ {c} : Same(d) /\ row'[d] = row[d]

LEMMA ServerElsewhere ==
    ASSUME NEW c \in Client, ServerStep(c)
    PROVE  Elsewhere(c)
BY ElsewhereOK DEF ServerStep, database

LEMMA SessionStays ==
    ASSUME NEW c \in Client, pc'[c] = pc[c], msg'[c] = msg[c],
           recvMsg'[c].name = recvMsg[c].name
    PROVE  SessionName(c)' = SessionName(c)
BY DEF SessionName

\* What is on the way to the client, and what it has printed.
LEMMA HereFacts ==
    ASSUME IInv, NEW c \in Client
    PROVE  /\ shown[c] \in Seq(Data) /\ DataOf(s2c[c]) \in Seq(Data)
           /\ shown[c] \o DataOf(s2c[c]) \in Seq(Data)
           /\ s2c[c] = <<>> => DataOf(s2c[c]) = <<>>
           /\ shown[c] = <<>> /\ s2c[c] = <<>> => shown[c] \o DataOf(s2c[c]) = <<>>
<1>1. shown[c] \in Seq(Data) /\ s2c[c] \in Seq(Msg)
  BY DEF IInv, TypeOK
<1>2. DataOf(s2c[c]) \in Seq(Data) /\ (s2c[c] = <<>> => DataOf(s2c[c]) = <<>>)
  BY <1>1, DataOfFacts
<1>3. shown[c] \o DataOf(s2c[c]) \in Seq(Data)
  BY <1>1, <1>2, ConcatProperties
<1> QED BY <1>1, <1>2, <1>3, ConcatEmptySeq

LEMMA ComingFacts ==
    ASSUME IInv, NEW c \in Client
    PROVE  /\ Coming(c) \in Seq(Data)
           /\ child[c] = "rows" => RowsLeft(c) \in Seq(Data)
<1>1. CASE child[c] = "answer"
  <2>1. recvMsg[c].data \in Data
    BY DEF IInv, TypeOK, Msg
  <2> QED BY <1>1, <2>1 DEF Coming
<1>2. CASE child[c] = "rows"
  <2>1. recvMsg[c].name \in Name
    BY <1>2 DEF IInv, Link, ServeOK, Busy
  <2>2. RowsLeft(c) \in Seq([kind : {"row"}, of : Word])
    BY <2>1, RowsLeftFacts DEF IInv
  <2>3. [kind : {"row"}, of : Word] \subseteq Data
    BY DEF Data
  <2> HIDE DEF RowsLeft
  <2>a. RowsLeft(c) \in Seq(Data)
    BY <2>2, <2>3, SeqMonotonic
  <2>b. <<EndOfRows>> \in Seq(Data)
    <3>1. EndOfRows \in Data
      BY TextFacts
    <3> HIDE DEF EndOfRows
    <3> QED BY <3>1
  <2>4. RowsLeft(c) \in Seq(Data) /\ <<EndOfRows>> \in Seq(Data)
    BY <2>a, <2>b
  <2>5. RowsLeft(c) \o <<EndOfRows>> \in Seq(Data)
    BY <2>4, ConcatProperties
  <2> QED BY <1>2, <2>4, <2>5 DEF Coming
<1>3. CASE child[c] \notin {"answer", "rows"}
  BY <1>3 DEF Coming
<1> QED BY <1>1, <1>2, <1>3

\* The first texts of an answer.
LEMMA FirstTexts ==
    ASSUME NEW s \in Seq(Data), NEW t \in Seq(Data)
    PROVE  /\ Len(s) \in 0 .. Len(s \o t)
           /\ Len(s) = 0 => s = <<>>
           /\ Len(s) # 0 => SubSeq(s \o t, 1, Len(s)) = s /\ s \o t # <<>>
<1>1. Len(s) \in Nat /\ Len(t) \in Nat /\ Len(s \o t) = Len(s) + Len(t)
  BY ConcatProperties, LenProperties
<1>2. Len(s) = 0 => s = <<>>
  BY EmptySeq
<1>3. ASSUME Len(s) # 0 PROVE SubSeq(s \o t, 1, Len(s)) = s /\ s \o t # <<>>
  <2>1. 1 \in 1 .. Len(s) /\ Len(s) \in 1 .. Len(s)
    BY <1>1, <1>3
  <2>2. SubSeq(s \o t, 1, Len(s)) = SubSeq(s, 1, Len(s))
    BY <2>1, SubSeqOfConcat1
  <2>3. SubSeq(s, 1, Len(s)) = s
    BY SubSeqFull
  <2>4. s \o t # <<>>
    BY <1>3, ConcatEqualIffEmpty, EmptySeq
  <2> QED BY <2>2, <2>3, <2>4
<1> QED BY <1>1, <1>2, <1>3

\* When the child ends, what it has sent still arrives.
LEMMA BreakMaps ==
    ASSUME IInv, NEW c \in Client, ServerStep(c), child'[c] = "dead", c2s'[c] = <<>>,
           s2c'[c] = s2c[c], recvMsg'[c] = recvMsg[c]
    PROVE  Implements
<1> DEFINE p == shown[c] \o DataOf(s2c[c])
           t == Coming(c)
<1>1. p \in Seq(Data) /\ t \in Seq(Data) /\ Texts(c) = p \o t
  BY HereFacts, ComingFacts, TextsAre
<1>2. pc'[c] = pc[c] /\ msg'[c] = msg[c] /\ shown'[c] = shown[c]
      /\ user' = user /\ record' = record
  BY DEF ServerStep, clientVars, database
<1>3. Texts(c)' = p
  <2>1. Coming(c)' = <<>>
    BY DEF Coming
  <2>2. p \o <<>> = p
    BY <1>1, ConcatEmptySeq
  <2> QED BY <1>2, <2>1, <2>2, TextsAre
<1> HIDE DEF p, t
<1>4. /\ Len(p) \in 0 .. Len(p \o t) /\ (Len(p) = 0 => p = <<>>)
      /\ (Len(p) # 0 => SubSeq(p \o t, 1, Len(p)) = p /\ p \o t # <<>>)
      /\ p = <<>> => Len(p) = 0
  BY <1>1, FirstTexts
<1>5. Call(c)' = NoMsg /\ SessionName(c)' = SessionName(c)
  BY <1>2, CallNone, SessionStays DEF Type
<1>6. CASE Waiting(c) /\ p \o t # <<>>
  <2>1. CallAnswer(c) = [name |-> recvMsg[c].name, texts |-> p \o t]
    BY <1>1, <1>6 DEF CallAnswer
  <2>2. CallAnswer(c)' = IF Len(p) = 0 THEN NoAnswer
                         ELSE [name |-> recvMsg[c].name, texts |-> p]
    BY <1>2, <1>3, <1>4, <1>6 DEF CallAnswer, Waiting, NoAnswer
  <2> QED BY <1>2, <1>4, <1>5, <2>1, <2>2, ServerElsewhere, MapsToBreak
<1>7. CASE ~Waiting(c) \/ p \o t = <<>>
  <2>1. CallAnswer(c) = NoAnswer
    BY <1>1, <1>7 DEF CallAnswer, NoAnswer
  <2>2. CallAnswer(c)' = NoAnswer
    BY <1>2, <1>3, <1>4, <1>7 DEF CallAnswer, Waiting, NoAnswer
  <2>3. 0 \in 0 .. Len(CallAnswer(c).texts)
    BY <2>1 DEF NoAnswer
  <2> QED BY <1>2, <1>5, <2>2, <2>3, ServerElsewhere, MapsToBreak
<1> QED BY <1>6, <1>7

LEMMA DeathMaps ==
    ASSUME IInv, NEW c \in Client, reset(c) \/ recvEnd(c) \/ kill(c)
    PROVE  Implements
<1>1. ServerStep(c)
  BY DEF IInv, TypeOK, reset, recvEnd, kill, Goto, ServerStep, clientVars, database, Same
<1>2. child'[c] = "dead" /\ c2s'[c] = <<>> /\ s2c'[c] = s2c[c] /\ recvMsg'[c] = recvMsg[c]
  BY DEF IInv, TypeOK, reset, recvEnd, kill, Goto
<1> QED BY <1>1, <1>2, BreakMaps

LEMMA AcceptMaps == ASSUME IInv, NEW c \in Client, accept(c) PROVE Implements
<1>1. ServerStep(c)
  BY DEF IInv, TypeOK, accept, Goto, ServerStep, clientVars, database, Same
<1>2. /\ child[c] = "none" /\ child'[c] = "idle" /\ c2s' = c2s /\ s2c' = s2c
      /\ recvMsg' = recvMsg /\ pc' = pc /\ msg' = msg /\ shown' = shown
      /\ user' = user /\ record' = record
  BY DEF IInv, TypeOK, accept, Goto, clientVars, database
<1>3. Call(c)' = Call(c)
  BY <1>2 DEF Call, Type
<1>4. Texts(c)' = Texts(c)
  BY <1>2 DEF Texts
<1>5. CallAnswer(c)' = CallAnswer(c) /\ SessionName(c)' = SessionName(c)
  BY <1>2, <1>4, SessionStays DEF CallAnswer, Waiting
<1> QED BY <1>1, <1>2, <1>3, <1>5, ServerElsewhere, MapsToNothing

\* Nothing has been answered while the child works on the request.
LEMMA NoTexts ==
    ASSUME IInv, NEW c \in Client
    PROVE  /\ /\ shown[c] = <<>> /\ s2c[c] = <<>> /\ child[c] \notin {"answer", "rows"}
              => CallAnswer(c) = NoAnswer
           /\ /\ shown[c] = <<>> /\ s2c[c] = <<>>
              /\ pc'[c] = pc[c] /\ shown'[c] = shown[c] /\ s2c'[c] = s2c[c]
              => /\ child'[c] \notin {"answer", "rows"} => CallAnswer(c)' = NoAnswer
                 /\ Coming(c)' \in Seq(Data) => Texts(c)' = Coming(c)'
<1> DEFINE p == shown[c] \o DataOf(s2c[c])
<1>1. shown[c] = <<>> /\ s2c[c] = <<>> => p = <<>>
  BY HereFacts
<1>2. /\ child[c] \notin {"answer", "rows"} => Coming(c) = <<>>
      /\ child'[c] \notin {"answer", "rows"} => Coming(c)' = <<>>
  BY DEF Coming
<1>3. <<>> \o <<>> = <<>>
  OBVIOUS
<1>4. ASSUME shown[c] = <<>>, s2c[c] = <<>>, child[c] \notin {"answer", "rows"}
      PROVE  CallAnswer(c) = NoAnswer
  <2>1. Texts(c) = <<>>
    BY <1>1, <1>2, <1>3, <1>4, TextsAre
  <2> QED BY <2>1 DEF CallAnswer, NoAnswer
<1>5. ASSUME shown[c] = <<>>, s2c[c] = <<>>, pc'[c] = pc[c],
             shown'[c] = shown[c], s2c'[c] = s2c[c]
      PROVE  /\ child'[c] \notin {"answer", "rows"} => CallAnswer(c)' = NoAnswer
             /\ Coming(c)' \in Seq(Data) => Texts(c)' = Coming(c)'
  <2>1. Texts(c)' = <<>> \o Coming(c)'
    BY <1>1, <1>5, TextsAre
  <2>2. child'[c] \notin {"answer", "rows"} => Texts(c)' = <<>>
    BY <1>2, <1>3, <2>1
  <2>3. child'[c] \notin {"answer", "rows"} => CallAnswer(c)' = NoAnswer
    BY <2>2 DEF CallAnswer, NoAnswer
  <2>4. Coming(c)' \in Seq(Data) => Texts(c)' = Coming(c)'
    BY <2>1, ConcatEmptySeq
  <2> QED BY <2>3, <2>4
<1> QED BY <1>4, <1>5

LEMMA RecvRequestMaps == ASSUME IInv, NEW c \in Client, recvRequest(c) PROVE Implements
<1> DEFINE m == c2s[c][1]
<1>1. ServerStep(c)
  BY DEF IInv, TypeOK, recvRequest, Goto, ServerStep, clientVars, database, Same
<1>2. /\ m \in Request /\ c2s[c] = <<m>> /\ s2c[c] = <<>> /\ shown[c] = <<>>
      /\ pc[c] \in {m.type, "quit"} /\ (pc[c] # "quit" => m.name = msg[c].name)
  <2>1. c2s[c] \in Seq(Msg) /\ Len(c2s[c]) = 1 /\ m \in Request /\ s2c[c] = <<>>
        /\ shown[c] = <<>> /\ pc[c] \in {m.type, "quit"}
        /\ (pc[c] # "quit" => m.name = msg[c].name)
    BY DEF IInv, TypeOK, Link, RequestOK, recvRequest
  <2>2. c2s[c] = <<m>>
    BY <2>1
  <2> QED BY <2>1, <2>2
<1>3. /\ child[c] = "idle" /\ child'[c] = m.type /\ recvMsg'[c] = m /\ c2s'[c] = <<>>
      /\ s2c' = s2c /\ pc' = pc /\ msg' = msg /\ shown' = shown
      /\ user' = user /\ record' = record
  <2> DEFINE x == m
  <2>a. c2s[c] = <<x>>
    BY <1>2
  <2> HIDE DEF x
  <2>b. Head(c2s[c]) = x /\ Tail(c2s[c]) = <<>>
    BY <2>a
  <2>1. Head(c2s[c]) = m /\ Tail(c2s[c]) = <<>>
    BY <2>b DEF x
  <2> QED BY <2>1 DEF IInv, TypeOK, recvRequest, Goto, clientVars, database
<1>4. m.type \in Type /\ m.name \in Name
  BY <1>2 DEF Request, Type
<1>5. Call(c)' = Call(c)
  <2>1. Call(c) = Asked(m)
    BY <1>2, CallSent
  <2>2. Call(c)' = Asked(m)
    BY <1>2, <1>3, <1>4, CallServed
  <2> QED BY <2>1, <2>2
<1>6. CallAnswer(c) = NoAnswer /\ CallAnswer(c)' = NoAnswer
  BY <1>2, <1>3, <1>4, NoTexts DEF Type
<1>7. SessionName(c)' = SessionName(c)
  BY <1>2, <1>3, <1>4, Sessions DEF Session
<1>8. m.type # "dead"
  BY <1>4 DEF Type
<1> QED BY <1>1, <1>3, <1>5, <1>6, <1>7, <1>8, ServerElsewhere, MapsToNothing

\* The texts of DictService are those of the server.
LEMMA SameTexts ==
    /\ \A kind, x : Service!Text(kind, x) = Text(kind, x)
    /\ Service!Plain("") = EndOfRows /\ Service!Plain("register ok") = RegisterOk
    /\ Service!Plain("already exist") = Exists /\ Service!Plain("OK") = LoginOk
    /\ Service!Plain("wrong") = Wrong /\ Service!Plain("Not found") = NotFound
    /\ Service!Plain("fail to open dict.txt") = NoFile
BY DEF Service!Text, Service!Plain, Text, EndOfRows, RegisterOk, Exists, LoginOk,
       Wrong, NotFound, NoFile

\* What DictService has as the request the child works on.
LEMMA ServedCall ==
    ASSUME IInv, NEW c \in Client, child[c] \in Type
    PROVE  /\ Call(c) = Asked(recvMsg[c]) /\ Call(c) # NoMsg
           /\ Call(c).type = child[c] /\ recvMsg[c].type = child[c]
           /\ Call(c).name = recvMsg[c].name
           /\ child[c] # "history" => Call(c).data.of = recvMsg[c].data.of
           /\ recvMsg[c] \in Request /\ recvMsg[c].name \in Name
           /\ shown[c] = <<>> /\ s2c[c] = <<>> /\ c2s[c] = <<>>
           /\ pc[c] \in {child[c], "quit"}
<1>1. /\ recvMsg[c] \in Request /\ recvMsg[c].type = child[c]
      /\ shown[c] = <<>> /\ s2c[c] = <<>> /\ recvMsg[c].name \in Name
      /\ pc[c] \in {child[c], "quit"}
  BY DEF IInv, Link, ServeOK, Busy
<1>2. c2s[c] = <<>>
  BY DEF IInv, Link, RequestOK, Type
<1>3. Call(c) = Asked(recvMsg[c])
  BY <1>1, <1>2, CallServed
<1>4. /\ Asked(recvMsg[c]).type = child[c] /\ Asked(recvMsg[c]).name = recvMsg[c].name
      /\ child[c] # "history" => Asked(recvMsg[c]).data.of = recvMsg[c].data.of
  BY <1>1 DEF Asked, Message, Text, Type
<1>5. NoMsg.type = Nothing /\ Nothing \notin Type
  BY DEF NoMsg, Message
<1> QED BY <1>1, <1>2, <1>3, <1>4, <1>5

\* The child fixes the answer when it has done what was asked.
LEMMA AnswerMaps ==
    ASSUME IInv, NEW c \in Client, NEW text \in Data, Answer(c, text),
           child[c] \in Type, Elsewhere(c),
           UNCHANGED <<clientVars, c2s, s2c>>,
           Service!Effect(Call(c), <<text>>),
           <<text>> \in Service!PossibleTexts(Call(c))
    PROVE  Implements
<1>1. /\ pc' = pc /\ msg' = msg /\ shown' = shown /\ c2s' = c2s /\ s2c' = s2c
      /\ child'[c] = "answer" /\ recvMsg'[c].data = text
      /\ recvMsg'[c].name = recvMsg[c].name
  BY DEF IInv, TypeOK, Answer, Goto, clientVars, Msg
<1>2. Call(c) # NoMsg /\ Call(c)' = NoMsg
  BY <1>1, ServedCall, CallNone DEF Type
<1>3. <<text>> \in Seq(Data)
  OBVIOUS
<1>4. Texts(c)' = <<text>>
  <2>1. Coming(c)' = <<text>>
    BY <1>1 DEF Coming
  <2> QED BY <1>1, <1>3, <2>1, NoTexts, ServedCall
<1>5. CallAnswer(c)' = IF pc[c] = "quit" THEN CallAnswer(c)
                       ELSE [name |-> Call(c).name, texts |-> <<text>>]
  <2>1. CASE pc[c] = "quit"
    BY <1>1, <2>1, AnswerNone DEF Type
  <2>2. CASE pc[c] # "quit"
    <3>1. pc[c] \in Type /\ <<text>> # <<>> /\ Call(c).name = recvMsg[c].name
      BY <2>2, ServedCall
    <3> QED BY <1>1, <1>4, <2>2, <3>1 DEF CallAnswer, Waiting
  <2> QED BY <2>1, <2>2
<1>6. SessionName(c)' = SessionName(c)
  BY <1>1, SessionStays
<1>7. child[c] # "dead" /\ child'[c] # "dead"
  BY <1>1 DEF Type
<1> QED BY <1>1, <1>2, <1>5, <1>6, <1>7, MapsToEffect

LEMMA RegisterMaps == ASSUME IInv, NEW c \in Client, register(c) PROVE Implements
<1> DEFINE m == Call(c)
<1>1. child[c] = "register" /\ child[c] \in Type
  BY DEF register, Type
<1>2. /\ m.type = "register" /\ m.name = recvMsg[c].name
      /\ m.data.of = recvMsg[c].data.of
  BY <1>1, ServedCall
<1>3. Elsewhere(c) /\ UNCHANGED <<clientVars, c2s, s2c>> /\ record' = record
  <2>1. \A d \in Client \ {c} : Same(d) /\ row'[d] = row[d]
    BY DEF IInv, TypeOK, register, Answer, Goto, clientVars, Same
  <2>2. UNCHANGED <<clientVars, c2s, s2c>> /\ record' = record
    BY DEF register
  <2> QED BY <2>1, <2>2, ElsewhereOK
<1> HIDE DEF m
<1>4. CASE /\ recvMsg[c].name \notin DOMAIN user /\ Answer(c, RegisterOk)
           /\ user' = [n \in DOMAIN user \cup {recvMsg[c].name} |->
                          IF n = recvMsg[c].name THEN recvMsg[c].data.of ELSE user[n]]
  <2>1. Service!Effect(m, <<RegisterOk>>)
    BY <1>2, <1>3, <1>4, SameTexts DEF Service!Effect
  <2>2. <<RegisterOk>> \in Service!PossibleTexts(m)
    BY SameTexts DEF Service!PossibleTexts
  <2> QED BY <1>1, <1>3, <1>4, <2>1, <2>2, AnswerMaps, TextFacts DEF m
<1>5. CASE Answer(c, Exists) /\ UNCHANGED user
  <2>1. <<Exists>> \in Service!Told(m)
    BY <1>2, SameTexts DEF Service!Told
  <2>2. Service!Effect(m, <<Exists>>) /\ <<Exists>> \in Service!PossibleTexts(m)
    BY <1>3, <1>5, <2>1 DEF Service!Effect, Service!PossibleTexts
  <2> QED BY <1>1, <1>3, <1>5, <2>2, AnswerMaps, TextFacts DEF m
<1> QED BY <1>4, <1>5 DEF register

\* The tables stay as they are.
LEMMA ToldMaps ==
    ASSUME IInv, NEW c \in Client, NEW text \in Data, Answer(c, text),
           child[c] \in Type, <<text>> \in Service!Told(Call(c)),
           UNCHANGED <<clientVars, c2s, s2c, database>>,
           \A d \in Client \ {c} : Same(d) /\ row'[d] = row[d]
    PROVE  Implements
<1>1. user' = user /\ record' = record
  BY DEF database
<1>2. Elsewhere(c)
  BY <1>1, ElsewhereOK
<1>3. /\ Service!Effect(Call(c), <<text>>)
      /\ <<text>> \in Service!PossibleTexts(Call(c))
  BY <1>1 DEF Service!Effect, Service!PossibleTexts
<1> QED BY <1>2, <1>3, AnswerMaps

LEMMA LoginMaps == ASSUME IInv, NEW c \in Client, login(c) PROVE Implements
<1> DEFINE m == Call(c)
<1>1. child[c] = "login" /\ child[c] \in Type
  BY DEF login, Type
<1>2. m.type = "login" /\ m.name = recvMsg[c].name /\ m.data.of = recvMsg[c].data.of
  BY <1>1, ServedCall
<1>3. /\ UNCHANGED <<clientVars, c2s, s2c, database>>
      /\ \A d \in Client \ {c} : Same(d) /\ row'[d] = row[d]
  BY DEF IInv, TypeOK, login, Answer, Goto, clientVars, Same
<1> HIDE DEF m
<1>4. CASE Registered(recvMsg[c].name, recvMsg[c].data.of) /\ Answer(c, LoginOk)
  <2>1. <<LoginOk>> \in Service!Told(m)
    BY <1>2, <1>4, SameTexts DEF Service!Told, Registered
  <2> QED BY <1>1, <1>3, <1>4, <2>1, ToldMaps, TextFacts DEF m
<1>5. CASE Answer(c, Wrong)
  <2>1. <<Wrong>> \in Service!Told(m)
    BY <1>2, SameTexts DEF Service!Told
  <2> QED BY <1>1, <1>3, <1>5, <2>1, ToldMaps, TextFacts DEF m
<1> QED BY <1>4, <1>5 DEF login

LEMMA SearchMaps == ASSUME IInv, NEW c \in Client, search(c) PROVE Implements
<1> DEFINE m == Call(c)
<1>1. child[c] = "query" /\ child[c] \in Type
  BY DEF search, Type
<1>2. /\ m.type = "query" /\ m.data.of = recvMsg[c].data.of /\ m = Asked(recvMsg[c])
      /\ recvMsg[c].type = "query" /\ recvMsg[c] \in Msg
      /\ c2s[c] = <<>> /\ s2c[c] = <<>> /\ shown[c] = <<>>
  BY <1>1, ServedCall DEF IInv, TypeOK
<1>3. /\ UNCHANGED <<clientVars, c2s, s2c, database>>
      /\ \A d \in Client \ {c} : Same(d) /\ row'[d] = row[d]
  BY DEF IInv, TypeOK, search, Answer, Goto, clientVars, Same
<1>4. CASE recvMsg[c].data.of \notin DictWord /\ Answer(c, NotFound)
  <2> HIDE DEF m
  <2>1. <<NotFound>> \in Service!Told(m)
    BY <1>2, <1>4, SameTexts DEF Service!Told
  <2> QED BY <1>1, <1>3, <1>4, <2>1, ToldMaps, TextFacts DEF m
<1>5. CASE Answer(c, NoFile)
  <2> HIDE DEF m
  <2>1. <<NoFile>> \in Service!Told(m)
    BY <1>2, SameTexts DEF Service!Told
  <2> QED BY <1>1, <1>3, <1>5, <2>1, ToldMaps, TextFacts DEF m
<1>6. CASE /\ recvMsg' = [recvMsg EXCEPT ![c].data = Text("meaning", recvMsg[c].data.of)]
           /\ recvMsg[c].data.of \in DictWord /\ Goto(c, "insert")
  <2>1. /\ child'[c] = "insert" /\ pc' = pc /\ msg' = msg /\ shown' = shown
        /\ c2s' = c2s /\ s2c' = s2c /\ user' = user /\ record' = record
    BY <1>3, <1>6 DEF IInv, TypeOK, Goto, clientVars, database
  <2>2. /\ recvMsg'[c].type = "query" /\ recvMsg'[c].name = recvMsg[c].name
        /\ recvMsg'[c].data.of = recvMsg[c].data.of
    BY <1>2, <1>6 DEF IInv, TypeOK, Msg, Text
  <2>3. recvMsg'[c] \in Msg
    BY SearchKeeps DEF IInv, TypeOK
  <2>4. Call(c)' = Asked(recvMsg'[c])
    BY <1>2, <2>1, <2>2, <2>3, CallInserted
  <2>5. Asked(recvMsg'[c]) = Asked(recvMsg[c])
    BY <1>2, <2>2 DEF Asked
  <2>6. CallAnswer(c) = NoAnswer /\ CallAnswer(c)' = NoAnswer
    BY <1>1, <1>2, <2>1, NoTexts
  <2>7. SessionName(c)' = SessionName(c)
    BY <2>1, <2>2, SessionStays
  <2>8. Elsewhere(c)
    BY <1>3, <2>1, ElsewhereOK
  <2> QED BY <1>1, <1>2, <2>1, <2>4, <2>5, <2>6, <2>7, <2>8, MapsToNothing
<1> QED BY <1>4, <1>5, <1>6 DEF search

LEMMA InsertMaps == ASSUME IInv, NEW c \in Client, insert(c) PROVE Implements
<1> DEFINE w == recvMsg[c].data.of
           m == Call(c)
<1>1. /\ child[c] = "insert" /\ recvMsg[c].type = "query" /\ recvMsg[c].name \in Name
      /\ recvMsg[c].data.kind = "meaning" /\ w \in DictWord
      /\ pc[c] \in {"query", "quit"} /\ s2c[c] = <<>> /\ recvMsg[c] \in Msg
      /\ recvMsg[c].data \in Data
  <2>1. recvMsg[c] \in Msg
    BY DEF IInv, TypeOK
  <2>2. recvMsg[c].data \in Data
    BY <2>1 DEF Msg
  <2> QED BY <2>1, <2>2 DEF IInv, Link, ServeOK, insert, Busy
<1>2. shown[c] = <<>> /\ c2s[c] = <<>>
  BY <1>1 DEF IInv, Link, ClientOK, RequestOK
<1>3. recvMsg[c].data = Text("meaning", w)
  BY <1>1, TextFacts DEF Data, Text
<1>4. /\ m.type = "query" /\ m.name = recvMsg[c].name /\ m.data.of = w
  <2>1. m = Asked(recvMsg[c])
    BY <1>1, <1>2, CallInserted
  <2> QED BY <1>1, <2>1 DEF Asked, Message, Text
<1>5. m # NoMsg
  BY <1>4 DEF NoMsg, Message, Type
<1>6. /\ pc' = pc /\ msg' = msg /\ shown' = shown /\ c2s' = c2s /\ s2c' = s2c
      /\ recvMsg' = recvMsg /\ row' = row /\ user' = user
  BY DEF insert, clientVars
<1>7. \A d \in Client \ {c} : Same(d)
  BY DEF IInv, TypeOK, insert, Goto, clientVars, Same
<1>8. SessionName(c)' = SessionName(c)
  BY <1>6, SessionStays
<1>9. CASE /\ CanRun(c) /\ Goto(c, "answer")
           /\ record' = [record EXCEPT ![recvMsg[c].name] = Append(@, w)]
  <2>1. \A d \in Client \ {c} : child[d] # "rows"
    BY <1>1, <1>9 DEF CanRun, Writing
  <2>2. Elsewhere(c)
    BY <1>7, <2>1, ElsewhereOK
  <2>3. child'[c] = "answer"
    BY <1>9 DEF IInv, TypeOK, Goto
  <2>4. Call(c)' = NoMsg
    BY <1>2, <1>6, <2>3, CallNone DEF Type
  <2>5. Texts(c)' = <<Text("meaning", w)>>
    <3>1. Coming(c)' = <<recvMsg[c].data>>
      BY <1>6, <2>3 DEF Coming
    <3>2. <<recvMsg[c].data>> \in Seq(Data)
      BY <1>1
    <3> QED BY <1>1, <1>2, <1>3, <1>6, <3>1, <3>2, NoTexts
  <2>6. CallAnswer(c)' = IF pc[c] = "quit" THEN CallAnswer(c)
                         ELSE [name |-> m.name, texts |-> <<Text("meaning", w)>>]
    <3>1. CASE pc[c] = "quit"
      BY <1>6, <3>1, AnswerNone DEF Type
    <3>2. CASE pc[c] = "query"
      <4>1. <<Text("meaning", w)>> # <<>> /\ "query" \in Type /\ "query" # "quit"
        BY DEF Type
      <4> QED BY <1>4, <1>6, <2>5, <3>2, <4>1 DEF CallAnswer, Waiting
    <3> QED BY <1>1, <3>1, <3>2
  <2> HIDE DEF m
  <2>7. Service!Effect(m, <<Text("meaning", w)>>)
    BY <1>1, <1>4, <1>6, <1>9, SameTexts DEF Service!Effect
  <2>8. <<Text("meaning", w)>> \in Service!PossibleTexts(m)
    BY <1>4, SameTexts DEF Service!PossibleTexts
  <2> QED BY <1>1, <1>5, <1>6, <1>8, <2>2, <2>3, <2>4, <2>6, <2>7, <2>8, MapsToEffect DEF m
<1>10. CASE Goto(c, "idle") /\ UNCHANGED record
  <2>1. child'[c] = "idle" /\ record' = record
    BY <1>10 DEF IInv, TypeOK, Goto
  <2>2. Elsewhere(c)
    BY <1>6, <1>7, <2>1, ElsewhereOK
  <2>3. Call(c)' = NoMsg
    BY <1>2, <1>6, <2>1, CallNone DEF Type
  <2>4. CallAnswer(c) = NoAnswer /\ CallAnswer(c)' = NoAnswer
    BY <1>1, <1>2, <1>6, <2>1, NoTexts
  <2> QED BY <1>1, <1>4, <1>6, <1>8, <2>1, <2>2, <2>3, <2>4, MapsToGiveUp
<1> QED BY <1>9, <1>10 DEF insert

\* The rows of a history are fixed when its statement begins.
LEMMA HistoryMaps == ASSUME IInv, NEW c \in Client, history(c) PROVE Implements
<1> DEFINE m == Call(c)
<1>1. child[c] = "history" /\ child[c] \in Type
  BY DEF history, Type
<1>2. /\ m.type = "history" /\ m.name = recvMsg[c].name /\ recvMsg[c].name \in Name
      /\ c2s[c] = <<>> /\ s2c[c] = <<>> /\ shown[c] = <<>> /\ m # NoMsg
      /\ pc[c] \in {"history", "quit"}
  BY <1>1, ServedCall
<1>3. /\ UNCHANGED <<clientVars, c2s, s2c, database>>
      /\ \A d \in Client \ {c} : Same(d) /\ row'[d] = row[d]
  BY DEF IInv, TypeOK, history, Answer, Goto, clientVars, Same
<1>4. CASE Answer(c, EndOfRows)
  <2> HIDE DEF m
  <2>1. <<EndOfRows>> \in Service!Told(m)
    BY <1>2, SameTexts DEF Service!Told
  <2> QED BY <1>1, <1>3, <1>4, <2>1, ToldMaps, TextFacts DEF m
<1>5. CASE Goto(c, "rows") /\ UNCHANGED recvMsg
  <2>1. /\ child'[c] = "rows" /\ recvMsg' = recvMsg /\ row'[c] = 0
        /\ pc' = pc /\ msg' = msg /\ shown' = shown
        /\ c2s' = c2s /\ s2c' = s2c /\ user' = user /\ record' = record
    BY <1>3, <1>5 DEF IInv, TypeOK, history, Goto, clientVars, database
  <2> DEFINE h == RowsFrom(record[recvMsg[c].name], 0)
  <2>0. record[recvMsg[c].name] \in Seq(DictWord)
    BY <1>2 DEF IInv, TypeOK
  <2>2. RowsLeft(c)' = h
    BY <2>1 DEF RowsLeft, RowsFrom
  <2>a. h = Service!History(recvMsg[c].name)
    <3> DEFINE words == record[recvMsg[c].name]
    <3>1. Len(words) \in Nat
      BY <2>0
    <3>2. Service!History(recvMsg[c].name) = [i \in 1 .. Len(words) |-> Text("row", words[i])]
      BY SameTexts DEF Service!History
    <3> HIDE DEF words
    <3>3. Len(words) - 0 = Len(words) /\ \A i \in 1 .. Len(words) : 0 + i = i
      BY <3>1
    <3>4. RowsFrom(words, 0) = [i \in 1 .. Len(words) |-> Text("row", words[i])]
      BY <3>3 DEF RowsFrom
    <3> QED BY <3>2, <3>4 DEF words
  <2>b. h \in Seq([kind : {"row"}, of : Word])
    BY <2>0, RowsFromFacts
  <2> HIDE DEF h
  <2>3. Coming(c)' = h \o <<EndOfRows>>
    BY <2>1, <2>2 DEF Coming
  <2>4. h \in Seq(Data) /\ h \o <<EndOfRows>> \in Seq(Data) /\ h \o <<EndOfRows>> # <<>>
    <3>3. [kind : {"row"}, of : Word] \subseteq Data
      BY DEF Data
    <3>4. h \in Seq(Data)
      BY <2>b, <3>3, SeqMonotonic
    <3>5. ASSUME NEW e \in Data PROVE h \o <<e>> \in Seq(Data) /\ h \o <<e>> # <<>>
      <4>1. <<e>> \in Seq(Data) /\ <<e>> # <<>>
        OBVIOUS
      <4> QED BY <3>4, <4>1, ConcatProperties, ConcatEqualIffEmpty
    <3>6. EndOfRows \in Data
      BY TextFacts
    <3> QED BY <3>4, <3>5, <3>6
  <2>5. Texts(c)' = h \o <<EndOfRows>>
    BY <1>2, <2>1, <2>3, <2>4, NoTexts
  <2>6. Call(c)' = NoMsg /\ SessionName(c)' = SessionName(c)
    BY <1>2, <2>1, CallNone, SessionStays DEF Type
  <2>7. CallAnswer(c)' = IF pc[c] = "quit" THEN CallAnswer(c)
                         ELSE [name |-> m.name, texts |-> h \o <<EndOfRows>>]
    <3>1. CASE pc[c] = "quit"
      BY <2>1, <3>1, AnswerNone DEF Type
    <3>2. CASE pc[c] = "history"
      <4>1. "history" \in Type /\ "history" # "quit"
        BY DEF Type
      <4> QED BY <1>2, <2>1, <2>4, <2>5, <3>2, <4>1 DEF CallAnswer, Waiting
    <3> QED BY <1>2, <3>1, <3>2
  <2> HIDE DEF m
  <2>8. h \o <<EndOfRows>> \in Service!Told(m)
    BY <1>2, <2>a, SameTexts DEF Service!Told
  <2>9. /\ Service!Effect(m, h \o <<EndOfRows>>)
        /\ h \o <<EndOfRows>> \in Service!PossibleTexts(m)
    BY <2>1, <2>8 DEF Service!Effect, Service!PossibleTexts
  <2>10. Elsewhere(c)
    BY <1>3, <2>1, ElsewhereOK
  <2>11. pc'[c] = pc[c] /\ child[c] # "dead" /\ child'[c] # "dead"
    BY <1>1, <2>1
  <2>12. Call(c) # NoMsg
    BY <1>2 DEF m
  <2> QED BY <2>6, <2>7, <2>9, <2>10, <2>11, <2>12, MapsToEffect DEF m
<1> QED BY <1>4, <1>5 DEF history

\* A text goes from the child to the connection.
LEMMA TextMoves ==
    ASSUME NEW s \in Seq(Data), NEW d \in Seq(Data), NEW t \in Seq(Data), NEW x \in Data
    PROVE  (s \o (d \o <<x>>)) \o t = (s \o d) \o (<<x>> \o t)
<1> DEFINE u == <<x>>
<1>1. u \in Seq(Data)
  OBVIOUS
<1> HIDE DEF u
<1>2. s \o (d \o u) = (s \o d) \o u /\ s \o d \in Seq(Data)
  BY <1>1, Associative, ConcatProperties
<1>3. ((s \o d) \o u) \o t = (s \o d) \o (u \o t)
  BY <1>1, <1>2, Associative
<1> QED BY <1>2, <1>3 DEF u

\* A message of the answer goes to a client that is there, or nowhere.
LEMMA ReplyMaps ==
    ASSUME IInv, NEW c \in Client, NEW m \in Msg, NEW next, Reply(c, m, next),
           child[c] \in {"rows", "answer"}, next \in {"rows", "idle"},
           UNCHANGED <<clientVars, recvMsg, c2s, listening, database>>,
           \A d \in Client \ {c} : row'[d] = row[d],
           pc[c] # "quit" =>
               /\ Coming(c)' \in Seq(Data)
               /\ Coming(c) = <<m.data>> \o Coming(c)'
    PROVE  Implements
<1>1. /\ pc' = pc /\ msg' = msg /\ shown' = shown /\ c2s' = c2s /\ recvMsg' = recvMsg
      /\ user' = user /\ record' = record /\ c2s[c] = <<>>
      /\ pc[c] \in Type \cup {"quit"}
  BY DEF IInv, Link, RequestOK, ServeOK, Busy, Type, clientVars, database
<1>2. child'[c] \in {next, "dead"} /\ (pc[c] # "quit" => child'[c] = next)
  BY DEF IInv, TypeOK, Reply, Goto
<1>3. ServerStep(c)
  BY <1>1 DEF IInv, TypeOK, Reply, Goto, ServerStep, clientVars, database, Same
<1>4. SessionName(c)' = SessionName(c)
  BY <1>1, SessionStays
<1>5. Call(c) = NoMsg /\ (child'[c] # "dead" => Call(c)' = NoMsg)
  BY <1>1, <1>2, CallNone DEF Type
<1>6. CASE child'[c] = "dead"
  <2>1. pc[c] = "quit"
    BY <1>2, <1>6
  <2>2. s2c' = s2c
    BY <2>1 DEF Reply
  <2> QED BY <1>1, <1>3, <1>6, <2>2, BreakMaps
<1>7. CASE child'[c] # "dead" /\ pc[c] = "quit"
  <2>1. CallAnswer(c) = NoAnswer /\ CallAnswer(c)' = NoAnswer
    BY <1>1, <1>7, AnswerNone DEF Type
  <2> QED BY <1>1, <1>3, <1>4, <1>5, <1>7, <2>1, ServerElsewhere, MapsToNothing
<1>8. CASE child'[c] # "dead" /\ pc[c] # "quit"
  <2> DEFINE s == shown[c]
             d == DataOf(s2c[c])
             t == Coming(c)'
             x == m.data
  <2>1. s \in Seq(Data) /\ d \in Seq(Data) /\ t \in Seq(Data)
    BY <1>8, HereFacts
  <2>2. x \in Data
    BY DEF Msg
  <2>3. s2c[c] \in Seq(Msg) /\ s2c'[c] = Append(s2c[c], m)
    BY <1>8 DEF IInv, TypeOK, Reply
  <2>4. DataOf(s2c'[c]) = d \o <<x>>
    BY <2>3, DataOfFacts
  <2>5. Texts(c)' = (s \o (d \o <<x>>)) \o t
    BY <1>1, <2>4, TextsAre
  <2>6. Texts(c) = (s \o d) \o (<<x>> \o t)
    BY <1>8, TextsAre
  <2> HIDE DEF s, d, t, x
  <2>a. (s \o (d \o <<x>>)) \o t = (s \o d) \o (<<x>> \o t)
    BY SMTT(20), <2>1, <2>2, TextMoves
  <2>7. Texts(c)' = Texts(c)
    BY <2>5, <2>6, <2>a
  <2>8. CallAnswer(c)' = CallAnswer(c)
    BY <1>1, <2>7 DEF CallAnswer, Waiting
  <2> QED BY <1>1, <1>3, <1>4, <1>5, <1>8, <2>8, ServerElsewhere, MapsToNothing
<1> QED BY <1>6, <1>7, <1>8

LEMMA SendRowMaps == ASSUME IInv, NEW c \in Client, sendRow(c) PROVE Implements
<1> DEFINE r == RowsLeft(c)
           m == Message(Nothing, Nothing, Head(r))
           words == record[recvMsg[c].name]
           R == [kind : {"row"}, of : Word]
<1>1. recvMsg[c].name \in Name /\ child[c] = "rows" /\ r # <<>>
  BY DEF IInv, Link, ServeOK, sendRow, Busy
<1>2. /\ row[c] \in Nat /\ words \in Seq(DictWord)
      /\ r = RowsFrom(words, row[c]) /\ r \in Seq(R)
  BY <1>1, RowsLeftFacts DEF IInv
<1>3. R \subseteq Data
  BY DEF Data
<1>4. Head(r) \in R /\ Head(r) = r[1] /\ Tail(r) \in Seq(R) /\ r = <<r[1]>> \o Tail(r)
  <2> HIDE DEF r, R
  <2>1. Head(r) \in R /\ Head(r) = r[1]
    BY <1>1, <1>2, HeadTailProperties
  <2> QED BY <1>1, <1>2, <2>1, TailFacts
<1>5. m \in Msg /\ m.data = Head(r)
  <2>1. Head(r) \in Data
    BY <1>3, <1>4
  <2> QED BY <2>1 DEF Msg, Message
<1>6. /\ UNCHANGED <<clientVars, recvMsg, c2s, listening, database>>
      /\ row'[c] = row[c] + 1 /\ record' = record /\ recvMsg' = recvMsg
      /\ \A d \in Client \ {c} : row'[d] = row[d]
  BY DEF IInv, TypeOK, sendRow, database
<1>7. RowsLeft(c)' = Tail(r)
  <2>1. RowsLeft(c)' = RowsFrom(words, row[c] + 1)
    BY <1>6 DEF RowsLeft, RowsFrom
  <2> HIDE DEF r, words
  <2>2. RowsFrom(words, row[c]) # <<>>
    BY <1>1, <1>2
  <2> QED BY <1>2, <2>1, <2>2, NextRow
<1>8. ASSUME pc[c] # "quit"
      PROVE  Coming(c)' \in Seq(Data) /\ Coming(c) = <<m.data>> \o Coming(c)'
  <2>1. child'[c] = "rows"
    BY <1>8 DEF IInv, TypeOK, sendRow, Reply, Goto
  <2> DEFINE h == Head(r)
             t == Tail(r)
             e == <<EndOfRows>>
             u == <<h>>
  <2>2. Coming(c) = r \o e /\ Coming(c)' = t \o e
    BY <1>1, <1>7, <2>1 DEF Coming
  <2>3. r = u \o t /\ t \in Seq(R) /\ h \in Data
    BY <1>3, <1>4
  <2>a. EndOfRows \in Data
    BY TextFacts
  <2>b. m.data = h
    BY <1>5
  <2> HIDE DEF r, h, t, m
  <2>4. u \in Seq(Data)
    BY <2>3
  <2>5. e \in Seq(Data)
    <3> HIDE DEF EndOfRows
    <3> QED BY <2>a
  <2>6. t \in Seq(Data)
    BY <1>3, <2>3, SeqMonotonic
  <2> HIDE DEF u, e
  <2>7. (u \o t) \o e = u \o (t \o e) /\ t \o e \in Seq(Data)
    BY <2>4, <2>5, <2>6, Associative, ConcatProperties
  <2> QED BY <2>2, <2>3, <2>7, <2>b DEF u
<1>9. Reply(c, m, "rows")
  BY DEF sendRow
<1> HIDE DEF m
<1> QED BY <1>1, <1>5, <1>6, <1>8, <1>9, ReplyMaps

LEMMA SendAnswerMaps == ASSUME IInv, NEW c \in Client, sendAnswer(c) PROVE Implements
<1>1. /\ UNCHANGED <<clientVars, recvMsg, c2s, listening, database>>
      /\ \A d \in Client \ {c} : row'[d] = row[d]
      /\ child[c] = "answer" /\ Reply(c, recvMsg[c], "idle") /\ recvMsg[c] \in Msg
  BY DEF IInv, TypeOK, sendAnswer
<1>2. ASSUME pc[c] # "quit"
      PROVE  Coming(c)' \in Seq(Data) /\ Coming(c) = <<recvMsg[c].data>> \o Coming(c)'
  <2>1. child'[c] = "idle"
    BY <1>1, <1>2 DEF IInv, TypeOK, Reply, Goto
  <2>2. Coming(c) = <<recvMsg[c].data>> /\ Coming(c)' = <<>>
    BY <1>1, <2>1 DEF Coming
  <2> DEFINE x == recvMsg[c].data
  <2>3. x \in Data
    BY <1>1 DEF Msg
  <2> HIDE DEF x
  <2>4. <<x>> \in Seq(Data) /\ <<>> \in Seq(Data)
    BY <2>3
  <2>5. <<x>> \o <<>> = <<x>>
    BY <2>4, ConcatEmptySeq
  <2> QED BY <2>2, <2>4, <2>5 DEF x
<1> QED BY <1>1, <1>2, ReplyMaps

LEMMA EndRowsMaps == ASSUME IInv, NEW c \in Client, endRows(c) PROVE Implements
<1>1. ServerStep(c)
  BY DEF IInv, TypeOK, endRows, Answer, Goto, ServerStep, clientVars, database, Same
<1>2. /\ child[c] = "rows" /\ RowsLeft(c) = <<>> /\ child'[c] = "answer"
      /\ recvMsg'[c].data = EndOfRows /\ recvMsg'[c].name = recvMsg[c].name
      /\ pc' = pc /\ msg' = msg /\ shown' = shown /\ c2s' = c2s /\ s2c' = s2c
      /\ user' = user /\ record' = record
  BY DEF IInv, TypeOK, endRows, Answer, Goto, clientVars, database, Msg
<1>3. c2s[c] = <<>>
  BY <1>2 DEF IInv, Link, RequestOK
<1>4. Call(c) = NoMsg /\ Call(c)' = NoMsg /\ SessionName(c)' = SessionName(c)
  BY <1>2, <1>3, CallNone, SessionStays DEF Type
<1>5. Coming(c) = <<EndOfRows>> /\ Coming(c)' = <<EndOfRows>>
  <2>1. EndOfRows \in Data
    BY TextFacts
  <2>2. Coming(c) = <<>> \o <<EndOfRows>> /\ Coming(c)' = <<EndOfRows>>
    BY <1>2 DEF Coming
  <2> HIDE DEF EndOfRows
  <2>3. <<EndOfRows>> \in Seq(Data)
    BY <2>1
  <2> QED BY <2>2, <2>3, ConcatEmptySeq
<1>6. CallAnswer(c)' = CallAnswer(c)
  <2>1. Texts(c)' = Texts(c)
    BY <1>2, <1>5, TextsAre
  <2> QED BY <1>2, <2>1 DEF CallAnswer, Waiting
<1> QED BY <1>1, <1>2, <1>4, <1>6, ServerElsewhere, MapsToNothing

LEMMA NobodyMaps == ASSUME IInv, stopListening \/ UNCHANGED vars PROVE Implements
<1>1. /\ pc' = pc /\ msg' = msg /\ shown' = shown /\ child' = child /\ recvMsg' = recvMsg
      /\ row' = row /\ c2s' = c2s /\ s2c' = s2c /\ user' = user /\ record' = record
  BY DEF stopListening, vars, clientVars, childVars, database
<1>2. \A d \in Client : Same(d)
  BY <1>1 DEF Same
<1>3. ASSUME NEW c \in Client
      PROVE  Call(c)' = Call(c) /\ CallAnswer(c)' = CallAnswer(c)
             /\ SessionName(c)' = SessionName(c)
  <2>1. Call(c)' = Call(c) /\ SessionName(c)' = SessionName(c)
    BY <1>1 DEF Call, SessionName
  <2>2. Texts(c)' = Texts(c)
    BY <1>1 DEF Texts, RowsLeft
  <2> QED BY <1>1, <2>1, <2>2 DEF CallAnswer, Waiting
<1> QED BY <1>1, <1>3 DEF Implements, Service!vars

LEMMA StepMaps == IInv /\ [Next]_vars => Implements
<1> SUFFICES ASSUME IInv, [Next]_vars PROVE Implements
  OBVIOUS
<1>1. ASSUME NEW c \in Client, Menu(c) PROVE Implements
  BY <1>1, ConnectMaps, AskCases, AskMaps, QueryMenuMaps, LeaveMaps DEF Menu
<1>2. ASSUME NEW c \in Client, Recv(c) PROVE Implements
  BY <1>2, ReceiveCases, RowComesMaps, AnswerComesMaps, ReceiveEndMaps DEF Recv
<1>3. ASSUME NEW c \in Client, Accept(c) PROVE Implements
  BY <1>3, AcceptMaps, DeathMaps DEF Accept
<1>4. ASSUME NEW c \in Client, Serve(c) PROVE Implements
  BY <1>4, RecvRequestMaps, DeathMaps, RegisterMaps, LoginMaps, SearchMaps,
     InsertMaps, HistoryMaps, SendRowMaps, EndRowsMaps, SendAnswerMaps DEF Serve
<1>5. ASSUME NEW c \in Client, kill(c) PROVE Implements
  BY <1>5, DeathMaps
<1> QED BY <1>1, <1>2, <1>3, <1>4, <1>5, NobodyMaps DEF Next, Terminating

LEMMA InitMaps == Init => Service!Init
<1> SUFFICES ASSUME Init PROVE Service!Init
  OBVIOUS
<1>1. ASSUME NEW c \in Client
      PROVE  Call(c) = NoMsg /\ CallAnswer(c) = NoAnswer /\ SessionName(c) = Nothing
             /\ child[c] # "dead" /\ pc[c] # "quit"
  <2>1. pc[c] = "start" /\ child[c] = "none" /\ c2s[c] = <<>>
    BY DEF Init
  <2> QED BY <2>1, CallNone, AnswerNone, Sessions DEF Type, Session
<1>2. \A n \in Name \ DOMAIN user : record[n] = <<>>
  <2>1. CASE record = NoRecords
    BY <2>1 DEF NoRecords
  <2>2. ASSUME NEW n \in Name, NEW p \in Passwd, user = [m \in {n} |-> p],
               NEW w \in DictWord, record = [NoRecords EXCEPT ![n] = <<w>>]
        PROVE  \A k \in Name \ DOMAIN user : record[k] = <<>>
    <3>1. DOMAIN user = {n}
      BY <2>2
    <3> QED BY <2>2, <3>1 DEF NoRecords
  <2> QED BY <2>1, <2>2 DEF Init, OldDatabase
<1>3. NoMsg = Service!NoCall /\ NoAnswer = Service!NoAnswer
  BY DEF NoMsg, Message, EndOfRows, Text, Service!NoCall, Service!Plain, Service!Text,
         NoAnswer, Service!NoAnswer
<1> QED BY <1>1, <1>2, <1>3 DEF Service!Init

-----------------------------------------------------------------------------

\* Every request has its effect on the tables at one instant and is answered
\* as DictService says, for any number of clients, names and words, although
\* search, insert, rows and answer are steps of their own between those of
\* other children, and clients and children end anywhere.
THEOREM ImplementsTheService == Spec => ImplementsService
<1>1. Init => Service!Init
  BY InitMaps
<1>2. IInv /\ [Next]_vars => [Service!Next]_(Service!vars)
  BY StepMaps DEF Implements
<1> QED BY <1>1, <1>2, InductiveInvariant, PTL DEF Spec, ImplementsService, Service!Spec
=============================================================================
