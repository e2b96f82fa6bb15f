------------------------------- MODULE MStdio -------------------------------
(***************************************************************************)
(* A stream of 01_io/src/mstdio.c, from mfopen to mfclose: a buffer        *)
(* between the calls, which take and give single bytes, and the file.      *)
(*                                                                         *)
(* read may return less than was asked for, write may write less or fail.  *)
(* The functions that go round a loop of mfgetc or mfputc take one step    *)
(* for each round, and one for the flush after a newline.  char is signed: *)
(* the byte 0xFF is the same as MEOF.  mungetc is empty.                   *)
(***************************************************************************)
EXTENDS Integers, Sequences

CONSTANTS
    Byte, NL, FF,    \* bytes, among them '\n' and 0xFF
    Unset,           \* what is in the buffer at first
    BUFFER_LEN,
    Content,         \* what may be in the file before
    Text,            \* what is put with mfputs and mfwrite, not empty
    MaxSize,         \* bound on the size given to mfgets and mfread
    MaxPut, MaxFile  \* bounds on the bytes put, and on the file

ASSUME BytesAssumption ==
    NL \in Byte /\ FF \in Byte /\ Unset \notin Byte /\ NL # FF
ASSUME LenAssumption == BUFFER_LEN \in Nat \ {0}
ASSUME ContentAssumption ==
    Content \subseteq Seq(Byte) /\ Text \subseteq Seq(Byte) \ {<<>>}

VARIABLES
    mode, buffer, nextc, left, \* of the MFILE
    open,       \* until mfclose
    file, pos,  \* the bytes of the file, and the offset of read
    call,       \* the call of mfgets, ... that is under way
    bytes,      \* history: what the caller has put into or got from the stream
    start,      \* history: the length of the file when it was opened
    ended,      \* history: is the end told, or the stream closed?
    broken      \* history: has a write fallen short without the caller's
                \* knowing, has 0xFF been read, or read-ahead been dropped?

stream == <<mode, buffer, nextc, left, open>>
history == <<bytes, start, ended, broken>>
vars == <<stream, file, pos, call, history>>

\* No call under way; text is what is left to put, want to get.
Idle == [op |-> "none", text |-> <<>>, want |-> 0, flush |-> FALSE]

\* mfopen and mfdopen: "w" truncates the file, "a" appends to it.
Init ==
    /\ mode \in {"READ", "WRITE", "APPEND"}
    /\ buffer = [k \in 1..BUFFER_LEN |-> Unset]
    /\ nextc = 0
    /\ left = IF mode = "READ" THEN 0 ELSE BUFFER_LEN
    /\ open = TRUE
    /\ \E old \in Content : file = IF mode = "WRITE" THEN <<>> ELSE old
    /\ pos = 0
    /\ call = Idle
    /\ bytes = <<>> /\ start = Len(file)
    /\ ended = FALSE /\ broken = FALSE

Writing == open /\ mode # "READ"
Reading == open /\ mode = "READ"

\* write(fd, buffer, count) writes n bytes.
Written(n) == file \o SubSeq(buffer, 1, n)

-----------------------------------------------------------------------------
(* mfputc *)

\* Mutant: a byte is stored where the last one was.
StoreInPlace(c, next, room) ==
    /\ buffer' = [buffer EXCEPT ![next + 1] = c]
    /\ nextc' = next
    /\ left' = room - 1

Store(c, next, room) ==
    /\ buffer' = [buffer EXCEPT ![next + 1] = c]
    /\ nextc' = next + 1
    /\ left' = room - 1

\* There is room, or the full buffer can be written.
putWhole(c) ==
    /\ \/ left > 0 /\ Store(c, nextc, left) /\ file' = file
       \/ left = 0 /\ Store(c, 0, BUFFER_LEN) /\ file' = Written(BUFFER_LEN)
    /\ bytes' = Append(bytes, c)
    /\ UNCHANGED <<mode, open, pos, start, ended, broken>>

\* It cannot: the byte is refused and the buffer stays full, although a part
\* may have been written.
putFails(told) ==
    /\ left = 0
    /\ \E n \in 0..(BUFFER_LEN - 1) :
           /\ file' = Written(n)
           /\ broken' = (broken \/ n > 0 \/ ~told)
    /\ UNCHANGED <<stream, pos, bytes, start, ended>>

mfputc(c) ==
    /\ Writing /\ call = Idle /\ Len(bytes) < MaxPut /\ Len(file) < MaxFile
    /\ putWhole(c) \/ putFails(TRUE)
    /\ UNCHANGED call

-----------------------------------------------------------------------------
(* mfflush and mfclose *)

flushWrite ==
    /\ \E n \in 0..(BUFFER_LEN - left) :
           /\ file' = Written(n)
           /\ broken' = (broken \/ n < BUFFER_LEN - left)
    /\ nextc' = 0
    /\ left' = BUFFER_LEN

flushRead ==
    /\ broken' = (broken \/ left > 0)
    /\ nextc' = 0
    /\ left' = 0
    /\ file' = file

flush == IF mode = "READ" THEN flushRead ELSE flushWrite

mfflush ==
    /\ open /\ call = Idle
    /\ flush
    /\ UNCHANGED <<mode, buffer, open, pos, call, bytes, start, ended>>

\* Mutant: the stream is closed without a flush.
mfcloseOnly ==
    /\ open /\ call = Idle
    /\ open' = FALSE
    /\ ended' = (ended \/ mode # "READ")
    /\ UNCHANGED <<mode, buffer, nextc, left, file, pos, call, bytes, start, broken>>

mfclose ==
    /\ open /\ call = Idle
    /\ flush
    /\ open' = FALSE
    /\ ended' = (ended \/ mode # "READ")
    /\ UNCHANGED <<mode, buffer, pos, call, bytes, start>>

-----------------------------------------------------------------------------
(* mfputs and mfwrite.  They do not look at the result of mfputc.          *)

putText(op, text) ==
    /\ Writing /\ call = Idle
    /\ Len(bytes) + Len(text) <= MaxPut /\ Len(file) < MaxFile
    /\ call' = [Idle EXCEPT !.op = op, !.text = text]
    /\ UNCHANGED <<stream, file, pos, history>>

\* Mutant: no flush after a newline.
putNextNoFlush ==
    /\ call.text # <<>> /\ ~call.flush
    /\ putWhole(Head(call.text)) \/ putFails(FALSE)
    /\ call' = [call EXCEPT !.text = Tail(@)]

putNext ==
    /\ call.text # <<>> /\ ~call.flush
    /\ putWhole(Head(call.text)) \/ putFails(FALSE)
    /\ call' = [call EXCEPT !.text = Tail(@), !.flush = (Head(call.text) = NL)]

putFlush ==
    /\ call.flush
    /\ flushWrite
    /\ call' = [call EXCEPT !.flush = FALSE]
    /\ UNCHANGED <<mode, buffer, open, pos, bytes, start, ended>>

putReturns ==
    /\ call.op \in {"mfputs", "mfwrite"}
    /\ call.text = <<>> /\ ~call.flush
    /\ call' = Idle
    /\ UNCHANGED <<stream, file, pos, history>>

-----------------------------------------------------------------------------
(* mfgetc *)

\* The buffer is empty; read puts n bytes there, and the first one is taken.
Fill(n) ==
    /\ left = 0
    /\ n <= BUFFER_LEN /\ pos + n <= Len(file)
    /\ buffer' = [k \in 1..BUFFER_LEN |-> IF k <= n THEN file[pos + k] ELSE buffer[k]]
    /\ pos' = pos + n
    /\ nextc' = 1
    /\ left' = n - 1

Buffered ==
    /\ left > 0
    /\ nextc' = nextc + 1
    /\ left' = left - 1
    /\ UNCHANGED <<buffer, pos>>

\* A byte is taken from the buffer.  The caller gets it, or an end that is none.
getByte ==
    /\ Buffered \/ \E n \in 1..BUFFER_LEN : Fill(n)
    /\ LET c == buffer'[nextc'] IN
       IF c = FF THEN broken' = TRUE /\ bytes' = bytes
                 ELSE broken' = broken /\ bytes' = Append(bytes, c)
    /\ UNCHANGED <<mode, open, file, start, ended>>

\* read returns 0.
getEnd ==
    /\ left = 0 /\ pos = Len(file)
    /\ ended' = TRUE
    /\ UNCHANGED <<stream, file, pos, bytes, start, broken>>

mfgetc ==
    /\ Reading /\ call = Idle
    /\ getByte \/ getEnd
    /\ UNCHANGED call

(* mfgets and mfread: as many bytes as were asked for, newlines or not;    *)
(* they return at MEOF.                                                    *)

getText(op, size) ==
    /\ Reading /\ call = Idle
    /\ call' = [Idle EXCEPT !.op = op, !.want = size]
    /\ UNCHANGED <<stream, file, pos, history>>

getNext ==
    /\ call.want > 0
    /\ \/ getByte /\ call' = IF bytes' = bytes THEN Idle ELSE [call EXCEPT !.want = @ - 1]
       \/ getEnd /\ call' = Idle

getReturns ==
    /\ call.op \in {"mfgets", "mfread"} /\ call.want = 0
    /\ call' = Idle
    /\ UNCHANGED <<stream, file, pos, history>>

-----------------------------------------------------------------------------
Next ==
    \/ \E c \in Byte : mfputc(c)
    \/ \E text \in Text : putText("mfputs", text) \/ putText("mfwrite", text)
    \/ putNext \/ putFlush \/ putReturns
    \/ mfgetc
    \/ \E size \in 1..MaxSize : getText("mfgets", size) \/ getText("mfread", size)
    \/ getNext \/ getReturns
    \/ mfflush \/ mfclose

Spec == Init /\ [][Next]_vars

-----------------------------------------------------------------------------
(* Properties. *)

StreamTypeOK ==
    /\ mode \in {"READ", "WRITE", "APPEND"}
    /\ buffer \in [1..BUFFER_LEN -> Byte \cup {Unset}]
    /\ nextc \in 0..BUFFER_LEN /\ left \in 0..BUFFER_LEN
    /\ open \in BOOLEAN /\ ended \in BOOLEAN /\ broken \in BOOLEAN
    /\ file \in Seq(Byte) /\ pos \in 0..Len(file) /\ start \in 0..Len(file)
    /\ bytes \in Seq(Byte)

CallTypeOK ==
    call \in [op : {"none", "mfputs", "mfwrite", "mfgets", "mfread"},
              text : Seq(Byte), want : Nat, flush : BOOLEAN]

TypeOK == StreamTypeOK /\ CallTypeOK

\* _nextc and _left describe the same position: what is left to write ends at
\* the end of the buffer, and what is left to read are the last bytes read from
\* the file, so that neither runs over the buffer.
PositionFits ==
    /\ TypeOK
    /\ mode # "READ" => nextc + left = BUFFER_LEN
    /\ mode = "READ" => /\ nextc + left <= BUFFER_LEN
                        /\ left > 0 => SubSeq(buffer, nextc + 1, nextc + left)
                                         = SubSeq(file, pos - left + 1, pos)

Sent == IF mode = "READ" THEN file ELSE bytes
Arrived == IF mode = "READ" THEN bytes ELSE SubSeq(file, start + 1, Len(file))

Stream == INSTANCE ByteStream WITH sent <- Sent, arrived <- Arrived

\* Whatever the sizes of the reads and of the calls, the buffer is not to be
\* seen: every byte arrives once and in order, all of them before the end; and
\* a byte that mfputc refuses because nothing could be written may be put again.
ImplementsStream == Stream!Spec

\* When mfputs or mfwrite returns, a line it has put at the end is in the file,
\* and no longer in the buffer.
LinesAreWritten ==
    [][call.op \in {"mfputs", "mfwrite"} /\ call' = Idle /\ ~broken
        => \/ bytes[Len(bytes)] # NL
           \/ Arrived = bytes]_vars

-----------------------------------------------------------------------------
(* What the comments say and the code does not do. *)

\* "When the buffer is full, write what is in it to the file": to the file goes
\* what was put, each byte once.
NothingTwice == mode # "READ" => Len(Arrived) <= Len(bytes)

\* "Read a byte from the file", or the end: a byte is no end.
EveryByteIsRead == mode = "READ" /\ left = 0 /\ pos = Len(file) => bytes = file
=============================================================================
