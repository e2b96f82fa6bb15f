------------------------------- MODULE OBuffer -------------------------------
(***************************************************************************)
(* The byte buffer of libcmpt (lib/libcmpt/src/OBuffer.c) with its array.  *)
(* Data is buf[1..len]; what lies behind it is NUL at first, but moving    *)
(* data to the front leaves old bytes there.  The rules with a head or a   *)
(* tail search with strstr, which stops at a NUL and not at len.           *)
(*                                                                         *)
(* One thread uses the buffer.  A NUL follows the array: calloc clears the *)
(* whole chunk, which is longer than the 1024 bytes asked for.  memcpy     *)
(* between overlapping areas moves towards the front and is taken to copy  *)
(* correctly, as glibc's does; with a negative length it crashes.          *)
(***************************************************************************)
EXTENDS Integers, SequencesExt

CONSTANTS
    Byte, NUL,
    HeadMark, TailMark,    \* the marks of the caller's rules
    Requests,      \* the bufferSize arguments
    DefaultSize,   \* 1024 in the code
    MaxChunk,      \* longest append
    MaxN,          \* longest frame asked for by length
    Callers        \* the kinds of caller, see below

ASSUME ByteAssumption == NUL \notin Byte
ASSUME SizeAssumption ==
    /\ Requests \subseteq Int /\ DefaultSize \in Nat \ {0}
    /\ MaxChunk \in Nat /\ MaxN \in Nat
ASSUME MarkAssumption ==
    /\ HeadMark \in Seq(Byte) \ {<<>>} /\ TailMark \in Seq(Byte) \ {<<>>}
\* "frames" uses every rule and calls bClear after every match, the way
\* OBuffer_test.c does.  "bytes" removes and takes bytes in any order, with the
\* rules that look no farther than len.  "careless" uses every rule and clears
\* only when it likes to.
ASSUME CallerAssumption == Callers \subseteq {"frames", "bytes", "careless"}

VARIABLES
    buf, len,        \* struct PRIVATE_DATA; size is Len(buf)
    out, outLen,     \* the caller's BYTES: what bArray points to, and len
    ret,             \* the last result of bGetDataByRule
    caller,          \* who uses the buffer
    held,            \* a match that a caller that clears has not cleared yet
    crashed

bVars == <<buf, len, out, outLen, ret, caller, held, crashed>>

size == Len(buf)
Chunk == BoundedSeq(Byte, MaxChunk)
LocalTypes == {"R_NO_RULE", "R_HEAD_LEN", "R_LEN_ONLY", "R_CUSTOM_RULE"}
Types == LocalTypes \cup {"R_HEAD_TAIL", "R_TAIL_ONLY"}
Rule == [type : IF caller = "bytes" THEN LocalTypes ELSE Types,
         len : Len(HeadMark)..MaxN]

Zeros(n) == [k \in 1..n |-> NUL]

BInit ==
    /\ \E request \in Requests :
          buf = Zeros(IF request < 0 THEN DefaultSize ELSE request)
    /\ len = 0
    /\ out = <<>> /\ outLen = 0 /\ ret = -1
    /\ caller \in Callers /\ held = FALSE /\ crashed = FALSE

-----------------------------------------------------------------------------
\* memcpy(buf, buf + from, count)
Moved(from, count) ==
    [k \in 1..size |-> IF k <= count THEN buf[k + from] ELSE buf[k]]

\* strstr(buf + from - 1, pat): the position of the first occurrence, or 0.
Strstr(pat, from) ==
    LET Hit(p) ==
            /\ SubSeq(buf, p, p + Len(pat) - 1) = pat
            /\ \A k \in from..(p - 1) : buf[k] # NUL
        hits == {p \in from..(size - Len(pat) + 1) : Hit(p)}
    IN  IF hits = {} THEN 0 ELSE Min(hits)

\* matchFunc of OBuffer_test.c searches a copy of the data, which ends at len.
StrstrData(pat, from) ==
    LET p == Strstr(pat, from) IN IF p + Len(pat) - 1 > len THEN 0 ELSE p

\* What the rule matches, from first to last; last = 0 is no match.
Match(rule) ==
    LET head == Strstr(HeadMark, 1)
        tail == Strstr(TailMark, 1)
        none == [first |-> 1, last |-> 0]
        HeadTail(start, end) ==
            IF start = 0 \/ end = 0 THEN none
            ELSE [first |-> start, last |-> end + Len(TailMark) - 1]
    IN  CASE rule.type = "R_HEAD_TAIL" ->
               HeadTail(head, Strstr(TailMark, head + Len(HeadMark)))
          [] rule.type = "R_CUSTOM_RULE" ->
               HeadTail(StrstrData(HeadMark, 1), StrstrData(TailMark, head + Len(HeadMark)))
          [] rule.type = "R_HEAD_LEN" ->
               IF head # 0 /\ len - (head - 1) >= rule.len
               THEN [first |-> head, last |-> head + rule.len - 1] ELSE none
          [] rule.type = "R_TAIL_ONLY" -> HeadTail(1, tail)
          [] rule.type = "R_LEN_ONLY" ->
               IF len >= rule.len THEN [first |-> 1, last |-> rule.len]
               ELSE none

-----------------------------------------------------------------------------
\* The caller may go on: the last match has been followed by bClear.
Usable == ~crashed /\ ~held

\* Mutant: data that does not fit is written behind the old data all the same.
bAppendNoEvict(data) ==
    /\ Usable
    /\ buf' = [k \in 1..size |->
                 IF k \in (len + 1)..(len + Len(data)) THEN data[k - len]
                 ELSE buf[k]]
    /\ len' = len + Len(data)
    /\ UNCHANGED <<out, outLen, ret, caller, held, crashed>>

\* Longer data than the array: its last size bytes.  Otherwise older bytes make
\* room first.
bAppend(data) ==
    LET n == Len(data)
        need == IF n > size - len THEN n - (size - len) ELSE 0
    IN  /\ Usable
        /\ IF n > size
           THEN /\ buf' = [k \in 1..size |-> data[n - size + k]]
                /\ len' = size
           ELSE /\ buf' = [k \in 1..size |->
                             IF k \in (len - need + 1)..(len - need + n)
                             THEN data[k - (len - need)]
                             ELSE Moved(need, len - need)[k]]
                /\ len' = len - need + n
        /\ UNCHANGED <<out, outLen, ret, caller, held, crashed>>

\* Mutant: one byte less is removed.
bRemoveLeavesOne(n) ==
    /\ caller = "bytes" /\ Usable
    /\ n <= len
    /\ buf' = Moved(n - 1, len - n + 1)
    /\ len' = len - n + 1
    /\ UNCHANGED <<out, outLen, ret, caller, held, crashed>>

bRemove(n) ==
    /\ caller = "bytes" /\ Usable
    /\ IF n > len
       THEN /\ buf' = [k \in 1..size |-> IF k <= len THEN NUL ELSE buf[k]]
            /\ len' = 0
       ELSE /\ buf' = Moved(n, len - n)
            /\ len' = len - n
    /\ UNCHANGED <<out, outLen, ret, caller, held, crashed>>

\* Mutant: only the length is reset, the old bytes stay.
bClearKeepsBytes ==
    /\ ~crashed
    /\ len' = 0
    /\ held' = FALSE
    /\ UNCHANGED <<buf, out, outLen, ret, caller, crashed>>

\* The caller is done with the frame it took.
bClear ==
    /\ ~crashed
    /\ buf' = Zeros(size)
    /\ len' = 0
    /\ held' = FALSE
    /\ UNCHANGED <<out, outLen, ret, caller, crashed>>

\* R_NO_RULE takes everything and clears the array.
TakeAll ==
    /\ out' = SubSeq(buf, 1, len)
    /\ outLen' = len
    /\ ret' = 0
    /\ buf' = Zeros(size)
    /\ len' = 0
    /\ UNCHANGED crashed

\* The frame is copied, len reduced, and the rest moved to the front.  The
\* branch for R_TAIL_ONLY does not set out->len.
TakeFrame(rule) ==
    LET m == Match(rule)
        rest == len - m.last
    IN  IF m.last = 0
        THEN ret' = -1 /\ UNCHANGED <<buf, len, out, outLen, crashed>>
        ELSE /\ ret' = 0
             /\ out' = SubSeq(buf, m.first, m.last)
             /\ outLen' = IF rule.type = "R_TAIL_ONLY" THEN outLen
                          ELSE m.last - m.first + 1
             /\ len' = rest
             /\ IF rest < 0
                THEN crashed' = TRUE /\ UNCHANGED buf
                ELSE buf' = Moved(m.last, rest) /\ UNCHANGED crashed

bGetDataByRule(rule) ==
    /\ Usable
    /\ IF rule.type = "R_NO_RULE" THEN TakeAll ELSE TakeFrame(rule)
    /\ held' = (caller = "frames" /\ ret' = 0)
    /\ UNCHANGED caller

BNext ==
    \/ \E data \in Chunk : bAppend(data)
    \/ \E n \in 1..(size + 1) : bRemove(n)
    \/ bClear
    \/ \E rule \in Rule : bGetDataByRule(rule)

BSpec == BInit /\ [][BNext]_bVars

-----------------------------------------------------------------------------
(* Properties. *)

BTypeOK ==
    /\ buf \in Seq(Byte \cup {NUL})
    /\ len \in 0..size
    /\ out \in Seq(Byte \cup {NUL})
    /\ outLen \in Nat
    /\ ret \in {-1, 0}
    /\ caller \in Callers /\ held \in BOOLEAN /\ crashed \in BOOLEAN

\* The buffer implements the queue of its newest bytes.  With the rules that
\* search for a tail this takes a caller that clears after a match, as the test
\* program does: no stale byte is ever matched then.
Fifo == INSTANCE OBufferFifo WITH
    content <- SubSeq(buf, 1, len)

ImplementsFifo == Fifo!Spec

\* Removals and rules do not only look like some call on the queue: it is the
\* same call with the same argument.
CallsMatch ==
    [][/\ \A n \in 1..(size + 1) : bRemove(n) => Fifo!bRemove(n)
       /\ \A rule \in Rule : bGetDataByRule(rule) => Fifo!bGetDataByRule(rule)]_bVars

-----------------------------------------------------------------------------
(* The inductive invariant behind these properties, for callers that clear   *)
(* after a match or look no farther than len.                                *)

\* The data has no NUL in it, and where a caller goes on that searches behind
\* the data there is nothing but NULs.
DataInv ==
    /\ \A k \in 1..len : buf[k] \in Byte
    /\ caller # "bytes" /\ ~held => \A k \in (len + 1)..size : buf[k] = NUL
    /\ held => caller = "frames"

BInv == BTypeOK /\ DataInv /\ out \in Seq(Byte) /\ ~crashed

-----------------------------------------------------------------------------
(* What OBuffer.h and the comments say and the code does not do. *)

\* bGetDataByRule returns -1 when nothing fits the rule, and the unread data
\* stays usable without bClear: no call crashes.
NeverCrashes == ~crashed

\* out->len is the length of the bytes delivered.
OutLenIsLength == ret = 0 => outLen = Len(out)

\* A bufferSize of zero or less gives the default size.
NonPositiveIsDefault == size > 0
=============================================================================
