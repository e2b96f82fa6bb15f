----------------------------- MODULE OBufferFifo -----------------------------
(***************************************************************************)
(* What an OBuffer promises (lib/libcmpt/include/OBuffer.h): the newest    *)
(* size bytes of what was appended, oldest first, from which the caller    *)
(* removes bytes at the front, or takes the first frame that fits a rule   *)
(* together with everything before it.                                     *)
(***************************************************************************)
EXTENDS Integers, SequencesExt

CONSTANTS Byte, HeadMark, TailMark, MaxChunk, MaxN

VARIABLES
    size, content,
    out, ret        \* what the last bGetDataByRule delivered and returned

vars == <<size, content, out, ret>>

Types == {"R_NO_RULE", "R_HEAD_TAIL", "R_HEAD_LEN", "R_LEN_ONLY",
          "R_TAIL_ONLY", "R_CUSTOM_RULE"}
Rule == [type : Types, len : Len(HeadMark)..MaxN]
Chunk == BoundedSeq(Byte, MaxChunk)

TypeOK ==
    /\ size \in Nat
    /\ content \in Seq(Byte) /\ Len(content) <= size
    /\ out \in Seq(Byte)
    /\ ret \in {-1, 0}

Init == size \in Nat /\ content = <<>> /\ out = <<>> /\ ret = -1

Newest(s) == SubSeq(s, IF Len(s) > size THEN Len(s) - size + 1 ELSE 1, Len(s))

bAppend(data) ==
    /\ content' = Newest(content \o data)
    /\ UNCHANGED <<size, out, ret>>

bRemove(n) ==
    /\ content' = SubSeq(content, n + 1, Len(content))
    /\ UNCHANGED <<size, out, ret>>

bClear == content' = <<>> /\ UNCHANGED <<size, out, ret>>

\* Where pat occurs in the content from position p on, the first one only.
At(pat, p) == SubSeq(content, p, p + Len(pat) - 1) = pat
First(pat, p) ==
    {q \in p..(Len(content) - Len(pat) + 1) :
        At(pat, q) /\ \A r \in p..(q - 1) : ~At(pat, r)}

\* The frame of a rule as a pair of positions; none when the set is empty.
Frame(rule) ==
    CASE rule.type = "R_NO_RULE" -> {<<1, Len(content)>>}
      [] rule.type \in {"R_HEAD_TAIL", "R_CUSTOM_RULE"} ->
           UNION {{<<p, q + Len(TailMark) - 1>> : q \in First(TailMark, p + Len(HeadMark))} :
                     p \in First(HeadMark, 1)}
      [] rule.type = "R_HEAD_LEN" ->
           {<<p, p + rule.len - 1>> :
               p \in {q \in First(HeadMark, 1) : q + rule.len - 1 <= Len(content)}}
      [] rule.type = "R_LEN_ONLY" ->
           {<<1, n>> : n \in {rule.len} \cap 1..Len(content)}
      [] rule.type = "R_TAIL_ONLY" ->
           {<<1, q + Len(TailMark) - 1>> : q \in First(TailMark, 1)}

bGetDataByRule(rule) ==
    /\ IF Frame(rule) = {}
       THEN ret' = -1 /\ UNCHANGED <<content, out>>
       ELSE \E f \in Frame(rule) :
              /\ ret' = 0
              /\ out' = SubSeq(content, f[1], f[2])
              /\ content' = SubSeq(content, f[2] + 1, Len(content))
    /\ UNCHANGED size

Next ==
    \/ \E data \in Chunk : bAppend(data)
    \/ \E n \in 1..(size + 1) : bRemove(n)
    \/ bClear
    \/ \E rule \in Rule : bGetDataByRule(rule)

Spec == Init /\ [][Next]_vars
=============================================================================
