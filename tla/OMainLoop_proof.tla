--------------------------- MODULE OMainLoop_proof ---------------------------
(***************************************************************************)
(* Theorems about OMainLoop for every number of descriptors, every set of  *)
(* callbacks and every set of masks.                                       *)
(***************************************************************************)
EXTENDS OMainLoop, SequenceTheorems, FiniteSetTheorems, WellFoundedInduction,
        TLAPS

-----------------------------------------------------------------------------
(* The list operators. *)

\* A non-empty set of naturals has a least element, which Min returns.
LEMMA MinProperties ==
    ASSUME NEW S, S \subseteq Nat, S # {}
    PROVE  Min(S) \in S /\ \A y \in S : Min(S) <= y
<1>1. PICK x \in S : \A y \in S : <<y, x>> \notin OpToRel(<, Nat)
  BY NatLessThanWellFounded, WFMin, Zenon
<1>2. \A y \in S : ~(y < x)
  BY <1>1, Zenon DEF OpToRel
<1>3. \A y \in S : x <= y
  BY <1>2
<1> QED BY <1>3 DEF Min

\* The scan for a descriptor returns an entry for it, or 0 when there is none.
LEMMA IoIndexProperties ==
    ASSUME ioEventList \in Seq(IoEventData), NEW fd
    PROVE  /\ IoIndex(fd) \in 0..Len(ioEventList)
           /\ IoIndex(fd) # 0 => ioEventList[IoIndex(fd)].fd = fd
           /\ IoIndex(fd) = 0 =>
                \A k \in DOMAIN ioEventList : ioEventList[k].fd # fd
<1> DEFINE I == {k \in 1..Len(ioEventList) : ioEventList[k].fd = fd}
<1>1. IoIndex(fd) = IF I # {} THEN Min(I) ELSE 0
  BY DEF IoIndex, SelectInSeq
<1>2. I \subseteq Nat
  BY LenProperties
<1>3. I # {} => Min(I) \in I
  BY <1>2, MinProperties
<1> HIDE DEF I
<1>4. I # {} \/ I = {}
  OBVIOUS
<1> QED BY <1>1, <1>3, <1>4, LenProperties DEF I

\* The same for the timer list.
LEMMA TimerIndexProperties ==
    ASSUME timerList \in Seq(TimerData), NEW id
    PROVE  /\ TimerIndex(id) \in 0..Len(timerList)
           /\ TimerIndex(id) # 0 => timerList[TimerIndex(id)].id = id
           /\ TimerIndex(id) = 0 =>
                \A k \in DOMAIN timerList : timerList[k].id # id
<1> DEFINE I == {k \in 1..Len(timerList) : timerList[k].id = id}
<1>1. TimerIndex(id) = IF I # {} THEN Min(I) ELSE 0
  BY DEF TimerIndex, SelectInSeq
<1>2. I \subseteq Nat
  BY LenProperties
<1>3. I # {} => Min(I) \in I
  BY <1>2, MinProperties
<1> HIDE DEF I
<1>4. I # {} \/ I = {}
  OBVIOUS
<1> QED BY <1>1, <1>3, <1>4, LenProperties DEF I

\* Erasing entry k keeps the others, in their order.
LEMMA EraseProperties ==
    ASSUME NEW S, NEW s \in Seq(S), NEW k \in 1..Len(s)
    PROVE  /\ RemoveAt(s, k) \in Seq(S)
           /\ Len(RemoveAt(s, k)) = Len(s) - 1
           /\ \A j \in 1..(Len(s) - 1) :
                RemoveAt(s, k)[j] = s[IF j < k THEN j ELSE j + 1]
<1> DEFINE a == SubSeq(s, 1, k - 1)
           b == SubSeq(s, k + 1, Len(s))
<1>0. Len(s) \in Nat /\ \A j \in 1..Len(s) : s[j] \in S
  BY LenProperties
<1>1. /\ a \in Seq(S)
      /\ Len(a) = k - 1
      /\ \A j \in 1..(k - 1) : a[j] = s[j]
  BY <1>0, SubSeqProperties
<1>2. /\ b \in Seq(S)
      /\ Len(b) = Len(s) - k
      /\ \A j \in 1..(Len(s) - k) : b[j] = s[k + j]
  <2>1. \A j \in (k + 1)..Len(s) : s[j] \in S
    BY <1>0
  <2>2. /\ b \in Seq(S)
        /\ Len(b) = IF k + 1 <= Len(s) THEN Len(s) - (k + 1) + 1 ELSE 0
        /\ \A j \in 1..(Len(s) - (k + 1) + 1) : b[j] = s[(k + 1) + j - 1]
    BY <1>0, <2>1, SubSeqProperties
  <2> QED BY <1>0, <2>2
<1>3. /\ a \o b \in Seq(S)
      /\ Len(a \o b) = Len(a) + Len(b)
      /\ \A j \in 1..(Len(a) + Len(b)) :
            (a \o b)[j] = IF j <= Len(a) THEN a[j] ELSE b[j - Len(a)]
  BY <1>1, <1>2, ConcatProperties
<1>4. RemoveAt(s, k) = a \o b
  BY DEF RemoveAt
<1> HIDE DEF a, b
<1>5. ASSUME NEW j \in 1..(Len(s) - 1)
      PROVE  (a \o b)[j] = s[IF j < k THEN j ELSE j + 1]
  <2>1. CASE j < k
    BY <1>0, <1>1, <1>2, <1>3, <2>1
  <2>2. CASE ~(j < k)
    <3>1. (a \o b)[j] = b[j - (k - 1)]
      BY <1>0, <1>1, <1>2, <1>3, <2>2
    <3>2. j - (k - 1) \in 1..(Len(s) - k)
      BY <1>0, <2>2
    <3>3. b[j - (k - 1)] = s[k + (j - (k - 1))]
      BY <1>2, <3>2
    <3> QED BY <1>0, <3>1, <3>3, <2>2
  <2> QED BY <2>1, <2>2
<1>6. Len(a \o b) = Len(s) - 1
  BY <1>0, <1>1, <1>2, <1>3
<1> QED BY <1>3, <1>4, <1>5, <1>6

\* Entries of a list have distinct keys.
DistinctFds(list) == \A j, k \in DOMAIN list : list[j].fd = list[k].fd => j = k
DistinctIds(list) == \A j, k \in DOMAIN list : list[j].id = list[k].id => j = k

\* ioEventAdd leaves a list of distinct descriptors, those it had and fd.
LEMMA WithEventProperties ==
    ASSUME ioEventList \in Seq(IoEventData), DistinctFds(ioEventList),
           NEW fd \in Fd, NEW event \in SUBSET Event, NEW func \in Handler
    PROVE  LET new == WithEvent(fd, event, func) IN
           /\ new \in Seq(IoEventData)
           /\ DistinctFds(new)
           /\ \A k \in DOMAIN new :
                new[k].fd = fd
                \/ \E j \in DOMAIN ioEventList : new[k].fd = ioEventList[j].fd
<1> DEFINE data == [fd |-> fd, event |-> event, cb_func |-> func]
           p == IoIndex(fd)
           new == WithEvent(fd, event, func)
<1>1. data \in IoEventData /\ data.fd = fd
  BY DEF IoEventData
<1>2. /\ Len(ioEventList) \in Nat
      /\ DOMAIN ioEventList = 1..Len(ioEventList)
      /\ p \in 0..Len(ioEventList)
      /\ p # 0 => ioEventList[p].fd = fd
      /\ p = 0 => \A k \in DOMAIN ioEventList : ioEventList[k].fd # fd
  BY LenProperties, IoIndexProperties
<1> HIDE DEF data, p
<1>3. CASE p # 0
  <2>1. new = [ioEventList EXCEPT ![p] = data]
    BY <1>3 DEF WithEvent, ReplaceAt, data, p
  <2>2. /\ new \in Seq(IoEventData)
        /\ Len(new) = Len(ioEventList)
        /\ \A j \in 1..Len(ioEventList) :
              new[j] = IF j = p THEN data ELSE ioEventList[j]
    BY <1>1, <1>2, <1>3, <2>1, ExceptSeq
  <2>3. DOMAIN new = DOMAIN ioEventList
    BY <1>2, <2>2, LenProperties
  <2> HIDE DEF new
  <2>4. \A k \in DOMAIN new : new[k].fd = ioEventList[k].fd
    BY <1>1, <1>2, <1>3, <2>2, <2>3
  <2> QED BY <2>2, <2>3, <2>4 DEF DistinctFds, new
<1>4. CASE p = 0
  <2>1. new = Append(ioEventList, data)
    BY <1>4 DEF WithEvent, data, p
  <2>2. /\ new \in Seq(IoEventData)
        /\ Len(new) = Len(ioEventList) + 1
        /\ \A j \in 1..Len(ioEventList) : new[j] = ioEventList[j]
        /\ new[Len(ioEventList) + 1] = data
    BY <1>1, <1>2, <2>1, AppendProperties
  <2>3. DOMAIN new = 1..(Len(ioEventList) + 1)
    BY <2>2, LenProperties
  <2> HIDE DEF new
  <2>4. \A k \in DOMAIN new :
          \/ k \in DOMAIN ioEventList /\ new[k].fd = ioEventList[k].fd
          \/ k = Len(ioEventList) + 1 /\ new[k].fd = fd
    BY <1>1, <1>2, <2>2, <2>3
  <2> QED BY <1>2, <1>4, <2>2, <2>4 DEF DistinctFds, new
<1> QED BY <1>3, <1>4

\* ioEventDel leaves a list of distinct descriptors, among those it had.
LEMMA EraseIoProperties ==
    ASSUME ioEventList \in Seq(IoEventData), DistinctFds(ioEventList),
           NEW p \in 1..Len(ioEventList)
    PROVE  LET new == RemoveAt(ioEventList, p) IN
           /\ new \in Seq(IoEventData)
           /\ DistinctFds(new)
           /\ \A k \in DOMAIN new :
                \E j \in DOMAIN ioEventList : new[k].fd = ioEventList[j].fd
<1> DEFINE new == RemoveAt(ioEventList, p)
<1>1. /\ new \in Seq(IoEventData)
      /\ Len(new) = Len(ioEventList) - 1
      /\ \A j \in 1..(Len(ioEventList) - 1) :
            new[j] = ioEventList[IF j < p THEN j ELSE j + 1]
  BY EraseProperties
<1>2. /\ Len(ioEventList) \in Nat
      /\ DOMAIN ioEventList = 1..Len(ioEventList)
      /\ DOMAIN new = 1..(Len(ioEventList) - 1)
  BY <1>1, LenProperties
<1> DEFINE m(k) == IF k < p THEN k ELSE k + 1
<1> HIDE DEF new
<1>3. \A k \in DOMAIN new :
        m(k) \in DOMAIN ioEventList /\ m(k) # p /\ new[k] = ioEventList[m(k)]
  BY <1>1, <1>2
<1>4. \A j, k \in DOMAIN new : m(j) = m(k) => j = k
  BY <1>2
<1> HIDE DEF m
<1>5. DistinctFds(new)
  BY <1>3, <1>4 DEF DistinctFds
<1>6. p \in DOMAIN ioEventList
  BY <1>2
<1> QED BY <1>1, <1>3, <1>5, <1>6 DEF DistinctFds, new

\* timerDel leaves a list of distinct ids, among those it had but id.
LEMMA EraseTimerProperties ==
    ASSUME timerList \in Seq(TimerData), DistinctIds(timerList),
           NEW p \in 1..Len(timerList)
    PROVE  LET new == RemoveAt(timerList, p) IN
           /\ new \in Seq(TimerData)
           /\ DistinctIds(new)
           /\ \A k \in DOMAIN new :
                /\ new[k].id # timerList[p].id
                /\ \E j \in DOMAIN timerList : new[k].id = timerList[j].id
<1> DEFINE new == RemoveAt(timerList, p)
<1>1. /\ new \in Seq(TimerData)
      /\ Len(new) = Len(timerList) - 1
      /\ \A j \in 1..(Len(timerList) - 1) :
            new[j] = timerList[IF j < p THEN j ELSE j + 1]
  BY EraseProperties
<1>2. /\ Len(timerList) \in Nat
      /\ DOMAIN timerList = 1..Len(timerList)
      /\ DOMAIN new = 1..(Len(timerList) - 1)
  BY <1>1, LenProperties
<1> DEFINE m(k) == IF k < p THEN k ELSE k + 1
<1> HIDE DEF new
<1>3. \A k \in DOMAIN new :
        m(k) \in DOMAIN timerList /\ m(k) # p /\ new[k] = timerList[m(k)]
  BY <1>1, <1>2
<1>4. \A j, k \in DOMAIN new : m(j) = m(k) => j = k
  BY <1>2
<1> HIDE DEF m
<1>5. DistinctIds(new)
  BY <1>3, <1>4 DEF DistinctIds
<1>6. p \in DOMAIN timerList
  BY <1>2
<1> QED BY <1>1, <1>3, <1>5, <1>6 DEF DistinctIds, new

\* The array poll fills has an entry for each registration, in order.
LEMMA PolledProperties ==
    ASSUME TypeOK
    PROVE  /\ Polled \in Seq(PollFd)
           /\ DOMAIN Polled = 1..(Len(ioEventList) + Len(timerList))
           /\ \A k \in DOMAIN ioEventList :
                k \in DOMAIN Polled /\ Polled[k].fd = ioEventList[k].fd
<1>1. /\ Len(ioEventList) \in Nat /\ DOMAIN ioEventList = 1..Len(ioEventList)
      /\ Len(timerList) \in Nat /\ DOMAIN timerList = 1..Len(timerList)
      /\ \A k \in 1..Len(ioEventList) :
            ioEventList[k].fd \in Fd /\ ioEventList[k].event \in SUBSET Event
      /\ \A k \in 1..Len(timerList) : timerList[k].id \in Fd
  <2>1. ioEventList \in Seq(IoEventData) /\ timerList \in Seq(TimerData)
    BY DEF TypeOK
  <2>2. /\ ioEventList \in [1..Len(ioEventList) -> IoEventData]
        /\ timerList \in [1..Len(timerList) -> TimerData]
        /\ Len(ioEventList) \in Nat /\ Len(timerList) \in Nat
    BY <2>1, LenProperties
  <2> QED BY <2>2 DEF IoEventData, TimerData
<1>2. DOMAIN Polled = 1..(Len(ioEventList) + Len(timerList))
  BY DEF Polled
<1>3. \A k \in DOMAIN Polled : Polled[k] \in PollFd
  BY <1>1 DEF Polled, PollFd, TypeOK, Event
<1>4. Polled \in [1..(Len(ioEventList) + Len(timerList)) -> PollFd]
  BY <1>2, <1>3 DEF Polled
<1>5. Polled \in Seq(PollFd)
  BY <1>1, <1>4, SeqDef
<1> QED BY <1>1, <1>2, <1>5 DEF Polled


-----------------------------------------------------------------------------
(* IInv is inductive. *)

\* The system starts in IInv.
LEMMA InitIInv == Init => IInv
<1> SUFFICES ASSUME Init PROVE IInv
  OBVIOUS
<1>1. /\ <<>> \in Seq(IoEventData) /\ <<>> \in Seq(TimerData)
      /\ <<>> \in Seq(PollFd) /\ Len(<<>>) = 0 /\ DOMAIN <<>> = {}
  OBVIOUS
<1>2. TypeOK
  BY <1>1 DEF Init, TypeOK
<1> QED BY <1>1, <1>2
        DEF Init, IInv, UniqueRegistration, RegisteredIsOpen, ReadsATimer

\* The callback run from an entry that was matched is one that was registered.
LEMMA MatchedProperties ==
    ASSUME TypeOK
    PROVE  /\ MatchedIo \in 0..Len(ioEventList)
           /\ MatchedIo # 0 => ioEventList[MatchedIo].cb_func \in Handler
           /\ MatchedTimer \in 0..Len(timerList)
           /\ MatchedTimer # 0 =>
                /\ timerList[MatchedTimer].cb_func \in Handler
                /\ timerList[MatchedTimer].id = poll_fds[i].fd
<1>1. ioEventList \in Seq(IoEventData) /\ timerList \in Seq(TimerData)
  BY DEF TypeOK
<1>2. /\ MatchedIo \in 0..Len(ioEventList)
      /\ MatchedTimer \in 0..Len(timerList)
      /\ MatchedTimer # 0 => timerList[MatchedTimer].id = poll_fds[i].fd
  BY <1>1, IoIndexProperties, TimerIndexProperties, LenProperties
  DEF MatchedIo, MatchedTimer
<1>3. /\ \A k \in 1..Len(ioEventList) : ioEventList[k] \in IoEventData
      /\ \A k \in 1..Len(timerList) : timerList[k] \in TimerData
      /\ Len(ioEventList) \in Nat /\ Len(timerList) \in Nat
  BY <1>1, LenProperties, ElementOfSeq
<1> HIDE DEF MatchedIo, MatchedTimer
<1>4. ASSUME MatchedIo # 0
      PROVE  ioEventList[MatchedIo].cb_func \in Handler
  BY <1>2, <1>3, <1>4 DEF IoEventData
<1>5. ASSUME MatchedTimer # 0
      PROVE  timerList[MatchedTimer].cb_func \in Handler
  BY <1>2, <1>3, <1>5 DEF TimerData
<1> QED BY <1>2, <1>4, <1>5

\* Every step preserves the type invariant.
LEMMA NextTypeOK == IInv /\ [Next]_vars => TypeOK'
<1> SUFFICES ASSUME IInv, [Next]_vars PROVE TypeOK'
  OBVIOUS
<1>1. TypeOK
  BY DEF IInv
<1>2. /\ ioEventList \in Seq(IoEventData) /\ DistinctFds(ioEventList)
      /\ timerList \in Seq(TimerData) /\ DistinctIds(timerList)
  BY DEF IInv, TypeOK, UniqueRegistration, DistinctFds, DistinctIds
<1>3. poll_fds \in Seq(PollFd) /\ Len(poll_fds) \in Nat
  BY <1>1, LenProperties DEF TypeOK
<1>4. ASSUME NEW fd \in Fd, Open(fd) PROVE TypeOK'
  BY <1>1, <1>4 DEF TypeOK, Open, Reopened, Free, Lowest, roundVars
<1>5. ASSUME NEW fd \in Fd, Close(fd) PROVE TypeOK'
  BY <1>1, <1>5 DEF TypeOK, Close, listVars, roundVars
<1>6. ASSUME NEW fd \in Fd, NEW e \in Event, Consume(fd, e) PROVE TypeOK'
  BY <1>1, <1>6 DEF TypeOK, Consume, listVars, roundVars
<1>7. ASSUME NEW fd \in Fd, NEW event \in Masks, NEW func \in Handler,
             ioEventAdd(fd, event, func)
      PROVE  TypeOK'
  <2>1. event \in SUBSET Event
    BY EventAssumption DEF Event
  <2>2. ioEventList' \in Seq(IoEventData)
    BY <1>2, <1>7, <2>1, WithEventProperties DEF ioEventAdd
  <2> QED BY <1>1, <1>7, <2>2 DEF TypeOK, ioEventAdd, kernelVars, roundVars
<1>8. ASSUME NEW fd \in Fd, ioEventDel(fd) PROVE TypeOK'
  <2>1. IoIndex(fd) \in 1..Len(ioEventList)
    BY <1>2, <1>8, IoIndexProperties, LenProperties DEF ioEventDel
  <2>2. ioEventList' \in Seq(IoEventData)
    BY <1>2, <1>8, <2>1, EraseIoProperties DEF ioEventDel
  <2> QED BY <1>1, <1>8, <2>2 DEF TypeOK, ioEventDel, kernelVars, roundVars
<1>9. ASSUME NEW id \in Fd, timerDel(id) PROVE TypeOK'
  <2>1. TimerIndex(id) \in 1..Len(timerList)
    BY <1>2, <1>9, TimerIndexProperties, LenProperties DEF timerDel
  <2>2. timerList' \in Seq(TimerData)
    BY <1>2, <1>9, <2>1, EraseTimerProperties DEF timerDel
  <2> QED BY <1>1, <1>9, <2>2 DEF TypeOK, timerDel, roundVars
<1>10. ASSUME NEW fd \in Fd, NEW type \in TimerTypes, NEW func \in Handler,
              NEW outcome \in {"off", "once", "every", "EINVAL"},
              CreateTimer(fd, type, func, outcome),
              known' \in {known, known \cup {fd}}
       PROVE  TypeOK'
  <2>1. [id |-> fd, type |-> type, cb_func |-> func] \in TimerData
    BY EventAssumption DEF TimerData
  <2>2. timerList' \in Seq(TimerData)
    BY <1>2, <1>10, <2>1, AppendProperties DEF CreateTimer
  <2>3. arm' \in [Fd -> {"off", "once", "every"}]
    BY <1>1, <1>10 DEF CreateTimer, TypeOK
  <2> QED BY <1>1, <1>10, <2>2, <2>3
          DEF TypeOK, CreateTimer, Reopened, roundVars
<1>11. ASSUME NEW fd \in Fd, NEW type \in TimerTypes, NEW time \in Time,
              NEW later \in BOOLEAN, NEW func \in Handler,
              timerAdd(fd, type, time, later, func)
              \/ timerAddMs(fd, type, time, later, func)
       PROVE  TypeOK'
  <2>1. type \in Type
    BY EventAssumption
  <2>2. /\ Arming(type, time, later) \subseteq {"off", "once", "every", "EINVAL"}
        /\ ArmingMs(type, time, later) \subseteq {"off", "once", "every", "EINVAL"}
    BY <2>1 DEF Arming, ArmingMs, Type
  <2> QED BY <1>10, <1>11, <2>2 DEF timerAdd, timerAddMs
<1>12. ASSUME timerClear PROVE TypeOK'
  BY <1>1, <1>12 DEF TypeOK, timerClear, roundVars
<1>13. ASSUME NEW fd \in Fd, NEW e \in Event, Arrive(fd, e) PROVE TypeOK'
  BY <1>1, <1>13 DEF TypeOK, Arrive, listVars, roundVars
<1>14. ASSUME NEW fd \in Fd, Expire(fd) PROVE TypeOK'
  BY <1>1, <1>14 DEF TypeOK, Expire, listVars, roundVars, Event
<1>15. ASSUME startLoop PROVE TypeOK'
  BY <1>1, <1>15 DEF TypeOK, startLoop, kernelVars, listVars
<1>16. ASSUME pollReady PROVE TypeOK'
  <2>1. Polled \in Seq(PollFd) /\ Len(Polled) \in Nat
    BY <1>1, PolledProperties, LenProperties
  <2> QED BY <1>1, <1>16, <2>1 DEF TypeOK, pollReady, kernelVars, listVars
<1>17. ASSUME dispatchNone PROVE TypeOK'
  BY <1>1, <1>3, <1>17 DEF TypeOK, dispatchNone, kernelVars, listVars
<1>18. ASSUME dispatchIo PROVE TypeOK'
  BY <1>1, <1>3, <1>18, MatchedProperties
  DEF TypeOK, dispatchIo, Run, kernelVars, listVars
<1>19. ASSUME dispatchTimer PROVE TypeOK'
  BY <1>1, <1>3, <1>19 DEF TypeOK, dispatchTimer, kernelVars, listVars
<1>20. ASSUME timerRead PROVE TypeOK'
  <2>1. timerList[MatchedTimer].cb_func \in Handler
    BY <1>1, <1>20, MatchedProperties DEF IInv, ReadsATimer, timerRead
  <2>2. ready' \in [Fd -> SUBSET Event]
    BY <1>1, <1>20 DEF TypeOK, timerRead
  <2> QED BY <1>1, <1>3, <1>20, <2>1, <2>2 DEF TypeOK, timerRead, Run, listVars
<1>21. ASSUME callbackReturn PROVE TypeOK'
  BY <1>1, <1>3, <1>21 DEF TypeOK, callbackReturn, kernelVars, listVars
<1>22. ASSUME roundEnd PROVE TypeOK'
  BY <1>1, <1>22 DEF TypeOK, roundEnd, kernelVars, listVars
<1>23. CASE UNCHANGED vars
  BY <1>1, <1>23 DEF TypeOK, vars
<1> QED BY <1>4, <1>5, <1>6, <1>7, <1>8, <1>9, <1>11, <1>12, <1>13, <1>14,
           <1>15, <1>16, <1>17, <1>18, <1>19, <1>20, <1>21, <1>22, <1>23
        DEF Next, App, Kernel, Loop, pollIdle


\* Every step keeps descriptors registered once, and open.
LEMMA NextRegistered ==
    IInv /\ [Next]_vars => UniqueRegistration' /\ RegisteredIsOpen'
<1> SUFFICES ASSUME IInv, [Next]_vars
             PROVE  UniqueRegistration' /\ RegisteredIsOpen'
  OBVIOUS
<1>1. TypeOK /\ UniqueRegistration /\ RegisteredIsOpen
  BY DEF IInv
<1>2. /\ ioEventList \in Seq(IoEventData) /\ DistinctFds(ioEventList)
      /\ timerList \in Seq(TimerData) /\ DistinctIds(timerList)
      /\ kind \in [Fd -> {"free", "io", "timer"}]
  BY <1>1 DEF TypeOK, UniqueRegistration, DistinctFds, DistinctIds
<1>3. /\ \A k \in DOMAIN ioEventList :
            ioEventList[k] \in ToSet(ioEventList) /\ ioEventList[k].fd \in Fd
      /\ \A k \in DOMAIN timerList :
            timerList[k] \in ToSet(timerList) /\ timerList[k].id \in Fd
  <2>1. /\ \A k \in DOMAIN ioEventList : ioEventList[k] \in IoEventData
        /\ \A k \in DOMAIN timerList : timerList[k] \in TimerData
    BY <1>2, LenProperties, ElementOfSeq
  <2> QED BY <2>1 DEF ToSet, IoEventData, TimerData
<1>4. ASSUME UNCHANGED <<kind, ioEventList, timerList>>
      PROVE  UniqueRegistration' /\ RegisteredIsOpen'
  BY <1>1, <1>4 DEF UniqueRegistration, RegisteredIsOpen
<1>5. ASSUME NEW fd \in Fd, Open(fd)
      PROVE  UniqueRegistration' /\ RegisteredIsOpen'
  BY <1>1, <1>2, <1>3, <1>5
  DEF UniqueRegistration, RegisteredIsOpen, Open, Lowest, Free
<1>6. ASSUME NEW fd \in Fd, Close(fd)
      PROVE  UniqueRegistration' /\ RegisteredIsOpen'
  BY <1>1, <1>2, <1>3, <1>6
  DEF UniqueRegistration, RegisteredIsOpen, Close, Watched, listVars
<1>7. ASSUME NEW fd \in Fd, NEW event \in Masks, NEW func \in Handler,
             ioEventAdd(fd, event, func)
      PROVE  UniqueRegistration' /\ RegisteredIsOpen'
  <2>1. event \in SUBSET Event
    BY EventAssumption DEF Event
  <2>2. /\ DistinctFds(ioEventList')
        /\ \A k \in DOMAIN ioEventList' :
             ioEventList'[k].fd = fd
             \/ \E j \in DOMAIN ioEventList :
                  ioEventList'[k].fd = ioEventList[j].fd
    BY <1>2, <1>7, <2>1, WithEventProperties DEF ioEventAdd
  <2>3. kind[fd] = "io" /\ kind' = kind /\ timerList' = timerList
    BY <1>7 DEF ioEventAdd, kernelVars
  <2>4. RegisteredIsOpen'
    BY <1>1, <2>2, <2>3 DEF RegisteredIsOpen
  <2>5. \A j \in DOMAIN ioEventList', k \in DOMAIN timerList' :
           ioEventList'[j].fd # timerList'[k].id
    BY <2>4 DEF RegisteredIsOpen
  <2> QED BY <1>1, <2>2, <2>3, <2>4, <2>5 DEF UniqueRegistration, DistinctFds
<1>8. ASSUME NEW fd \in Fd, ioEventDel(fd)
      PROVE  UniqueRegistration' /\ RegisteredIsOpen'
  <2>1. IoIndex(fd) \in 1..Len(ioEventList)
    BY <1>2, <1>8, IoIndexProperties, LenProperties DEF ioEventDel
  <2>2. /\ DistinctFds(ioEventList')
        /\ \A k \in DOMAIN ioEventList' :
             \E j \in DOMAIN ioEventList :
                ioEventList'[k].fd = ioEventList[j].fd
    BY <1>2, <1>8, <2>1, EraseIoProperties DEF ioEventDel
  <2>3. kind' = kind /\ timerList' = timerList
    BY <1>8 DEF ioEventDel, kernelVars
  <2> QED BY <1>1, <2>2, <2>3
          DEF UniqueRegistration, RegisteredIsOpen, DistinctFds
<1>9. ASSUME NEW id \in Fd, timerDel(id)
      PROVE  UniqueRegistration' /\ RegisteredIsOpen'
  <2>1. TimerIndex(id) \in 1..Len(timerList)
    BY <1>2, <1>9, TimerIndexProperties, LenProperties DEF timerDel
  <2>2. /\ DistinctIds(timerList')
        /\ \A k \in DOMAIN timerList' :
             \E j \in DOMAIN timerList : timerList'[k].id = timerList[j].id
    BY <1>2, <1>9, <2>1, EraseTimerProperties DEF timerDel
  <2>3. kind' = kind /\ ioEventList' = ioEventList
    BY <1>9 DEF timerDel
  <2> QED BY <1>1, <2>2, <2>3
          DEF UniqueRegistration, RegisteredIsOpen, DistinctIds
<1>10. ASSUME NEW fd \in Fd, NEW type \in TimerTypes, NEW func \in Handler,
              NEW outcome, CreateTimer(fd, type, func, outcome)
       PROVE  UniqueRegistration' /\ RegisteredIsOpen'
  <2> DEFINE data == [id |-> fd, type |-> type, cb_func |-> func]
  <2>1. /\ fd \in Fd /\ kind[fd] = "free"
        /\ kind' = [kind EXCEPT ![fd] = "timer"]
        /\ ioEventList' = ioEventList
        /\ timerList' \in {timerList, Append(timerList, data)}
    BY <1>10 DEF CreateTimer, Lowest, Free
  <2>2. data \in TimerData /\ data.id = fd
    BY EventAssumption DEF TimerData
  <2> HIDE DEF data
  <2>3. \A k \in DOMAIN timerList' :
          \/ k \in DOMAIN timerList /\ timerList'[k] = timerList[k]
          \/ k = Len(timerList) + 1 /\ timerList'[k] = data
    <3>1. CASE timerList' = timerList
      BY <3>1
    <3>2. CASE timerList' = Append(timerList, data)
      <4>1. /\ timerList' \in Seq(TimerData)
            /\ Len(timerList') = Len(timerList) + 1
            /\ \A k \in 1..Len(timerList) : timerList'[k] = timerList[k]
            /\ timerList'[Len(timerList) + 1] = data
        BY <1>2, <2>2, <3>2, AppendProperties
      <4>2. /\ DOMAIN timerList = 1..Len(timerList)
            /\ DOMAIN timerList' = 1..Len(timerList')
            /\ Len(timerList) \in Nat
        BY <1>2, <4>1, LenProperties
      <4> QED BY <4>1, <4>2
    <3> QED BY <2>1, <3>1, <3>2
  <2>4. RegisteredIsOpen'
    BY <1>1, <1>2, <1>3, <2>1, <2>2, <2>3 DEF RegisteredIsOpen
  <2>5. \A k \in DOMAIN timerList : timerList[k].id # fd
    BY <1>1, <2>1 DEF RegisteredIsOpen
  <2>6. DistinctIds(timerList')
    BY <1>2, <2>2, <2>3, <2>5 DEF DistinctIds
  <2>7. \A j \in DOMAIN ioEventList', k \in DOMAIN timerList' :
           ioEventList'[j].fd # timerList'[k].id
    BY <2>4 DEF RegisteredIsOpen
  <2> QED BY <1>1, <2>1, <2>4, <2>6, <2>7 DEF UniqueRegistration, DistinctIds
<1>11. ASSUME NEW fd \in Fd, NEW type \in TimerTypes, NEW time \in Time,
              NEW later \in BOOLEAN, NEW func \in Handler,
              timerAdd(fd, type, time, later, func)
              \/ timerAddMs(fd, type, time, later, func)
       PROVE  UniqueRegistration' /\ RegisteredIsOpen'
  BY <1>10, <1>11 DEF timerAdd, timerAddMs
<1>12. ASSUME timerClear
       PROVE  UniqueRegistration' /\ RegisteredIsOpen'
  BY <1>1, <1>12 DEF UniqueRegistration, RegisteredIsOpen, timerClear
<1>13. ASSUME NEW fd \in Fd, NEW e \in Event,
              Consume(fd, e) \/ Arrive(fd, e) \/ Expire(fd)
       PROVE  UniqueRegistration' /\ RegisteredIsOpen'
  BY <1>4, <1>13 DEF Consume, Arrive, Expire, listVars
<1>14. ASSUME startLoop \/ Loop \/ UNCHANGED vars
       PROVE  UniqueRegistration' /\ RegisteredIsOpen'
  BY <1>4, <1>14
  DEF startLoop, Loop, pollReady, pollIdle, dispatchNone, dispatchIo,
      dispatchTimer, timerRead, callbackReturn, roundEnd, kernelVars,
      listVars, vars
<1>15. ASSUME NEW fd \in Fd, Expire(fd)
       PROVE  UniqueRegistration' /\ RegisteredIsOpen'
  BY <1>4, <1>15 DEF Expire, listVars
<1> QED BY <1>5, <1>6, <1>7, <1>8, <1>9, <1>11, <1>12, <1>13, <1>14, <1>15
        DEF Next, App, Kernel

\* The application's calls leave the position of the loop alone.
LEMMA AppLeavesRound == App \/ timerClear => AppRuns /\ UNCHANGED roundVars
<1>1. ASSUME NEW fd, NEW type, NEW func, NEW outcome,
             CreateTimer(fd, type, func, outcome)
      PROVE  AppRuns /\ UNCHANGED roundVars
  BY <1>1 DEF CreateTimer
<1>2. ASSUME NEW fd, NEW type, NEW time, NEW later, NEW func,
             timerAdd(fd, type, time, later, func)
             \/ timerAddMs(fd, type, time, later, func)
      PROVE  AppRuns /\ UNCHANGED roundVars
  BY <1>1, <1>2 DEF timerAdd, timerAddMs
<1>3. ASSUME NEW fd, NEW e, NEW func,
             \/ Open(fd) \/ Close(fd) \/ Consume(fd, e)
             \/ ioEventAdd(fd, e, func) \/ ioEventDel(fd) \/ timerDel(fd)
      PROVE  AppRuns /\ UNCHANGED roundVars
  BY <1>3 DEF Open, Close, Consume, ioEventAdd, ioEventDel, timerDel
<1>4. ASSUME timerClear PROVE AppRuns /\ UNCHANGED roundVars
  BY <1>4 DEF timerClear
<1> QED BY <1>2, <1>3, <1>4 DEF App

\* Only dispatchTimer leads to the read, and nothing of the program runs then.
LEMMA NextReadsATimer == IInv /\ [Next]_vars => ReadsATimer'
<1> SUFFICES ASSUME IInv, [Next]_vars, pc' = "read"
             PROVE  (poll_fds[i].revents # {} /\ MatchedTimer # 0)'
  BY DEF ReadsATimer
<1>0. UNCHANGED <<ioEventList, timerList, poll_fds, i>> =>
          MatchedTimer' = MatchedTimer
  BY DEF MatchedTimer, MatchedIo, IoIndex, TimerIndex, SelectInSeq
<1> HIDE DEF MatchedTimer
<1>1. CASE dispatchTimer
  BY <1>0, <1>1 DEF dispatchTimer, listVars
<1>2. CASE pc = "read" /\ UNCHANGED <<listVars, roundVars>>
  BY <1>0, <1>2 DEF IInv, ReadsATimer, listVars, roundVars
<1>3. CASE Kernel \/ UNCHANGED vars
  BY <1>2, <1>3 DEF Kernel, Arrive, Expire, roundVars, listVars, vars
<1>4. CASE App \/ timerClear
  BY <1>4, AppLeavesRound DEF AppRuns, roundVars
<1>5. CASE startLoop
  BY <1>5 DEF startLoop
<1>6. CASE Loop /\ ~dispatchTimer
  BY <1>2, <1>6 DEF Loop, pollReady, pollIdle, dispatchNone, dispatchIo, timerRead,
              callbackReturn, roundEnd, Run, vars, listVars, roundVars
<1> QED BY <1>1, <1>3, <1>4, <1>5, <1>6 DEF Next

\* IInv holds throughout.
THEOREM InductiveInvariant == Spec => []IInv
<1>1. IInv /\ [Next]_vars => IInv'
  BY NextTypeOK, NextRegistered, NextReadsATimer DEF IInv
<1> QED BY InitIInv, <1>1, PTL DEF Spec

\* The state of the loop, of the lists and of the kernel stays well typed,
\* and the index of the dispatch stays within the array.
THEOREM TypeCorrect == Spec => []TypeOK
<1>1. IInv => TypeOK
  BY DEF IInv
<1> QED BY InductiveInvariant, <1>1, PTL

\* A descriptor is registered at most once, in the two lists together.
THEOREM RegistrationIsUnique == Spec => []UniqueRegistration
<1>1. IInv => UniqueRegistration
  BY DEF IInv
<1> QED BY InductiveInvariant, <1>1, PTL


\* The callback that is started is the one registered at that moment for the
\* descriptor of the entry, whatever earlier callbacks of the round changed.
THEOREM OnlyRegisteredCallbacksRun == Spec => RunsRegisteredCallback
<1>1. ASSUME IInv, [Next]_vars, pc # "callback", pc' = "callback"
      PROVE  \/ \E e \in ToSet(ioEventList) :
                   e.fd = poll_fds[i].fd /\ e.cb_func = cb'
             \/ \E t \in ToSet(timerList) :
                   t.id = poll_fds[i].fd /\ t.cb_func = cb'
  <2>1. /\ TypeOK /\ ReadsATimer
        /\ ioEventList \in Seq(IoEventData) /\ timerList \in Seq(TimerData)
    BY <1>1 DEF IInv, TypeOK
  <2>2. CASE dispatchIo
    <3>1. MatchedIo # 0 /\ cb' = ioEventList[MatchedIo].cb_func
      BY <1>1, <2>2 DEF dispatchIo, Run
    <3>2. /\ MatchedIo \in DOMAIN ioEventList
          /\ ioEventList[MatchedIo].fd = poll_fds[i].fd
      BY <2>1, <3>1, IoIndexProperties, LenProperties DEF MatchedIo
    <3> QED BY <3>1, <3>2 DEF ToSet
  <2>3. CASE timerRead
    <3>1. MatchedTimer # 0 /\ cb' = timerList[MatchedTimer].cb_func
      BY <1>1, <2>1, <2>3 DEF timerRead, Run, ReadsATimer
    <3>2. /\ MatchedTimer \in DOMAIN timerList
          /\ timerList[MatchedTimer].id = poll_fds[i].fd
      BY <2>1, <3>1, MatchedProperties, LenProperties
    <3> QED BY <3>1, <3>2 DEF ToSet
  <2>4. CASE App \/ timerClear
    BY <1>1, <2>4, AppLeavesRound DEF roundVars
  <2>5. CASE ~(dispatchIo \/ timerRead) /\ ~(App \/ timerClear)
    BY <1>1, <2>5
    DEF Next, Kernel, Arrive, Expire, startLoop, Loop, pollReady, pollIdle,
        dispatchNone, dispatchTimer, callbackReturn, roundEnd, roundVars, vars
  <2> QED BY <2>2, <2>3, <2>4, <2>5
<1>2. IInv /\ [Next]_vars =>
        [(pc # "callback" /\ pc' = "callback") =>
            \/ \E e \in ToSet(ioEventList) :
                  e.fd = poll_fds[i].fd /\ e.cb_func = cb'
            \/ \E t \in ToSet(timerList) :
                  t.id = poll_fds[i].fd /\ t.cb_func = cb']_vars
  BY <1>1
<1> QED BY InductiveInvariant, <1>2, PTL DEF Spec, RunsRegisteredCallback

-----------------------------------------------------------------------------
(* poll_fds is long enough. *)

\* What is registered fits in poll_fds when the process cannot open more
\* descriptors than it is long: doEventLoop fills it without a bound check.
THEOREM PollFdsNeverOverflow ==
    ASSUME FdLimitFitsPoll
    PROVE  Spec => []PollFdsFit
<1>1. IInv => PollFdsFit
  <2> SUFFICES ASSUME IInv PROVE PollFdsFit
    OBVIOUS
  <2> DEFINE m == Len(ioEventList)
             n == Len(timerList)
             f == [k \in 1..(m + n) |->
                     IF k <= m THEN ioEventList[k].fd ELSE timerList[k - m].id]
  <2>1. /\ ioEventList \in Seq(IoEventData) /\ timerList \in Seq(TimerData)
        /\ UniqueRegistration
    BY DEF IInv, TypeOK
  <2>2. /\ m \in Nat /\ DOMAIN ioEventList = 1..m
        /\ n \in Nat /\ DOMAIN timerList = 1..n
        /\ \A k \in 1..m : ioEventList[k] \in IoEventData
        /\ \A k \in 1..n : timerList[k] \in TimerData
    BY <2>1, LenProperties, ElementOfSeq
  <2> HIDE DEF m, n
  <2>3. \A k \in 1..(m + n) : k \in 1..m \/ (~(k <= m) /\ k - m \in 1..n)
    BY <2>2
  <2>4. f \in [1..(m + n) -> Fd]
    BY <2>2, <2>3 DEF IoEventData, TimerData
  <2>5. \A j, k \in 1..(m + n) : f[j] = f[k] => j = k
    BY <2>1, <2>2, <2>3 DEF UniqueRegistration
  <2>6. f \in Injection(1..(m + n), Fd)
    BY <2>4, <2>5 DEF Injection, IsInjective
  <2> HIDE DEF f
  <2>7. /\ IsFiniteSet(Fd) /\ Cardinality(Fd) = NFd
        /\ Cardinality(1..(m + n)) = m + n
    <3>1. m + n \in Int /\ m + n >= 0 /\ NFd \in Int /\ NFd >= 1
      BY <2>2, SizesAssumption
    <3>2. /\ IsFiniteSet(1..NFd)
          /\ Cardinality(1..NFd) = IF 1 > NFd THEN 0 ELSE NFd - 1 + 1
      BY <3>1, FS_Interval
    <3>3. PICK s \in Nat : s = m + n
      BY <2>2
    <3>4. Cardinality(1..s) = IF 1 > s THEN 0 ELSE s - 1 + 1
      BY FS_Interval
    <3>5. Cardinality(1..s) = s
      BY <3>4
    <3>6. IsFiniteSet(Fd) /\ Cardinality(Fd) = NFd
      BY <3>1, <3>2 DEF Fd
    <3> QED BY <3>3, <3>5, <3>6
  <2>8. m + n <= NFd
    BY <2>6, <2>7, FS_Injection
  <2> QED BY <2>2, <2>8, SizesAssumption DEF PollFdsFit, FdLimitFitsPoll, m, n
<1> QED BY InductiveInvariant, <1>1, PTL

-----------------------------------------------------------------------------
(* A round delivers what was polled, when callbacks close only their own. *)

\* An entry ahead is left valid by a step that keeps the position of the loop
\* and, at the entry's descriptor, the descriptor table, the history, the
\* readiness and the registration as a timer.
LEMMA StillHoldsStable ==
    ASSUME UNCHANGED <<poll_fds, i>>, NEW k,
           StillHolds(k),
           poll_fds[k].fd \in reopened' => poll_fds[k].fd \in reopened,
           kind'[poll_fds[k].fd] = kind[poll_fds[k].fd],
           Timed(poll_fds[k].fd)' => Timed(poll_fds[k].fd),
           Timed(poll_fds[k].fd)' /\ "IN" \in ready[poll_fds[k].fd] =>
              "IN" \in ready'[poll_fds[k].fd]
    PROVE  StillHolds(k)'
<1> HIDE DEF Timed
<1>1. poll_fds' = poll_fds
  OBVIOUS
<1> QED BY <1>1 DEF StillHolds


\* Deleting a timer takes its id out of the registered ones.
LEMMA TimedAfterDelete ==
    ASSUME IInv, NEW id \in Fd, timerDel(id)
    PROVE  \A x : Timed(x)' => Timed(x) /\ x # id
<1>1. timerList \in Seq(TimerData) /\ DistinctIds(timerList)
  BY DEF IInv, TypeOK, UniqueRegistration, DistinctIds
<1>2. TimerIndex(id) \in 1..Len(timerList) /\ timerList[TimerIndex(id)].id = id
  BY <1>1, TimerIndexProperties, LenProperties DEF timerDel
<1>3. \A k \in DOMAIN timerList' :
        /\ timerList'[k].id # id
        /\ \E j \in DOMAIN timerList : timerList'[k].id = timerList[j].id
  BY <1>1, <1>2, EraseTimerProperties DEF timerDel
<1> QED BY <1>3 DEF Timed, ToSet

\* Creating a timer adds at most its own id.
LEMMA TimedAfterCreate ==
    ASSUME TypeOK, NEW fd \in Fd, NEW type, NEW func, NEW outcome,
           CreateTimer(fd, type, func, outcome)
    PROVE  \A x : Timed(x)' => Timed(x) \/ x = fd
<1> DEFINE data == [id |-> fd, type |-> type, cb_func |-> func]
<1>1. timerList' \in {timerList, Append(timerList, data)}
  BY DEF CreateTimer
<1>2. timerList \in Seq(TimerData \cup {data}) /\ data.id = fd
  BY SeqMonotonic DEF TypeOK
<1> HIDE DEF data
<1>3. CASE timerList' = timerList
  BY <1>3 DEF Timed
<1>4. CASE timerList' = Append(timerList, data)
  <2>1. /\ timerList' \in Seq(TimerData \cup {data})
        /\ Len(timerList') = Len(timerList) + 1
        /\ \A k \in 1..Len(timerList) : timerList'[k] = timerList[k]
        /\ timerList'[Len(timerList) + 1] = data
    BY <1>2, <1>4, AppendProperties
  <2>2. /\ DOMAIN timerList = 1..Len(timerList)
        /\ DOMAIN timerList' = 1..Len(timerList')
        /\ Len(timerList) \in Nat
    BY <1>2, <2>1, LenProperties
  <2> QED BY <1>2, <2>1, <2>2 DEF Timed, ToSet
<1> QED BY <1>1, <1>3, <1>4

\* A registered timer is a timer, and a watched descriptor is not one.
LEMMA TimedIsTimer ==
    ASSUME IInv, NEW x
    PROVE  Timed(x) => kind[x] = "timer"
BY DEF IInv, RegisteredIsOpen, Timed, ToSet

\* What the application does in a callback leaves the entries ahead valid.
LEMMA AppKeepsEntries ==
    ASSUME IInv, RoundInv, ~CloseOthers, App \/ timerClear,
           NEW k \in DOMAIN poll_fds, Ahead(k)
    PROVE  StillHolds(k)'
<1>1. AppRuns /\ UNCHANGED roundVars
  BY AppLeavesRound
<1>2. /\ TypeOK /\ poll_fds \in Seq(PollFd) /\ i \in Nat
      /\ Len(poll_fds) \in Nat /\ DOMAIN poll_fds = 1..Len(poll_fds)
      /\ \A j \in 1..Len(poll_fds) : poll_fds[j] \in PollFd
  <2>1. TypeOK /\ poll_fds \in Seq(PollFd)
    BY DEF IInv, TypeOK
  <2>2. /\ Len(poll_fds) \in Nat /\ DOMAIN poll_fds = 1..Len(poll_fds)
        /\ \A j \in 1..Len(poll_fds) : poll_fds[j] \in PollFd
    BY <2>1, LenProperties, ElementOfSeq
  <2> QED BY <2>1, <2>2 DEF TypeOK
<1>3. /\ pc = "callback" /\ k # i /\ i \in DOMAIN poll_fds
      /\ DistinctPolled /\ StillHolds(k)
  <2>1. pc = "callback" /\ k > i
    BY <1>1 DEF AppRuns, Ahead
  <2>2. k # i /\ i \in DOMAIN poll_fds
    BY <1>2, <2>1 DEF TypeOK
  <2> QED BY <2>1, <2>2 DEF RoundInv
<1>4. PICK x \in Fd : x = poll_fds[k].fd
  BY <1>2 DEF PollFd
<1>5. /\ UNCHANGED <<poll_fds, i>>
      /\ x \notin reopened /\ kind[x] # "free"
      /\ poll_fds[i].fd # x
      /\ Timed(x) => kind[x] = "timer"
  BY <1>1, <1>3, <1>4, TimedIsTimer DEF roundVars, DistinctPolled, StillHolds
<1>6. ASSUME x \in reopened' => x \in reopened,
             kind'[x] = kind[x],
             Timed(x)' => Timed(x),
             Timed(x)' /\ "IN" \in ready[x] => "IN" \in ready'[x]
      PROVE  StillHolds(k)'
  BY <1>3, <1>4, <1>5, <1>6, StillHoldsStable
<1>7. ASSUME NEW fd \in Fd, Open(fd) PROVE StillHolds(k)'
  BY <1>2, <1>5, <1>6, <1>7
  DEF Open, Lowest, Free, Reopened, TypeOK, Timed
<1>8. ASSUME NEW fd \in Fd, Close(fd) PROVE StillHolds(k)'
  <2>1. fd # x
    BY <1>3, <1>5, <1>8 DEF Close, Served
  <2> QED BY <1>2, <1>6, <1>8, <2>1 DEF Close, TypeOK, Timed, listVars
<1>9. ASSUME NEW fd \in Fd, NEW e \in Event, Consume(fd, e) PROVE StillHolds(k)'
  <2>1. fd = x => ~Timed(x)
    BY <1>5, <1>9 DEF Consume
  <2>2. Timed(x)' <=> Timed(x)
    BY <1>9 DEF Consume, Timed, listVars
  <2> QED BY <1>2, <1>6, <1>9, <2>1, <2>2 DEF Consume, TypeOK
<1>10. ASSUME NEW fd \in Fd, NEW event, NEW func,
              ioEventAdd(fd, event, func) \/ ioEventDel(fd)
       PROVE  StillHolds(k)'
  BY <1>6, <1>10 DEF ioEventAdd, ioEventDel, kernelVars, Timed
<1>11. ASSUME NEW id \in Fd, timerDel(id) PROVE StillHolds(k)'
  BY <1>2, <1>6, <1>11, TimedAfterDelete DEF timerDel, TypeOK
<1>12. ASSUME NEW fd \in Fd, NEW type, NEW func, NEW outcome,
              CreateTimer(fd, type, func, outcome)
       PROVE  StillHolds(k)'
  <2>1. fd # x
    BY <1>5, <1>12 DEF CreateTimer, Lowest, Free
  <2>2. Timed(x)' => Timed(x)
    BY <1>2, <1>12, <2>1, TimedAfterCreate
  <2> QED BY <1>2, <1>6, <1>12, <2>1, <2>2 DEF CreateTimer, Reopened, TypeOK
<1>13. ASSUME NEW fd \in Fd, NEW type, NEW time, NEW later, NEW func,
              timerAdd(fd, type, time, later, func)
              \/ timerAddMs(fd, type, time, later, func)
       PROVE  StillHolds(k)'
  BY <1>12, <1>13 DEF timerAdd, timerAddMs
<1>14. ASSUME timerClear PROVE StillHolds(k)'
  <2>1. ~Timed(x)'
    BY <1>14 DEF timerClear, Timed, ToSet
  <2> QED BY <1>6, <1>14, <2>1 DEF timerClear
<1> QED BY <1>7, <1>8, <1>9, <1>10, <1>11, <1>13, <1>14 DEF App

\* The round starts with valid entries of distinct descriptors.
LEMMA PollStartsRound ==
    ASSUME IInv, pollReady
    PROVE  DistinctPolled' /\ \A k \in DOMAIN poll_fds' : StillHolds(k)'
<1> DEFINE m == Len(ioEventList)
           n == Len(timerList)
<1>1. /\ TypeOK /\ UniqueRegistration /\ RegisteredIsOpen
      /\ ioEventList \in Seq(IoEventData) /\ timerList \in Seq(TimerData)
  BY DEF IInv, TypeOK
<1>2. /\ m \in Nat /\ DOMAIN ioEventList = 1..m
      /\ n \in Nat /\ DOMAIN timerList = 1..n
  BY <1>1, LenProperties
<1>3. /\ poll_fds' = Polled /\ reopened' = {}
      /\ UNCHANGED <<kind, ready, ioEventList, timerList>>
  BY DEF pollReady, kernelVars, listVars
<1>4. DOMAIN Polled = 1..(m + n)
  BY DEF Polled
<1>5. ASSUME NEW k \in 1..(m + n)
      PROVE  \/ /\ k \in 1..m
                /\ Polled[k].fd = ioEventList[k].fd
             \/ /\ ~(k <= m) /\ k - m \in 1..n
                /\ Polled[k].fd = timerList[k - m].id
                /\ Polled[k].revents = ready[Polled[k].fd] \cap {"IN"}
  BY <1>2 DEF Polled
<1> HIDE DEF m, n, Polled
<1>6. DistinctPolled'
  BY <1>1, <1>2, <1>3, <1>4, <1>5 DEF DistinctPolled, UniqueRegistration
<1>7. ASSUME NEW k \in 1..(m + n) PROVE StillHolds(k)'
  <2>0. PICK x : x = Polled[k].fd
    OBVIOUS
  <2>1. Timed(x)' <=> Timed(x)
    BY <1>3 DEF Timed
  <2>2. CASE k \in 1..m /\ Polled[k].fd = ioEventList[k].fd
    <3>1. kind[Polled[k].fd] = "io"
      BY <1>1, <1>2, <2>2 DEF RegisteredIsOpen
    <3>2. ~Timed(x)
      BY <2>0, <3>1, TimedIsTimer
    <3> QED BY <1>3, <2>0, <2>1, <3>1, <3>2 DEF StillHolds
  <2>3. CASE /\ k - m \in 1..n
             /\ Polled[k].fd = timerList[k - m].id
             /\ Polled[k].revents = ready[Polled[k].fd] \cap {"IN"}
    <3>1. kind[Polled[k].fd] = "timer"
      BY <1>1, <1>2, <2>3 DEF RegisteredIsOpen
    <3>2. Polled[k].revents # {} => "IN" \in ready[Polled[k].fd]
      BY <2>3
    <3> QED BY <1>3, <3>1, <3>2 DEF StillHolds
  <2> QED BY <1>5, <2>2, <2>3
<1> QED BY <1>3, <1>4, <1>6, <1>7


\* The kernel only adds readiness to what is registered.
LEMMA KernelKeepsEntries ==
    ASSUME IInv, Kernel, NEW k \in DOMAIN poll_fds, StillHolds(k)
    PROVE  StillHolds(k)'
<1>1. PICK x : x = poll_fds[k].fd
  OBVIOUS
<1>2. TypeOK /\ (Timed(x) => kind[x] = "timer")
  BY TimedIsTimer DEF IInv
<1>3. ASSUME UNCHANGED <<poll_fds, i, kind, reopened, timerList>>,
             "IN" \in ready[x] => "IN" \in ready'[x]
      PROVE  StillHolds(k)'
  <2>1. Timed(x)' <=> Timed(x)
    BY <1>3 DEF Timed
  <2> QED BY <1>1, <1>3, <2>1, StillHoldsStable
<1>4. ASSUME NEW fd \in Fd, NEW e \in Event, Arrive(fd, e) PROVE StillHolds(k)'
  BY <1>2, <1>3, <1>4 DEF Arrive, TypeOK, listVars, roundVars
<1>5. ASSUME NEW fd \in Fd, Expire(fd) PROVE StillHolds(k)'
  BY <1>2, <1>3, <1>5 DEF Expire, TypeOK, listVars, roundVars
<1> QED BY <1>4, <1>5 DEF Kernel

\* Every step preserves the round invariant.
LEMMA NextRoundInv ==
    ASSUME ~CloseOthers, IInv, RoundInv, [Next]_vars
    PROVE  RoundInv'
<1>1. /\ TypeOK /\ poll_fds \in Seq(PollFd) /\ i \in Nat
      /\ Len(poll_fds) \in Nat /\ DOMAIN poll_fds = 1..Len(poll_fds)
  <2>1. TypeOK /\ poll_fds \in Seq(PollFd)
    BY DEF IInv, TypeOK
  <2>2. Len(poll_fds) \in Nat /\ DOMAIN poll_fds = 1..Len(poll_fds)
    BY <2>1, LenProperties
  <2> QED BY <2>1, <2>2 DEF TypeOK
<1>2. ASSUME pc' \in {"dispatch", "read", "callback"} =>
                pc \in {"dispatch", "read", "callback"},
             UNCHANGED poll_fds,
             \A k \in DOMAIN poll_fds : Ahead(k)' => Ahead(k) /\ StillHolds(k)'
      PROVE  RoundInv'
  BY <1>2 DEF RoundInv, DistinctPolled
<1>3. CASE App \/ timerClear
  <2>1. UNCHANGED <<pc, poll_fds, i>>
    BY <1>3, AppLeavesRound DEF roundVars
  <2>2. ASSUME NEW k \in DOMAIN poll_fds, Ahead(k)'
        PROVE  Ahead(k) /\ StillHolds(k)'
    <3>1. Ahead(k)
      BY <2>1, <2>2 DEF Ahead
    <3> QED BY <1>3, <3>1, AppKeepsEntries
  <2> QED BY <1>2, <2>1, <2>2
<1>4. CASE Kernel
  <2>1. UNCHANGED <<pc, poll_fds, i>>
    BY <1>4 DEF Kernel, Arrive, Expire, roundVars
  <2>2. ASSUME NEW k \in DOMAIN poll_fds, Ahead(k)'
        PROVE  Ahead(k) /\ StillHolds(k)'
    <3>1. Ahead(k)
      BY <2>1, <2>2 DEF Ahead
    <3>2. StillHolds(k)
      BY <3>1 DEF RoundInv
    <3> QED BY <1>4, <3>1, <3>2, KernelKeepsEntries
  <2> QED BY <1>2, <2>1, <2>2
<1>5. CASE pollReady
  <2>1. DistinctPolled' /\ \A k \in DOMAIN poll_fds' : StillHolds(k)'
    BY <1>5, PollStartsRound
  <2> QED BY <2>1 DEF RoundInv
<1>6. CASE startLoop \/ roundEnd
  <2>1. pc' = "poll"
    BY <1>6 DEF startLoop, roundEnd
  <2> QED BY <2>1 DEF RoundInv, Ahead
<1>7. ASSUME pc \in {"dispatch", "read", "callback"},
             UNCHANGED <<poll_fds, kind, reopened, timerList>>,
             \A k \in DOMAIN poll_fds : Ahead(k)' => Ahead(k),
             \A k \in DOMAIN poll_fds : Ahead(k)' /\ "IN" \in ready[poll_fds[k].fd]
                => "IN" \in ready'[poll_fds[k].fd]
      PROVE  RoundInv'
  <2>1. ASSUME NEW k \in DOMAIN poll_fds, Ahead(k)' PROVE StillHolds(k)'
    <3>1. PICK x : x = poll_fds[k].fd
      OBVIOUS
    <3>2. Timed(x)' <=> Timed(x)
      BY <1>7 DEF Timed
    <3>3. StillHolds(k)
      BY <1>7, <2>1 DEF RoundInv
    <3> QED BY <1>7, <2>1, <3>1, <3>2, <3>3 DEF StillHolds
  <2> QED BY <1>2, <1>7, <2>1
<1>8. CASE dispatchNone \/ callbackReturn
  BY <1>1, <1>7, <1>8
  DEF dispatchNone, callbackReturn, Ahead, kernelVars, listVars
<1>9. CASE dispatchIo \/ dispatchTimer
  BY <1>1, <1>7, <1>9
  DEF dispatchIo, dispatchTimer, Run, Ahead, kernelVars, listVars
<1>10. CASE timerRead
  <2>1. pc = "read" /\ UNCHANGED <<poll_fds, kind, reopened, timerList>>
    BY <1>10 DEF timerRead, listVars
  <2>2. \A k \in DOMAIN poll_fds : Ahead(k)' => Ahead(k) /\ k # i
    BY <1>1, <1>10 DEF timerRead, Run, Ahead
  <2>3. i \in DOMAIN poll_fds /\ DistinctPolled
    BY <1>1, <2>1 DEF TypeOK, RoundInv
  <2>4. \A k \in DOMAIN poll_fds :
          k # i => ready'[poll_fds[k].fd] = ready[poll_fds[k].fd]
    BY <1>1, <1>10, <2>3 DEF timerRead, DistinctPolled, TypeOK
  <2> QED BY <1>7, <2>1, <2>2, <2>4
<1>11. CASE UNCHANGED vars
  BY <1>11
  DEF vars, RoundInv, DistinctPolled, Ahead, StillHolds, Timed
<1> QED BY <1>3, <1>4, <1>5, <1>6, <1>8, <1>9, <1>10, <1>11
        DEF Next, Loop, pollIdle

\* The round invariant holds throughout.
THEOREM RoundInvariant ==
    ASSUME ~CloseOthers
    PROVE  Spec => [](IInv /\ RoundInv)
<1>1. Init => IInv /\ RoundInv
  <2>1. Init => RoundInv
    BY DEF Init, RoundInv, Ahead
  <2> QED BY <2>1, InitIInv
<1>2. IInv /\ [Next]_vars => IInv'
  BY NextTypeOK, NextRegistered, NextReadsATimer DEF IInv
<1>3. IInv /\ RoundInv /\ [Next]_vars => (IInv /\ RoundInv)'
  BY <1>2, NextRoundInv
<1> QED BY <1>1, <1>3, PTL DEF Spec

\* The entry being dispatched or read is valid.
LEMMA CurrentEntryHolds ==
    ASSUME IInv, RoundInv, pc \in {"dispatch", "read"}, i <= Len(poll_fds)
    PROVE  StillHolds(i)
<1>1. poll_fds \in Seq(PollFd) /\ i \in Nat /\ i >= 1
  BY DEF IInv, TypeOK
<1>2. i \in DOMAIN poll_fds
  BY <1>1, LenProperties
<1> QED BY <1>2 DEF RoundInv, Ahead

\* When callbacks close only their own descriptors, the blocking read of a
\* timer's descriptor never holds the loop up: nothing that runs between the
\* poll and the read takes the expiration away and leaves the timer registered.
THEOREM ReadsNeverBlock ==
    ASSUME ~CloseOthers
    PROVE  Spec => []ReadNeverBlocks
<1>1. IInv /\ RoundInv => ReadNeverBlocks
  <2> SUFFICES ASSUME IInv, RoundInv, pc = "read"
               PROVE  "IN" \in ready[poll_fds[i].fd]
    BY DEF ReadNeverBlocks
  <2>1. StillHolds(i)
    BY CurrentEntryHolds DEF IInv, TypeOK
  <2>2. poll_fds[i].revents # {} /\ MatchedTimer # 0
    BY DEF IInv, ReadsATimer
  <2>3. /\ MatchedTimer \in DOMAIN timerList
        /\ timerList[MatchedTimer].id = poll_fds[i].fd
    BY <2>2, MatchedProperties, LenProperties DEF IInv, TypeOK
  <2>4. Timed(poll_fds[i].fd)
    BY <2>3 DEF Timed, ToSet
  <2> QED BY <2>1, <2>2, <2>4 DEF StillHolds
<1> QED BY RoundInvariant, <1>1, PTL

\* When callbacks close only their own descriptors, no callback is started for
\* a descriptor that was opened after the poll that reported it.
THEOREM DeliveryIsNeverStale ==
    ASSUME ~CloseOthers
    PROVE  Spec => NoStaleDelivery
<1>1. ASSUME IInv, RoundInv, [Next]_vars, pc # "callback", pc' = "callback"
      PROVE  poll_fds[i].fd \notin reopened
  <2>1. CASE dispatchIo \/ timerRead
    <3>1. pc \in {"dispatch", "read"} /\ (pc = "dispatch" => dispatchIo)
      BY <2>1 DEF dispatchIo, timerRead
    <3>2. i <= Len(poll_fds)
      BY <1>1, <3>1 DEF dispatchIo, IInv, TypeOK
    <3>3. StillHolds(i)
      BY <1>1, <3>1, <3>2, CurrentEntryHolds
    <3> QED BY <3>3 DEF StillHolds
  <2>2. CASE App \/ timerClear
    BY <1>1, <2>2, AppLeavesRound DEF roundVars
  <2>3. CASE ~(dispatchIo \/ timerRead) /\ ~(App \/ timerClear)
    BY <1>1, <2>3
    DEF Next, Kernel, Arrive, Expire, startLoop, Loop, pollReady, pollIdle,
        dispatchNone, dispatchTimer, callbackReturn, roundEnd, roundVars, vars
  <2> QED BY <2>1, <2>2, <2>3
<1>2. IInv /\ RoundInv /\ [Next]_vars =>
        [(pc # "callback" /\ pc' = "callback") =>
            poll_fds[i].fd \notin reopened]_vars
  BY <1>1
<1> QED BY RoundInvariant, <1>2, PTL DEF Spec, NoStaleDelivery

=============================================================================
