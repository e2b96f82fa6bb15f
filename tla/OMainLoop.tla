------------------------------ MODULE OMainLoop ------------------------------
(***************************************************************************)
(* The event loop of libcmpt (lib/libcmpt/src/OMainLoop.c).  An            *)
(* application registers descriptors (ioEventAdd) and timers (timerAdd,    *)
(* timerAddMs); doEventLoop copies both lists into poll_fds, polls, and    *)
(* walks over the copy, looking every ready descriptor up in the CURRENT   *)
(* lists before it runs a callback.  Callbacks call the same API, open and *)
(* close descriptors, so between the poll and the lookup a descriptor may  *)
(* have been deleted, closed, or reused for something else.                *)
(*                                                                         *)
(* The kernel's share (descriptor table, timerfd, poll) is modelled from   *)
(* its use here: a new descriptor is the lowest free one, a timerfd is     *)
(* readable when it has expired, and read() of one blocks until it is      *)
(* (timerfd_create is called without TFD_NONBLOCK).                        *)
(***************************************************************************)
EXTENDS Integers, SequencesExt

CONSTANTS
    NFd,         \* descriptors 1..NFd are the ones the process may open
    PollMax,     \* size of the array poll_fds, 1024 in the code
    Handler,     \* what the application passes as cb_func
    NULL,        \* the null function pointer, which both dispatches skip
    Masks,       \* the event masks the application passes to ioEventAdd
    IoEvents,    \* the conditions the files of this instance can show
    TimerTypes,  \* the timer types the application of this instance uses
    CloseOthers  \* may a callback close a descriptor that is not its own?

Fd == 1..NFd
Event == {"IN", "OUT", "HUP"}
Type == {"RUN_AT", "RUN_AFTER", "RUN_EVERY"}

ASSUME SizesAssumption == NFd \in Nat \ {0} /\ PollMax \in Nat
ASSUME EventAssumption ==
    /\ IoEvents \subseteq Event
    /\ Masks \subseteq SUBSET {"IN", "OUT"}
    /\ TimerTypes \subseteq Type
    /\ CloseOthers \in BOOLEAN

\* The process limit on descriptors (ulimit -n, which initOMainLoopObj prints)
\* is not above the length of poll_fds.
FdLimitFitsPoll == NFd <= PollMax

VARIABLES
    kind,         \* descriptor table: what each descriptor refers to
    ready,        \* what poll would report for it now
    arm,          \* timerfd: "off", "once" or "every"
    ioEventList,  \* privateData->ioEventList: registered descriptors
    timerList,    \* privateData->timerList: registered timers
    known,        \* timer ids that were handed to the application
    pc,           \* where the only thread is
    poll_fds,     \* the array the last poll filled
    i,            \* index of the entry of poll_fds being dispatched
    cb,           \* the callback being run, or NULL
    reopened      \* history: descriptors callbacks opened since the last poll

kernelVars == <<kind, ready, arm>>
listVars == <<ioEventList, timerList>>
roundVars == <<pc, poll_fds, i, cb>>
vars == <<kind, ready, arm, ioEventList, timerList, known, pc, poll_fds, i,
          cb, reopened>>

Time == {"negative", "zero", "subsecond", "later"}
IoEventData == [fd : Fd, event : SUBSET Event, cb_func : Handler]
TimerData == [id : Fd, type : Type, cb_func : Handler]
PollFd == [fd : Fd, revents : SUBSET Event]

-----------------------------------------------------------------------------
(* Lookups: every list function scans for the first match; 0 is no match. *)

IoIndex(fd) == SelectInSeq(ioEventList, LAMBDA e : e.fd = fd)
TimerIndex(id) == SelectInSeq(timerList, LAMBDA t : t.id = id)

Watched(fd) == \E e \in ToSet(ioEventList) : e.fd = fd
Timed(id) == \E t \in ToSet(timerList) : t.id = id

Free == {fd \in Fd : kind[fd] = "free"}

\* open() and timerfd_create() return the lowest free descriptor.
Lowest(fd) == fd \in Free /\ \A g \in Free : fd <= g

\* The application's code runs before doEventLoop and inside callbacks.
AppRuns == pc \in {"app", "callback"}

\* fd is the descriptor (or the timer id) the running callback was called with.
Served(fd) == pc = "callback" /\ poll_fds[i].fd = fd

-----------------------------------------------------------------------------
(* What timerfd_settime does with the itimerspec that is computed.  Time   *)
(* stands for time_s relative to now for RUN_AT, and for the length        *)
(* otherwise; later is "startTime_s is in the future".  An it_value of     *)
(* zero leaves the timer disarmed; a negative one is refused.              *)

\* timerAddMs reads the clock once.  RUN_AT compares whole seconds only; a
\* length below one second is in tv_nsec, which timerAdd has no way to say.
ArmingMs(type, time, later) ==
    CASE type = "RUN_AT" -> {IF time = "later" THEN "once" ELSE "off"}
      [] type = "RUN_AFTER" ->
           IF time = "negative"
           THEN IF later THEN {"once", "off", "EINVAL"} ELSE {"EINVAL"}
           ELSE {IF time = "zero" /\ ~later THEN "off" ELSE "once"}
      [] type = "RUN_EVERY" ->
           IF time = "negative" THEN {"EINVAL"}
           ELSE IF time # "zero" THEN {"every"}
           ELSE {IF later THEN "once" ELSE "off"}

\* timerAdd reads it twice, for the comparison and for the difference: when the
\* second ticks in between, a difference that is all there is may come out as 0.
Arming(type, time, later) ==
    ArmingMs(type, time, later) \cup
    (IF IF type = "RUN_AT" THEN time = "later" ELSE time = "zero" /\ later
     THEN {"off"} ELSE {})

-----------------------------------------------------------------------------
Init ==
    /\ kind = [fd \in Fd |-> "free"]
    /\ ready = [fd \in Fd |-> {}]
    /\ arm = [fd \in Fd |-> "off"]
    /\ ioEventList = <<>>
    /\ timerList = <<>>
    /\ known = {}
    /\ pc = "app"
    /\ poll_fds = <<>>
    /\ i = 1
    /\ cb = NULL
    /\ reopened = {}

-----------------------------------------------------------------------------
(* The application's own calls on its descriptors. *)

Reopened(fd) == IF pc = "callback" THEN reopened \cup {fd} ELSE {}

Open(fd) ==
    /\ AppRuns
    /\ Lowest(fd)
    /\ kind' = [kind EXCEPT ![fd] = "io"]
    /\ reopened' = Reopened(fd)
    /\ UNCHANGED <<ready, arm, ioEventList, timerList, known, roundVars>>

\* close(), after ioEventDel, as eventsCallback in OMainLoop_test.c does it.
\* Unless CloseOthers, a callback closes only the descriptor it was run for
\* and those that were opened after the poll.
Close(fd) ==
    /\ AppRuns
    /\ kind[fd] = "io"
    /\ ~Watched(fd)
    /\ \/ pc = "app" \/ CloseOthers
       \/ Served(fd) \/ fd \in reopened
    /\ kind' = [kind EXCEPT ![fd] = "free"]
    /\ ready' = [ready EXCEPT ![fd] = {}]
    /\ UNCHANGED <<arm, listVars, known, roundVars, reopened>>

\* read() or write() on a descriptor uses up its readiness.
Consume(fd, e) ==
    /\ AppRuns
    /\ kind[fd] = "io"
    /\ e \in ready[fd] \ {"HUP"}
    /\ ready' = [ready EXCEPT ![fd] = @ \ {e}]
    /\ UNCHANGED <<kind, arm, listVars, known, roundVars, reopened>>

-----------------------------------------------------------------------------
(* The API of the loop. *)

\* Mutant: the scan for an existing entry is left out.
WithEventAppended(fd, event, func) ==
    Append(ioEventList, [fd |-> fd, event |-> event, cb_func |-> func])

\* The list ioEventAdd leaves: the entry of fd overwritten, or one appended.
WithEvent(fd, event, func) ==
    LET data == [fd |-> fd, event |-> event, cb_func |-> func] IN
    IF IoIndex(fd) # 0
    THEN ReplaceAt(ioEventList, IoIndex(fd), data)
    ELSE Append(ioEventList, data)

ioEventAdd(fd, event, func) ==
    /\ AppRuns
    /\ kind[fd] = "io"
    /\ ioEventList' = WithEvent(fd, event, func)
    /\ UNCHANGED <<kernelVars, timerList, known, roundVars, reopened>>

\* Mutant: the descriptor is closed by the loop, as its owner may do too.
ioEventDelCloses(fd) ==
    /\ AppRuns
    /\ IoIndex(fd) # 0
    /\ ioEventList' = RemoveAt(ioEventList, IoIndex(fd))
    /\ kind' = [kind EXCEPT ![fd] = "free"]
    /\ UNCHANGED <<ready, arm, timerList, known, roundVars, reopened>>

ioEventDel(fd) ==
    /\ AppRuns
    /\ IoIndex(fd) # 0
    /\ ioEventList' = RemoveAt(ioEventList, IoIndex(fd))
    /\ UNCHANGED <<kernelVars, timerList, known, roundVars, reopened>>

\* The part timerAdd and timerAddMs share.  A refused settime returns without
\* closing the new descriptor.
CreateTimer(fd, type, func, outcome) ==
    /\ AppRuns
    /\ Lowest(fd)
    /\ kind' = [kind EXCEPT ![fd] = "timer"]
    /\ reopened' = Reopened(fd)
    /\ IF outcome = "EINVAL"
       THEN UNCHANGED <<arm, timerList>>
       ELSE /\ arm' = [arm EXCEPT ![fd] = outcome]
            /\ timerList' = Append(timerList,
                               [id |-> fd, type |-> type, cb_func |-> func])
    /\ UNCHANGED <<ready, ioEventList, roundVars>>

timerAdd(fd, type, time, later, func) ==
    \E outcome \in Arming(type, time, later) :
        /\ CreateTimer(fd, type, func, outcome)
        /\ known' = IF outcome = "EINVAL" THEN known ELSE known \cup {fd}

\* timerAddMs returns 0: the application does not learn the id.
timerAddMs(fd, type, time, later, func) ==
    \E outcome \in ArmingMs(type, time, later) :
        /\ CreateTimer(fd, type, func, outcome)
        /\ known' = known

\* Mutant: the descriptor is closed, so that a new timer can get its number.
timerDelCloses(id) ==
    /\ AppRuns
    /\ id \in known \/ Served(id)
    /\ TimerIndex(id) # 0
    /\ kind' = [kind EXCEPT ![id] = "free"]
    /\ arm' = [arm EXCEPT ![id] = "off"]
    /\ ready' = [ready EXCEPT ![id] = {}]
    /\ timerList' = RemoveAt(timerList, TimerIndex(id))
    /\ UNCHANGED <<ioEventList, known, roundVars, reopened>>

\* The id comes from timerAdd, or is the argument of the timer's callback.
\* The timer is disarmed, which also drops a pending expiration, and its
\* entry erased; the descriptor stays open.
timerDel(id) ==
    /\ AppRuns
    /\ id \in known \/ Served(id)
    /\ TimerIndex(id) # 0
    /\ arm' = [arm EXCEPT ![id] = "off"]
    /\ ready' = [ready EXCEPT ![id] = {}]
    /\ timerList' = RemoveAt(timerList, TimerIndex(id))
    /\ UNCHANGED <<kind, ioEventList, known, roundVars, reopened>>

timerClear ==
    /\ AppRuns
    /\ timerList # <<>>
    /\ arm' = [fd \in Fd |-> IF Timed(fd) THEN "off" ELSE arm[fd]]
    /\ ready' = [fd \in Fd |-> IF Timed(fd) THEN {} ELSE ready[fd]]
    /\ timerList' = <<>>
    /\ UNCHANGED <<kind, ioEventList, known, roundVars, reopened>>

-----------------------------------------------------------------------------
(* The kernel. *)

\* A file becomes readable or writable, or its peer hangs up.
Arrive(fd, e) ==
    /\ kind[fd] = "io"
    /\ e \in IoEvents \ ready[fd]
    /\ ready' = [ready EXCEPT ![fd] = @ \cup {e}]
    /\ UNCHANGED <<kind, arm, listVars, known, roundVars, reopened>>

Expire(fd) ==
    /\ arm[fd] # "off"
    /\ "IN" \notin ready[fd]
    /\ ready' = [ready EXCEPT ![fd] = {"IN"}]
    /\ arm' = [arm EXCEPT ![fd] = IF @ = "once" THEN "off" ELSE @]
    /\ UNCHANGED <<kind, listVars, known, roundVars, reopened>>

-----------------------------------------------------------------------------
(* doEventLoop. *)

startLoop ==
    /\ pc = "app"
    /\ pc' = "poll"
    /\ UNCHANGED <<kernelVars, listVars, known, poll_fds, i, cb, reopened>>

\* The array as poll returns it: first the io entries, then the timers.
\* POLLHUP is reported whatever the mask is.
Polled ==
    [k \in 1..(Len(ioEventList) + Len(timerList)) |->
        IF k <= Len(ioEventList)
        THEN [fd |-> ioEventList[k].fd,
              revents |-> ready[ioEventList[k].fd]
                             \cap (ioEventList[k].event \cup {"HUP"})]
        ELSE [fd |-> timerList[k - Len(ioEventList)].id,
              revents |-> ready[timerList[k - Len(ioEventList)].id]
                             \cap {"IN"}]]

SomeReady == \E k \in DOMAIN Polled : Polled[k].revents # {}

\* Nothing to watch (sleep), nothing ready within a second (0), or a signal
\* while nothing is ready (-1): the round is over.
pollIdle ==
    /\ pc = "poll"
    /\ ~SomeReady
    /\ UNCHANGED vars

pollReady ==
    /\ pc = "poll"
    /\ SomeReady
    /\ poll_fds' = Polled
    /\ i' = 1
    /\ pc' = "dispatch"
    /\ reopened' = {}
    /\ UNCHANGED <<kernelVars, listVars, known, cb>>

\* Mutant: the entry of the list is taken by its position at the poll.
MatchedByPosition == IF i <= Len(ioEventList) THEN i ELSE 0

\* The registrations that poll_fds[i] matches now.
MatchedIo == IoIndex(poll_fds[i].fd)
MatchedTimer == IF MatchedIo # 0 THEN 0 ELSE TimerIndex(poll_fds[i].fd)

\* Run func, or go on with the next entry when it is null.
Run(func) ==
    IF func = NULL
    THEN /\ i' = i + 1
         /\ pc' = "dispatch"
         /\ cb' = NULL
    ELSE /\ cb' = func
         /\ pc' = "callback"
         /\ i' = i

\* Mutant: the index is not advanced past an entry without an event.
dispatchNoneStays ==
    /\ pc = "dispatch"
    /\ i <= Len(poll_fds)
    /\ poll_fds[i].revents = {} \/ (MatchedIo = 0 /\ MatchedTimer = 0)
    /\ UNCHANGED vars

dispatchNone ==
    /\ pc = "dispatch"
    /\ i <= Len(poll_fds)
    /\ poll_fds[i].revents = {} \/ (MatchedIo = 0 /\ MatchedTimer = 0)
    /\ i' = i + 1
    /\ UNCHANGED <<kernelVars, listVars, known, pc, poll_fds, cb, reopened>>

dispatchIo ==
    /\ pc = "dispatch"
    /\ i <= Len(poll_fds)
    /\ poll_fds[i].revents # {}
    /\ MatchedIo # 0
    /\ Run(ioEventList[MatchedIo].cb_func)
    /\ UNCHANGED <<kernelVars, listVars, known, poll_fds, reopened>>

dispatchTimer ==
    /\ pc = "dispatch"
    /\ i <= Len(poll_fds)
    /\ poll_fds[i].revents # {}
    /\ MatchedTimer # 0
    /\ pc' = "read"
    /\ UNCHANGED <<kernelVars, listVars, known, poll_fds, i, cb, reopened>>

\* read(poll_fds[i].fd, &exp, ...) waits until the timer has expired.
timerRead ==
    /\ pc = "read"
    /\ "IN" \in ready[poll_fds[i].fd]
    /\ ready' = [ready EXCEPT ![poll_fds[i].fd] = {}]
    /\ Run(timerList[MatchedTimer].cb_func)
    /\ UNCHANGED <<kind, arm, listVars, known, poll_fds, reopened>>

\* Mutant: the loop over poll_fds is left after the first callback.
callbackReturnBreaks ==
    /\ pc = "callback"
    /\ pc' = "poll"
    /\ poll_fds' = <<>>
    /\ i' = 1
    /\ cb' = NULL
    /\ reopened' = {}
    /\ UNCHANGED <<kernelVars, listVars, known>>

callbackReturn ==
    /\ pc = "callback"
    /\ pc' = "dispatch"
    /\ i' = i + 1
    /\ cb' = NULL
    /\ UNCHANGED <<kernelVars, listVars, known, poll_fds, reopened>>

\* The stale array and index are dead until the next poll fills them.
roundEnd ==
    /\ pc = "dispatch"
    /\ i > Len(poll_fds)
    /\ pc' = "poll"
    /\ poll_fds' = <<>>
    /\ i' = 1
    /\ reopened' = {}
    /\ UNCHANGED <<kernelVars, listVars, known, cb>>

-----------------------------------------------------------------------------
App ==
    \E fd \in Fd :
        \/ Open(fd)
        \/ Close(fd)
        \/ \E e \in Event : Consume(fd, e)
        \/ \E event \in Masks, func \in Handler : ioEventAdd(fd, event, func)
        \/ ioEventDel(fd)
        \/ timerDel(fd)
        \/ \E type \in TimerTypes, later \in BOOLEAN, func \in Handler :
              \/ \E time \in Time \ {"subsecond"} :
                    timerAdd(fd, type, time, later, func)
              \/ \E time \in Time : timerAddMs(fd, type, time, later, func)

Kernel == \E fd \in Fd : Expire(fd) \/ \E e \in Event : Arrive(fd, e)

Loop ==
    \/ pollReady \/ pollIdle \/ dispatchNone \/ dispatchIo \/ dispatchTimer
    \/ timerRead \/ callbackReturn \/ roundEnd

Next == App \/ timerClear \/ Kernel \/ startLoop \/ Loop

Spec == Init /\ [][Next]_vars

\* The loop's thread runs on, main does call doEventLoop, a callback returns,
\* and an armed timer expires.
Fairness ==
    /\ WF_vars(Loop)
    /\ WF_vars(startLoop)
    /\ \A fd \in Fd : WF_vars(Expire(fd))

FairSpec == Spec /\ Fairness
-----------------------------------------------------------------------------
(* Properties. *)

TypeOK ==
    /\ kind \in [Fd -> {"free", "io", "timer"}]
    /\ ready \in [Fd -> SUBSET Event]
    /\ arm \in [Fd -> {"off", "once", "every"}]
    /\ ioEventList \in Seq(IoEventData)
    /\ timerList \in Seq(TimerData)
    /\ known \subseteq Fd
    /\ pc \in {"app", "poll", "dispatch", "read", "callback"}
    /\ poll_fds \in Seq(PollFd)
    /\ i \in 1..(Len(poll_fds) + 1)
    /\ pc \in {"read", "callback"} => i <= Len(poll_fds)
    /\ cb \in Handler \cup {NULL}
    /\ reopened \subseteq Fd

\* A descriptor has at most one entry in the two lists together: the first
\* match that ioEventDel, timerDel and the dispatch stop at is the only one.
\* It rests on ioEventAdd's scan and on timerfd_create never returning a
\* descriptor that is still registered.
UniqueRegistration ==
    /\ \A j, k \in DOMAIN ioEventList :
          ioEventList[j].fd = ioEventList[k].fd => j = k
    /\ \A j, k \in DOMAIN timerList : timerList[j].id = timerList[k].id => j = k
    /\ \A j \in DOMAIN ioEventList, k \in DOMAIN timerList :
          ioEventList[j].fd # timerList[k].id

\* doEventLoop fills poll_fds without looking at its length: what is
\* registered when it starts a round fits, because descriptors are unique.
PollFdsFit == pc = "poll" => Len(ioEventList) + Len(timerList) <= PollMax

\* The callback that is started is the one registered now for the descriptor
\* whose entry is dispatched, so one deleted or replaced earlier in the same
\* round is not run.
RunsRegisteredCallback ==
    [][(pc # "callback" /\ pc' = "callback") =>
        \/ \E e \in ToSet(ioEventList) :
              e.fd = poll_fds[i].fd /\ e.cb_func = cb'
        \/ \E t \in ToSet(timerList) :
              t.id = poll_fds[i].fd /\ t.cb_func = cb']_vars

\* An event is delivered to the file it happened to: no callback starts for a
\* descriptor that was closed and opened again after the poll (doEventLoop
\* matches by number alone, and the number may have been reused).
NoStaleDelivery ==
    [][(pc # "callback" /\ pc' = "callback") =>
        poll_fds[i].fd \notin reopened]_vars

\* The read of an expired timer's descriptor never blocks the loop, although
\* the descriptor is a blocking one and other callbacks ran after the poll.
ReadNeverBlocks == pc = "read" => "IN" \in ready[poll_fds[i].fd]

\* Every round ends: the loop is never held up between two polls for good.
RoundEnds == (pc # "app") ~> (pc = "poll")

\* A registered descriptor with an event it waits for gets its callback, or
\* stops being so, however many other descriptors and timers are busy.
Pending(fd) ==
    \E e \in ToSet(ioEventList) :
        /\ e.fd = fd
        /\ e.cb_func # NULL
        /\ ready[fd] \cap (e.event \cup {"HUP"}) # {}

EventIsServed == \A fd \in Fd : Pending(fd) ~> (Served(fd) \/ ~Pending(fd))

\* A timer that was armed runs its callback unless it is deleted first: the
\* expiration is not lost between timerfd_settime, poll and read.
Due(fd) ==
    /\ \E t \in ToSet(timerList) : t.id = fd /\ t.cb_func # NULL
    /\ arm[fd] # "off" \/ "IN" \in ready[fd]

TimerIsServed == \A fd \in Fd : Due(fd) ~> (Served(fd) \/ ~Timed(fd))

\* Nobody is starved: both, although the same round serves events and timers,
\* and callbacks may register more of either.
ReadyIsServed == EventIsServed /\ TimerIsServed

-----------------------------------------------------------------------------
(* The inductive invariant behind the safety properties. *)

\* What is registered is open, and of the right kind: close comes after
\* ioEventDel, and nothing closes a timer.
RegisteredIsOpen ==
    /\ \A k \in DOMAIN ioEventList : kind[ioEventList[k].fd] = "io"
    /\ \A k \in DOMAIN timerList : kind[timerList[k].id] = "timer"

\* The loop reads only what it has just found in the timer list.
ReadsATimer ==
    pc = "read" => poll_fds[i].revents # {} /\ MatchedTimer # 0

IInv == TypeOK /\ UniqueRegistration /\ RegisteredIsOpen /\ ReadsATimer

\* Entries of poll_fds that are still to be dispatched.
Ahead(k) ==
    /\ pc \in {"dispatch", "read", "callback"}
    /\ k \in DOMAIN poll_fds
    /\ k > i \/ (k = i /\ pc # "callback")

\* The descriptor of the entry is still the one that was polled, and a timer
\* that was reported and is registered has still expired.
StillHolds(k) ==
    /\ poll_fds[k].fd \notin reopened
    /\ kind[poll_fds[k].fd] # "free"
    /\ poll_fds[k].revents # {} /\ Timed(poll_fds[k].fd) =>
          "IN" \in ready[poll_fds[k].fd]

DistinctPolled ==
    \A j, k \in DOMAIN poll_fds : poll_fds[j].fd = poll_fds[k].fd => j = k

\* Holds as long as a callback closes no descriptor but its own.
RoundInv ==
    /\ pc \in {"dispatch", "read", "callback"} => DistinctPolled
    /\ \A k \in DOMAIN poll_fds : Ahead(k) => StillHolds(k)

-----------------------------------------------------------------------------
(* What the comments say and the code does not do. *)

\* OMainLoop.h: a RUN_AT or RUN_AFTER timer runs its callback when it expires
\* and is deleted automatically.
AutoDelete ==
    [][(pc = "callback" /\ pc' = "dispatch") =>
        \A t \in ToSet(timerList') :
            t.id = poll_fds[i].fd => t.type = "RUN_EVERY"]_vars

\* ioEventAdd's comment: adding a descriptor again appends to its events.
AddAppendsEvents ==
    [][\A e \in ToSet(ioEventList), f \in ToSet(ioEventList') :
        e.fd = f.fd => e.event \subseteq f.event]_vars

\* timerAddMs's comment: it returns the new timer's id, greater than 0; so the
\* application holds the id of every timer it has.
IdIsReturned == \A t \in ToSet(timerList) : t.id \in known

\* timerDel's comment: the timer is closed.
ClosedWhenDeleted ==
    [][\A id \in Fd : Timed(id) /\ ~Timed(id)' => kind'[id] = "free"]_vars

\* The comments on RUN_AT: its callback runs when the point in time is reached
\* (a RUN_AT timer whose time is not in a later second is never armed).
RunAtRuns ==
    \A fd \in Fd :
        (\E t \in ToSet(timerList) :
            t.id = fd /\ t.type = "RUN_AT" /\ t.cb_func # NULL)
        ~> (Served(fd) \/ ~Timed(fd))

=============================================================================
