----------------------------- MODULE Handovers ------------------------------
(***************************************************************************)
(* The programs of the repository in which threads or processes hand       *)
(* values to each other and wait for each other.  A behaviour is a run of  *)
(* one of them, with the numbers its main has:                             *)
(*                                                                         *)
(*   "reader_writer"      05_thread/src/reader_writer.c, two threads       *)
(*   "sem_reader_writer"  06_ipc/src/sem_reader_writer.c, two processes    *)
(*   "pthread_cal"        05_thread/src/pthread_cal.c, one getter          *)
(*   "pthread_cal2"       05_thread/src/pthread_cal2.c, two getters        *)
(*   "pthread_sem_cal"    05_thread/src/pthread_sem_cal.c, two threads     *)
(*   "sem_test"           05_thread/src/sem_test.c, three threads          *)
(*   "shm_pipetell"       06_ipc/src/shm_pipetell_test.c, two processes    *)
(*   "co_process"         06_ipc/src/co_process.c and add.c, two processes *)
(*                                                                         *)
(* The variables of the others keep the value NULL, or what the shared     *)
(* names pc, i, seen and lost have at the start.                           *)
(***************************************************************************)
EXTENDS Integers, Sequences

CONSTANTS g1, g2, NULL

\* NULL is nothing that a variable holds otherwise.
ASSUME NullAssumption ==
    NULL \notin {g1, g2, "nothing", "sum", "sem", "sem1", "sem2"}

VARIABLES
    program,                           \* the program that runs
    pc, i, seen, lost,                 \* of every program that has them
    value, wait,                       \* reader_writer
    val, s1, s2,                       \* sem_reader_writer
    res, counter, mutex, setter, got,  \* pthread_cal and pthread_cal2
    sem,                               \* pthread_sem_cal and sem_test
    mem, pipe, args                    \* shm_pipetell and co_process

Cond == INSTANCE ReaderWriter WITH WriterRounds <- 100, ReaderRounds <- 99
Sem == INSTANCE SemReaderWriter WITH Rounds <- 100
One == INSTANCE ResultCond WITH Getter <- {g1}
All == INSTANCE ResultCond WITH Getter <- {g1, g2}
Cal == INSTANCE SemOrder WITH
    Thread <- {"cal", "get"}, Semaphore <- {"sem"},
    Waits <- [cal |-> NULL, get |-> "sem"],
    Posts <- [cal |-> "sem", get |-> NULL]
Abc == INSTANCE SemOrder WITH
    Thread <- {"a", "b", "c"}, Semaphore <- {"sem1", "sem2"},
    Waits <- [a |-> "sem1", b |-> "sem2", c |-> NULL],
    Posts <- [a |-> NULL, b |-> "sem1", c |-> "sem2"]
Tell == INSTANCE PipeTell
Co == INSTANCE Coprocess WITH x <- 1, y <- 2

condVars == <<value, wait>>
semVars == <<val, s1, s2>>
resultVars == <<res, counter, mutex, setter, got>>
pipeVars == <<mem, pipe, args>>

hVars ==
    <<program, pc, i, seen, lost, condVars, semVars, resultVars, sem, pipeVars>>

NoCond == value = NULL /\ wait = NULL
NoSem == val = NULL /\ s1 = NULL /\ s2 = NULL
NoResult ==
    res = NULL /\ counter = NULL /\ mutex = NULL /\ setter = NULL /\ got = NULL
NoPipe == mem = NULL /\ pipe = NULL /\ args = NULL

HInit ==
    \/ /\ program = "reader_writer" /\ Cond!Init
       /\ NoSem /\ NoResult /\ sem = NULL /\ NoPipe
    \/ /\ program = "sem_reader_writer" /\ Sem!Init
       /\ NoCond /\ NoResult /\ sem = NULL /\ NoPipe
       /\ lost = FALSE
    \/ /\ \/ program = "pthread_cal" /\ One!Init
          \/ program = "pthread_cal2" /\ All!Init
       /\ NoCond /\ NoSem /\ sem = NULL /\ NoPipe
       /\ i = NULL /\ seen = <<>>
    \/ /\ \/ program = "pthread_sem_cal" /\ Cal!Init
          \/ program = "sem_test" /\ Abc!Init
       /\ NoCond /\ NoSem /\ NoResult /\ NoPipe
       /\ i = NULL /\ lost = FALSE
    \/ /\ program = "shm_pipetell" /\ Tell!Init
       /\ NoCond /\ NoSem /\ NoResult /\ sem = NULL
       /\ i = NULL /\ args = NULL
    \/ /\ program = "co_process" /\ Co!Init
       /\ NoCond /\ NoSem /\ NoResult /\ sem = NULL
       /\ i = NULL /\ mem = NULL

-----------------------------------------------------------------------------
(* The threads and processes of each program. *)

condRest == <<program, semVars, resultVars, sem, pipeVars>>
condWriter == program = "reader_writer" /\ Cond!Writer /\ UNCHANGED condRest
condReader == program = "reader_writer" /\ Cond!Reader /\ UNCHANGED condRest

semRest == <<program, lost, condVars, resultVars, sem, pipeVars>>
semWriter == program = "sem_reader_writer" /\ Sem!Writer /\ UNCHANGED semRest
semReader == program = "sem_reader_writer" /\ Sem!Reader /\ UNCHANGED semRest

resultRest == <<program, i, seen, condVars, semVars, sem, pipeVars>>
oneSetter == program = "pthread_cal" /\ One!Setter /\ UNCHANGED resultRest
oneGetter ==
    program = "pthread_cal" /\ One!GetterStep(g1) /\ UNCHANGED resultRest
allSetter == program = "pthread_cal2" /\ All!Setter /\ UNCHANGED resultRest
allGetter(g) ==
    program = "pthread_cal2" /\ All!GetterStep(g) /\ UNCHANGED resultRest

orderRest == <<program, i, lost, condVars, semVars, resultVars, pipeVars>>
set_fn == program = "pthread_sem_cal" /\ Cal!Step("cal") /\ UNCHANGED orderRest
get_fn == program = "pthread_sem_cal" /\ Cal!Step("get") /\ UNCHANGED orderRest
a_fn == program = "sem_test" /\ Abc!Step("a") /\ UNCHANGED orderRest
b_fn == program = "sem_test" /\ Abc!Step("b") /\ UNCHANGED orderRest
c_fn == program = "sem_test" /\ Abc!Step("c") /\ UNCHANGED orderRest

tellRest == <<program, i, condVars, semVars, resultVars, sem, args>>
tellParent == program = "shm_pipetell" /\ Tell!Parent /\ UNCHANGED tellRest
tellChild == program = "shm_pipetell" /\ Tell!Child /\ UNCHANGED tellRest

coRest == <<program, i, condVars, semVars, resultVars, sem, mem>>
coParent == program = "co_process" /\ Co!Parent /\ UNCHANGED coRest
coChild == program = "co_process" /\ Co!Child /\ UNCHANGED coRest

HNext ==
    \/ condWriter \/ condReader
    \/ semWriter \/ semReader
    \/ oneSetter \/ oneGetter
    \/ allSetter \/ \E g \in {g1, g2} : allGetter(g)
    \/ set_fn \/ get_fn
    \/ a_fn \/ b_fn \/ c_fn
    \/ tellParent \/ tellChild
    \/ coParent \/ coChild

HSpec == HInit /\ [][HNext]_hVars

\* Every thread and process runs on when it can.
FairSpec ==
    /\ HSpec
    /\ WF_hVars(condWriter) /\ WF_hVars(condReader)
    /\ WF_hVars(semWriter) /\ WF_hVars(semReader)
    /\ WF_hVars(oneSetter) /\ WF_hVars(oneGetter)
    /\ WF_hVars(allSetter) /\ \A g \in {g1, g2} : WF_hVars(allGetter(g))
    /\ WF_hVars(set_fn) /\ WF_hVars(get_fn)
    /\ WF_hVars(a_fn) /\ WF_hVars(b_fn) /\ WF_hVars(c_fn)
    /\ WF_hVars(tellParent) /\ WF_hVars(tellChild)
    /\ WF_hVars(coParent) /\ WF_hVars(coChild)

-----------------------------------------------------------------------------
(* Properties. *)

HTypeOK ==
    /\ program = "reader_writer" => Cond!TypeOK
    /\ program = "sem_reader_writer" => Sem!TypeOK
    /\ program = "pthread_cal" => One!TypeOK /\ One!MutexHeld
    /\ program = "pthread_cal2" => All!TypeOK /\ All!MutexHeld
    /\ program = "pthread_sem_cal" => Cal!TypeOK
    /\ program = "sem_test" => Abc!TypeOK
    /\ program = "shm_pipetell" => Tell!TypeOK
    /\ program = "co_process" => Co!TypeOK

\* What somebody reads is what was written for him.  Numbers that are written
\* one after the other are read once each and in order, even when a broadcast
\* is lost: then no more of them are read, but none is read twice or skipped.  A result is read when it is there and not before, whether a
\* condition, a semaphore or a pipe tells that it is.
ReadsWhatWasWritten ==
    /\ program = "reader_writer" => Cond!ReadsInOrder
    /\ program = "sem_reader_writer" => Sem!ReadsInOrder
    /\ program = "pthread_cal" => One!ReadsResult
    /\ program = "pthread_cal2" => All!ReadsResult
    /\ program = "pthread_sem_cal" => Cal!WorksAfter
    /\ program = "sem_test" => Abc!WorksAfter
    /\ program = "shm_pipetell" => Tell!ReadsBoth
    /\ program = "co_process" => Co!ReadsSum

\* A writer writes only when all it wrote before has been read.
TurnsAlternate ==
    [][(program \in {"reader_writer", "sem_reader_writer"}
            /\ <<value, val>>' # <<value, val>>)
        => Len(seen) = i["writer"] - 1]_hVars

\* Every run settles, and this is who is left then.  All have ended, except the
\* writer of reader_writer, which has a number more than the reader takes; those
\* whom a broadcast before their wait, or the end of the parent of shm_pipetell
\* at its shmat, leaves waiting for ever; and the writer of sem_reader_writer if
\* the end of the reader took its last V back before the writer's P.  Nobody
\* else, and the readers and getters that end have read all they wait for.
WhoIsLeft ==
    <>[](/\ program = "reader_writer" => Cond!Rests
         /\ program = "sem_reader_writer" => Sem!Rests
         /\ program = "pthread_cal" => One!Rests
         /\ program = "pthread_cal2" => All!Rests
         /\ program = "pthread_sem_cal" => Cal!Rests
         /\ program = "sem_test" => Abc!Rests
         /\ program = "shm_pipetell" => Tell!Rests
         /\ program = "co_process" => Co!Rests)

-----------------------------------------------------------------------------
(* The inductive invariant: that of the program that runs. *)

HInv ==
    /\ program = "reader_writer" => Cond!IInv
    /\ program = "sem_reader_writer" => Sem!IInv
    /\ program = "pthread_cal" => One!IInv
    /\ program = "pthread_cal2" => All!IInv
    /\ program = "pthread_sem_cal" => Cal!IInv
    /\ program = "sem_test" => Abc!IInv
    /\ program = "shm_pipetell" => Tell!IInv
    /\ program = "co_process" => Co!IInv
=============================================================================
