# Verification of system_program

TLA+ models of the programs in this repository, the configurations that model-check
them with TLC, and proofs checked by TLAPS. Every definition is translated from the
source; `PROJECT.json` ("map") says from which lines.

The repository is a collection: a small C library (`src/libcmpt`), two client/server
programs, a shell that grows over three directories, and about eighty demonstration
programs for a course on Linux system programming. The models cover the parts that
keep state and let several parties change it.

## 1. Inventory

| Component | State | Operations | Meets | What makes it right |
|---|---|---|---|---|
| **OMainLoop** `src/libcmpt/lib/libcmpt/src/OMainLoop.c` | two lists (descriptors, timers), the array `poll_fds` of the round, the kernel's descriptor table and timers | `ioEventAdd`, `ioEventDel`, `timerAdd`, `timerAddMs`, `timerDel`, `timerClear`, `doEventLoop` | callbacks that call the same operations and open and close descriptors in the middle of a round; the kernel | one registration per descriptor, only registered callbacks run, an event goes to the file it happened to, the loop never blocks outside `poll`, nobody is starved |
| **OList** `OList.c` | a chain of nodes with head, tail and length; iterators are node addresses | `insert`, `append`, `update`, `erase`, `eraseAt`, `clear`, `begin` … `prev` | the allocator, callers that keep iterators | both chains agree, each node is freed once, the operations are those of a sequence |
| **OBuffer** `OBuffer.c` | a byte array and a length; old bytes stay behind the length | `bAppend`, `bRemove`, `bClear`, `bGetDataByRule` | the caller's rules | the newest bytes are kept in order, the first frame is delivered |
| **ipc** `ipc.c` | a System V semaphore set, who holds what | `process_sem_open`, `_wait`, `_post`, `_del` | processes that inherit the set and may be killed | no more holders than the first value, nothing lost by a death, waiters enter |
| **account** `src/05_thread/src/account.c` | balance, a semaphore | `withdraw`, `deposit`, `get_balance` | threads | calls are atomic, no overdraft, every call returns |
| **shared account** `src/06_ipc/src/shm_account.c`, `sem_pv.c` | the same in shared memory, a System V semaphore with `SEM_UNDO` | the same | processes that may be killed | the same, for those that live |
| **reader and writer** `src/05_thread/src/reader_writer.c` | value, two polled flags, two condition variables | the loops of `write_fn` and `read_fn` | each other | values read in order, none twice, none skipped (the writer has one more than the reader takes) |
| **results** `src/05_thread/src/pthread_cal.c`, `pthread_cal2.c` | result, flag or counter, condition variable | `set_fn`, `get_fn` | one or more getters | nobody reads too early, nobody waits for ever but for a broadcast that came too early |
| **reader and writer of processes** `src/06_ipc/src/sem_reader_writer.c` | value, two System V semaphores with `SEM_UNDO` | `rwer_write`, `rwer_read`, `rwer_destroy` | each other, and each other's end | every value read once and in order |
| **dict** `src/dict/src/server.c`, `client.c` | tables `user` and `record` in sqlite3, one child per connection, the menus of the client | register, login, query, history | other children through the locks of the database; clients that leave; children that are killed | what users see is what an atomic service would show; requests and answers stay in step; requests end |
| **results by semaphore** `src/05_thread/src/pthread_sem_cal.c`, `sem_test.c` | result, one or two semaphores | the threads' functions | two or three threads | who waits sees what was done before the post |
| **mshell** `src/02_filedir/src/mshell.c`, `src/03_process/src/mshell.c`, `src/04_signal/src/mshell.c`, each with its `job.c` | the job of the line, its blocks in the heap, open descriptors, process groups, the terminal's foreground group | `parse_cmd`, the built-in commands, `execute_cmd`, `sig_handler`, `destory_job` | children that run, stop and end when they like; the kernel; the handler of SIGCHLD between any two system calls | a command has its own group, the terminal while it is in the foreground, and the streams of its line; it is waited for and reaped; the terminal comes back; blocks are freed once |
| **mstdio** `src/01_io/src/mstdio.c` | a buffer, its position, what is left | `mfopen`, `mfputc`, `mfgetc`, `mfputs`, `mfgets`, `mfread`, `mfwrite`, `mfflush`, `mfclose` | reads and writes that fall short | the buffer is not to be seen: the bytes of the stream in order, a line at once |
| **shm_pipetell, coprocess** `src/06_ipc/src/shm_pipetell_test.c`, `shm_pipetell.c`, `co_process.c`, `add.c` | a pipe as a signal; two pipes | `notify_pipe`, `wait_pipe`, `destroy_pipe` | parent and child, each with the ends it holds | the child reads after the parent has written; the end of a pipe is noticed by the coprocess and its parent |
| **other pipes, message queues** `src/06_ipc` | the kernel's | one write, one read | – | – |
| **time server, msg.c** `src/07_network` | – | accept, send the time | – | – |
| **employManagSyatem** | login and empty menus | – | – | does not compile (the server uses a type it does not define) |
| **log_printf**, single system call demonstrations | a level; none | – | – | I/O only |

Hard behaviours, by kind: callbacks that change the lists being walked (OMainLoop);
threads that check a flag and signal without the mutex (reader_writer, pthread_cal);
`SEM_UNDO` at a process's end (ipc, shared account, sem_reader_writer); children
that lock each other out of the database between search, record and answer (dict);
`setpgid`, `tcsetpgrp` and `waitpid` of the shell, of its child and of the handler in any
order (mshell); short writes behind a buffer (mstdio); an end of a pipe that is kept open
(shm_pipetell, co_process); addresses and bytes that are stale but look valid (OList,
OBuffer). `PROJECT.json` lists them as hazards, each at its line.

## 2. Plan

The order was: libcmpt (all but `log_printf`) and the accounts; the hand-overs; dict;
the shells; mstdio; the further hand-overs by semaphore and pipe. All of that is modelled
and checked. Every safety property of the passing runs, invariant, action property or
refinement, is also proved; what is left to TLC is liveness.

What would come next:

1. A channel for dict that cuts messages, as TCP may (`client.c` and `server.c` do not repeat
   `recv`): the two sides are out of step from then on, so that every property of `Dict` but
   the types would need that case left out.
2. `ReaderWriter` and `SemReaderWriter` for any number of rounds; the proofs now have the
   numbers of the two mains.
3. Iterators whose address was given to another node (`ReuseHeld`): the weaker sequence that
   the list still implements then.

## 3. Modules

Each component has a module named after it, with the source's names for its state and
its operations; `MC*` modules hold the sets a `.cfg` needs; `*_proof` modules hold
theorems (`Containers_proof` those of `OList` and `OBuffer`, `Exercises_proof` those of
`Handovers` and `MStdio`, which for that reason share no names: `BInit`, `BSpec`, `HInit`, `HSpec` and so on). Definitions called "Mutant" are plausible wrong versions of the one they
stand next to; no specification uses them; they serve to see that a property notices.

* **OMainLoop** (`OMainLoop`, `MCOMainLoop`, `OMainLoop_proof`). One action per
  operation of the API, enabled before the loop starts and in callbacks (`AppRuns`);
  `doEventLoop` is cut where other code or the kernel can come in between: the poll
  (`pollReady`, `pollIdle`), the look at one entry (`dispatchNone`, `dispatchIo`,
  `dispatchTimer`), the read of a timer, the callback's return, the end of the round.
  Descriptor numbers are reused, lowest first, as the kernel does. Time is what
  `timerfd_settime` makes of it: a timer is off, armed once or periodic. `CloseOthers`
  says whether callbacks close descriptors that are not their own.
* **OList** (`OList`, `OListSeq`, `MCOList`, `Containers_proof`). Nodes are addresses of a heap; `OListSeq` is a
  sequence with a table of held iterators. `ReuseHeld` says whether the allocator may
  return an address somebody still holds as an iterator.
* **OBuffer** (`OBuffer`, `OBufferFifo`, `MCOBuffer`, `Containers_proof`). The array with its stale bytes, and `strstr`
  as it works: up to a NUL, not up to `len`. `OBufferFifo` is a bounded queue.
  `Callers` names three kinds of caller: "frames" clears after each match, as
  `OBuffer_test.c` does; "bytes" uses only rules that look no farther than `len`;
  "careless" does what it likes.
* **ProcessSem**, **SysVSem**. `SysVSem` has the operators for one semaphore with
  `SEM_UNDO`, used by all System V programs; `ProcessSem` is `ipc.c` with processes that
  inherit the set, wait, post, ask (`ipc_test.c`), delete it and are killed.
* **Account**, **ShmAccount**, both shown to implement **AtomicAccount**. A step is an
  operation on the semaphore, a read of the balance or a write to it, so that `a->balance` is read in
  one step and written in a later one. The comparison with the amount and the copy of the balance
  (account.c:40 and 47, shm_account.c:16 and 21) both read it and are one step: nobody can write in between,
  because both come under the semaphore (`MutualExclusion`). In `ShmAccount` processes may be killed at any step.
* **ReaderWriter**, **ResultCond**, **SemReaderWriter**, **SemOrder**, **PipeTell**, **Coprocess**
  (the last two with **Pipe**: who holds which end, what is read at the end, SIGPIPE),
  composed by **Handovers**, whose behaviours are the runs of one of eight programs with
  the numbers in their mains (100 written, 99 read; 100 each; one or two getters; two or
  three threads). The history variable `lost` notes that a broadcast found nobody waiting
  although its partner had announced itself, that the parent's `shmat` failed, or that `bin/add` could
  not be started. Each of them has a `TypeOK` and a state `Rests`, the one its runs settle in: who has
  ended then, with what, and who waits for ever. `HTypeOK` has one conjunct that is more than types: `MutexHeld`
  of `ResultCond`, who holds the mutex at each step.
* **MShell** with **Job** (`MCMShell`, `MShell_proof`). One module for the three stages of
  the shell: `stage` says which, and `main02`, `main03`, `main04`, `child03` and the like
  are what each stage has of the actions. An action is one system call of the shell, of a
  child before `execvp`, or of the handler; whoever ends, stops or continues a command acts
  for himself. The kernel's part is as POSIX has it: `tcsetpgrp` for a group without
  processes is refused; a process outside of the foreground is stopped by it unless it ignores
  SIGTTOU, which only 04_signal does; a second SIGCHLD is merged with a pending one. `Job` has the
  heap: what `job.c` allocates and frees, block by block, where a block freed twice
  corrupts the heap. `pc` is where the shell is, `at` where each child is. The histories `taken`,
  `late`, `merged` note the three situations in which the code does not keep its
  promises (section 6).
* **MStdio**, shown to implement **ByteStream** (`MCMStdio`, `Exercises_proof`). The buffer with
  its position and what is left, for the three modes; functions that go round a
  loop of `mfputc` or `mfgetc` take a step for each round. `ByteStream` has no buffer: bytes are
  put and reach the file in the end, or are got in the order of the file. `broken`
  notes what the code does not survive: a short write nobody is told of, a byte 0xFF, a
  flush that drops what was read ahead. The refinement is about streams up to there.
* **Dict**, shown to implement **DictService**. The client is where its menus are
  (`pc`); in `pc = "query"` and the like it is in `recv`. A child is at the step of
  `do_client` it does next, so that search, insert and answer of one child interleave
  with those of others. The mapping to the service takes as "call" the request that has had
  no effect yet, wherever it is, and as "answer" what was printed, is on its way and will
  come. `DictService` has a request take effect in one step. The table `record` is kept by name:
  the rows of each name in the order of insertion, which is all a `select` for one name shows.
  External: which statements of sqlite3 exclude each other (`Rival`, `CanRun`): a writer
  may fail because of any other statement, a reader because of a writer, and nobody
  commits while another child reads rows. There is no busy handler, so it fails at once.
  That one database handle is inherited by all children, which sqlite3 does not support, is
  taken to work as separate handles would.

## 4. Runs

| Run | Asks | Bounds |
|---|---|---|
| `loop_safety` | whatever callbacks do in a round, as long as they close only their own descriptor: unique registration, only registered callbacks, no stale delivery, no blocking read, no overflow of `poll_fds` | 2 descriptors (one can delete, replace and reuse the other), 2 callbacks and the null one, all timer types |
| `loop_live` | every round ends (`RoundEnds`); what is ready, a descriptor or a timer, is served however busy others are (`ReadyIsServed`) | 2 descriptors, one callback, events IN, OUT, HUP |
| `list` | chains, frees, refinement of the sequence | 4 nodes, 2 values: first, middle, last and only node all occur, and an address is reused |
| `buffer` | refinement of the queue for careful callers; a call delivers the first frame | sizes 0, 2 and the default (3 here), appends up to 3 bytes: fits, exceeds the space, fills |
| `sem` | value and holders make up the first value, whoever dies (`ValueIsExact`); waiters enter | 3 processes, 2 semaphores of value 1, 2 waits each, deletion at any time |
| `account`, `shm_account` | exclusion, no overdraft, atomicity, return | 3 callers with one call each of any kind, amounts −1, 1, 2 on a balance of 2: two withdrawals that do not both fit, and a third caller to slip in between |
| `handovers` | what is read is what was written (`ReadsWhatWasWritten`), turns alternate, and every run settles with exactly those still waiting whom `WhoIsLeft` names | the numbers of the eight programs themselves; 5,294 states |
| `dict` | refinement of the service, messages in step, every request ends | 2 clients, 2 requests each, 1 name, 1 password, one word the dictionary has and one it has not; an empty database or one with a user and 0 or 1 records |
| `dict_unanswered` *(violated)* | `QueriesAreAnswered` | the same |
| `shell` | own groups, the terminal, the wait, zombies, streams, the heap; the terminal returns and the wait ends | 2 children, 3 lines (a background command with three redirections, a foreground one with a file that is missing, a blank line, `export`, `echo`, `exit`), 3 descriptors, 1 stale word; 161,418 states |
| `stdio` | refinement of the byte stream, the position in the buffer, lines written at once | a buffer of 2; files that are empty, shorter, as long, longer than it, with 0xFF; texts with the newline first, in the middle and last; 4 bytes put; 428,666 states |

In `dict` two requests each are enough for register and login in either client, for a
query of one against a history or a query of the other under the same name, and for a
request after a refused one; the database an earlier server left supplies what further
requests would. Names do not interact except by equality. In `shell`, three lines make a command in
the background with one in the foreground and a line after both, two children end between two
steps of the shell, and three descriptors run out in the second line; in `stdio` a buffer of two
is empty, half full and full, and a file of five is read in three fills. Symmetry is used in
`loop_safety` only (callbacks; no property names one, and nothing temporal but action
properties). `CHECK_DEADLOCK FALSE` is used where the program ends: `handovers` (threads return),
`shell` (`exit`, a crash, no line left), `stdio` (a stream that is closed).

Each module with actions has a type invariant (the abstract specifications are typed through the
refinements). Where a property below it already contains it
(`InStep` of `Dict`), a refinement or proof needs it anyway (`OMainLoop`, the accounts, `OList`,
`ProcessSem`, `MStdio`), the run does not list it again.

**Fairness.** `loop_live`: the only thread runs on, callbacks return, armed timers
expire. Threads and processes of `account`, `shm_account`, `sem`, `handovers` and the children
and receiving clients of `dict` each run when they can (the scheduler is fair); killing, interrupting, deleting,
choosing in a menu and asking for something are never forced. Weak fairness of each thread or process is enough: calls, waits and requests
are bounded, so that whoever waits for a semaphore is in the end the only one who still wants it.
`shell`: the shell, the handler once its signal is pending, and a child before `execvp` run on when they can;
nobody has to type a line, and no command has to end, stop or go on. `stdio` asks for nothing that
must happen.

## 5. Proofs

`tlapm` checks every theorem for all values of the constants under the named assumptions.

* **OMainLoop_proof.** For any number of descriptors and callbacks. `IInv` (types, unique registration,
  *what is registered is open and of the right kind*, *what is read is a timer*) is inductive: the third
  conjunct is what keeps `timerfd_create` from returning a number that is still
  registered, hence `UniqueRegistration`. From it `TypeOK`, `UniqueRegistration`,
  `RunsRegisteredCallback`, and, if the process limit on descriptors is not above the
  length of the array (`FdLimitFitsPoll`), `PollFdsFit`, by counting distinct
  descriptors. `RoundInv` (entries ahead in the round are still the files that were polled,
  and a reported timer that is registered has still expired) is inductive if
  callbacks close only their own descriptor (`~CloseOthers`); it gives `ReadNeverBlocks` and `NoStaleDelivery`.
* **Account_proof**, **ShmAccount_proof.** For any callers, amounts and calls. `IInv` adds to the checked invariants
  what holds at each `pc` (`Progress`: the local copy of the balance is the balance
  inside the section, the result is fixed exactly when the abstract call has taken
  effect). From it `TypeOK`, `MutualExclusion`, `NeverOverdrawn`, and the refinement of `AtomicAccount`:
  each step maps to `Call`, `Apply`, `Return`, `Die` or a stutter. In `ShmAccount` the
  semaphore lemmas (`PProperties` and its neighbours) say what P, V and the undo at a death do to the value and to
  each process's account, so that the proof covers a death anywhere.
* **ProcessSem_proof.** For any finite set of processes one of which opens the set (`OneOpener`, a
  hypothesis of each theorem: with two openers it is false, section 6), any number of
  semaphores and any first values. `ValueIsExact` is not inductive: it says nothing of what
  the kernel would undo. `IInv` adds that this is exactly what each process holds
  (`AdjIsHeld`) and that nobody uses the set before it has its values (`OpenedFirst`);
  then fork, death and deletion keep it, by counting the holders.
* **MShell_proof.** For any pids, lines and bounds, and for the three stages at once. `OwnGroup` follows
  from the child's own `setpgid`, but the wait of the shell does not: `IInv` says what the shell
  knows of its child at each step (`KnowsChild`: the group it was told is the child's, unless
  the handler has reaped it), who may still take the terminal (`TakesTerminal`,
  `HasTerminal`), and that two zombies need a merged signal (`OneZombie`). From it `OwnGroup`,
  `ForegroundHasTerminal`, `ZombieHasSignal` and `ForegroundIsOver`. A second invariant, `MemoryInv`,
  is about memory and streams: `HeapOK` names the blocks that are allocated at each step of the shell (the
  programs of all lines, one each, which `job.c` copies and nobody frees, and while a line is handled its own blocks, as many as its words and
  redirections), `RedirectionsOK` says that the records of redirections are those the line has. Most
  steps leave all of that alone (`Quiet`), so that only reading a line, forking, `execvp` and freeing need a
  proof of their own (`ReadLineKeeps`, `ForkCopies`, `ExecRedirects`, `DestroyKeeps`). It gives `TypeOK`,
  `OnlyProgramsStay` and `StreamsAsTyped`, for lines that fit the arrays of `parse_cmd`
  (an assumption on the lines; longer ones overflow them, section 7).
* **Containers_proof**, `OList`. For any set of addresses and values. What the nodes of the list are follows
  from `head` and `next` one after the other (a recursive function), so that no operation can be
  reasoned about directly. The lemmas about chains say instead: a function that starts at the
  head and goes on by `next` is that of the nodes (two such functions agree, since the first place where
  they differ cannot exist). Each operation then has to name its new chain, which is the old one with a node more
  or less. `IInv` adds to `DoublyLinked` and `NoLeakNoDangling` that a free node is clear
  (`FreeIsClear`): the first append does not write the pointers of its node and relies on `calloc`. The refinement
  `ImplementsSeq` has as hypotheses that the allocator gives nobody an address that is still held
  (`~ReuseHeld`; otherwise it is false, section 6), and that memory is finite.
* **Containers_proof**, `OBuffer`. For a buffer of any size, marks of any length, calls in any order. The
  invariant `BInv` says that no byte of the data is NUL, because `strstr` would stop there, and that behind the length
  there are only NULs where the caller goes on to search there. From it `BTypeOK`, `ImplementsFifo` and
  `CallsMatch`. The hypothesis `"careless" \notin Callers` leaves out the caller for whom the code crashes (section 6).
* **Exercises_proof**, `Handovers`. `HInv` is one invariant for each of the eight programs. In `ReaderWriter` and
  `SemReaderWriter` it relates the places of both sides: the flags, or the semaphores' values, say whose turn
  it is, and the numbers read are those written before. `ResultCond` counts the getters
  (`counter` is the number of those past their count, `Counted`) and says when the result is there;
  it is proved for any finite set of getters. `SemOrder` says that a semaphore that is up, and a thread
  that is past its wait, mean that the poster is through (`Posted`); it is proved for any set of threads where each semaphore has
  one poster. `PipeTell` and `Coprocess` say
  who still holds which end, and which bytes are in which pipe. From it `HTypeOK`, `ReadsWhatWasWritten`
  and `TurnsAlternate`. Assumption: `NullAssumption` (NULL is no value of a variable).
* **Exercises_proof**, `MStdio`. For every buffer length, set of bytes, file and text. `IInv` says how `nextc`
  and `left` fit together in each mode, that bytes put are those of the file followed by those in
  the buffer (`WriteBytes`), and that bytes got are the file up to `pos - left` (`ReadBytes`). From it
  `PositionFits`, `LinesAreWritten` and the refinement of `ByteStream`, the last two up to `broken`.
* **Dict_proof.** For any clients, names, passwords, words and number of requests. `InStep` is not
  inductive: it speaks of resting clients only. `IInv` says of each connection what may be on its way
  while a client waits (`RequestOK`, `ServeOK`, `RepliesOK`: one request, or rows and at most one
  last text, of the type the client waits for) and whose name the child has (`NameOK`). It is
  kept because a step touches one connection (`OneLink`). The refinement of `DictService`
  goes step by step (`...Maps`): a request is asked when it is sent, has its effect when `register`,
  `login`, `insert` or `history` runs, and is answered when its last text is received; a
  death maps to `Break` with as many texts as were sent (`FirstTexts`). An insert
  leaves the rows of a running history alone because no statement commits while another child
  reads (`CanRun`), which the proof uses and which is the external assumption about sqlite3.
  Assumptions: `DictAssumption`, `NothingAssumption` (the null name is no name, word or type),
  `BoundAssumption`.

The invariants that serve only the proofs (`IInv`, `BInv`, `HInv`, `MemoryInv`,
`RoundInv`) are stated in the components' modules or before the proofs; TLC found each of them to hold on the constants of the component's run
before it was proved.

Only model-checked: liveness (`RoundEnds`, `ReadyIsServed`, `CallsReturn`, `WaitersEnter`,
`WhoIsLeft`, `EveryRequestEnds`, `TerminalReturns`, `WaitReturns`), which is out of the prover's reach, and
`OBuffer` and `OList` for the callers that their theorems leave out.

## 6. Where code and documents disagree

The run `dict_unanswered` shows one (see `PROJECT.json`, "findings"): server.c:254 says that the
result of a query is sent to the client, and when the record cannot be inserted (line 236) it is
not; the client waits for ever. The modules state further properties that the code does
not have. Each can be refuted with TLC by checking it alone under the constants of the component's passing
run (`OMainLoop_live.cfg` for the loop; for the modules of `Handovers` the constants with which it
instantiates them), without
a deadlock check, and with the change that is named:

* `OMainLoop` `NoStaleDelivery` with `CloseOthers = TRUE`: OMainLoop.c:109 says that `ioEventDel` removes the
  descriptor's events; if a callback deletes and closes another ready descriptor and opens one that gets its
  number, the loop calls the new one with the old one's events (line 466).
* `OMainLoop` `AutoDelete`: OMainLoop.h:40-41 say a RUN_AT or RUN_AFTER timer is deleted when it
  expires; it stays registered (OMainLoop.c:491).
* `OMainLoop` `AddAppendsEvents` (`Masks <- MasksInOut`): OMainLoop.c:65 says a new mask is added to the old one;
  it replaces it (line 88).
* `OMainLoop` `IdIsReturned`: OMainLoop.c:254 promises the timer's id; `timerAddMs` returns 0 (line 321).
* `OMainLoop` `ClosedWhenDeleted`: OMainLoop.c:344 says "close the timer"; its descriptor stays open.
* `OMainLoop` `RunAtRuns` (fair specification): a RUN_AT timer for the current second is never armed (line 276), nor
  one for the next if the second ticks between the two calls of `time` in `timerAdd` (lines 195-196).
* `OMainLoop` `RoundEnds` with `CloseOthers = TRUE`: the blocking read of a timer that took over a
  reported number stops the loop (line 491).
* `OList` `MissingIndexIsNull`: OList.h:105 promises NULL; a negative index gives the head (OList.c:264).
* `OList` `StaleStaysInvalid` (`ReuseHeld = TRUE`): OList.h:115 promises NULL for an invalid iterator; one whose address
  was reused denotes the new node (OList.c:238).
* `OBuffer` `NeverCrashes` for a caller that does not clear (`Callers <- Careless`, `Requests <- Positive`, `MaxChunk = 4`):
  OBuffer.h:142 says -1 when nothing fits; `strstr` finds bytes that were taken before, `len` becomes negative,
  and `memcpy` is called with it (OBuffer.c:216).
* `OBuffer` `OutLenIsLength`: R_TAIL_ONLY leaves `out->len` as it was (OBuffer.c:206-213).
* `OBuffer` `NonPositiveIsDefault`: OBuffer.c:257 says sizes up to 0 give the default; 0 gives an empty buffer (line 279).
* `ProcessSem` `AtMostInitValue` with two openers (`Opener <- TwoProcs`): ipc.c:44 says the value matters at
  creation; every open sets it again (line 83).
* `ReaderWriter` `BroadcastWakes`: reader_writer.c:44 "wake the reader"; the broadcast can come between
  `r_wait = 1` and the wait, and then both threads wait for ever (line 46). `ResultCond` has the same between
  a getter's count and its wait (pthread_cal.c:34, pthread_cal2.c:35).
* `ReaderWriter` `WriterEnds`: the writer's loop is one round longer than the reader's (lines 36, 65), so it waits for ever in the last one,
  `main` never joins it, and the value 100 is never read.
* `SemReaderWriter` `WriterEnds`: the reader's exit undoes its V's on the semaphore the
  writer waits for (sem_reader_writer.c:83); if it exits before the writer's last P, the writer waits for ever.

* `PipeTell` `EndIsNoticed` (fair specification): shm_pipetell_test.c:49 has the child wait until the parent has written; if the
  parent's `shmat` fails it exits, and the child waits for ever, because it holds the writing end itself.
* `MShell` `HandlerReapsAll`: mshell.c:276 of 04_signal says that all children are reaped; line 277 reaps one, and signals that
  come together are one.
* `MShell` `CommandKeepsTerminal`: mshell.c:144 makes the command the foreground group; the handler takes the
  terminal back on any SIGCHLD, also for another command (line 279).
* `MShell` `ExportedIsThere`: `export` gives `putenv` the argument itself, which `destory_job` frees after the
  line (mshell.c:57-65 of 04_signal); the environment points into freed memory.
* `MStdio` `NothingTwice`: when the buffer is full and only a part of it can be written, `mfputc` refuses the byte
  but keeps the whole buffer (mstdio.c:122-125), so that a retry writes that part again.
* `MStdio` `EveryByteIsRead`: mstdio.c:94 returns the byte as a `char`; 0xFF is taken for the end of the file (line 154).

`WhoIsLeft`, which the run `handovers` checks, says what the flaws of the hand-overs come to: who
misses a broadcast, the writer of `reader_writer` in any case, the writer of `sem_reader_writer` whose V was taken back, and the child of
`shm_pipetell` whose parent gave up wait for ever, and nobody else does.

Three things of the shells that no document contradicts: a blank line crashes them (`strtok` returns NULL, which goes to
`strlen`, mshell.c:210 of 04_signal; `readCrashes`), `echo` of a variable that is not set hands NULL to
`printf` (mshell.c:77-78; `builtin`), and the one of 02_filedir does not clear its argument array, so that the
words of a longer line before reappear (mshell.c:70; `Argc`).

Two things in dict that no document contradicts: after its child has gone,
`do_history` of the client goes round its loop for ever, because `recv` returning 0 is not an
error to it (client.c:166; `EveryRequestEnds` therefore excepts a dead child); and a
database that is locked is reported as "already exist" or as a wrong password, or as an
empty history (`DictService`: a request may be refused for no reason the user can see).

## 7. Not modelled

`log_printf` and the print functions (output only); single-call demonstrations, the other
pipes, message queues and the time server (`components` lists them by directory);
`employManagSyatem` (unfinished); binaries and data files. In what is modelled:

* bytes of names, texts and dates; integer widths (no count comes near them); malloc failing;
  `EINTR`; a spurious return of `pthread_cond_wait`;
* OBuffer: what is behind the array. `strstr` is taken to find a NUL there; a full buffer is exactly as long as
  what `malloc` returned, and `strstr` reads past its end (OBuffer.c:169, 189, 208);
* dict: which words are found: a word is found or not (`DictWord`), although `do_searchword` gives up at the first line that
  begins with the word and does not go on with a space (server.c:160-164); a `send` that returns -1, after which
  the client does what it does when the server has gone, which is modelled (client.c:61-65, 131-135,
  157-161); TCP cutting a message; a server that is restarted while clients are connected (an old database at
  the start stands for earlier servers);
* the shell: ^C and ^Z from the terminal (a command that ends or stops by itself is the same to the
  shell), commands that change their process group or start others in the background, pids that are
  reused, the byte after each string that `job.c` (lines 41, 123) does not allocate, lines with more than
  five redirections or 99 words, which overflow its arrays;
* the shell's heap: uses of a block after it is freed (`OnlyProgramsStay` is about what is allocated and freed);
* mstdio: `mungetc`, which is empty; a `read` that fails, which ends the program (mstdio.c:105); what the functions
  return at the end of the file (`mfread` the whole count, line 190, `mfgets` NULL after a part of the
  bytes): `ended` says that the caller was told, in whatever way.
