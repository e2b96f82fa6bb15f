------------------------------- MODULE MShell -------------------------------
(***************************************************************************)
(* The shell of 02_filedir, 03_process and 04_signal, which grows from one *)
(* directory to the next:                                                  *)
(*                                                                         *)
(*   "02_filedir"  reads a line, runs cd, pwd and exit itself              *)
(*   "03_process"  forks for any other command, in a process group of its  *)
(*                 own, with redirections, in the foreground or with &     *)
(*   "04_signal"   also ignores the signals of the terminal and takes the  *)
(*                 terminal back in a handler of SIGCHLD                   *)
(*                                                                         *)
(* A step of the shell or of a child is one system call; the handler may   *)
(* run between any two of the shell's.  parse_cmd puts all of a line into  *)
(* one program, so that the loops over job->progs have one round.          *)
(*                                                                         *)
(* Commands do not change their process group and start nothing in the     *)
(* background themselves; pids are not reused.                             *)
(***************************************************************************)
EXTENDS Job

CONSTANTS
    Pid,         \* what fork may return
    Shell,       \* the process group of the shell
    Login,       \* the process group of the shell that started it
    NoGroup,     \* -1, what getpgid returns for a child that is gone
    Line,        \* what users type: see LineType
    File, Missing,  \* files that can be opened, and one that can only be written
    MaxLines,    \* bound on the lines that are typed
    MaxStale,    \* bound on the words that 02_filedir finds behind the last one
    MaxFds       \* how many files the shell may have open at once

ASSUME GroupsAssumption ==
    /\ Shell \notin Pid /\ Login \notin Pid /\ NoGroup \notin Pid
    /\ Shell # Login /\ NoGroup \notin {Shell, Login}

\* A line: its first word ("blank" if it is blank, "ls" for all that are no
\* built-in), the number of its words without redirections and &, whether
\* there is an &, and its redirections.
FileType == File \cup {Missing}
WrittenRedirection == [redirect : {"<", ">", ">>"}, file : FileType]

LineType ==
    [cmd : {"blank", "ls", "cd", "pwd", "exit", "env", "export", "echo"},
     argc : Nat,
     bg : BOOLEAN,
     redirections : Seq(WrittenRedirection)]

\* parse_cmd has room for 5 redirections, and for 99 words and a zero.
ASSUME LineAssumption ==
    /\ Line \subseteq LineType
    /\ \A l \in Line : l.argc < 100 /\ Len(l.redirections) <= 5

ASSUME BoundsAssumption == {MaxLines, MaxStale, MaxFds} \subseteq Nat

VARIABLES
    stage,
    \* the shell
    pc,        \* where it is
    n,         \* how many lines it has read
    line,      \* what is parsed
    reds,      \* job->progs[0].redireacts
    pid, pgid, \* the variable of execute_cmd, and job->pgid
    handler,   \* where sig_handler is
    fds,       \* the files it has open, in the order of their descriptors
    heap,      \* see Job
    environ,   \* the blocks that putenv was given
    \* the kernel
    at,        \* where each child is
    group,     \* its process group
    image,     \* its copy of the job, and what its streams are
    tty,       \* the foreground process group
    chld,      \* is SIGCHLD pending for the shell?
    \* history
    taken,     \* has the handler taken the terminal from the command the
               \* shell is waiting for?
    late,      \* has the shell given it to a command that had already ended
               \* or stopped, after the handler ran?
    merged     \* has a child ended while another one's signal was pending?

own == <<pc, n, line, reds, pid, pgid>>
memory == <<fds, heap, environ>>
children == <<at, group, image>>
history == <<taken, late, merged>>

vars == <<stage, own, handler, memory, children, tty, chld, history>>

NoLine == [cmd |-> "blank", argc |-> 0, bg |-> FALSE, redirections |-> <<>>]
NoImage == [line |-> NoLine, reds |-> <<>>, in |-> "terminal", out |-> "terminal"]

\* The shell is started from an interactive shell, in the foreground.
Init ==
    /\ stage \in {"02_filedir", "03_process", "04_signal"}
    /\ pc = "read" /\ n = 0 /\ line = NoLine /\ reds = <<>>
    /\ pid = NoGroup /\ pgid = NoGroup   \* not set yet
    /\ handler = "idle"
    /\ fds = <<>> /\ heap = {} /\ environ = {}
    /\ at = [p \in Pid |-> "none"]
    /\ group = [p \in Pid |-> Shell]
    /\ image = [p \in Pid |-> NoImage]
    /\ tty = Shell /\ chld = FALSE
    /\ taken = FALSE /\ late = FALSE /\ merged = FALSE

-----------------------------------------------------------------------------
(* The kernel. *)

Child == {p \in Pid : at[p] \notin {"none", "gone"}}
Runs(p) == at[p] \in {"runs", "resumed"}
Stopped(p) == at[p] \in {"stopped", "stopped by SIGTTOU"}

\* tcsetpgrp(0, g): a group without a process, and -1, is refused.
Foreground(g) ==
    IF g = Shell \/ \E p \in Child : group[p] = g THEN g ELSE tty

\* A process that is not in the foreground and does not ignore SIGTTOU is
\* stopped when it calls tcsetpgrp.
MayCallTcsetpgrp(g) == stage = "04_signal" \/ tty = g

\* Only 04_signal catches SIGCHLD.
Notify == chld' = (stage = "04_signal")

\* A child of the group is reaped, or has stopped, or there is none.
waitpid(g) ==
    \/ \E p \in Child :
           group[p] = g /\ at[p] = "zombie" /\ at' = [at EXCEPT ![p] = "gone"]
    \/ \E p \in Child : group[p] = g /\ Stopped(p) /\ at' = at
    \/ (\A p \in Child : group[p] # g) /\ at' = at

\* The same with WNOHANG and without WUNTRACED.
waitpidNow(S) ==
    \/ \E p \in S : at[p] = "zombie" /\ at' = [at EXCEPT ![p] = "gone"]
    \/ (\A p \in S : at[p] # "zombie") /\ at' = at

-----------------------------------------------------------------------------
(* parse_cmd *)

\* Mutant: an open that fails is not noticed.
openFileAlways(s, r) ==
    [fds |-> Append(s.fds, r.file),
     reds |-> Append(s.reds, [redirect |-> r.redirect, fd |-> Len(s.fds) + 1])]

\* One redirection: the file is opened by the shell, which never closes it.
\* An open that fails leaves fd = -1 in the redirection.
openFile(s, r) ==
    IF (r.file = Missing /\ r.redirect = "<") \/ Len(s.fds) = MaxFds
    THEN [s EXCEPT !.reds = Append(@, [redirect |-> r.redirect, fd |-> -1])]
    ELSE [fds |-> Append(s.fds, r.file),
          reds |-> Append(s.reds, [redirect |-> r.redirect, fd |-> Len(s.fds) + 1])]

\* The redirections of a line, one after the other.
Opened(rs) ==
    LET after[r \in 0..Len(rs)] ==
            IF r = 0 THEN [fds |-> fds, reds |-> <<>>] ELSE openFile(after[r - 1], rs[r])
    IN  after[Len(rs)]

\* The blocks of a line: the redirections are made, copied and destroyed.
parse_cmd(h, k, argc, redirect_num) ==
    LET made[r \in 0..redirect_num] ==
            IF r = 0 THEN h ELSE creat_redirect(made[r - 1], k, r)
        added[r \in 0..redirect_num] ==
            IF r = 0 THEN creat_program(made[redirect_num], k, argc)
            ELSE destory_redirect(add_redirection(added[r - 1], k, r), k, r)
    IN  add_program(added[redirect_num], k)

\* In 02_filedir all words are arguments, and args is not cleared: whatever is
\* behind the last word, up to the first zero, is taken for words.
Argc(l) ==
    IF stage = "02_filedir"
    THEN {l.argc + 2 * Len(l.redirections) + (IF l.bg THEN 1 ELSE 0) + k :
              k \in 0..MaxStale}
    ELSE {l.argc}
Redirections(l) == IF stage = "02_filedir" THEN <<>> ELSE l.redirections

-----------------------------------------------------------------------------
(* main: read, creat_job, parse_cmd.  Outside of the foreground the shell   *)
(* of 04_signal fails to read, and prompts again and again.                *)

Reads == pc = "read" /\ handler = "idle" /\ tty = Shell /\ n < MaxLines

readLine(l) ==
    LET opened == Opened(Redirections(l)) IN
    /\ Reads
    /\ l.cmd # "blank"
    /\ line' \in {[l EXCEPT !.argc = argc] : argc \in Argc(l)}
    /\ n' = n + 1
    /\ fds' = opened.fds
    /\ reds' = opened.reds
    /\ heap' = parse_cmd(creat_job(heap, n + 1), n + 1, line'.argc, Len(opened.reds))
    /\ pc' = "execute"
    /\ UNCHANGED <<stage, pid, pgid, handler, environ, children, tty, chld, history>>

\* strtok finds no word in a blank line, and strlen is called with NULL; in
\* 02_filedir, with whatever is behind the last word.
readCrashes(l) ==
    /\ Reads
    /\ l.cmd = "blank" \/ stage = "02_filedir"
    /\ heap' = creat_job(heap, n + 1)
    /\ n' = n + 1
    /\ pc' = "crashed"
    /\ UNCHANGED <<stage, line, reds, pid, pgid, handler, fds, environ, children,
                   tty, chld, history>>

\* Without a handler, and without SIGTTIN ignored, reading in the background
\* stops the shell; the shell that started it takes the terminal, and its user
\* can bring this one back.
readStops ==
    /\ stage = "03_process"
    /\ pc = "read" /\ tty # Shell
    /\ pc' = "stopped"
    /\ tty' = Login
    /\ UNCHANGED <<stage, n, line, reds, pid, pgid, handler, memory, children,
                   chld, history>>

resumed ==
    /\ pc = "stopped"
    /\ pc' = "read"
    /\ tty' = Shell
    /\ UNCHANGED <<stage, n, line, reds, pid, pgid, handler, memory, children,
                   chld, history>>

-----------------------------------------------------------------------------
(* execute_cmd *)

Builtin ==
    {"cd", "pwd", "exit"} \cup
    (IF stage = "02_filedir" THEN {} ELSE {"env", "export", "echo"})

Executes == pc = "execute" /\ handler = "idle"

\* putenv keeps the address of the argument it is given; echo prints whatever
\* getenv returns, also if there is no such variable.
builtin ==
    /\ Executes
    /\ line.cmd \in Builtin
    /\ environ' = IF line.cmd = "export" /\ line.argc > 1
                  THEN environ \cup {<<n, "arg", 1>>} ELSE environ
    /\ pc' \in CASE line.cmd = "exit" -> {"exited"}
                 [] line.cmd = "echo" /\ line.argc > 1 -> {"destroy", "crashed"}
                 [] OTHER -> {"destroy"}
    /\ UNCHANGED <<stage, n, line, reds, pid, pgid, handler, fds, heap, children,
                   tty, chld, history>>

\* fork fails; 02_filedir does not fork at all.
noFork ==
    /\ Executes
    /\ line.cmd \notin Builtin
    /\ pc' = "destroy"
    /\ UNCHANGED <<stage, n, line, reds, pid, pgid, handler, memory, children,
                   tty, chld, history>>

\* The child has a copy of the job, and is in the group of the shell.
fork(p) ==
    /\ Executes
    /\ line.cmd \notin Builtin
    /\ at[p] = "none"
    /\ at' = [at EXCEPT ![p] = "forked"]
    /\ image' = [image EXCEPT ![p].line = line, ![p].reds = reds]
    /\ pid' = p
    /\ pc' = "setpgid"
    /\ taken' = FALSE /\ late' = FALSE
    /\ UNCHANGED <<stage, n, line, reds, pgid, handler, memory, group, tty, chld,
                   merged>>

Steps(from, to) == pc = from /\ handler = "idle" /\ pc' = to

\* setpgid(pid, pid): no effect on a child that is gone.
parentSetpgid ==
    /\ Steps("setpgid", "getpgid")
    /\ group' = IF pid \in Child THEN [group EXCEPT ![pid] = pid] ELSE group
    /\ UNCHANGED <<stage, n, line, reds, pid, pgid, handler, memory, at, image, tty,
                   chld, history>>

parentGetpgid ==
    /\ Steps("getpgid", IF line.bg THEN "waitpid" ELSE "tcsetpgrp")
    /\ pgid' = IF pid \in Child THEN group[pid] ELSE NoGroup
    /\ UNCHANGED <<stage, n, line, reds, pid, handler, memory, children, tty, chld,
                   history>>

parentTcsetpgrp ==
    /\ MayCallTcsetpgrp(Shell)
    /\ Steps("tcsetpgrp", "waitpid")
    /\ tty' = Foreground(pgid)
    /\ late' = (tty' # Shell /\ ~chld /\ (at[pid] = "zombie" \/ Stopped(pid)))
    /\ UNCHANGED <<stage, n, line, reds, pid, pgid, handler, memory, children, chld,
                   taken, merged>>

\* Mutant: the shell does not wait for a command in the foreground.
parentWaitpidNow ==
    /\ Steps("waitpid", "destroy")
    /\ waitpidNow({p \in Child : group[p] = pgid})
    /\ UNCHANGED <<stage, n, line, reds, pid, pgid, handler, memory, group, image,
                   tty, chld, history>>

\* Mutant: it waits until it has reaped the command itself.
parentWaitpidOwn ==
    /\ Steps("waitpid", "destroy")
    /\ at[pid] = "zombie"
    /\ at' = [at EXCEPT ![pid] = "gone"]
    /\ UNCHANGED <<stage, n, line, reds, pid, pgid, handler, memory, group, image,
                   tty, chld, history>>

parentWaitpid ==
    /\ Steps("waitpid", "destroy")
    /\ IF line.bg THEN waitpidNow({p \in Child : group[p] = pgid}) ELSE waitpid(pgid)
    /\ UNCHANGED <<stage, n, line, reds, pid, pgid, handler, memory, group, image,
                   tty, chld, history>>

\* Mutant: the redirections are not freed.
destroyKeepsReds ==
    /\ Steps("destroy", "read")
    /\ heap' = destory_job(heap, n, line.argc, 0)
    /\ UNCHANGED <<stage, n, line, reds, pid, pgid, handler, fds, environ, children,
                   tty, chld, history>>

\* destory_job, and the next prompt.
destroy ==
    /\ Steps("destroy", "read")
    /\ heap' = destory_job(heap, n, line.argc, Len(reds))
    /\ UNCHANGED <<stage, n, line, reds, pid, pgid, handler, fds, environ, children,
                   tty, chld, history>>

-----------------------------------------------------------------------------
(* The child, up to its command. *)

Moves(p, from, to) == at[p] = from /\ at' = [at EXCEPT ![p] = to]

\* Mutant: setpgid is left to the shell.
childSetpgidNot(p) ==
    /\ Moves(p, "forked", IF image[p].line.bg THEN "exec" ELSE "tcsetpgrp")
    /\ UNCHANGED <<stage, own, handler, memory, group, image, tty, chld, history>>

childSetpgid(p) ==
    /\ Moves(p, "forked", IF image[p].line.bg THEN "exec" ELSE "tcsetpgrp")
    /\ group' = [group EXCEPT ![p] = p]
    /\ UNCHANGED <<stage, own, handler, memory, image, tty, chld, history>>

\* Mutant: tcsetpgrp is left to the shell.
childTcsetpgrpNot(p) ==
    /\ Moves(p, "tcsetpgrp", "exec")
    /\ UNCHANGED <<stage, own, handler, memory, group, image, tty, chld, history>>

childTcsetpgrp(p) ==
    /\ MayCallTcsetpgrp(p)
    /\ Moves(p, "tcsetpgrp", "exec")
    /\ tty' = Foreground(group[p])
    /\ UNCHANGED <<stage, own, handler, memory, group, image, chld, history>>

\* Without SIGTTOU ignored, a child that is faster than the shell is stopped.
childStops(p) ==
    /\ ~MayCallTcsetpgrp(p)
    /\ Moves(p, "tcsetpgrp", "stopped by SIGTTOU")
    /\ UNCHANGED <<stage, own, handler, memory, group, image, tty, chld, history>>

\* Mutant: the first one stays.
StreamOfFirst(rs, redirects) ==
    LET ks == {k \in DOMAIN rs : rs[k].redirect \in redirects /\ rs[k].fd # -1}
    IN  IF ks = {} THEN "terminal" ELSE fds[rs[Min(ks)].fd]

\* A stream after the loop of dup2: the last redirection of it that has a
\* descriptor.
Stream(rs, redirects) ==
    LET ks == {k \in DOMAIN rs : rs[k].redirect \in redirects /\ rs[k].fd # -1}
    IN  IF ks = {} THEN "terminal" ELSE fds[rs[Max(ks)].fd]

childExec(p) ==
    /\ Moves(p, "exec", "runs")
    /\ image' = [image EXCEPT ![p].in = Stream(image[p].reds, {"<"}),
                              ![p].out = Stream(image[p].reds, {">", ">>"})]
    /\ UNCHANGED <<stage, own, handler, memory, group, tty, chld, history>>

-----------------------------------------------------------------------------
(* What becomes of the command. *)

\* execvp fails, or the command ends or is killed.
ends(p) ==
    /\ at[p] = "exec" \/ Runs(p) \/ Stopped(p)
    /\ at' = [at EXCEPT ![p] = "zombie"]
    /\ merged' = (merged \/ (chld /\ \E q \in Pid : at[q] = "zombie"))
    /\ Notify
    /\ UNCHANGED <<stage, own, handler, memory, group, image, tty, taken, late>>

\* Somebody stops it, once, and continues it; so does the terminal in
\* 03_process, where SIGTSTP is not ignored.
stops(p) ==
    /\ Moves(p, "runs", "stopped")
    /\ Notify
    /\ UNCHANGED <<stage, own, handler, memory, group, image, tty, history>>

continues(p) ==
    /\ \/ Moves(p, "stopped", "resumed")
       \/ Moves(p, "stopped by SIGTTOU", "tcsetpgrp")
    /\ Notify
    /\ UNCHANGED <<stage, own, handler, memory, group, image, tty, history>>

-----------------------------------------------------------------------------
(* sig_handler *)

\* Mutant: the handler reaps nothing.
handlerReapsNot ==
    /\ chld /\ handler = "idle" /\ pc \notin {"exited", "crashed"}
    /\ chld' = FALSE
    /\ handler' = "tcsetpgrp"
    /\ UNCHANGED <<stage, own, memory, children, tty, history>>

handlerWaitpid ==
    /\ chld /\ handler = "idle" /\ pc \notin {"exited", "crashed"}
    /\ chld' = FALSE
    /\ waitpidNow(Child)
    /\ handler' = "tcsetpgrp"
    /\ UNCHANGED <<stage, own, memory, group, image, tty, history>>

\* Mutant: the terminal stays where it is.
handlerTcsetpgrpNot ==
    /\ handler = "tcsetpgrp"
    /\ handler' = "idle"
    /\ UNCHANGED <<stage, own, memory, children, tty, chld, history>>

handlerTcsetpgrp ==
    /\ handler = "tcsetpgrp"
    /\ handler' = "idle"
    /\ tty' = Shell
    /\ taken' = (taken \/ tty = pid)
    /\ UNCHANGED <<stage, own, memory, children, chld, late, merged>>

-----------------------------------------------------------------------------
(* The three programs. *)

main02 ==
    /\ stage = "02_filedir"
    /\ \E l \in Line : readLine(l) \/ readCrashes(l)
execute_cmd02 == stage = "02_filedir" /\ (builtin \/ noFork)
destory_job02 == stage = "02_filedir" /\ destroy

parent == parentSetpgid \/ parentGetpgid \/ parentTcsetpgrp \/ parentWaitpid
child(p) == childSetpgid(p) \/ childTcsetpgrp(p) \/ childStops(p) \/ childExec(p)

main03 ==
    /\ stage = "03_process"
    /\ (\E l \in Line : readLine(l) \/ readCrashes(l)) \/ readStops \/ resumed
execute_cmd03 ==
    /\ stage = "03_process"
    /\ builtin \/ noFork \/ (\E p \in Pid : fork(p)) \/ parent
child03(p) == stage = "03_process" /\ child(p)
destory_job03 == stage = "03_process" /\ destroy

main04 ==
    /\ stage = "04_signal"
    /\ \E l \in Line : readLine(l) \/ readCrashes(l)
execute_cmd04 ==
    /\ stage = "04_signal"
    /\ builtin \/ noFork \/ (\E p \in Pid : fork(p)) \/ parent
child04(p) == stage = "04_signal" /\ child(p)
destory_job04 == stage = "04_signal" /\ destroy
sig_handler == stage = "04_signal" /\ (handlerWaitpid \/ handlerTcsetpgrp)

command(p) == ends(p) \/ stops(p) \/ continues(p)

Next ==
    \/ main02 \/ execute_cmd02 \/ destory_job02
    \/ main03 \/ execute_cmd03 \/ destory_job03
    \/ main04 \/ execute_cmd04 \/ destory_job04
    \/ sig_handler
    \/ \E p \in Pid : child03(p) \/ child04(p) \/ command(p)

Spec == Init /\ [][Next]_vars

Execution == execute_cmd02 \/ execute_cmd03 \/ execute_cmd04

\* The shell, its handler and a child that has not called execvp run on when
\* they can; nobody has to type, to end, or to stop or continue anything.
FairSpec ==
    /\ Spec
    /\ WF_vars(Execution)
    /\ WF_vars(destory_job02 \/ destory_job03 \/ destory_job04)
    /\ WF_vars(readStops)
    /\ WF_vars(sig_handler)
    /\ \A p \in Pid : WF_vars(child03(p) \/ child04(p))

-----------------------------------------------------------------------------
(* Properties. *)

Status ==
    {"none", "forked", "tcsetpgrp", "stopped by SIGTTOU", "exec", "runs", "stopped",
     "resumed", "zombie", "gone"}

ProcessesOK ==
    /\ stage \in {"02_filedir", "03_process", "04_signal"}
    /\ pc \in {"read", "stopped", "execute", "setpgid", "getpgid", "tcsetpgrp",
               "waitpid", "destroy", "exited", "crashed"}
    /\ line.bg \in BOOLEAN
    /\ pid \in Pid \cup {NoGroup} /\ pgid \in Pid \cup {Shell, NoGroup}
    /\ handler \in {"idle", "tcsetpgrp"}
    /\ at \in [Pid -> Status]
    /\ group \in [Pid -> Pid \cup {Shell}]
    /\ tty \in Pid \cup {Shell, Login}
    /\ chld \in BOOLEAN /\ taken \in BOOLEAN /\ late \in BOOLEAN /\ merged \in BOOLEAN

\* fd is an index of fds, or -1.
RedirectionType == [redirect : {"<", ">", ">>"}, fd : Nat \cup {-1}]

ImageType ==
    [line : LineType, reds : Seq(RedirectionType),
     in : FileType \cup {"terminal"}, out : FileType \cup {"terminal"}]

TypeOK ==
    /\ ProcessesOK
    /\ n \in 0..MaxLines /\ line \in LineType /\ reds \in Seq(RedirectionType)
    /\ fds \in Seq(FileType) /\ Len(fds) <= MaxFds
    /\ image \in [Pid -> ImageType]

\* A command runs in a process group of its own, whichever of the shell and the
\* child was faster: a signal for it never reaches the shell or another one.
OwnGroup ==
    \A p \in Pid : Runs(p) \/ at[p] = "stopped" => group[p] = p

\* The shell goes on after a command in the foreground only when it is over or
\* has stopped, even if the handler has reaped it before the shell knows its
\* group.
ForegroundIsOver ==
    [][pc = "waitpid" /\ pc' = "destroy" /\ ~line.bg
        => at'[pid] \in {"gone", "stopped", "stopped by SIGTTOU"}]_vars

\* A command in the foreground never runs without the terminal, unless the
\* handler took it because of some other event.
ForegroundHasTerminal ==
    pc \in {"setpgid", "getpgid", "tcsetpgrp", "waitpid"} /\ ~line.bg /\ Runs(pid)
        => tty = pid \/ taken

\* A child that has ended is reaped, or its signal is pending, unless two
\* ended before the handler ran.
ZombieHasSignal ==
    stage = "04_signal" /\ ~merged
        => \A p \in Pid : at[p] = "zombie" => chld

\* Between two lines, exactly one block of each line before is left, whether it
\* was in the background or not: its program, which the job copies.  Every other
\* block was freed, and none of them a second time.
OnlyProgramsStay ==
    pc \in {"read", "stopped"} => heap = {<<k, "prog", 0>> : k \in 1..n}

\* What the last word of a kind of redirection in the line says.
Typed(l, redirects) ==
    LET ks == {k \in DOMAIN l.redirections : l.redirections[k].redirect \in redirects}
    IN  IF ks = {} THEN "terminal" ELSE l.redirections[Max(ks)].file

\* The streams of a command are those of its line, if all its files could be
\* opened; and never the file of another line.
StreamAsTyped(l, rs, stream, redirects) ==
    /\ (\A k \in DOMAIN rs : rs[k].fd # -1) => stream = Typed(l, redirects)
    /\ stream # "terminal" =>
           \E k \in DOMAIN l.redirections : stream = l.redirections[k].file

HasStreams(p) ==
    /\ StreamAsTyped(image[p].line, image[p].reds, image[p].in, {"<"})
    /\ StreamAsTyped(image[p].line, image[p].reds, image[p].out, {">", ">>"})

StreamsAsTyped == \A p \in Pid : Runs(p) => HasStreams(p)

\* A shell that prompts has the terminal in the end, or the one that started it
\* has; unless a command got it that had ended or stopped before.
TerminalReturns == (pc = "read") ~> (tty \in {Shell, Login} \/ late)

\* The shell does not wait for ever for a command that is over.
WaitReturns ==
    \A p \in Pid :
        (pid = p /\ at[p] \in {"zombie", "gone"})
            ~> (pid # p \/ pc \in {"read", "execute", "stopped", "exited", "crashed"})

-----------------------------------------------------------------------------
(***************************************************************************)
(* The inductive invariant behind OwnGroup, ForegroundHasTerminal,         *)
(* ZombieHasSignal and ForegroundIsOver.                                   *)
(***************************************************************************)

\* Between fork and the end of the wait the shell has a child.
Busy == pc \in {"setpgid", "getpgid", "tcsetpgrp", "waitpid"}

ImagesOK ==
    /\ DOMAIN image = Pid
    /\ \A p \in Pid : /\ DOMAIN image[p] = DOMAIN NoImage
                      /\ image[p].line.bg \in BOOLEAN

\* A child leaves the shell's group by its first step.
Grouped == \A p \in Pid : at[p] \notin {"none", "forked"} => group[p] = p

\* What the shell knows of the child it has forked: the group it is told is the
\* child's, unless the handler has reaped the child.
KnowsChild ==
    Busy =>
        /\ pid \in Pid /\ at[pid] # "none" /\ image[pid].line = line
        /\ pc # "setpgid" => at[pid] = "gone" \/ group[pid] = pid
        /\ pc \in {"tcsetpgrp", "waitpid"} => at[pid] = "gone" \/ pgid = pid

\* The child in the foreground has the terminal from its tcsetpgrp on.
HasTerminal ==
    Busy /\ ~line.bg /\ at[pid] \in {"exec", "runs", "stopped", "resumed"}
        => tty = pid \/ taken

\* Only a child in the foreground takes the terminal, and in 04_signal, where
\* it is not stopped for that, it does so before the shell goes on.
TakesTerminal ==
    \A p \in Pid :
        /\ at[p] \in {"tcsetpgrp", "stopped by SIGTTOU"} => ~image[p].line.bg
        /\ stage = "04_signal" => at[p] # "stopped by SIGTTOU"
        /\ stage = "04_signal" /\ at[p] \in {"forked", "tcsetpgrp"} /\ ~image[p].line.bg
               => Busy /\ p = pid

\* As long as no two children ended at once, there is one zombie at most.
OneZombie ==
    stage = "04_signal" /\ ~merged =>
        \A p, q \in Pid : at[p] = "zombie" /\ at[q] = "zombie" => p = q

IInv ==
    /\ ProcessesOK /\ ImagesOK /\ Grouped /\ KnowsChild
    /\ HasTerminal /\ TakesTerminal /\ OneZombie /\ ZombieHasSignal

-----------------------------------------------------------------------------
(* The inductive invariant behind TypeOK, OnlyProgramsStay, StreamsAsTyped. *)

\* The redirections of a line, with the descriptors of its files: fds grows, and
\* a descriptor keeps its file.
OpenedFor(l, rs) ==
    /\ Len(rs) = Len(l.redirections)
    /\ \A k \in 1..Len(rs) :
           /\ rs[k].redirect = l.redirections[k].redirect
           /\ rs[k].fd # -1 => /\ rs[k].fd \in 1..Len(fds)
                               /\ fds[rs[k].fd] = l.redirections[k].file

RedirectionsOK ==
    /\ stage # "02_filedir" => OpenedFor(line, reds)
    /\ \A p \in Pid : OpenedFor(image[p].line, image[p].reds)
    /\ \A p \in Pid : Runs(p) \/ at[p] = "stopped" => HasStreams(p)

\* The programs of the first k lines, and what destory_job frees of a line.
Programs(k) == {<<j, "prog", 0>> : j \in 1..k}
JobBlocks(k, argc, redirect_num) ==
    {<<k, "job", 0>>, <<k, "cmd", 0>>, <<k, "args", 0>>, <<k, "progs", 1>>}
        \cup {<<k, "arg", i>> : i \in 0..(argc - 1)}
        \cup {<<k, "redireacts", r>> : r \in {redirect_num} \ {0}}

HeapOK ==
    /\ OnlyProgramsStay
    /\ Busy \/ pc \in {"execute", "destroy"} =>
           heap = Programs(n) \cup JobBlocks(n, line.argc, Len(reds))

MemoryInv == TypeOK /\ RedirectionsOK /\ HeapOK

-----------------------------------------------------------------------------
(* What the comments say and the code does not do. *)

\* "Reap all the children, without blocking".
HandlerReapsAll ==
    [][handler = "idle" /\ handler' = "tcsetpgrp"
        => \A p \in Pid : at'[p] # "zombie"]_vars

\* "Make it the foreground process group": the command keeps the terminal.
CommandKeepsTerminal ==
    pc = "waitpid" /\ ~line.bg /\ Runs(pid) => tty = pid

\* "export CITY=beijing: export an environment variable".
ExportedIsThere == environ \subseteq heap
=============================================================================
