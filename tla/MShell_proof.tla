---------------------------- MODULE MShell_proof ----------------------------
(***************************************************************************)
(* Theorems about MShell for every set of pids, every set of lines and     *)
(* every bound: the process groups, the terminal, the signal of a zombie,  *)
(* the wait for a command in the foreground, the heap and the streams.     *)
(***************************************************************************)
EXTENDS MShell, SequenceTheorems, WellFoundedInduction, TLAPS

USE GroupsAssumption

LEMMA InitIInv == Init => IInv
<1> SUFFICES ASSUME Init PROVE IInv
  OBVIOUS
<1>1. ProcessesOK
  BY DEF Init, ProcessesOK, Status, NoLine
<1>2. ImagesOK
  BY DEF Init, ImagesOK, NoImage, NoLine
<1>3. Grouped /\ TakesTerminal /\ OneZombie /\ ZombieHasSignal
  BY DEF Init, Grouped, TakesTerminal, OneZombie, ZombieHasSignal
<1>4. KnowsChild /\ HasTerminal
  BY DEF Init, KnowsChild, HasTerminal, Busy
<1> QED BY <1>1, <1>2, <1>3, <1>4 DEF IInv

-----------------------------------------------------------------------------
(* The steps. *)

\* The steps of the shell that make no system call for a child or the terminal.
LocalStep ==
    /\ pc \in {"read", "stopped", "execute", "destroy"}
    /\ pc' \in {"read", "stopped", "execute", "destroy", "exited", "crashed"}
    /\ line' = line \/ line'.bg \in BOOLEAN
    /\ tty' \in {tty, Shell, Login}
    /\ UNCHANGED <<stage, pid, pgid, handler, children, chld, history>>

LEMMA LocalSteps ==
    ASSUME (\E l \in Line : readLine(l) \/ readCrashes(l)) \/ readStops \/ resumed
               \/ builtin \/ noFork \/ destroy
    PROVE  LocalStep
<1>1. ASSUME NEW l \in Line, readLine(l)
      PROVE  LocalStep
  <2>1. PICK argc \in Argc(l) : line' = [l EXCEPT !.argc = argc]
    BY <1>1 DEF readLine
  <2>2. line'.bg \in BOOLEAN
    BY <2>1, LineAssumption DEF LineType
  <2> QED BY <1>1, <2>2 DEF readLine, Reads, LocalStep
<1>2. ASSUME NEW l \in Line, readCrashes(l)
      PROVE  LocalStep
  BY <1>2 DEF readCrashes, Reads, LocalStep
<1>3. CASE readStops \/ resumed
  BY <1>3 DEF readStops, resumed, LocalStep
<1>4. CASE builtin \/ noFork
  BY <1>4 DEF builtin, noFork, Executes, LocalStep
<1>5. CASE destroy
  BY <1>5 DEF destroy, Steps, LocalStep
<1> QED BY <1>1, <1>2, <1>3, <1>4, <1>5

\* Every step is one of these.
LEMMA NextSteps ==
    ASSUME Next
    PROVE  \/ LocalStep
           \/ \E p \in Pid : fork(p)
           \/ parent
           \/ \E p \in Pid : child(p)
           \/ \E p \in Pid : command(p)
           \/ stage = "04_signal" /\ (handlerWaitpid \/ handlerTcsetpgrp)
<1>1. CASE main02 \/ main03 \/ main04
  BY <1>1, LocalSteps DEF main02, main03, main04
<1>2. CASE execute_cmd02 \/ execute_cmd03 \/ execute_cmd04
  BY <1>2, LocalSteps DEF execute_cmd02, execute_cmd03, execute_cmd04
<1>3. CASE destory_job02 \/ destory_job03 \/ destory_job04
  BY <1>3, LocalSteps DEF destory_job02, destory_job03, destory_job04
<1>4. CASE sig_handler
  BY <1>4 DEF sig_handler
<1>5. CASE \E p \in Pid : child03(p) \/ child04(p) \/ command(p)
  BY <1>5 DEF child03, child04
<1> QED BY <1>1, <1>2, <1>3, <1>4, <1>5 DEF Next
-----------------------------------------------------------------------------
(* The invariant is kept by the steps of the shell. *)

LEMMA LocalKeeps ==
    ASSUME IInv, LocalStep
    PROVE  IInv'
<1> USE DEF IInv, LocalStep, children, history
<1>1. ProcessesOK'
  <2>1. line'.bg \in BOOLEAN /\ tty' \in Pid \cup {Shell, Login}
    BY DEF ProcessesOK
  <2> QED BY <2>1 DEF ProcessesOK
<1>2. ImagesOK' /\ Grouped' /\ TakesTerminal' /\ OneZombie' /\ ZombieHasSignal'
  BY DEF ImagesOK, Grouped, TakesTerminal, OneZombie, ZombieHasSignal, Busy
<1>3. KnowsChild' /\ HasTerminal'
  BY DEF KnowsChild, HasTerminal, Busy
<1> QED BY <1>1, <1>2, <1>3

LEMMA ForkKeeps ==
    ASSUME IInv, NEW p \in Pid, fork(p)
    PROVE  IInv'
<1> USE DEF IInv, fork, Executes
<1>1. ProcessesOK'
  BY DEF ProcessesOK, Status
<1>2. /\ image'[p].line = line
      /\ \A q \in Pid : q # p => image'[q] = image[q]
  BY DEF ImagesOK, NoImage
<1>3. ImagesOK'
  <2>1. DOMAIN image' = Pid
    BY DEF ImagesOK
  <2>2. DOMAIN image'[p] = DOMAIN NoImage
    BY DEF ImagesOK, NoImage
  <2> QED BY <1>2, <2>1, <2>2 DEF ImagesOK, ProcessesOK
<1>4. Grouped'
  BY DEF Grouped, ProcessesOK
<1>5. KnowsChild'
  BY <1>2 DEF KnowsChild, Busy, ProcessesOK
<1>6. HasTerminal'
  BY DEF HasTerminal, Busy, ProcessesOK
<1>7. TakesTerminal'
  BY <1>2 DEF TakesTerminal, Busy, ProcessesOK
<1>8. OneZombie' /\ ZombieHasSignal'
  BY DEF OneZombie, ZombieHasSignal, ProcessesOK
<1> QED BY <1>1, <1>3, <1>4, <1>5, <1>6, <1>7, <1>8

\* A wait changes nothing but that it may reap a zombie.
Reaps ==
    \A q \in Pid : at'[q] = at[q] \/ (at[q] = "zombie" /\ at'[q] = "gone")

\* What the wait for a command in the foreground finds.
LEMMA WaitsForChild ==
    ASSUME IInv, pc = "waitpid", waitpid(pgid)
    PROVE  at'[pid] \in {"gone", "stopped", "stopped by SIGTTOU"}
<1> USE DEF IInv
<1>1. pid \in Pid /\ at[pid] # "none" /\ (at[pid] = "gone" \/ pgid = pid)
  BY DEF KnowsChild, Busy
<1>2. CASE \E p \in Child :
               group[p] = pgid /\ at[p] = "zombie" /\ at' = [at EXCEPT ![p] = "gone"]
  <2>1. PICK p \in Child :
            group[p] = pgid /\ at[p] = "zombie" /\ at' = [at EXCEPT ![p] = "gone"]
    BY <1>2
  <2>2. p \in Pid /\ group[p] = p
    BY <2>1 DEF Child, Grouped
  <2> QED BY <1>1, <2>1, <2>2 DEF ProcessesOK
<1>3. CASE \E p \in Child : group[p] = pgid /\ Stopped(p) /\ at' = at
  <2>1. PICK p \in Child : group[p] = pgid /\ Stopped(p) /\ at' = at
    BY <1>3
  <2>2. p \in Pid /\ group[p] = p
    BY <2>1 DEF Child, Grouped, Stopped
  <2> QED BY <1>1, <2>1, <2>2 DEF Stopped
<1>4. CASE (\A p \in Child : group[p] # pgid) /\ at' = at
  <2>1. group[pid] = pid \/ at[pid] = "gone"
    BY <1>4 DEF KnowsChild, Busy
  <2> QED BY <1>1, <1>4, <2>1 DEF Child
<1> QED BY <1>2, <1>3, <1>4 DEF waitpid

LEMMA ReapsMakesNone ==
    ASSUME Reaps
    PROVE  \A q \in Pid : at'[q] = "zombie" => at[q] = "zombie"
BY DEF Reaps

LEMMA WaitReaps ==
    ASSUME ProcessesOK, NEW g, waitpid(g)
    PROVE  at' \in [Pid -> Status] /\ Reaps
BY DEF ProcessesOK, Status, waitpid, Reaps, Child

LEMMA WaitNowReaps ==
    ASSUME ProcessesOK, NEW S \in SUBSET Pid, waitpidNow(S)
    PROVE  at' \in [Pid -> Status] /\ Reaps
BY DEF ProcessesOK, Status, waitpidNow, Reaps

LEMMA ParentKeeps ==
    ASSUME IInv, parent
    PROVE  IInv'
<1> USE DEF IInv
<1>0. Busy
  BY DEF parent, parentSetpgid, parentGetpgid, parentTcsetpgrp, parentWaitpid, Steps, Busy
<1>1. /\ pid \in Pid /\ at[pid] # "none" /\ image[pid].line = line
      /\ pc # "setpgid" => at[pid] = "gone" \/ group[pid] = pid
      /\ pc \in {"tcsetpgrp", "waitpid"} => at[pid] = "gone" \/ pgid = pid
  BY <1>0 DEF KnowsChild
<1>2. CASE parentSetpgid
  <2> USE <1>2 DEF parentSetpgid, Steps, memory, history
  <2>1. ProcessesOK' /\ ImagesOK'
    BY <1>1 DEF ProcessesOK, ImagesOK
  <2>2. Grouped'
    BY <1>1 DEF Grouped, ProcessesOK
  <2>3. KnowsChild'
    BY <1>1 DEF KnowsChild, Busy, Child, ProcessesOK
  <2>4. HasTerminal' /\ TakesTerminal' /\ OneZombie' /\ ZombieHasSignal'
    BY DEF HasTerminal, TakesTerminal, OneZombie, ZombieHasSignal, Busy
  <2> QED BY <2>1, <2>2, <2>3, <2>4
<1>3. CASE parentGetpgid
  <2> USE <1>3 DEF parentGetpgid, Steps, memory, children, history
  <2>1. ProcessesOK' /\ ImagesOK' /\ Grouped'
    BY <1>1 DEF ProcessesOK, ImagesOK, Grouped
  <2>2. KnowsChild'
    BY <1>1 DEF KnowsChild, Busy, Child, ProcessesOK
  <2>3. HasTerminal' /\ TakesTerminal' /\ OneZombie' /\ ZombieHasSignal'
    BY DEF HasTerminal, TakesTerminal, OneZombie, ZombieHasSignal, Busy
  <2> QED BY <2>1, <2>2, <2>3
<1>4. CASE parentTcsetpgrp
  <2> USE <1>4 DEF parentTcsetpgrp, Steps, memory, children
  <2>1. ProcessesOK' /\ ImagesOK' /\ Grouped'
    <3>1. tty' \in Pid \cup {Shell, Login}
      BY DEF Foreground, Child, Grouped, ProcessesOK
    <3>2. late' \in BOOLEAN
      BY DEF ProcessesOK
    <3> QED BY <3>1, <3>2 DEF ProcessesOK, ImagesOK, Grouped
  <2>2. KnowsChild'
    BY <1>1 DEF KnowsChild, Busy
  <2>3. HasTerminal'
    BY <1>1 DEF HasTerminal, Busy, Foreground, Child
  <2>4. TakesTerminal' /\ OneZombie' /\ ZombieHasSignal'
    BY DEF TakesTerminal, OneZombie, ZombieHasSignal, Busy
  <2> QED BY <2>1, <2>2, <2>3, <2>4
<1>5. CASE parentWaitpid
  <2> USE <1>5 DEF parentWaitpid, Steps, memory, history
  <2>0. {p \in Child : group[p] = pgid} \in SUBSET Pid
    BY DEF Child
  <2>1. at' \in [Pid -> Status] /\ Reaps
    BY <2>0, WaitReaps, WaitNowReaps
  <2>2. ProcessesOK' /\ ImagesOK'
    BY <2>1 DEF ProcessesOK, ImagesOK
  <2>3. Grouped' /\ OneZombie' /\ ZombieHasSignal'
    <3>1. Grouped'
      BY <2>1 DEF Grouped, Reaps
    <3>2. OneZombie'
      BY <2>1, ReapsMakesNone DEF OneZombie
    <3>3. ZombieHasSignal'
      BY <2>1 DEF ZombieHasSignal, Reaps
    <3> QED BY <3>1, <3>2, <3>3
  <2>4. KnowsChild' /\ HasTerminal'
    BY DEF KnowsChild, HasTerminal, Busy
  <2>5. line.bg \/ at'[pid] \in {"gone", "stopped", "stopped by SIGTTOU"}
    BY WaitsForChild
  <2>6. TakesTerminal'
    BY <1>1, <2>1, <2>5 DEF TakesTerminal, Reaps
  <2> QED BY <2>2, <2>3, <2>4, <2>6
<1> QED BY <1>2, <1>3, <1>4, <1>5 DEF parent

-----------------------------------------------------------------------------
(* The invariant is kept by the children. *)

\* A move of a child changes no other child.
LEMMA Moved ==
    ASSUME ProcessesOK, NEW p \in Pid, NEW to \in Status, at' = [at EXCEPT ![p] = to]
    PROVE  /\ at' \in [Pid -> Status]
           /\ at'[p] = to
           /\ \A q \in Pid : q # p => at'[q] = at[q]
BY DEF ProcessesOK

\* The types depend on no more than this of the children.
LEMMA TypesKept ==
    ASSUME ProcessesOK, at' \in [Pid -> Status],
           stage' = stage, pc' = pc, line' = line, pid' = pid, pgid' = pgid,
           handler' = handler, group' = group, tty' = tty,
           chld' = chld, taken' = taken, late' = late, merged' = merged
    PROVE  ProcessesOK'
BY DEF ProcessesOK

LEMMA ChildKeeps ==
    ASSUME IInv, NEW p \in Pid, child(p)
    PROVE  IInv'
<1> USE DEF IInv, Moves, own, memory, history
<1>1. CASE childSetpgid(p)
  <2> DEFINE to == IF image[p].line.bg THEN "exec" ELSE "tcsetpgrp"
  <2>1. at[p] = "forked" /\ at' = [at EXCEPT ![p] = to] /\ to \in Status
    BY <1>1 DEF childSetpgid, Status
  <2>2. /\ at' \in [Pid -> Status] /\ at'[p] = to
        /\ \A q \in Pid : q # p => at'[q] = at[q]
    BY <2>1, Moved
  <2>3. to = "exec" \/ (to = "tcsetpgrp" /\ ~image[p].line.bg)
    OBVIOUS
  <2> HIDE DEF to
  <2> USE <1>1 DEF childSetpgid
  <2>4. ProcessesOK' /\ ImagesOK'
    BY <2>2 DEF ProcessesOK, ImagesOK
  <2>5. Grouped'
    BY <2>2 DEF Grouped, ProcessesOK
  <2>6. KnowsChild'
    BY <2>1, <2>2, <2>3 DEF KnowsChild, Busy, ProcessesOK
  <2>7. HasTerminal'
    BY <2>1, <2>2 DEF HasTerminal, KnowsChild, Busy, to
  <2>8. TakesTerminal'
    BY <2>1, <2>2, <2>3 DEF TakesTerminal, Busy
  <2>9. OneZombie' /\ ZombieHasSignal'
    BY <2>1, <2>2, <2>3 DEF OneZombie, ZombieHasSignal
  <2> QED BY <2>4, <2>5, <2>6, <2>7, <2>8, <2>9
<1>2. CASE childTcsetpgrp(p)
  <2> USE <1>2 DEF childTcsetpgrp
  <2>1. at[p] = "tcsetpgrp" /\ tty' = p
    BY DEF Foreground, Child, Grouped, ProcessesOK
  <2>2. /\ at' \in [Pid -> Status] /\ at'[p] = "exec"
        /\ \A q \in Pid : q # p => at'[q] = at[q]
    BY Moved DEF Status
  <2>3. ProcessesOK' /\ ImagesOK'
    BY <2>1, <2>2 DEF ProcessesOK, ImagesOK
  <2>4. Grouped' /\ KnowsChild'
    BY <2>1, <2>2 DEF Grouped, KnowsChild, Busy
  <2>5. HasTerminal'
    BY <2>1, <2>2 DEF HasTerminal, KnowsChild, TakesTerminal, MayCallTcsetpgrp, Busy
  <2>6. TakesTerminal'
    BY <2>1, <2>2 DEF TakesTerminal, Busy
  <2>7. OneZombie' /\ ZombieHasSignal'
    BY <2>1, <2>2 DEF OneZombie, ZombieHasSignal
  <2> QED BY <2>3, <2>4, <2>5, <2>6, <2>7
<1>3. CASE childStops(p)
  <2> USE <1>3 DEF childStops
  <2>1. at[p] = "tcsetpgrp" /\ stage # "04_signal"
    BY DEF MayCallTcsetpgrp
  <2>2. /\ at' \in [Pid -> Status] /\ at'[p] = "stopped by SIGTTOU"
        /\ \A q \in Pid : q # p => at'[q] = at[q]
    BY Moved DEF Status
  <2> HIDE <1>3
  <2>3. UNCHANGED <<stage, own, handler, group, image, tty, chld, history>>
    BY <1>3
  <2>4. ProcessesOK' /\ ImagesOK'
    <3>1. /\ stage' = stage /\ pc' = pc /\ line' = line /\ pid' = pid /\ pgid' = pgid
          /\ handler' = handler /\ group' = group /\ tty' = tty
          /\ chld' = chld /\ taken' = taken /\ late' = late /\ merged' = merged
      BY <2>3
    <3>2. ProcessesOK'
      BY <2>2, <3>1, TypesKept
    <3>3. ImagesOK'
      BY <2>3 DEF ImagesOK
    <3> QED BY <3>2, <3>3
  <2>5. Grouped' /\ KnowsChild' /\ HasTerminal'
    BY <2>1, <2>2, <2>3 DEF Grouped, KnowsChild, HasTerminal, Busy
  <2>6. TakesTerminal'
    BY <2>1, <2>2, <2>3 DEF TakesTerminal, Busy
  <2>7. OneZombie' /\ ZombieHasSignal'
    BY <2>1, <2>2, <2>3 DEF OneZombie, ZombieHasSignal
  <2> QED BY <2>4, <2>5, <2>6, <2>7
<1>4. CASE childExec(p)
  <2> USE <1>4 DEF childExec
  <2>1. /\ DOMAIN image' = Pid
        /\ \A q \in Pid : /\ image'[q].line = image[q].line
                          /\ DOMAIN image'[q] = DOMAIN NoImage
    BY DEF ImagesOK, NoImage
  <2>2. /\ at' \in [Pid -> Status] /\ at[p] = "exec" /\ at'[p] = "runs"
        /\ \A q \in Pid : q # p => at'[q] = at[q]
    BY Moved DEF Status
  <2>3. ProcessesOK' /\ ImagesOK'
    <3>1. ProcessesOK'
      BY <2>2 DEF ProcessesOK
    <3>2. ImagesOK'
      BY <2>1 DEF ImagesOK
    <3> QED BY <3>1, <3>2
  <2> HIDE <1>4
  <2>4. UNCHANGED <<stage, own, handler, group, tty, chld, history>>
    BY <1>4
  <2>5. Grouped' /\ KnowsChild' /\ HasTerminal'
    BY <2>1, <2>2, <2>4 DEF Grouped, KnowsChild, HasTerminal, Busy
  <2>6. TakesTerminal'
    BY <2>1, <2>2, <2>4 DEF TakesTerminal, Busy
  <2>7. OneZombie' /\ ZombieHasSignal'
    BY <2>2, <2>4 DEF OneZombie, ZombieHasSignal
  <2> QED BY <2>3, <2>5, <2>6, <2>7
<1> QED BY <1>1, <1>2, <1>3, <1>4 DEF child

LEMMA CommandKeeps ==
    ASSUME IInv, NEW p \in Pid, command(p)
    PROVE  IInv'
<1> USE DEF IInv, own, memory, history, Notify
<1>1. CASE ends(p)
  <2> USE <1>1 DEF ends
  <2>1. at[p] \in {"exec", "runs", "resumed", "stopped", "stopped by SIGTTOU"}
    BY DEF Runs, Stopped
  <2>2. /\ at' \in [Pid -> Status] /\ at'[p] = "zombie"
        /\ \A q \in Pid : q # p => at'[q] = at[q]
    BY Moved DEF Status
  <2>3. ProcessesOK' /\ ImagesOK'
    <3>1. merged' \in BOOLEAN /\ chld' \in BOOLEAN
      BY DEF ProcessesOK
    <3> QED BY <2>2, <3>1 DEF ProcessesOK, ImagesOK
  <2>4. Grouped' /\ KnowsChild' /\ HasTerminal'
    BY <2>1, <2>2 DEF Grouped, KnowsChild, HasTerminal, Busy
  <2>5. TakesTerminal'
    BY <2>1, <2>2 DEF TakesTerminal, Busy
  <2>6. OneZombie'
    <3>1. stage = "04_signal" /\ ~merged' => \A q \in Pid : at[q] # "zombie"
      BY DEF ZombieHasSignal, ProcessesOK
    <3> QED BY <2>2, <3>1 DEF OneZombie
  <2>7. ZombieHasSignal'
    BY DEF ZombieHasSignal
  <2> QED BY <2>3, <2>4, <2>5, <2>6, <2>7
<1>2. CASE stops(p) \/ continues(p)
  <2> USE <1>2 DEF stops, continues, Moves
  <2>1. PICK to \in {"stopped", "resumed", "tcsetpgrp"} :
            /\ at' = [at EXCEPT ![p] = to]
            /\ \/ at[p] = "runs" /\ to = "stopped"
               \/ at[p] = "stopped" /\ to = "resumed"
               \/ at[p] = "stopped by SIGTTOU" /\ to = "tcsetpgrp"
    OBVIOUS
  <2>2. /\ at' \in [Pid -> Status] /\ at'[p] = to
        /\ \A q \in Pid : q # p => at'[q] = at[q]
    BY <2>1, Moved DEF Status
  <2> HIDE <1>2
  <2>3. UNCHANGED <<stage, own, handler, group, image, tty, history>> /\ Notify
    BY <1>2
  <2>4. ProcessesOK' /\ ImagesOK'
    BY <2>2, <2>3 DEF ProcessesOK, ImagesOK
  <2>5. Grouped' /\ KnowsChild' /\ HasTerminal'
    BY <2>1, <2>2, <2>3 DEF Grouped, KnowsChild, HasTerminal, Busy
  <2>6. TakesTerminal'
    BY <2>1, <2>2, <2>3 DEF TakesTerminal, Busy
  <2>7. OneZombie' /\ ZombieHasSignal'
    BY <2>1, <2>2, <2>3 DEF OneZombie, ZombieHasSignal
  <2> QED BY <2>4, <2>5, <2>6, <2>7
<1> QED BY <1>1, <1>2 DEF command

-----------------------------------------------------------------------------
(* The invariant is kept by the handler. *)

LEMMA HandlerKeeps ==
    ASSUME IInv, stage = "04_signal", handlerWaitpid \/ handlerTcsetpgrp
    PROVE  IInv'
<1> USE DEF IInv, own, memory
<1>1. CASE handlerWaitpid
  <2> USE <1>1 DEF handlerWaitpid, history
  <2>0. Child \in SUBSET Pid
    BY DEF Child
  <2>1. at' \in [Pid -> Status] /\ Reaps
    BY <2>0, WaitNowReaps
  <2>2. ProcessesOK' /\ ImagesOK'
    BY ZenonT(40), <2>1 DEF ProcessesOK, ImagesOK
  <2>3. Grouped' /\ TakesTerminal'
    BY <2>1 DEF Grouped, TakesTerminal, Reaps, Busy
  <2>4. KnowsChild' /\ HasTerminal'
    BY <2>1 DEF KnowsChild, HasTerminal, Reaps, Busy
  <2>5. OneZombie'
    BY <2>1, ReapsMakesNone DEF OneZombie
  <2>6. ZombieHasSignal'
    BY DEF OneZombie, ZombieHasSignal, waitpidNow, Child, ProcessesOK
  <2> QED BY <2>2, <2>3, <2>4, <2>5, <2>6
<1>2. CASE handlerTcsetpgrp
  <2> USE <1>2 DEF handlerTcsetpgrp, children
  <2>1. ProcessesOK' /\ ImagesOK' /\ Grouped'
    BY DEF ProcessesOK, ImagesOK, Grouped
  <2>2. KnowsChild' /\ HasTerminal' /\ TakesTerminal'
    BY DEF KnowsChild, HasTerminal, TakesTerminal, Busy
  <2>3. OneZombie' /\ ZombieHasSignal'
    BY DEF OneZombie, ZombieHasSignal
  <2> QED BY <2>1, <2>2, <2>3
<1> QED BY <1>1, <1>2

-----------------------------------------------------------------------------
(* The theorems. *)

\* IInv holds always.
THEOREM InductiveInvariant == Spec => []IInv
<1>1. ASSUME IInv, UNCHANGED vars
      PROVE  IInv'
  <2> USE <1>1 DEF vars, own, children, history, IInv
  <2>1. ProcessesOK' /\ ImagesOK'
    BY DEF ProcessesOK, ImagesOK
  <2>2. Grouped' /\ KnowsChild' /\ HasTerminal' /\ TakesTerminal'
    BY DEF Grouped, KnowsChild, HasTerminal, TakesTerminal, Busy
  <2>3. OneZombie' /\ ZombieHasSignal'
    BY DEF OneZombie, ZombieHasSignal
  <2> QED BY <2>1, <2>2, <2>3
<1>2. ASSUME IInv, Next
      PROVE  IInv'
  BY <1>2, NextSteps, LocalKeeps, ForkKeeps, ParentKeeps, ChildKeeps, CommandKeeps,
     HandlerKeeps
<1>3. IInv /\ [Next]_vars => IInv'
  BY <1>1, <1>2
<1> QED BY InitIInv, <1>3, PTL DEF Spec

\* A command runs in a process group of its own, whichever of setpgid in the
\* shell and setpgid in the child came first.
THEOREM GroupsAreOwn == Spec => []OwnGroup
<1>1. IInv => OwnGroup
  BY DEF IInv, Grouped, OwnGroup, Runs
<1> QED BY <1>1, InductiveInvariant, PTL

\* A running command in the foreground has the terminal, unless the handler
\* took it.
THEOREM TerminalIsGiven == Spec => []ForegroundHasTerminal
<1>1. IInv => ForegroundHasTerminal
  BY DEF IInv, HasTerminal, ForegroundHasTerminal, Runs, Busy
<1> QED BY <1>1, InductiveInvariant, PTL

\* A zombie of 04_signal has its SIGCHLD pending, unless two children ended
\* before the handler ran.
THEOREM ZombiesAreReaped == Spec => []ZombieHasSignal
<1>1. IInv => ZombieHasSignal
  BY DEF IInv
<1> QED BY <1>1, InductiveInvariant, PTL

\* The shell goes on after a command in the foreground only when it is over or
\* has stopped.
THEOREM WaitIsForTheCommand == Spec => ForegroundIsOver
<1>1. ASSUME IInv, [Next]_vars
      PROVE  [pc = "waitpid" /\ pc' = "destroy" /\ ~line.bg
                => at'[pid] \in {"gone", "stopped", "stopped by SIGTTOU"}]_vars
  <2>1. SUFFICES ASSUME Next, pc = "waitpid", pc' = "destroy", ~line.bg
                 PROVE  at'[pid] \in {"gone", "stopped", "stopped by SIGTTOU"}
    BY <1>1
  <2>2. parentWaitpid
    BY <2>1, NextSteps DEF LocalStep, fork, Executes, parent, parentSetpgid,
       parentGetpgid, parentTcsetpgrp, Steps, child, childSetpgid, childTcsetpgrp,
       childStops, childExec, command, ends, stops, continues, handlerWaitpid,
       handlerTcsetpgrp, own
  <2> QED BY <1>1, <2>1, <2>2, WaitsForChild DEF parentWaitpid
<1> QED BY <1>1, InductiveInvariant, PTL DEF Spec, ForegroundIsOver

-----------------------------------------------------------------------------
(* parse_cmd: the redirections of a line. *)

\* A non-empty set of naturals has a least element.
LEMMA LeastNatural ==
    ASSUME NEW S, S \subseteq Nat, S # {}
    PROVE  \E x \in S : \A y \in S : x <= y
<1>1. PICK x \in S : \A y \in S : <<y, x>> \notin OpToRel(<, Nat)
  BY NatLessThanWellFounded, WFMin, Zenon
<1>2. \A y \in S : ~(y < x)
  BY <1>1, Zenon DEF OpToRel
<1>3. \A y \in S : x <= y
  BY <1>2
<1> QED BY <1>3

\* What parse_cmd has opened after each of the first m redirections of rs.
IsOpening(f, fs, rs, m) ==
    f = [r \in 0..m |->
           IF r = 0 THEN [fds |-> fs, reds |-> <<>>] ELSE openFile(f[r - 1], rs[r])]

LEMMA OpeningExists ==
    ASSUME NEW fs, NEW rs, NEW n0 \in Nat
    PROVE  \E f : IsOpening(f, fs, rs, n0)
<1> DEFINE Bad == {m \in Nat : ~ \E f : IsOpening(f, fs, rs, m)}
           first == [fds |-> fs, reds |-> <<>>]
<1>1. SUFFICES ASSUME Bad # {} PROVE FALSE
  OBVIOUS
<1>2. PICK m \in Bad : \A y \in Bad : m <= y
  BY <1>1, LeastNatural
<1>3. CASE m = 0
  <2>1. IsOpening([r \in 0..0 |-> first], fs, rs, 0)
    BY DEF IsOpening
  <2> QED BY <1>2, <1>3, <2>1
<1>4. CASE m # 0
  <2>1. m - 1 \in Nat /\ m - 1 \notin Bad
    BY <1>2, <1>4
  <2>2. PICK c : IsOpening(c, fs, rs, m - 1)
    BY <2>1
  <2> DEFINE d == [r \in 0..m |-> IF r = 0 THEN first ELSE openFile(c[r - 1], rs[r])]
  <2>3. \A r \in 0..(m - 1) : d[r] = c[r]
    BY <2>1, <2>2 DEF IsOpening
  <2>4. \A r \in 0..m : d[r] = IF r = 0 THEN first ELSE openFile(d[r - 1], rs[r])
    <3>1. TAKE r \in 0..m
    <3>2. d[r] = IF r = 0 THEN first ELSE openFile(c[r - 1], rs[r])
      OBVIOUS
    <3>3. r = 0 \/ r - 1 \in 0..(m - 1)
      BY <1>2
    <3> QED BY <2>3, <3>2, <3>3
  <2>5. IsOpening(d, fs, rs, m)
    BY <2>4, Zenon DEF IsOpening
  <2> QED BY <1>2, <2>5
<1> QED BY <1>3, <1>4

\* What holds of fds and reds after the first m redirections.
Opening(s, fs, rs, m) ==
    /\ s \in [fds : Seq(FileType), reds : Seq(RedirectionType)]
    /\ Len(s.fds) <= MaxFds /\ Len(fs) <= Len(s.fds)
    /\ \A i \in 1..Len(fs) : s.fds[i] = fs[i]
    /\ Len(s.reds) = m
    /\ \A k \in 1..m :
          /\ s.reds[k].redirect = rs[k].redirect
          /\ s.reds[k].fd # -1 => /\ s.reds[k].fd \in 1..Len(s.fds)
                                  /\ s.fds[s.reds[k].fd] = rs[k].file

LEMMA OpeningGrows ==
    ASSUME NEW fs, Len(fs) \in Nat, NEW rs, NEW m \in Nat, NEW s, Opening(s, fs, rs, m),
           NEW g \in Seq(FileType), Len(s.fds) <= Len(g), Len(g) <= MaxFds,
           \A i \in 1..Len(s.fds) : g[i] = s.fds[i],
           NEW red \in RedirectionType, red.redirect = rs[m + 1].redirect,
           red.fd # -1 => red.fd \in 1..Len(g) /\ g[red.fd] = rs[m + 1].file
    PROVE  Opening([fds |-> g, reds |-> Append(s.reds, red)], fs, rs, m + 1)
<1> DEFINE a == s.fds
           q == s.reds
           q1 == Append(q, red)
<1>0. Len(g) \in Nat
  OBVIOUS
<1>1. /\ a \in Seq(FileType) /\ q \in Seq(RedirectionType)
      /\ Len(a) \in Nat /\ Len(q) = m /\ Len(fs) <= Len(a)
  BY DEF Opening
<1>2. \A i \in 1..Len(fs) : a[i] = fs[i]
  BY DEF Opening
<1>3. \A k \in 1..m :
          /\ q[k].redirect = rs[k].redirect
          /\ q[k].fd # -1 => q[k].fd \in 1..Len(a) /\ a[q[k].fd] = rs[k].file
  BY DEF Opening
<1>4. Len(a) <= Len(g) /\ \A i \in 1..Len(a) : g[i] = a[i]
  OBVIOUS
<1> HIDE DEF a, q
<1>5. /\ q1 \in Seq(RedirectionType) /\ Len(q1) = Len(q) + 1
      /\ q1[Len(q) + 1] = red /\ \A k \in 1..Len(q) : q1[k] = q[k]
  BY <1>1, AppendProperties
<1> HIDE DEF q1
<1>6. q1[m + 1] = red /\ \A k \in 1..m : q1[k] = q[k]
  BY <1>1, <1>5
<1>7. ASSUME NEW k \in 1..(m + 1)
      PROVE  /\ q1[k].redirect = rs[k].redirect
             /\ q1[k].fd # -1 => q1[k].fd \in 1..Len(g) /\ g[q1[k].fd] = rs[k].file
  <2>1. CASE k = m + 1
    BY <1>6, <2>1
  <2>2. CASE k # m + 1
    <3>1. k \in 1..m /\ q1[k] = q[k]
      BY <1>6, <2>2
    <3> QED BY <1>0, <1>1, <1>3, <1>4, <3>1
  <2> QED BY <2>1, <2>2
<1>8. \A i \in 1..Len(fs) : g[i] = fs[i]
  BY <1>0, <1>1, <1>2, <1>4
<1>9. Len(fs) <= Len(g)
  BY <1>0, <1>1, <1>4
<1>10. Opening([fds |-> g, reds |-> q1], fs, rs, m + 1)
  BY <1>1, <1>5, <1>7, <1>8, <1>9 DEF Opening
<1> QED BY <1>10 DEF q1, q

LEMMA OpenFileKeeps ==
    ASSUME NEW fs, Len(fs) \in Nat, NEW rs, NEW m \in Nat, NEW s, Opening(s, fs, rs, m),
           NEW r \in WrittenRedirection, r = rs[m + 1]
    PROVE  Opening(openFile(s, r), fs, rs, m + 1)
<1>0. MaxFds \in Nat
  BY BoundsAssumption
<1>1. /\ s.fds \in Seq(FileType) /\ Len(s.fds) <= MaxFds
      /\ s = [fds |-> s.fds, reds |-> s.reds]
  BY DEF Opening
<1>2. r.redirect \in {"<", ">", ">>"} /\ r.file \in FileType
  BY DEF WrittenRedirection
<1>3. CASE (r.file = Missing /\ r.redirect = "<") \/ Len(s.fds) = MaxFds
  <2> DEFINE red == [redirect |-> r.redirect, fd |-> -1]
  <2>1. openFile(s, r) = [fds |-> s.fds, reds |-> Append(s.reds, red)]
    <3>1. openFile(s, r) = [s EXCEPT !.reds = Append(@, red)]
      BY <1>3 DEF openFile
    <3> HIDE DEF red
    <3> QED BY <1>1, <3>1
  <2>2. red \in RedirectionType /\ red.redirect = rs[m + 1].redirect /\ red.fd = -1
    BY <1>2 DEF RedirectionType
  <2> HIDE DEF red
  <2>3. Len(s.fds) <= Len(s.fds) /\ \A i \in 1..Len(s.fds) : s.fds[i] = s.fds[i]
    BY <1>1
  <2>4. Opening([fds |-> s.fds, reds |-> Append(s.reds, red)], fs, rs, m + 1)
    BY <1>1, <2>2, <2>3, OpeningGrows
  <2> QED BY <2>1, <2>4
<1>4. CASE ~((r.file = Missing /\ r.redirect = "<") \/ Len(s.fds) = MaxFds)
  <2> DEFINE a == s.fds
             g == Append(a, r.file)
             red == [redirect |-> r.redirect, fd |-> Len(a) + 1]
  <2>1. openFile(s, r) = [fds |-> g, reds |-> Append(s.reds, red)]
    BY <1>4 DEF openFile
  <2>2. a \in Seq(FileType) /\ Len(a) \in Nat /\ Len(a) < MaxFds
    BY <1>0, <1>1, <1>4
  <2>3. red \in RedirectionType /\ red.redirect = rs[m + 1].redirect /\ red.fd = Len(a) + 1
    BY <1>2, <2>2 DEF RedirectionType
  <2> HIDE DEF a
  <2>4. /\ g \in Seq(FileType) /\ Len(g) = Len(a) + 1 /\ g[Len(a) + 1] = r.file
        /\ \A i \in 1..Len(a) : g[i] = a[i]
    BY <1>2, <2>2, AppendProperties
  <2> HIDE DEF g, red
  <2>5. Len(a) <= Len(g) /\ Len(g) <= MaxFds
    BY <1>0, <2>2, <2>4
  <2>6. red.fd \in 1..Len(g) /\ g[red.fd] = rs[m + 1].file
    BY <2>2, <2>3, <2>4
  <2> USE DEF a
  <2>7. Len(s.fds) <= Len(g) /\ \A i \in 1..Len(s.fds) : g[i] = s.fds[i]
    BY <2>4, <2>5
  <2> HIDE DEF a
  <2>8. Opening([fds |-> g, reds |-> Append(s.reds, red)], fs, rs, m + 1)
    BY <2>3, <2>4, <2>5, <2>6, <2>7, OpeningGrows
  <2> QED BY <2>1, <2>8
<1> QED BY <1>3, <1>4

\* What parse_cmd opens for the redirections of a line.
LEMMA OpenedIs ==
    ASSUME fds \in Seq(FileType), Len(fds) <= MaxFds,
           NEW rs \in Seq(WrittenRedirection)
    PROVE  Opening(Opened(rs), fds, rs, Len(rs))
<1> DEFINE f == CHOOSE c : IsOpening(c, fds, rs, Len(rs))
           Bad == {m \in 0..Len(rs) : ~Opening(f[m], fds, rs, m)}
<1>0. Len(rs) \in Nat /\ Len(fds) \in Nat
  OBVIOUS
<1>1. IsOpening(f, fds, rs, Len(rs))
  BY <1>0, OpeningExists
<1>2. Opened(rs) = f[Len(rs)]
  BY DEF Opened, IsOpening
<1> HIDE DEF f
<1>3. \A r \in 0..Len(rs) :
        f[r] = IF r = 0 THEN [fds |-> fds, reds |-> <<>>] ELSE openFile(f[r - 1], rs[r])
  BY <1>1, Zenon DEF IsOpening
<1>4. ASSUME Bad # {} PROVE FALSE
  <2>0. Bad \subseteq Nat
    OBVIOUS
  <2>1. PICK m \in Bad : \A y \in Bad : m <= y
    <3> HIDE DEF Bad
    <3> QED BY <1>4, <2>0, LeastNatural
  <2>2. CASE m = 0
    <3>1. f[0] = [fds |-> fds, reds |-> <<>>]
      BY <1>0, <1>3
    <3>2. Opening(f[0], fds, rs, 0)
      BY <1>0, <3>1 DEF Opening
    <3> QED BY <2>1, <2>2, <3>2
  <2>3. CASE m # 0
    <3>1. /\ m - 1 \in Nat /\ m - 1 \in 0..Len(rs) /\ m \in 1..Len(rs)
          /\ (m - 1) + 1 = m /\ m - 1 \notin Bad
      BY <1>0, <2>1, <2>3
    <3>2. Opening(f[m - 1], fds, rs, m - 1)
      BY <3>1
    <3>3. rs[m] \in WrittenRedirection
      BY <3>1
    <3>4. Opening(openFile(f[m - 1], rs[m]), fds, rs, m)
      BY <1>0, <3>1, <3>2, <3>3, OpenFileKeeps
    <3> QED BY <1>3, <2>1, <2>3, <3>4
  <2> QED BY <2>2, <2>3
<1> QED BY <1>0, <1>2, <1>4

-----------------------------------------------------------------------------
(* parse_cmd: the blocks of a line. *)

Redirects(k, r) == {<<k, "redirect", i>> : i \in 1..r}

\* The blocks after r redirections were made, and after r were added.
MadeBlocks(h, k, r) == h \cup Redirects(k, r)
AddedBlocks(h, k, argc, redirect_num, r) ==
    (creat_program(MadeBlocks(h, k, redirect_num), k, argc) \ Redirects(k, r))
        \cup {<<k, "redireacts", i>> : i \in {r} \ {0}}

IsMade(f, h, k, redirect_num) ==
    f = [r \in 0..redirect_num |-> IF r = 0 THEN h ELSE creat_redirect(f[r - 1], k, r)]
IsAdded(f, base, k, redirect_num) ==
    f = [r \in 0..redirect_num |->
           IF r = 0 THEN base
           ELSE destory_redirect(add_redirection(f[r - 1], k, r), k, r)]

LEMMA MakesOne ==
    ASSUME NEW h, NEW k, NEW r \in Nat \ {0}
    PROVE  creat_redirect(MadeBlocks(h, k, r - 1), k, r) = MadeBlocks(h, k, r)
<1>1. Redirects(k, r) = Redirects(k, r - 1) \cup {<<k, "redirect", r>>}
  <2>1. 1..r = (1..(r - 1)) \cup {r}
    OBVIOUS
  <2> QED BY <2>1, Zenon DEF Redirects
<1> QED BY <1>1 DEF creat_redirect, MadeBlocks

LEMMA MadeIs ==
    ASSUME NEW h, NEW k, NEW redirect_num \in Nat
    PROVE  /\ \E f : IsMade(f, h, k, redirect_num)
           /\ \A f : IsMade(f, h, k, redirect_num) =>
                 \A r \in 0..redirect_num : f[r] = MadeBlocks(h, k, r)
<1>0. MadeBlocks(h, k, 0) = h
  BY DEF MadeBlocks, Redirects
<1>1. \E f : IsMade(f, h, k, redirect_num)
  <2> DEFINE f == [r \in 0..redirect_num |-> MadeBlocks(h, k, r)]
  <2>1. ASSUME NEW r \in 0..redirect_num
        PROVE  f[r] = IF r = 0 THEN h ELSE creat_redirect(f[r - 1], k, r)
    <3>1. CASE r = 0
      BY <1>0, <3>1
    <3>2. CASE r # 0
      <4>1. r - 1 \in 0..redirect_num /\ r \in Nat \ {0}
        BY <3>2
      <4>2. f[r - 1] = MadeBlocks(h, k, r - 1)
        BY <4>1
      <4> QED BY <3>2, <4>1, <4>2, MakesOne
    <3> QED BY <3>1, <3>2
  <2>2. f = [r \in 0..redirect_num |->
               IF r = 0 THEN h ELSE creat_redirect(f[r - 1], k, r)]
    BY <2>1, Zenon
  <2> QED BY <2>2, Zenon DEF IsMade
<1>2. ASSUME NEW f, IsMade(f, h, k, redirect_num)
      PROVE  \A r \in 0..redirect_num : f[r] = MadeBlocks(h, k, r)
  <2> DEFINE Bad == {r \in 0..redirect_num : f[r] # MadeBlocks(h, k, r)}
  <2>1. ASSUME Bad # {} PROVE FALSE
    <3>0. Bad \subseteq Nat
      OBVIOUS
    <3>1. PICK r \in Bad : \A y \in Bad : r <= y
      <4> HIDE DEF Bad
      <4> QED BY <2>1, <3>0, LeastNatural
    <3>2. f[r] = IF r = 0 THEN h ELSE creat_redirect(f[r - 1], k, r)
      BY <1>2, <3>1, Zenon DEF IsMade
    <3>3. CASE r = 0
      BY <1>0, <3>1, <3>2, <3>3
    <3>4. CASE r # 0
      <4>1. r - 1 \in 0..redirect_num /\ r \in Nat \ {0} /\ r - 1 \notin Bad
        BY <3>1, <3>4
      <4>2. f[r - 1] = MadeBlocks(h, k, r - 1)
        BY <4>1
      <4> QED BY <3>1, <3>2, <3>4, <4>1, <4>2, MakesOne
    <3> QED BY <3>3, <3>4
  <2> QED BY <2>1
<1> QED BY <1>1, <1>2

\* What creat_job finds: no block of line k.
NoBlocks(h, k) == \A role, i : <<k, role, i>> \in h => role \in {"job", "cmd"}

LEMMA AddsOne ==
    ASSUME NEW h, NEW k, NoBlocks(h, k), NEW argc \in Nat, NEW redirect_num \in Nat,
           NEW r \in 1..redirect_num
    PROVE  destory_redirect(
               add_redirection(AddedBlocks(h, k, argc, redirect_num, r - 1), k, r), k, r)
             = AddedBlocks(h, k, argc, redirect_num, r)
<1> DEFINE base == creat_program(MadeBlocks(h, k, redirect_num), k, argc)
           before == AddedBlocks(h, k, argc, redirect_num, r - 1)
           old == {<<k, "redireacts", i>> : i \in {r - 1} \ {0}}
           new == {<<k, "redireacts", r>>}
           done == {<<k, "redirect", r>>}
<1>1. before = (base \ Redirects(k, r - 1)) \cup old
  BY DEF AddedBlocks
<1>2. /\ \A i : <<k, "redireacts", i>> \notin base
      /\ <<k, "redirect", r>> \in base
  BY DEF NoBlocks, creat_program, MadeBlocks, Redirects
<1>3. /\ Redirects(k, r) = Redirects(k, r - 1) \cup done
      /\ <<k, "redirect", r>> \notin Redirects(k, r - 1)
      /\ \A i : <<k, "redireacts", i>> \notin Redirects(k, r - 1)
  <2>1. 1..r = (1..(r - 1)) \cup {r} /\ r \notin 1..(r - 1)
    OBVIOUS
  <2> QED BY <2>1 DEF Redirects
<1>4. old = IF r = 1 THEN {} ELSE {<<k, "redireacts", r - 1>>}
  <2>1. {r - 1} \ {0} = IF r = 1 THEN {} ELSE {r - 1}
    OBVIOUS
  <2> QED BY <2>1
<1>5. new \cap old = {} /\ new \cap base = {} /\ old \cap base = {}
      /\ done \cap old = {} /\ done \cap new = {} /\ done \subseteq base
      /\ done \cap Redirects(k, r - 1) = {}
  BY <1>2, <1>3, <1>4
<1> HIDE DEF base, before
<1>6. add_redirection(before, k, r) = (base \ Redirects(k, r - 1)) \cup new
  <2>1. old \subseteq before \cup new
    BY <1>1
  <2>2. add_redirection(before, k, r) = (before \cup new) \ old
    BY <1>4, <2>1 DEF add_redirection, Free
  <2> HIDE DEF new, old
  <2> QED BY <1>1, <1>5, <2>2
<1>7. destory_redirect(add_redirection(before, k, r), k, r)
        = ((base \ Redirects(k, r - 1)) \cup new) \ done
  <2>1. done \subseteq (base \ Redirects(k, r - 1)) \cup new
    BY <1>5
  <2> QED BY <1>6, <2>1 DEF destory_redirect, Free
<1>8. ((base \ Redirects(k, r - 1)) \cup new) \ done = (base \ Redirects(k, r)) \cup new
  <2> HIDE DEF new, done
  <2> QED BY <1>3, <1>5
<1>9. AddedBlocks(h, k, argc, redirect_num, r) = (base \ Redirects(k, r)) \cup new
  <2>1. {r} \ {0} = {r}
    OBVIOUS
  <2> QED BY <2>1 DEF AddedBlocks, base
<1> QED BY <1>7, <1>8, <1>9 DEF before

LEMMA AddedIs ==
    ASSUME NEW h, NEW k, NoBlocks(h, k), NEW argc \in Nat, NEW redirect_num \in Nat,
           NEW base, base = creat_program(MadeBlocks(h, k, redirect_num), k, argc)
    PROVE  /\ \E f : IsAdded(f, base, k, redirect_num)
           /\ \A f : IsAdded(f, base, k, redirect_num) =>
                 \A r \in 0..redirect_num :
                    f[r] = AddedBlocks(h, k, argc, redirect_num, r)
<1> DEFINE blocks(r) == AddedBlocks(h, k, argc, redirect_num, r)
           step(b, r) == destory_redirect(add_redirection(b, k, r), k, r)
<1>1. blocks(0) = base
  <2>1. Redirects(k, 0) = {} /\ {0} \ {0} = {}
    BY DEF Redirects
  <2> QED BY <2>1 DEF AddedBlocks
<1>2. \A r \in 1..redirect_num : step(blocks(r - 1), r) = blocks(r)
  BY AddsOne
<1> HIDE DEF blocks
<1>3. \E f : IsAdded(f, base, k, redirect_num)
  <2> DEFINE f == [r \in 0..redirect_num |-> blocks(r)]
  <2>1. ASSUME NEW r \in 0..redirect_num
        PROVE  f[r] = IF r = 0 THEN base ELSE step(f[r - 1], r)
    <3>1. CASE r = 0
      BY <1>1, <3>1
    <3>2. CASE r # 0
      <4>1. r - 1 \in 0..redirect_num /\ r \in 1..redirect_num
        BY <3>2
      <4>2. f[r - 1] = blocks(r - 1) /\ f[r] = blocks(r)
        BY <4>1
      <4> HIDE DEF f, step
      <4> QED BY <1>2, <3>2, <4>1, <4>2
    <3> QED BY <3>1, <3>2
  <2>2. f = [r \in 0..redirect_num |-> IF r = 0 THEN base ELSE step(f[r - 1], r)]
    BY <2>1, Zenon
  <2> QED BY <2>2, Zenon DEF IsAdded
<1>4. ASSUME NEW f, IsAdded(f, base, k, redirect_num)
      PROVE  \A r \in 0..redirect_num : f[r] = blocks(r)
  <2> DEFINE Bad == {r \in 0..redirect_num : f[r] # blocks(r)}
  <2>1. ASSUME Bad # {} PROVE FALSE
    <3>0. Bad \subseteq Nat
      OBVIOUS
    <3>1. PICK r \in Bad : \A y \in Bad : r <= y
      <4> HIDE DEF Bad
      <4> QED BY <2>1, <3>0, LeastNatural
    <3>2. f[r] = IF r = 0 THEN base ELSE step(f[r - 1], r)
      BY <1>4, <3>1, Zenon DEF IsAdded
    <3> HIDE DEF step
    <3>3. CASE r = 0
      BY <1>1, <3>1, <3>2, <3>3
    <3>4. CASE r # 0
      <4>1. r - 1 \in 0..redirect_num /\ r \in 1..redirect_num /\ r - 1 \notin Bad
        BY <3>1, <3>4
      <4>2. f[r - 1] = blocks(r - 1)
        BY <4>1
      <4> QED BY <1>2, <3>1, <3>2, <3>4, <4>1, <4>2
    <3> QED BY <3>3, <3>4
  <2> QED BY <2>1
<1> QED BY <1>3, <1>4 DEF blocks

\* What is allocated for a line when it is parsed, next to its job and command.
LEMMA ParsedIs ==
    ASSUME NEW h, NEW k, NoBlocks(h, k), NEW argc \in Nat, NEW redirect_num \in Nat
    PROVE  parse_cmd(h, k, argc, redirect_num) =
              add_program(creat_program(h, k, argc), k)
                  \cup {<<k, "redireacts", r>> : r \in {redirect_num} \ {0}}
<1> DEFINE made == CHOOSE f : IsMade(f, h, k, redirect_num)
           base == creat_program(made[redirect_num], k, argc)
           added == CHOOSE f : IsAdded(f, base, k, redirect_num)
           last == {<<k, "redireacts", r>> : r \in {redirect_num} \ {0}}
<1>1. parse_cmd(h, k, argc, redirect_num) = add_program(added[redirect_num], k)
  BY DEF parse_cmd, IsMade, IsAdded
<1>2. made[redirect_num] = MadeBlocks(h, k, redirect_num)
  <2>1. IsMade(made, h, k, redirect_num)
    BY MadeIs
  <2> HIDE DEF made
  <2> QED BY <2>1, MadeIs
<1>3. base = creat_program(MadeBlocks(h, k, redirect_num), k, argc)
  BY <1>2
<1> HIDE DEF base
<1>4. added[redirect_num] = AddedBlocks(h, k, argc, redirect_num, redirect_num)
  <2>1. IsAdded(added, base, k, redirect_num)
    BY <1>3, AddedIs
  <2> HIDE DEF added
  <2> QED BY <1>3, <2>1, AddedIs
<1>5. creat_program(MadeBlocks(h, k, redirect_num), k, argc) \ Redirects(k, redirect_num)
        = creat_program(h, k, argc)
  <2>1. /\ Redirects(k, redirect_num) \cap h = {}
        /\ Redirects(k, redirect_num) \cap {<<k, "prog", 0>>, <<k, "args", 0>>} = {}
        /\ Redirects(k, redirect_num) \cap {<<k, "arg", i>> : i \in 0..(argc - 1)} = {}
    BY DEF NoBlocks, Redirects
  <2> QED BY <2>1 DEF creat_program, MadeBlocks
<1>6. AddedBlocks(h, k, argc, redirect_num, redirect_num)
        = creat_program(h, k, argc) \cup last
  BY <1>5 DEF AddedBlocks
<1> QED BY <1>1, <1>4, <1>6 DEF add_program

\* A line is parsed after others are destroyed.
LEMMA LineBlocks ==
    ASSUME NEW k \in Nat \ {0}, NEW argc \in Nat, NEW redirect_num \in Nat
    PROVE  parse_cmd(creat_job(Programs(k - 1), k), k, argc, redirect_num)
             = Programs(k) \cup JobBlocks(k, argc, redirect_num)
<1> DEFINE h == creat_job(Programs(k - 1), k)
<1>1. NoBlocks(h, k)
  <2>1. k \notin 1..(k - 1)
    OBVIOUS
  <2> QED BY <2>1 DEF NoBlocks, creat_job, Programs
<1>2. Programs(k) = Programs(k - 1) \cup {<<k, "prog", 0>>}
  <2>1. 1..k = (1..(k - 1)) \cup {k}
    OBVIOUS
  <2> QED BY <2>1, Zenon DEF Programs
<1> HIDE DEF h
<1>3. parse_cmd(h, k, argc, redirect_num) =
          add_program(creat_program(h, k, argc), k)
              \cup {<<k, "redireacts", r>> : r \in {redirect_num} \ {0}}
  BY <1>1, ParsedIs
<1> QED BY <1>2, <1>3 DEF h, creat_job, creat_program, add_program, JobBlocks

\* What destory_job frees is allocated, and all but the program.
LEMMA DestroyedIs ==
    ASSUME NEW k \in Nat, NEW argc \in Nat, NEW redirect_num \in Nat
    PROVE  destory_job(Programs(k) \cup JobBlocks(k, argc, redirect_num), k, argc,
                       redirect_num) = Programs(k)
<1> DEFINE cmd == {<<k, "cmd", 0>>}
           job == {<<k, "job", 0>>}
           rest == {<<k, "arg", i>> : i \in 0..(argc - 1)}
                      \cup {<<k, "redireacts", r>> : r \in {redirect_num} \ {0}}
                      \cup {<<k, "args", 0>>, <<k, "progs", 1>>}
           h == Programs(k) \cup JobBlocks(k, argc, redirect_num)
<1>1. JobBlocks(k, argc, redirect_num) = (cmd \cup job) \cup rest
  BY DEF JobBlocks
<1>2. /\ cmd \cap job = {} /\ cmd \cap rest = {} /\ job \cap rest = {}
      /\ Programs(k) \cap cmd = {} /\ Programs(k) \cap job = {} /\ Programs(k) \cap rest = {}
  BY DEF Programs
<1>3. destory_job(h, k, argc, redirect_num) = Free(Free(Free(h, cmd), rest), job)
  BY DEF destory_job, destory_program
<1> HIDE DEF cmd, job, rest
<1>4. Free(h, cmd) = (Programs(k) \cup job) \cup rest
  BY <1>1, <1>2 DEF Free
<1>5. Free(Free(h, cmd), rest) = Programs(k) \cup job
  BY <1>2, <1>4 DEF Free
<1>6. Free(Free(Free(h, cmd), rest), job) = Programs(k)
  BY <1>2, <1>5 DEF Free
<1> QED BY <1>3, <1>6

-----------------------------------------------------------------------------
(* The streams of a command. *)

\* Max finds the largest of a set of indexes.
LEMMA MaxIs ==
    ASSUME NEW m \in Nat, NEW S \in SUBSET (1..m), S # {}
    PROVE  Max(S) \in S
<1> DEFINE D == {m - i : i \in S}
<1>0. \A i \in S : i \in 1..m /\ m - i \in Nat
  OBVIOUS
<1>1. D \subseteq Nat /\ D # {}
  BY <1>0
<1>2. PICK d \in D : \A y \in D : d <= y
  <2> HIDE DEF D
  <2> QED BY <1>1, LeastNatural
<1>3. PICK x \in S : d = m - x
  BY <1>2
<1>4. \A y \in S : x >= y
  <2>1. TAKE y \in S
  <2>2. m - y \in D /\ m - x <= m - y
    BY <1>2, <1>3
  <2> QED BY <1>0, <2>2
<1> QED BY <1>3, <1>4 DEF Max

\* A line, and a line with another number of words.
LEMMA LineFields ==
    ASSUME NEW l \in LineType
    PROVE  /\ l.argc \in Nat /\ l.bg \in BOOLEAN
           /\ l.redirections \in Seq(WrittenRedirection) /\ Len(l.redirections) \in Nat
BY DEF LineType

LEMMA LineWith ==
    ASSUME NEW l \in LineType, NEW argc \in Nat
    PROVE  /\ [l EXCEPT !.argc = argc] \in LineType
           /\ [l EXCEPT !.argc = argc].argc = argc
           /\ [l EXCEPT !.argc = argc].redirections = l.redirections
BY DEF LineType

LEMMA StreamIs ==
    ASSUME fds \in Seq(FileType), NEW l \in LineType, NEW rs \in Seq(RedirectionType),
           OpenedFor(l, rs), NEW redirects
    PROVE  /\ Stream(rs, redirects) \in FileType \cup {"terminal"}
           /\ StreamAsTyped(l, rs, Stream(rs, redirects), redirects)
<1> DEFINE ks == {k \in DOMAIN rs : rs[k].redirect \in redirects /\ rs[k].fd # -1}
           typed == {k \in DOMAIN l.redirections :
                         l.redirections[k].redirect \in redirects}
           m == Len(rs)
<1>1. /\ m \in Nat /\ DOMAIN rs = 1..m /\ DOMAIN l.redirections = 1..m
  BY LineFields DEF OpenedFor
<1>2. \A k \in 1..m :
          /\ rs[k].redirect = l.redirections[k].redirect
          /\ rs[k].fd # -1 => /\ rs[k].fd \in 1..Len(fds)
                              /\ fds[rs[k].fd] = l.redirections[k].file
  BY DEF OpenedFor
<1>3. ks \subseteq 1..m /\ typed \subseteq 1..m
  BY <1>1
<1>4. Stream(rs, redirects) = IF ks = {} THEN "terminal" ELSE fds[rs[Max(ks)].fd]
  BY DEF Stream
<1>5. Typed(l, redirects) =
          IF typed = {} THEN "terminal" ELSE l.redirections[Max(typed)].file
  BY DEF Typed
<1>6. (\A k \in DOMAIN rs : rs[k].fd # -1) => ks = typed
  BY <1>1, <1>2
<1>7. CASE ks = {}
  BY <1>4, <1>5, <1>6, <1>7 DEF StreamAsTyped
<1>8. CASE ks # {}
  <2> DEFINE k == Max(ks)
  <2>1. k \in ks
    <3> HIDE DEF ks, m
    <3> QED BY <1>1, <1>3, <1>8, MaxIs
  <2> HIDE DEF k
  <2>2. /\ k \in 1..m /\ rs[k].fd \in 1..Len(fds)
        /\ fds[rs[k].fd] = l.redirections[k].file
    BY <1>1, <1>2, <2>1
  <2>3. fds[rs[k].fd] \in FileType
    BY <2>2, ElementOfSeq
  <2>4. Stream(rs, redirects) = l.redirections[k].file
    BY <1>4, <1>8, <2>2 DEF k
  <2>5. (\A i \in DOMAIN rs : rs[i].fd # -1) => Stream(rs, redirects) = Typed(l, redirects)
    <3> HIDE DEF ks, typed, m
    <3> QED BY <1>5, <1>6, <1>8, <2>4 DEF k
  <2>6. Stream(rs, redirects) \in FileType
    BY <2>2, <2>3, <2>4
  <2> QED BY <1>1, <2>2, <2>4, <2>5, <2>6 DEF StreamAsTyped
<1> QED BY <1>7, <1>8

-----------------------------------------------------------------------------
(* MemoryInv is kept. *)

LEMMA InitMemory == Init => MemoryInv
<1> SUFFICES ASSUME Init PROVE MemoryInv
  OBVIOUS
<1>1. ProcessesOK /\ MaxLines \in Nat /\ MaxFds \in Nat
  BY InitIInv, BoundsAssumption DEF IInv
<1>2. NoLine \in LineType
  BY DEF NoLine, LineType
<1>3. NoImage \in ImageType
  BY <1>2 DEF NoImage, ImageType
<1>4. TypeOK
  BY <1>1, <1>2, <1>3 DEF Init, TypeOK
<1>5. RedirectionsOK
  BY DEF Init, RedirectionsOK, OpenedFor, NoLine, NoImage, Runs
<1>6. HeapOK
  <2>1. heap = {} /\ n = 0 /\ pc = "read"
    BY DEF Init
  <2> QED BY <2>1 DEF HeapOK, OnlyProgramsStay, Busy
<1> QED BY <1>4, <1>5, <1>6 DEF MemoryInv

\* The steps that touch neither a line nor its memory.
Quiet ==
    /\ UNCHANGED <<stage, n, line, reds, fds, heap, image>>
    /\ \A p \in Pid : (Runs(p) \/ at[p] = "stopped")' => Runs(p) \/ at[p] = "stopped"
    /\ pc' \in {"read", "stopped"} => pc \in {"read", "stopped"}
    /\ (Busy \/ pc \in {"execute", "destroy"})' => Busy \/ pc \in {"execute", "destroy"}

\* A line that is not read anew, and images that do not change.
LEMMA SameRedirections ==
    ASSUME RedirectionsOK, UNCHANGED <<stage, line, reds, fds, image>>,
           \A p \in Pid : (Runs(p) \/ at[p] = "stopped")' => Runs(p) \/ at[p] = "stopped"
    PROVE  RedirectionsOK'
<1>1. stage' # "02_filedir" => OpenedFor(line, reds)'
  BY DEF RedirectionsOK, OpenedFor
<1>2. \A p \in Pid : OpenedFor(image[p].line, image[p].reds)'
  BY DEF RedirectionsOK, OpenedFor
<1>3. \A p \in Pid : (Runs(p) \/ at[p] = "stopped")' => HasStreams(p)'
  BY DEF RedirectionsOK, HasStreams
<1> QED BY <1>1, <1>2, <1>3 DEF RedirectionsOK

LEMMA QuietKeeps ==
    ASSUME MemoryInv, ProcessesOK', Quiet
    PROVE  MemoryInv'
<1>1. TypeOK'
  BY DEF MemoryInv, Quiet, TypeOK
<1>2. RedirectionsOK'
  BY SameRedirections DEF MemoryInv, Quiet
<1>3. HeapOK'
  BY DEF MemoryInv, Quiet, HeapOK, OnlyProgramsStay
<1> QED BY <1>1, <1>2, <1>3 DEF MemoryInv

\* The numbers of a line.
LEMMA Bounds ==
    ASSUME TypeOK
    PROVE  /\ n \in Nat /\ n <= MaxLines /\ MaxLines \in Nat /\ MaxStale \in Nat
           /\ line.argc \in Nat /\ Len(reds) \in Nat
           /\ fds \in Seq(FileType) /\ Len(fds) <= MaxFds /\ Len(fds) \in Nat
<1>1. line.argc \in Nat
  BY LineFields DEF TypeOK
<1>2. reds \in Seq(RedirectionType) /\ n \in 0..MaxLines
      /\ fds \in Seq(FileType) /\ Len(fds) <= MaxFds
  BY DEF TypeOK
<1>3. MaxLines \in Nat /\ MaxStale \in Nat
  BY BoundsAssumption
<1> QED BY <1>1, <1>2, <1>3

LEMMA ArgcIs ==
    ASSUME NEW l \in LineType, NEW argc \in Argc(l)
    PROVE  argc \in Nat
<1>1. l.argc \in Nat /\ Len(l.redirections) \in Nat /\ MaxStale \in Nat
  BY LineFields, BoundsAssumption
<1>2. CASE stage = "02_filedir"
  <2>1. PICK k \in 0..MaxStale :
            argc = l.argc + 2 * Len(l.redirections) + (IF l.bg THEN 1 ELSE 0) + k
    BY <1>2 DEF Argc
  <2> QED BY <1>1, <2>1
<1>3. CASE stage # "02_filedir"
  BY <1>1, <1>3 DEF Argc
<1> QED BY <1>2, <1>3

\* Files are opened behind those that are open.
LEMMA StillOpened ==
    ASSUME NEW l, NEW rs, OpenedFor(l, rs), Len(fds) \in Nat, Len(fds') \in Nat,
           Len(fds) <= Len(fds'), \A i \in 1..Len(fds) : fds'[i] = fds[i]
    PROVE  /\ Len(rs) = Len(l.redirections)
           /\ \A k \in 1..Len(rs) :
                 /\ rs[k].redirect = l.redirections[k].redirect
                 /\ rs[k].fd # -1 => /\ rs[k].fd \in 1..Len(fds')
                                     /\ fds'[rs[k].fd] = l.redirections[k].file
<1>1. \A i \in 1..Len(fds) : i \in 1..Len(fds') /\ fds'[i] = fds[i]
  OBVIOUS
<1> QED BY <1>1 DEF OpenedFor

LEMMA ReadLineKeeps ==
    ASSUME MemoryInv, ProcessesOK', NEW l \in Line, readLine(l)
    PROVE  MemoryInv'
<1> DEFINE rs == Redirections(l)
           opened == Opened(rs)
<1>1. /\ pc = "read" /\ n < MaxLines /\ n' = n + 1 /\ pc' = "execute"
      /\ fds' = opened.fds /\ reds' = opened.reds
      /\ heap' = parse_cmd(creat_job(heap, n + 1), n + 1, line'.argc, Len(opened.reds))
      /\ UNCHANGED <<stage, at, image>>
  BY DEF readLine, Reads, children
<1>2. PICK argc \in Argc(l) : line' = [l EXCEPT !.argc = argc]
  BY DEF readLine
<1>3. l \in LineType /\ TypeOK /\ RedirectionsOK /\ HeapOK
  BY LineAssumption DEF MemoryInv
<1>4. argc \in Nat
  BY <1>3, ArgcIs
<1>5. /\ line' \in LineType /\ line'.argc = argc
      /\ line'.redirections = l.redirections
  BY <1>2, <1>3, <1>4, LineWith
<1>6. /\ rs \in Seq(WrittenRedirection)
      /\ stage # "02_filedir" => rs = l.redirections
  BY <1>3, LineFields DEF Redirections
<1> HIDE DEF rs
<1>7. Opening(opened, fds, rs, Len(rs))
  BY <1>3, <1>6, Bounds, OpenedIs
<1> HIDE DEF opened
<1>8. /\ fds' \in Seq(FileType) /\ reds' \in Seq(RedirectionType)
      /\ Len(fds') <= MaxFds /\ Len(fds) <= Len(fds')
      /\ Len(reds') = Len(rs)
  BY <1>1, <1>7 DEF Opening
<1>9. \A i \in 1..Len(fds) : fds'[i] = fds[i]
  BY <1>1, <1>7 DEF Opening
<1>10. \A k \in 1..Len(rs) :
           /\ reds'[k].redirect = rs[k].redirect
           /\ reds'[k].fd # -1 => /\ reds'[k].fd \in 1..Len(fds')
                                  /\ fds'[reds'[k].fd] = rs[k].file
  BY <1>1, <1>7 DEF Opening
<1>11. TypeOK'
  <2>1. n' \in 0..MaxLines
    BY <1>1, <1>3, Bounds
  <2>2. image' \in [Pid -> ImageType]
    BY <1>1, <1>3 DEF TypeOK
  <2> QED BY <1>5, <1>8, <2>1, <2>2 DEF TypeOK
<1>12. RedirectionsOK'
  <2>1. stage' # "02_filedir" => OpenedFor(line, reds)'
    BY <1>1, <1>5, <1>6, <1>8, <1>10 DEF OpenedFor
  <2>2. ASSUME NEW p \in Pid
        PROVE  OpenedFor(image[p].line, image[p].reds)'
    <3> DEFINE q == image[p].reds
               k == image[p].line
    <3>1. OpenedFor(k, q) /\ image'[p].reds = q /\ image'[p].line = k
      BY <1>1, <1>3 DEF RedirectionsOK
    <3> HIDE DEF k, q
    <3>2. Len(fds) \in Nat /\ Len(fds') \in Nat
      BY <1>8, <1>3, Bounds
    <3>3. /\ Len(q) = Len(k.redirections)
          /\ \A i \in 1..Len(q) :
                /\ q[i].redirect = k.redirections[i].redirect
                /\ q[i].fd # -1 => /\ q[i].fd \in 1..Len(fds')
                                   /\ fds'[q[i].fd] = k.redirections[i].file
      BY <1>8, <1>9, <3>1, <3>2, StillOpened
    <3> QED BY <3>1, <3>3 DEF OpenedFor
  <2>3. \A p \in Pid : (Runs(p) \/ at[p] = "stopped")' => HasStreams(p)'
    BY <1>1, <1>3 DEF RedirectionsOK, Runs, HasStreams
  <2> QED BY <2>1, <2>2, <2>3 DEF RedirectionsOK
<1>13. HeapOK'
  <2>1. heap = Programs(n)
    BY <1>1, <1>3 DEF HeapOK, OnlyProgramsStay, Programs
  <2>2. n + 1 \in Nat \ {0} /\ (n + 1) - 1 = n
    BY <1>3, Bounds
  <2>3. Len(reds') \in Nat
    BY <1>8
  <2>4. parse_cmd(creat_job(Programs((n + 1) - 1), n + 1), n + 1, argc, Len(reds'))
          = Programs(n + 1) \cup JobBlocks(n + 1, argc, Len(reds'))
    BY <1>4, <2>2, <2>3, LineBlocks
  <2>5. heap' = parse_cmd(creat_job(Programs(n), n + 1), n + 1, argc, Len(reds'))
    BY <1>1, <1>5, <2>1
  <2>6. heap' = Programs(n') \cup JobBlocks(n', line'.argc, Len(reds'))
    BY <1>1, <1>5, <2>2, <2>4, <2>5
  <2> QED BY <1>1, <2>6 DEF HeapOK, OnlyProgramsStay, Busy
<1> QED BY <1>11, <1>12, <1>13 DEF MemoryInv

LEMMA CrashKeeps ==
    ASSUME MemoryInv, ProcessesOK', NEW l \in Line, readCrashes(l)
    PROVE  MemoryInv'
<1>0. /\ TypeOK /\ RedirectionsOK
      /\ n < MaxLines /\ n' = n + 1 /\ pc' = "crashed"
      /\ UNCHANGED <<stage, at, line, reds, fds, image>>
  BY DEF MemoryInv, readCrashes, Reads, children
<1>1. TypeOK'
  <2>1. n' \in 0..MaxLines
    BY <1>0, Bounds
  <2> QED BY <1>0, <2>1 DEF TypeOK
<1>2. RedirectionsOK'
  BY <1>0, SameRedirections DEF Runs
<1>3. HeapOK'
  BY <1>0 DEF HeapOK, OnlyProgramsStay, Busy
<1> QED BY <1>1, <1>2, <1>3 DEF MemoryInv

LEMMA DestroyKeeps ==
    ASSUME MemoryInv, ProcessesOK', destroy
    PROVE  MemoryInv'
<1>0. /\ TypeOK /\ RedirectionsOK /\ HeapOK
      /\ heap' = destory_job(heap, n, line.argc, Len(reds))
      /\ pc = "destroy" /\ pc' = "read"
      /\ UNCHANGED <<stage, at, n, line, reds, fds, image>>
  BY DEF MemoryInv, destroy, Steps, children
<1>1. TypeOK'
  BY <1>0 DEF TypeOK
<1>2. RedirectionsOK'
  BY <1>0, SameRedirections DEF Runs
<1>3. heap' = Programs(n)
  <2>1. heap = Programs(n) \cup JobBlocks(n, line.argc, Len(reds))
    BY <1>0 DEF HeapOK
  <2>2. n \in Nat /\ line.argc \in Nat /\ Len(reds) \in Nat
    BY <1>0, Bounds
  <2> QED BY <1>0, <2>1, <2>2, DestroyedIs
<1>4. HeapOK'
  BY <1>0, <1>3 DEF HeapOK, OnlyProgramsStay, Busy, Programs
<1> QED BY <1>1, <1>2, <1>4 DEF MemoryInv

LEMMA ForkCopies ==
    ASSUME MemoryInv, ProcessesOK, ProcessesOK', stage # "02_filedir",
           NEW p \in Pid, fork(p)
    PROVE  MemoryInv'
<1> USE DEF MemoryInv
<1>1. /\ image \in [Pid -> ImageType] /\ line \in LineType /\ reds \in Seq(RedirectionType)
  BY DEF TypeOK, ImageType
<1>2. /\ image' = [image EXCEPT ![p].line = line, ![p].reds = reds]
      /\ UNCHANGED <<stage, n, line, reds, fds, heap>>
      /\ pc = "execute" /\ pc' = "setpgid"
      /\ at' = [at EXCEPT ![p] = "forked"] /\ at[p] = "none"
  BY DEF fork, Executes, memory
<1>3. /\ image' \in [Pid -> ImageType]
      /\ image'[p].line = line /\ image'[p].reds = reds
      /\ \A q \in Pid : q # p => image'[q] = image[q]
  <2> HIDE DEF MemoryInv
  <2> DEFINE e == [[image[p] EXCEPT !.line = line] EXCEPT !.reds = reds]
  <2>1. image' = [image EXCEPT ![p] = e]
    BY <1>1, <1>2 DEF ImageType
  <2>2. e \in ImageType /\ e.line = line /\ e.reds = reds
    BY <1>1 DEF ImageType
  <2> HIDE DEF e
  <2> QED BY <1>1, <2>1, <2>2
<1>4. TypeOK'
  BY <1>2, <1>3 DEF TypeOK, ImageType
<1>5. RedirectionsOK'
  <2>1. stage' # "02_filedir" => OpenedFor(line, reds)'
    BY <1>2 DEF RedirectionsOK, OpenedFor
  <2>2. ASSUME NEW q \in Pid
        PROVE  OpenedFor(image[q].line, image[q].reds)'
    <3>1. CASE q = p
      BY <1>2, <1>3, <3>1 DEF RedirectionsOK, OpenedFor
    <3>2. CASE q # p
      BY <1>2, <1>3, <3>2 DEF RedirectionsOK, OpenedFor
    <3> QED BY <3>1, <3>2
  <2>3. ASSUME NEW q \in Pid, (Runs(q) \/ at[q] = "stopped")'
        PROVE  HasStreams(q)'
    <3>1. at'[p] = "forked" /\ \A r \in Pid : r # p => at'[r] = at[r]
      BY <1>2 DEF ProcessesOK
    <3>2. q # p /\ at'[q] = at[q] /\ image'[q] = image[q]
      BY <1>3, <2>3, <3>1 DEF Runs
    <3> QED BY <2>3, <3>2 DEF RedirectionsOK, HasStreams, Runs
  <2> QED BY <2>1, <2>2, <2>3 DEF RedirectionsOK
<1>6. HeapOK'
  BY <1>2 DEF HeapOK, OnlyProgramsStay, Busy
<1> QED BY <1>4, <1>5, <1>6

LEMMA ExecRedirects ==
    ASSUME MemoryInv, ProcessesOK, ProcessesOK', NEW p \in Pid, childExec(p)
    PROVE  MemoryInv'
<1> USE DEF MemoryInv
<1> DEFINE in == Stream(image[p].reds, {"<"})
           out == Stream(image[p].reds, {">", ">>"})
<1>1. image \in [Pid -> ImageType] /\ fds \in Seq(FileType)
  BY DEF TypeOK, ImageType
<1>2. /\ image' = [image EXCEPT ![p].in = in, ![p].out = out]
      /\ UNCHANGED <<stage, pc, n, line, reds, fds, heap>>
      /\ at' = [at EXCEPT ![p] = "runs"]
  BY DEF childExec, Moves, own, memory
<1>3. /\ in \in FileType \cup {"terminal"} /\ out \in FileType \cup {"terminal"}
      /\ StreamAsTyped(image[p].line, image[p].reds, in, {"<"})
      /\ StreamAsTyped(image[p].line, image[p].reds, out, {">", ">>"})
  <2>1. image[p].line \in LineType /\ image[p].reds \in Seq(RedirectionType)
    BY <1>1 DEF ImageType
  <2>2. OpenedFor(image[p].line, image[p].reds)
    BY DEF RedirectionsOK
  <2> QED BY <1>1, <2>1, <2>2, StreamIs
<1> HIDE DEF in, out
<1>4. /\ image' \in [Pid -> ImageType]
      /\ image'[p].in = in /\ image'[p].out = out
      /\ \A q \in Pid : image'[q].line = image[q].line /\ image'[q].reds = image[q].reds
      /\ \A q \in Pid : q # p => image'[q] = image[q]
  <2> HIDE DEF MemoryInv
  <2> DEFINE e == [[image[p] EXCEPT !.in = in] EXCEPT !.out = out]
  <2>1. image' = [image EXCEPT ![p] = e]
    BY <1>1, <1>2 DEF ImageType
  <2>2. e \in ImageType /\ e.in = in /\ e.out = out
        /\ e.line = image[p].line /\ e.reds = image[p].reds
    BY <1>1, <1>3 DEF ImageType
  <2> HIDE DEF e
  <2> QED BY <1>1, <2>1, <2>2
<1>5. TypeOK'
  BY <1>2, <1>4 DEF TypeOK, ImageType
<1>6. RedirectionsOK'
  <2>1. stage' # "02_filedir" => OpenedFor(line, reds)'
    BY <1>2 DEF RedirectionsOK, OpenedFor
  <2>2. \A q \in Pid : OpenedFor(image[q].line, image[q].reds)'
    BY <1>2, <1>4 DEF RedirectionsOK, OpenedFor
  <2>3. ASSUME NEW q \in Pid, (Runs(q) \/ at[q] = "stopped")'
        PROVE  HasStreams(q)'
    <3>1. CASE q = p
      BY <1>3, <1>4, <3>1 DEF HasStreams
    <3>2. CASE q # p
      <4>1. at'[q] = at[q] /\ image'[q] = image[q]
        BY <1>2, <1>4, <3>2 DEF ProcessesOK
      <4> QED BY <2>3, <4>1 DEF RedirectionsOK, HasStreams, Runs
    <3> QED BY <3>1, <3>2
  <2> QED BY <2>1, <2>2, <2>3 DEF RedirectionsOK
<1>7. HeapOK'
  BY <1>2 DEF HeapOK, OnlyProgramsStay, Busy
<1> QED BY <1>5, <1>6, <1>7

\* The steps of the shell that touch neither a line nor its memory.
LEMMA ShellIsQuiet ==
    ASSUME readStops \/ resumed \/ builtin \/ noFork \/ parent
              \/ handlerWaitpid \/ handlerTcsetpgrp,
           ProcessesOK
    PROVE  Quiet
<1> USE DEF Quiet, own, memory, children
<1>1. CASE readStops \/ resumed
  BY <1>1 DEF readStops, resumed, Busy, Runs
<1>2. CASE builtin \/ noFork
  BY <1>2 DEF builtin, noFork, Executes, Busy, Runs
<1>3. CASE parentSetpgid \/ parentGetpgid \/ parentTcsetpgrp
  BY <1>3 DEF parentSetpgid, parentGetpgid, parentTcsetpgrp, Steps, Busy, Runs
<1>4. CASE parentWaitpid
  <2>1. {p \in Child : group[p] = pgid} \in SUBSET Pid
    BY DEF Child
  <2>2. Reaps
    BY <1>4, <2>1, WaitReaps, WaitNowReaps DEF parentWaitpid
  <2>3. \A p \in Pid : (Runs(p) \/ at[p] = "stopped")' => Runs(p) \/ at[p] = "stopped"
    BY <2>2 DEF Reaps, Runs
  <2> QED BY <1>4, <2>3 DEF parentWaitpid, Steps, Busy
<1>5. CASE handlerWaitpid
  <2>1. Child \in SUBSET Pid
    BY DEF Child
  <2>2. Reaps
    BY <1>5, <2>1, WaitNowReaps DEF handlerWaitpid
  <2>3. \A p \in Pid : (Runs(p) \/ at[p] = "stopped")' => Runs(p) \/ at[p] = "stopped"
    BY <2>2 DEF Reaps, Runs
  <2> QED BY <1>5, <2>3 DEF handlerWaitpid, Busy
<1>6. CASE handlerTcsetpgrp
  BY <1>6 DEF handlerTcsetpgrp, Busy, Runs
<1> QED BY <1>1, <1>2, <1>3, <1>4, <1>5, <1>6 DEF parent

LEMMA ChildIsQuiet ==
    ASSUME ProcessesOK, NEW p \in Pid,
           childSetpgid(p) \/ childTcsetpgrp(p) \/ childStops(p) \/ command(p)
    PROVE  Quiet
<1>1. UNCHANGED <<stage, own, fds, heap, image>>
  BY DEF childSetpgid, childTcsetpgrp, childStops, command, ends, stops, continues, memory
<1>2. \E to \in Status : /\ at' = [at EXCEPT ![p] = to]
                         /\ to \in {"runs", "resumed", "stopped"} =>
                                Runs(p) \/ at[p] = "stopped"
  BY DEF childSetpgid, childTcsetpgrp, childStops, command, ends, stops, continues,
     Moves, Runs, Status
<1>3. \A q \in Pid : (Runs(q) \/ at[q] = "stopped")' => Runs(q) \/ at[q] = "stopped"
  <2>1. PICK to \in Status : /\ at' = [at EXCEPT ![p] = to]
                             /\ to \in {"runs", "resumed", "stopped"} =>
                                    Runs(p) \/ at[p] = "stopped"
    BY <1>2
  <2>2. at'[p] = to /\ \A q \in Pid : q # p => at'[q] = at[q]
    BY <2>1, Moved
  <2> QED BY <2>1, <2>2 DEF Runs
<1> QED BY <1>1, <1>3 DEF Quiet, own, Busy

\* MemoryInv holds always.
THEOREM MemoryInvariant == Spec => []MemoryInv
<1>1. ASSUME MemoryInv, IInv, IInv', Next
      PROVE  MemoryInv'
  <2>0. ProcessesOK /\ ProcessesOK'
    BY <1>1 DEF IInv
  <2>1. CASE main02 \/ main03 \/ main04
    BY <1>1, <2>0, <2>1, ReadLineKeeps, CrashKeeps, ShellIsQuiet, QuietKeeps
    DEF main02, main03, main04
  <2>2. CASE execute_cmd02
    BY <1>1, <2>0, <2>2, ShellIsQuiet, QuietKeeps DEF execute_cmd02
  <2>3. CASE execute_cmd03 \/ execute_cmd04
    <3>1. \/ builtin \/ noFork \/ parent
          \/ stage # "02_filedir" /\ \E p \in Pid : fork(p)
      BY <2>3 DEF execute_cmd03, execute_cmd04
    <3> QED BY <1>1, <2>0, <3>1, ForkCopies, ShellIsQuiet, QuietKeeps
  <2>4. CASE destory_job02 \/ destory_job03 \/ destory_job04
    BY <1>1, <2>0, <2>4, DestroyKeeps DEF destory_job02, destory_job03, destory_job04
  <2>5. CASE sig_handler
    BY <1>1, <2>0, <2>5, ShellIsQuiet, QuietKeeps DEF sig_handler
  <2>6. ASSUME NEW p \in Pid, child03(p) \/ child04(p) \/ command(p)
        PROVE  MemoryInv'
    <3>1. child(p) \/ command(p)
      BY <2>6 DEF child03, child04
    <3>2. CASE childExec(p)
      BY <1>1, <2>0, <3>2, ExecRedirects
    <3>3. CASE childSetpgid(p) \/ childTcsetpgrp(p) \/ childStops(p) \/ command(p)
      BY <1>1, <2>0, <3>3, ChildIsQuiet, QuietKeeps
    <3> QED BY <3>1, <3>2, <3>3 DEF child
  <2> QED BY <1>1, <2>1, <2>2, <2>3, <2>4, <2>5, <2>6 DEF Next
<1>2. ASSUME MemoryInv, IInv', UNCHANGED vars
      PROVE  MemoryInv'
  <2>1. Quiet /\ ProcessesOK'
    BY <1>2 DEF Quiet, vars, own, memory, children, Runs, Busy, IInv
  <2> QED BY <1>2, <2>1, QuietKeeps
<1>3. MemoryInv /\ IInv /\ IInv' /\ [Next]_vars => MemoryInv'
  BY <1>1, <1>2
<1> QED BY InitMemory, InductiveInvariant, <1>3, PTL DEF Spec

\* The types, for any lines that parse_cmd has room for, with files that can be
\* opened or not, and any limit on open files: the shell never has more open.
THEOREM TypeCorrect == Spec => []TypeOK
<1>1. MemoryInv => TypeOK
  BY DEF MemoryInv
<1> QED BY <1>1, MemoryInvariant, PTL

\* When the shell prompts, exactly one block of every line before is still
\* allocated, its program, which the job copies; all others have been freed, each
\* once, however many words and redirections the line had.
THEOREM LinesAreFreed == Spec => []OnlyProgramsStay
<1>1. MemoryInv => OnlyProgramsStay
  BY DEF MemoryInv, HeapOK
<1> QED BY <1>1, MemoryInvariant, PTL

\* The streams of a command are those that its own line names, whichever files
\* could be opened, and however many the lines before it have left open.
THEOREM StreamsOfTheLine == Spec => []StreamsAsTyped
<1>1. MemoryInv => StreamsAsTyped
  BY DEF MemoryInv, RedirectionsOK, StreamsAsTyped
<1> QED BY <1>1, MemoryInvariant, PTL
=============================================================================
