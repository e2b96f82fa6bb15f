-------------------------------- MODULE Job ---------------------------------
(***************************************************************************)
(* The memory behind the jobs of the shell: job.c, the same in 03_process  *)
(* and 04_signal; 02_filedir has no redirections.  The heap is the set of  *)
(* allocated blocks.  A block has the number of the line it was allocated  *)
(* for, its role, and an index; the addresses of programs[1], [2], ... lie *)
(* inside a block and are not blocks.                                      *)
(***************************************************************************)
EXTENDS Integers, Sequences, SequencesExt

\* The heap after something was freed that is not allocated.
Corrupt == {"corrupt"}

Free(heap, blocks) == IF blocks \subseteq heap THEN heap \ blocks ELSE Corrupt

creat_job(heap, n) == heap \cup {<<n, "job", 0>>, <<n, "cmd", 0>>}

creat_program(heap, n, argc) ==
    heap \cup {<<n, "prog", 0>>, <<n, "args", 0>>}
         \cup {<<n, "arg", i>> : i \in 0..(argc - 1)}

\* The array is copied to a larger one, for the k-th redirection.
add_redirection(heap, n, k) ==
    Free(heap \cup {<<n, "redireacts", k>>},
         IF k = 1 THEN {} ELSE {<<n, "redireacts", k - 1>>})

creat_redirect(heap, n, k) == heap \cup {<<n, "redirect", k>>}
destory_redirect(heap, n, k) == Free(heap, {<<n, "redirect", k>>})

\* The first program of a job is copied into its array; the program that was
\* copied stays allocated.
add_program(heap, n) == heap \cup {<<n, "progs", 1>>}

\* &job->progs[0], the address that is freed last, is the array itself.
destory_program(heap, n, argc, redirect_num) ==
    Free(heap, {<<n, "arg", i>> : i \in 0..(argc - 1)}
               \cup {<<n, "redireacts", k>> : k \in {redirect_num} \ {0}}
               \cup {<<n, "args", 0>>, <<n, "progs", 1>>})

destory_job(heap, n, argc, redirect_num) ==
    Free(destory_program(Free(heap, {<<n, "cmd", 0>>}), n, argc, redirect_num),
         {<<n, "job", 0>>})
=============================================================================
