------------------------------ MODULE MCMShell ------------------------------
(* An instance of MShell for TLC. *)
EXTENDS MShell

CONSTANTS p1, p2, f, g, m

Pids == {p1, p2}
Files == {f, g}

Command(bg, redirections) ==
    [cmd |-> "ls", argc |-> 1, bg |-> bg, redirections |-> redirections]
Word(cmd, argc) ==
    [cmd |-> cmd, argc |-> argc, bg |-> FALSE, redirections |-> <<>>]
To(redirect, file) == [redirect |-> redirect, file |-> file]

Lines ==
    {Command(TRUE, <<To("<", g), To(">", f), To(">>", g)>>),
     Command(FALSE, <<To("<", m), To(">", f)>>),
     Word("blank", 0), Word("export", 2), Word("echo", 2), Word("exit", 1)}
=============================================================================
