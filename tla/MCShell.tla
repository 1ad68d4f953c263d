------------------------------ MODULE MCShell ------------------------------
(* Lines of every branch.  Commands emit two items, a pattern that matches *)
(* one file gives one, and there are a copier, a counter and a program     *)
(* that does not exist.  "locked" is a file that cannot be opened.         *)
EXTENDS Shell

Emit(n) == [does |-> "emit", n |-> n, glob |-> FALSE]
Match == [does |-> "emit", n |-> 1, glob |-> TRUE]
Copy == [does |-> "copy"]
Count == [does |-> "count"]
Missing == [does |-> "missing"]

Op(op, cs) == [op |-> op, cmds |-> cs]
Command(c) == [is |-> "command", cmd |-> c]
Redir(c, in, out) ==
  [op |-> "redir",
   words |-> <<Command(c)>>
     \o (IF in = NoFile THEN <<>> ELSE <<[is |-> "<"], [is |-> "file", file |-> in]>>)
     \o (IF out = NoFile THEN <<>> ELSE <<[is |-> ">"], [is |-> "file", file |-> out]>>)]

Firsts == {Emit(2), Copy, Missing}
Others == {Copy, Count, Emit(1), Missing}

Pipelines ==
  {Op("pipe", <<a, b>>) : a \in Firsts, b \in Others}
    \cup {Op("pipe", <<a, b, c>>) : a \in Firsts, b \in Others, c \in {Copy, Count}}
    \cup {Op("pipe", <<Match, Copy>>), Op("pipe", <<Emit(1), Match>>)}
    \cup {Op("pipe", <<Emit(2), Copy, Copy, Count>>), Op("exit", <<>>)}

(* Redirections from and to one file, also of a file that cannot be        *)
(* opened, and of two files to the same side                               *)
Redirections ==
  {Redir(c, in, out) : c \in {Emit(2), Copy},
                       in \in Names \cup {NoFile}, out \in Names \cup {NoFile}}
    \cup {[op |-> "redir",
           words |-> <<[is |-> ">"], [is |-> "file", file |-> f], Command(Copy), [is |-> ">"],
                      [is |-> "file", file |-> g], [is |-> "<"], [is |-> "file", file |-> f]>>]
          : f \in Names, g \in Names}

Simple ==
  {Op("plain", <<Match>>), Op("compile", <<Emit(2)>>), Op("listall", <<Emit(2)>>),
   Op("seq", <<Emit(1), Copy, Match>>), Op("seq", <<Missing, Count>>), Op("blank", <<>>),
   Op("exit", <<>>)}

AllLines == Pipelines \cup Redirections \cup Simple

(* A first command with one item more than the pipe holds                  *)
FullPipe == {Op("pipe", <<Emit(3), Count>>)}
=============================================================================
