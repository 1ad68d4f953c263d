------------------------------ MODULE Command ------------------------------
(***************************************************************************)
(* What the shell of week08Lab2 runs on: file descriptor tables, pipes     *)
(* that hold a bounded amount, files, and the one child that exists at a   *)
(* time.  The child is a command: it emits a number of items, copies its   *)
(* input, counts it, or is a program that does not exist.  Reading the     *)
(* terminal gives end of file.                                             *)
(***************************************************************************)
EXTENDS Integers, FiniteSetsExt, SequencesExt

CONSTANTS
  Cap,         \* what fits into a pipe
  MaxPipes,    \* the pipes of the longest pipeline
  Names,       \* files of the current directory
  Unopenable   \* those that cannot be opened

ASSUME CapAssumption == Cap \in Nat \ {0} /\ MaxPipes \in Nat

VARIABLES
  fd,        \* the descriptor tables of the shell and of its child
  buf,       \* the contents of the pipes of a pipeline
  content, pos,  \* the files, and the offset of the one opened for reading
  screen,    \* what the current line wrote to the terminal
  child      \* state and progress of the child

kernel == <<fd, buf, content, pos, screen, child>>

Fds == 0..8
Pipes == 1..MaxPipes
Tty == <<"tty">>
Closed == <<"closed">>
ReadEnd(k) == <<"read", k>>
WriteEnd(k) == <<"write", k>>
InFile(f) == <<"in", f>>
OutFile(f) == <<"out", f>>

LowestFd(t) == Min({n \in Fds : t[n] = Closed})
OpenFd(t, e) == [t EXCEPT ![LowestFd(t)] = e]
Dup2(t, a, b) == [t EXCEPT ![b] = t[a]]
Close(t, a) == [t EXCEPT ![a] = Closed]
HasOpen(tables, e) == \E p \in DOMAIN tables, n \in Fds : tables[p][n] = e
IsOpen(e) == HasOpen(fd, e)

(* Descriptors are closed: a pipe with no open end is gone.                *)
CloseInto(tables) ==
  /\ fd' = tables
  /\ buf' = [k \in Pipes |-> IF HasOpen(tables, ReadEnd(k)) \/ HasOpen(tables, WriteEnd(k))
                             THEN buf[k] ELSE <<>>]

AllClosed == [n \in Fds |-> Closed]
Terminal == [n \in Fds |-> IF n <= 2 THEN Tty ELSE Closed]
NoChild == [st |-> "none"]

(* What a command writes when it does not depend on its input.  A pattern  *)
(* that was not expanded names no file; when execvp of a program that does *)
(* not exist fails, the child prints a message (item 0) and exits.         *)
Upfront(cmd, expanded) ==
  CASE cmd.does = "missing" -> <<0>>
    [] cmd.does = "emit" /\ (cmd.glob => expanded) -> [i \in 1..cmd.n |-> i]
    [] OTHER -> <<>>

KernelInit ==
  /\ fd = [p \in {"shell", "child"} |-> IF p = "shell" THEN Terminal ELSE AllClosed]
  /\ buf = [k \in Pipes |-> <<>>]
  /\ content = [f \in Names |-> <<>>]
  /\ pos = 0
  /\ screen = <<>>
  /\ child = NoChild

(* fork: the child gets copies of the shell's table and variables.         *)
ForkChild(forked) ==
  /\ child = NoChild
  /\ child' = forked
  /\ fd' = [fd EXCEPT !["child"] = fd["shell"]]

(* execvp with the arguments as typed, or with patterns expanded           *)
ExecChild(expanded) ==
  child' = [st |-> "run", cmd |-> child.cmd, got |-> 0,
            left |-> Upfront(child.cmd, expanded),
            eof |-> child.cmd.does \in {"emit", "missing"}]

(* wait or waitpid of a child that has ended                               *)
ReapChild == child.st = "dead" /\ child' = NoChild

-----------------------------------------------------------------------------
Reading == child.st = "run" /\ child.left = <<>> /\ ~child.eof

ItemRead(x) ==
  child' = IF child.cmd.does = "copy" THEN [child EXCEPT !.left = <<x>>]
                                      ELSE [child EXCEPT !.got = @ + 1]
EndRead ==
  child' = IF child.cmd.does = "copy" THEN [child EXCEPT !.eof = TRUE]
           ELSE [child EXCEPT !.eof = TRUE, !.left = <<child.got>>]

(* Reading an empty pipe waits as long as somebody has its write end.      *)
ReadPipe ==
  /\ Reading
  /\ \E k \in Pipes :
       /\ fd["child"][0] = ReadEnd(k)
       /\ \/ /\ buf[k] # <<>>
             /\ buf' = [buf EXCEPT ![k] = Tail(@)]
             /\ ItemRead(Head(buf[k]))
          \/ /\ buf[k] = <<>> /\ ~IsOpen(WriteEnd(k))
             /\ EndRead
             /\ UNCHANGED buf
  /\ UNCHANGED <<fd, content, pos, screen>>

ReadFile ==
  /\ Reading
  /\ \E f \in Names :
       /\ fd["child"][0] = InFile(f)
       /\ \/ /\ pos < Len(content[f])
             /\ pos' = pos + 1
             /\ ItemRead(content[f][pos + 1])
          \/ /\ pos >= Len(content[f])
             /\ EndRead
             /\ UNCHANGED pos
  /\ UNCHANGED <<fd, buf, content, screen>>

ReadTty ==
  /\ Reading
  /\ fd["child"][0] = Tty
  /\ EndRead
  /\ UNCHANGED <<fd, buf, content, pos, screen>>

Writing == child.st = "run" /\ child.left # <<>>

(* Writing into a full pipe waits as long as somebody has its read end.    *)
WritePipe ==
  /\ Writing
  /\ \E k \in Pipes :
       /\ fd["child"][1] = WriteEnd(k)
       /\ Len(buf[k]) < Cap /\ IsOpen(ReadEnd(k))
       /\ buf' = [buf EXCEPT ![k] = Append(@, Head(child.left))]
  /\ child' = [child EXCEPT !.left = Tail(@)]
  /\ UNCHANGED <<fd, content, pos, screen>>

WriteOut ==
  /\ Writing
  /\ \/ /\ fd["child"][1] = Tty
        /\ screen' = Append(screen, Head(child.left))
        /\ UNCHANGED content
     \/ \E f \in Names :
          /\ fd["child"][1] = OutFile(f)
          /\ content' = [content EXCEPT ![f] = Append(@, Head(child.left))]
          /\ UNCHANGED screen
  /\ child' = [child EXCEPT !.left = Tail(@)]
  /\ UNCHANGED <<fd, buf, pos>>

ExitChild ==
  /\ child.st = "run" /\ child.left = <<>> /\ child.eof
  /\ child' = [st |-> "dead"]
  /\ CloseInto([fd EXCEPT !["child"] = AllClosed])
  /\ UNCHANGED <<content, pos, screen>>

RunChild == ReadPipe \/ ReadFile \/ ReadTty \/ WritePipe \/ WriteOut \/ ExitChild

=============================================================================
