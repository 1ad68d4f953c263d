------------------------------- MODULE Shell -------------------------------
(***************************************************************************)
(* The main loop of week08Lab2/myShell2.c: a line is read, classified by   *)
(* the characters it contains, and run as a command of the shell, with its *)
(* input and output redirected, as a sequence, or as a pipeline.           *)
(*                                                                         *)
(* A line is a record: op is the branch it takes, cmds its commands; a     *)
(* line with redirections has words instead, which are the command, the    *)
(* operators < and >, and names of files.                                  *)
(***************************************************************************)
EXTENDS Pipeline

CONSTANTS Lines, NoFile

(* A pipeline is one or more commands.                                     *)
ASSUME LinesAssumption == \A l \in Lines : l.op = "pipe" => Len(l.cmds) \in 1 .. MaxPipes + 1
VARIABLES
  line,      \* the current line
  files,     \* input_file and output_file
  saved,     \* original_stdin and original_stdout
  before     \* the files when the line was read

vars == <<kernel, pipeline, pc, line, files, saved, before>>

NoLine == [op |-> "none"]

Init ==
  /\ KernelInit
  /\ pc = "prompt"
  /\ cmds = <<>> /\ stage = 1 /\ pipefd = <<0, 0>> /\ prev_pipefd = <<0, 0>>
  /\ line = NoLine
  /\ files = [in |-> NoFile, out |-> NoFile]
  /\ saved = <<0, 0>>
  /\ before = content

(* fgets, parse and the choice of a branch.  An empty line has no first    *)
(* word, and strcasecmp(argv[0], ...) reads through a null pointer.        *)
ReadLine ==
  /\ pc = "prompt" /\ fd["shell"][0] = Tty
  /\ \E l \in Lines :
       /\ line' = l
       /\ CASE l.op = "blank" -> pc' = "crashed" /\ UNCHANGED pipeline
            [] l.op = "exit" -> pc' = "exit" /\ UNCHANGED pipeline
            [] l.op = "pipe" -> StartPipeline(l.cmds)
            [] l.op = "redir" -> pc' = "save" /\ UNCHANGED pipeline
            [] OTHER -> /\ pc' = "execute"
                        /\ cmds' = l.cmds /\ stage' = 1
                        /\ UNCHANGED <<pipefd, prev_pipefd>>
  /\ screen' = <<>>
  /\ before' = content
  /\ UNCHANGED <<fd, buf, content, pos, child, files, saved>>

(* fgets returns NULL: the user ends the input, or standard input is not   *)
(* the terminal any more and is at its end.                                *)
ReadEof ==
  /\ pc = "prompt"
  /\ pc' = IF fd["shell"][0] = Tty THEN "exit" ELSE "lost"
  /\ UNCHANGED <<kernel, pipeline, line, files, saved, before>>

-----------------------------------------------------------------------------
(* execute                                                                 *)
ExecuteFork ==
  /\ pc = "execute"
  /\ \/ /\ pc' = "wait"
        /\ ForkChild([st |-> "exec", cmd |-> cmds[stage]])
     \/ /\ pc' = "failed"
        /\ UNCHANGED <<fd, child>>
  /\ UNCHANGED <<buf, content, pos, screen, pipeline, line, files, saved, before>>

(* Only the arguments of "listall" are not expanded.                       *)
ExecuteChild ==
  /\ child.st = "exec"
  /\ ExecChild(line.op # "listall")
  /\ UNCHANGED <<fd, buf, content, pos, screen, pc, pipeline, line, files, saved, before>>

(* while (wait(&status) != pid), and what follows the call of execute      *)
ExecuteWait ==
  /\ pc = "wait"
  /\ ReapChild
  /\ stage' = stage + 1
  /\ pc' = CASE line.op = "redir" -> "restore"
             [] line.op = "seq" /\ ~AtLast -> "execute"
             [] OTHER -> "prompt"
  /\ UNCHANGED <<fd, buf, content, pos, screen, cmds, pipefd, prev_pipefd, line,
                 files, saved, before>>

-----------------------------------------------------------------------------
(* The branch for < and >                                                  *)

(* The loop over argv: an operator and the word after it are taken out,    *)
(* the last file of each kind counts, the rest is the command.  Lines that *)
(* end in an operator are left out: there the loop runs past the NULL.     *)
Split(w) ==
  LET from[i \in 1..(Len(w) + 2)] ==
        IF i > Len(w) THEN [argv2 |-> <<>>, in |-> NoFile, out |-> NoFile]
        ELSE CASE w[i].is = "<" -> [from[i + 2] EXCEPT !.in = IF @ = NoFile THEN w[i + 1].file ELSE @]
               [] w[i].is = ">" -> [from[i + 2] EXCEPT !.out = IF @ = NoFile THEN w[i + 1].file ELSE @]
               [] OTHER -> [from[i + 1] EXCEPT !.argv2 = <<w[i]>> \o @]
  IN from[1]

(* The command is the first word that is left, whatever it is.             *)
SaveFds ==
  /\ pc = "save"
  /\ pc' = "redirin"
  /\ LET i == LowestFd(fd["shell"])
         t == OpenFd(fd["shell"], fd["shell"][0])
     IN  /\ saved' = <<i, LowestFd(t)>>
         /\ fd' = [fd EXCEPT !["shell"] = OpenFd(t, t[1])]
  /\ LET s == Split(line.words)
     IN  /\ cmds' = <<s.argv2[1].cmd>>
         /\ files' = [in |-> s.in, out |-> s.out]
  /\ stage' = 1
  /\ UNCHANGED <<buf, content, pos, screen, child, pipefd, prev_pipefd, line, before>>

Openable(f) == f # NoFile /\ f \notin Unopenable

(* fileRedir("<", file): open, dup2, close; a file that cannot be opened   *)
(* leaves standard input as it is, and the command runs all the same.      *)
RedirIn ==
  /\ pc = "redirin"
  /\ pc' = "redirout"
  /\ IF Openable(files.in)
     THEN LET n == LowestFd(fd["shell"])
              t == OpenFd(fd["shell"], InFile(files.in))
          IN  /\ fd' = [fd EXCEPT !["shell"] = Close(Dup2(t, n, 0), n)]
              /\ pos' = 0
     ELSE UNCHANGED <<fd, pos>>
  /\ UNCHANGED <<buf, content, screen, child, pipeline, line, files, saved, before>>

(* fileRedir(">", file)                                                    *)
RedirOut ==
  /\ pc = "redirout"
  /\ pc' = "execute"
  /\ IF Openable(files.out)
     THEN LET n == LowestFd(fd["shell"])
              t == OpenFd(fd["shell"], OutFile(files.out))
          IN  /\ fd' = [fd EXCEPT !["shell"] = Close(Dup2(t, n, 1), n)]
              /\ content' = [content EXCEPT ![files.out] = <<>>]
     ELSE UNCHANGED <<fd, content>>
  /\ UNCHANGED <<buf, pos, screen, child, pipeline, line, files, saved, before>>

\* Mutant: standard output is restored, standard input is not.
RestoreOutputOnly ==
  /\ pc = "restore"
  /\ pc' = "prompt"
  /\ LET t == Dup2(fd["shell"], saved[2], 1)
     IN  fd' = [fd EXCEPT !["shell"] = Close(Close(t, saved[1]), saved[2])]
  /\ UNCHANGED <<buf, content, pos, screen, child, pipeline, line, files, saved, before>>

Restore ==
  /\ pc = "restore"
  /\ pc' = "prompt"
  /\ LET t == Dup2(Dup2(fd["shell"], saved[1], 0), saved[2], 1)
     IN  fd' = [fd EXCEPT !["shell"] = Close(Close(t, saved[1]), saved[2])]
  /\ UNCHANGED <<buf, content, pos, screen, child, pipeline, line, files, saved, before>>

-----------------------------------------------------------------------------
Resting == {"prompt", "exit", "failed", "crashed"}
Own == UNCHANGED <<line, files, saved, before>>

ShellStep ==
  \/ ExecuteFork \/ ExecuteWait \/ SaveFds \/ RedirIn \/ RedirOut \/ Restore
  \/ (MakePipe \/ ForkStage \/ ParentClose \/ WaitStage \/ PipelineFails) /\ Own

ChildStep ==
  \/ ExecuteChild
  \/ (ChildRedirect \/ ChildExec) /\ Own
  \/ RunChild /\ UNCHANGED <<pc, pipeline>> /\ Own

Next == ReadLine \/ ReadEof \/ ShellStep \/ ChildStep

Spec == Init /\ [][Next]_vars

(* The kernel runs the shell and its child; nobody has to type anything.   *)
FairSpec == Spec /\ WF_vars(ShellStep) /\ WF_vars(ChildStep)

-----------------------------------------------------------------------------
(* What a line means, computed without processes, pipes or descriptors.    *)
Output(cmd, input, expanded) ==
  CASE cmd.does = "copy" -> input
    [] cmd.does = "count" -> <<Len(input)>>
    [] OTHER -> Upfront(cmd, expanded)

Piped(cs) ==
  LET out[k \in 0..Len(cs)] == IF k = 0 THEN <<>> ELSE Output(cs[k], out[k - 1], TRUE)
  IN  out[Len(cs)]

(* Reading a line of words: the file after the last < is its input, the    *)
(* file after the last > its output, the word that is no file the command. *)
After(w, op) == {i \in DOMAIN w : i > 1 /\ w[i - 1].is = op}
LastFile(w, op) == IF After(w, op) = {} THEN NoFile ELSE w[Max(After(w, op))].file
CommandOf(w) == w[CHOOSE i \in DOMAIN w : w[i].is = "command"].cmd

Source(l) == LastFile(l.words, "<")
Target(l) == LastFile(l.words, ">")
InputOf(l) ==
  IF Openable(Source(l)) /\ Source(l) # Target(l) THEN before[Source(l)] ELSE <<>>

Written(l) ==
  CASE l.op = "pipe" -> Piped(l.cmds)
    [] l.op = "seq" -> FlattenSeq([i \in DOMAIN l.cmds |-> Output(l.cmds[i], <<>>, TRUE)])
    [] l.op = "redir" -> Output(CommandOf(l.words), InputOf(l), TRUE)
    [] OTHER -> Output(l.cmds[1], <<>>, l.op # "listall")

ToFile(l) == l.op = "redir" /\ Openable(Target(l))

(* A pipeline with a pattern in it.  A stage expands its patterns into     *)
(* expanded_argv and executes argv as it was typed (myShell2.c:325-328),   *)
(* though the comment above it says that it parses, expands and executes   *)
(* each command: the program gets the pattern where Written gives it the   *)
(* files.                                                                  *)
Unexpanded(l) ==
  l.op = "pipe" /\ \E i \in DOMAIN l.cmds : l.cmds[i].does = "emit" /\ l.cmds[i].glob

(* A line does what it means: the next prompt comes when every command has *)
(* read all of its input and written all of its output, to the right place. *)
(* A pipeline with a pattern in it is the exception: see Unexpanded.       *)
OutputRight ==
  pc = "prompt" /\ line # NoLine /\ ~Unexpanded(line) =>
    /\ screen = IF ToFile(line) THEN <<>> ELSE Written(line)
    /\ content = IF ToFile(line) THEN [before EXCEPT ![Target(line)] = Written(line)] ELSE before

(* At the prompt the shell has its three descriptors again, all on the     *)
(* terminal, no other one, and no child: nothing leaks from line to line,  *)
(* and a redirected command does not take the input of the shell with it:  *)
(* "If not restoring, it will read '/0' (EOF) and terminate the program".  *)
PromptClean ==
  /\ pc = "prompt" => fd["shell"] = Terminal /\ child = NoChild
  /\ pc # "lost"

(* A command that reads a pipe gets its end: once the shell waits, nobody  *)
(* has the write end of that pipe.                                         *)
ReaderGetsEof ==
  \A k \in Pipes :
    pc = "waitpid" /\ child.st = "run" /\ fd["child"][0] = ReadEnd(k)
      => ~IsOpen(WriteEnd(k))

(* Every line that is started comes back to the prompt, or ends the shell.  *)
Busy == pc \notin Resting
LineReturns == Busy ~> ~Busy

=============================================================================
