------------------------------ MODULE Pipeline -----------------------------
(***************************************************************************)
(* execute_pipeline of week08Lab2/3pipe.c, which is also the pipe branch   *)
(* of the shells pipeloop.c and myShell2.c: one pipe between a command and *)
(* the next, and each command is waited for before the next is started.    *)
(***************************************************************************)
EXTENDS Command

VARIABLES
  pc,        \* where the shell is
  cmds,      \* the commands of the pipeline
  stage,     \* i, counted from 1
  pipefd, prev_pipefd   \* descriptors <<read, write>>

pipeline == <<cmds, stage, pipefd, prev_pipefd>>

AtFirst == stage = 1
AtLast == stage = Len(cmds)

StartPipeline(cs) ==
  /\ cmds' = cs
  /\ stage' = 1
  /\ pc' = "stage"
  /\ UNCHANGED <<pipefd, prev_pipefd>>

(* pipe(pipefd) for all but the last command                               *)
MakePipe ==
  /\ pc = "stage"
  /\ pc' = "fork"
  /\ IF AtLast
     THEN UNCHANGED <<fd, buf, pipefd>>
     ELSE LET r == LowestFd(fd["shell"])
              t == OpenFd(fd["shell"], ReadEnd(stage))
          IN  /\ fd' = [fd EXCEPT !["shell"] = OpenFd(t, WriteEnd(stage))]
              /\ buf' = [buf EXCEPT ![stage] = <<>>]
              /\ pipefd' = <<r, LowestFd(t)>>
  /\ UNCHANGED <<content, pos, screen, child, cmds, stage, prev_pipefd>>

ForkStage ==
  /\ pc = "fork"
  /\ pc' = "close"
  /\ ForkChild([st |-> "redirect", cmd |-> cmds[stage], first |-> AtFirst, last |-> AtLast,
                prev |-> prev_pipefd, curr |-> pipefd])
  /\ UNCHANGED <<buf, content, pos, screen, pipeline>>

(* The child takes its ends of the two pipes and closes the others.        *)
Attach(t, p, end, n) == Close(Close(Dup2(t, p[end], n), p[1]), p[2])

\* Mutant: the write end of the current pipe is not made standard output.
ChildRedirectNoOutput ==
  /\ child.st = "redirect"
  /\ LET t == fd["child"]
         u == IF child.first THEN t ELSE Attach(t, child.prev, 1, 0)
     IN  fd' = [fd EXCEPT !["child"] =
                IF child.last THEN u ELSE Close(Close(u, child.curr[1]), child.curr[2])]
  /\ child' = [child EXCEPT !.st = "ready"]
  /\ UNCHANGED <<buf, content, pos, screen, pc, pipeline>>

ChildRedirect ==
  /\ child.st = "redirect"
  /\ LET t == fd["child"]
         u == IF child.first THEN t ELSE Attach(t, child.prev, 1, 0)
     IN  fd' = [fd EXCEPT !["child"] = IF child.last THEN u ELSE Attach(u, child.curr, 2, 1)]
  /\ child' = [child EXCEPT !.st = "ready"]
  /\ UNCHANGED <<buf, content, pos, screen, pc, pipeline>>

(* execvp of argv, as it was typed, in myShell2.c; a program that does not *)
(* exist leaves its message on standard output.  The commands of 3pipe.c   *)
(* have no patterns, and its message goes to standard error.               *)
ChildExec ==
  /\ child.st = "ready"
  /\ ExecChild(FALSE)
  /\ UNCHANGED <<fd, buf, content, pos, screen, pc, pipeline>>

\* Mutant: the parent keeps the write end.
ParentCloseReadOnly ==
  /\ pc = "close"
  /\ pc' = "waitpid"
  /\ CloseInto(IF AtFirst THEN fd ELSE [fd EXCEPT !["shell"] = Close(@, prev_pipefd[1])])
  /\ prev_pipefd' = IF AtLast THEN prev_pipefd ELSE pipefd
  /\ UNCHANGED <<content, pos, screen, child, cmds, stage, pipefd>>

(* The parent closes the previous pipe and moves the current one.          *)
ParentClose ==
  /\ pc = "close"
  /\ pc' = "waitpid"
  /\ CloseInto(IF AtFirst THEN fd
       ELSE [fd EXCEPT !["shell"] = Close(Close(@, prev_pipefd[1]), prev_pipefd[2])])
  /\ prev_pipefd' = IF AtLast THEN prev_pipefd ELSE pipefd
  /\ UNCHANGED <<content, pos, screen, child, cmds, stage, pipefd>>

(* waitpid, then the next command                                          *)
WaitStage ==
  /\ pc = "waitpid"
  /\ ReapChild
  /\ stage' = stage + 1
  /\ pc' = IF AtLast THEN "prompt" ELSE "stage"
  /\ UNCHANGED <<fd, buf, content, pos, screen, cmds, pipefd, prev_pipefd>>

(* pipe or fork fails: the whole program exits.                            *)
PipelineFails ==
  /\ (pc = "stage" /\ ~AtLast) \/ pc = "fork"
  /\ pc' = "failed"
  /\ UNCHANGED <<kernel, pipeline>>

RunPipeline ==
  PipelineFails \/ MakePipe \/ ForkStage \/ ChildRedirect \/ ChildExec \/ ParentClose \/ WaitStage

=============================================================================
