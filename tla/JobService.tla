----------------------------- MODULE JobService -----------------------------
(***************************************************************************)
(* What a database connection promises the user who submits jobs to it:    *)
(* jobs are served one at a time in the order they were submitted, the     *)
(* result of every statement of a job is shown once and in order, and the  *)
(* connection does not go away while a job is being served.  How the       *)
(* statements are run, and transactions, are left out.                     *)
(***************************************************************************)
EXTENDS Naturals, Sequences

CONSTANTS Jobs,   \* the jobs
          Sizes   \* how many statements a job may have: positive numbers
VARIABLES queue,      \* the jobs to serve, in the order of submission
          size,       \* number of statements of each job
          progress,   \* number of results of each job shown so far
          shown,      \* the results shown: job and number of the statement
          gone        \* the connection is closed

vars == <<queue, size, progress, shown, gone>>

Init == /\ queue = <<>>
        /\ size = [j \in Jobs |-> 0]
        /\ progress = [j \in Jobs |-> 0]
        /\ shown = <<>>
        /\ gone = FALSE

(* A job is submitted once, with at least one statement.                    *)
Submit(j, n) ==
  /\ ~gone /\ size[j] = 0
  /\ queue' = Append(queue, j)
  /\ size' = [size EXCEPT ![j] = n]
  /\ UNCHANGED <<progress, shown, gone>>

(* The result of the next statement of the job being served is shown.       *)
Show ==
  /\ queue # <<>>
  /\ LET job == Head(queue) IN
       /\ progress[job] < size[job]
       /\ progress' = [progress EXCEPT ![job] = @ + 1]
       /\ shown' = Append(shown, <<job, progress[job] + 1>>)
  /\ UNCHANGED <<queue, size, gone>>

(* A job leaves when all its results are shown.                             *)
Retire ==
  /\ queue # <<>>
  /\ progress[Head(queue)] = size[Head(queue)]
  /\ queue' = Tail(queue)
  /\ UNCHANGED <<size, progress, shown, gone>>

Leave == /\ ~gone /\ queue = <<>>
         /\ gone' = TRUE
         /\ UNCHANGED <<queue, size, progress, shown>>

Next == (\E j \in Jobs, n \in Sizes : Submit(j, n)) \/ Show \/ Retire \/ Leave

(* What may happen, and that jobs are served.                               *)
Steps == Init /\ [][Next]_vars
Spec  == Steps /\ WF_vars(Show \/ Retire)
=============================================================================
