---------------------------- MODULE DbConnection ----------------------------
(***************************************************************************)
(* One database connection of the SQL browser (libs/sqlengine/             *)
(* DbConnection.cpp): a queue of jobs, each a list of SQL statements, run  *)
(* one statement at a time on a pool thread, and the flag by which the     *)
(* client remembers that it opened a transaction.                          *)
(*                                                                         *)
(* Two threads take steps.  The pool thread runs executeJobItem.  The GUI  *)
(* thread runs everything else, and its call stack is a variable: a modal  *)
(* dialog and QApplication::processEvents both run an event loop inside a  *)
(* handler, so that another handler may start before the first one ends.   *)
(***************************************************************************)
EXTENDS Naturals, Sequences, FiniteSets

CONSTANTS
  Jobs,                    \* the jobs the user may submit
  Scripts,                 \* what the text of a job may parse into
  HasTransactionFeature,   \* QSqlDriver::Transactions of the driver
  DdlTransactions,         \* IDbLoader::isDdlStatementTransactionSupported
  AbortsOnFailure,         \* a failed commit or rollback may end the transaction
  MaxCloseRequests         \* bound: session or application close requests

(* The statements the engine tells apart.  "release" is RELEASE SAVEPOINT,  *)
(* which the PostgreSQL engine flags as a commit statement.                 *)
Kinds == {"select", "dml", "ddl", "commit", "rollback", "release"}

ASSUME ScriptsAssumption == Scripts \subseteq Seq(Kinds)
ASSUME DriverAssumption ==
  /\ HasTransactionFeature \in BOOLEAN
  /\ DdlTransactions \in BOOLEAN
  /\ AbortsOnFailure \in BOOLEAN
ASSUME BoundAssumption == MaxCloseRequests \in Nat

VARIABLES
  m_jobs,                  \* queue of jobs, the first one being executed
  script,                  \* DbJob::statements of each submitted job
  itemsExecuted,           \* DbJob::itemsExecuted
  future,                  \* m_jobItemFuture and the DbJobItem it carries
  m_transaction,           \* the client's belief that a transaction is open
  m_failSaveTransaction,   \* m_transaction as wake() found it
  stack,                   \* frames of the GUI thread waiting in an event loop
  closed,                  \* closeConnection has returned true
  serverTx,                \* the server has a transaction open
  uncommitted,             \* statements whose effect that transaction holds
  lost,                    \* statements whose effect was rolled back
  submitted, finished,     \* jobs enqueued, jobs whose future reported finished
  shown,                   \* history: the statementExecuted signals
  ran,                     \* history: statements run
  closeRequests            \* bounded count of session or application closes

queueVars  == <<m_jobs, script, itemsExecuted, submitted, finished>>
serverVars == <<serverTx, uncommitted, lost>>
txVars     == <<m_transaction, m_failSaveTransaction>>
vars == <<m_jobs, script, itemsExecuted, future, m_transaction, m_failSaveTransaction,
          stack, closed, serverTx, uncommitted, lost, submitted, finished, shown, ran,
          closeRequests>>

-----------------------------------------------------------------------------
(* The frames of the GUI thread.  "progress" and "finishing" are the two    *)
(* processEvents calls of onJobItemExecuted; "about" is the prompt opened   *)
(* by confirmEndStartedTransactions before a session or the application     *)
(* closes, "others" the prompts of the other clients of that close, and     *)
(* "close" the prompt opened by closeConnection.                            *)
HandlerFrames == {"progress", "finishing"}
ModalFrames   == {"about", "others", "close"}
Frames == HandlerFrames \cup ModalFrames

Top == stack[Len(stack)]
OnStack(F) == \E i \in 1..Len(stack) : stack[i] \in F
Push(f) == stack' = Append(stack, f)
Pop == SubSeq(stack, 1, Len(stack) - 1)
Replace(f) == stack' = Append(Pop, f)

StatementIds == Jobs \X (Nat \ {0})
NoFuture == [state |-> "none"]

Init ==
  /\ m_jobs = <<>>
  /\ script = [j \in Jobs |-> <<>>]
  /\ itemsExecuted = [j \in Jobs |-> 0]
  /\ future = NoFuture
  /\ m_transaction = FALSE
  /\ m_failSaveTransaction = FALSE
  /\ stack = <<>>
  /\ closed = FALSE
  /\ serverTx = FALSE
  /\ uncommitted = {}
  /\ lost = {}
  /\ submitted = {}
  /\ finished = {}
  /\ shown = <<>>
  /\ ran = {}
  /\ closeRequests = 0

-----------------------------------------------------------------------------
(* The server, through the Qt driver.                                       *)

(* A commit or rollback the driver reports as failed leaves the transaction *)
(* as it was, or the server has aborted it (PostgreSQL does when a          *)
(* statement of it has failed).                                             *)
DriverFails ==
  \/ UNCHANGED serverVars
  \/ /\ AbortsOnFailure
     /\ serverTx' = FALSE
     /\ uncommitted' = {}
     /\ lost' = lost \cup uncommitted

ServerCommit   == serverTx' = FALSE /\ uncommitted' = {} /\ UNCHANGED lost
ServerRollback == serverTx' = FALSE /\ uncommitted' = {} /\ lost' = lost \cup uncommitted

DriverCommit(ok)   == IF ok THEN ServerCommit ELSE DriverFails
DriverRollback(ok) == IF ok THEN ServerRollback ELSE DriverFails

(* The effect of running statement id of the given kind with result ok.  A  *)
(* statement run outside a transaction takes effect at once; a server that  *)
(* keeps DDL out of transactions commits the open one when it runs a DDL.   *)
ServerRuns(id, kind, ok) ==
  \/ (~ok \/ kind \in {"select", "release"}) /\ UNCHANGED serverVars
  \/ ok /\ kind = "commit" /\ ServerCommit
  \/ ok /\ kind = "rollback" /\ ServerRollback
  \/ /\ ok
     /\ kind = "dml" \/ (kind = "ddl" /\ DdlTransactions)
     /\ uncommitted' = IF serverTx THEN uncommitted \cup {id} ELSE uncommitted
     /\ UNCHANGED <<serverTx, lost>>
  \/ ok /\ kind = "ddl" /\ ~DdlTransactions /\ ServerCommit

-----------------------------------------------------------------------------
(* The transaction flag.                                                    *)

(* startTransaction: the flag becomes the driver's answer.                  *)
StartTransaction ==
  IF HasTransactionFeature /\ ~m_transaction
  THEN \E ok \in BOOLEAN :
         /\ m_transaction' = ok
         /\ serverTx' = (serverTx \/ ok)
         /\ UNCHANGED <<uncommitted, lost>>
  ELSE UNCHANGED <<m_transaction, serverVars>>

(* commitTransaction and rollbackTransaction: a failure keeps the flag.     *)
CommitTransaction ==
  IF HasTransactionFeature /\ m_transaction
  THEN \E ok \in BOOLEAN : DriverCommit(ok) /\ m_transaction' = ~ok
  ELSE UNCHANGED <<m_transaction, serverVars>>

RollbackTransaction ==
  IF HasTransactionFeature /\ m_transaction
  THEN \E ok \in BOOLEAN : DriverRollback(ok) /\ m_transaction' = ~ok
  ELSE UNCHANGED <<m_transaction, serverVars>>

IsTransactionStatement(kind) ==
  \/ kind \notin {"select", "ddl"}
  \/ kind = "ddl" /\ DdlTransactions

(* Mutant: a DDL is believed to end the transaction on every server.        *)
EndsTransactionAfterDdl(kind) == kind \in {"commit", "rollback", "release", "ddl"}

(* What the engines flag as a commit or a rollback statement.               *)
EndsTransaction(kind) == kind \in {"commit", "rollback", "release"}

(* Mutant: wake() forgets to save the flag.                                 *)
WakeUnsaved(jobs, text, done) ==
  IF future.state = "running" \/ jobs = <<>>
  THEN UNCHANGED <<future, txVars, serverVars>>
  ELSE LET job  == Head(jobs)
           item == done[job] + 1
           kind == text[job][item]
       IN /\ UNCHANGED m_failSaveTransaction
          /\ IF IsTransactionStatement(kind) /\ ~m_transaction
             THEN StartTransaction
             ELSE UNCHANGED <<m_transaction, serverVars>>
          /\ future' = [state |-> "running", job |-> job, item |-> item, kind |-> kind]

(* wake(), called with the queue as the caller leaves it: unless the pool   *)
(* runs something, start the statement the first job has reached.  An open  *)
(* connection has its accessor, and the accessor a query.                   *)
Wake(jobs, text, done) ==
  IF future.state = "running" \/ jobs = <<>>
  THEN UNCHANGED <<future, txVars, serverVars>>
  ELSE LET job  == Head(jobs)
           item == done[job] + 1
           kind == text[job][item]
       IN /\ m_failSaveTransaction' = m_transaction
          /\ IF IsTransactionStatement(kind) /\ ~m_transaction
             THEN StartTransaction
             ELSE UNCHANGED <<m_transaction, serverVars>>
          /\ future' = [state |-> "running", job |-> job, item |-> item, kind |-> kind]

-----------------------------------------------------------------------------
(* Steps of the GUI thread that the user takes in the main window: no       *)
(* dialog and no handler is on the stack.                                   *)
UserMayAct == stack = <<>> /\ ~closed

(* Mutant: a job is put in front of the one being executed.                 *)
EnqueueFirst(j, s) ==
  /\ j \notin submitted
  /\ m_jobs' = <<j>> \o m_jobs
  /\ script' = [script EXCEPT ![j] = s]
  /\ submitted' = submitted \cup {j}
  /\ Wake(m_jobs', script', itemsExecuted)
  /\ UNCHANGED <<itemsExecuted, finished, stack, closed, shown, ran, closeRequests>>

Enqueue(j, s) ==
  /\ j \notin submitted
  /\ m_jobs' = Append(m_jobs, j)
  /\ script' = [script EXCEPT ![j] = s]
  /\ submitted' = submitted \cup {j}
  /\ Wake(m_jobs', script', itemsExecuted)
  /\ UNCHANGED <<itemsExecuted, finished, stack, closed, shown, ran, closeRequests>>

(* startNewJob: a text without statements makes no job.                     *)
StartNewJob(j, s) == UserMayAct /\ s # <<>> /\ Enqueue(j, s)

(* startQueryDataNewJob: SELECT * FROM the table picked in the tree.        *)
StartQueryDataNewJob(j) == UserMayAct /\ Enqueue(j, <<"select">>)

(* The Commit and Rollback commands.  They are enabled while the flag is    *)
(* set, whether or not a statement is running.                              *)
UserCommit ==
  /\ UserMayAct /\ m_transaction
  /\ CommitTransaction
  /\ UNCHANGED <<queueVars, future, m_failSaveTransaction, stack, closed, shown, ran,
                 closeRequests>>

UserRollback ==
  /\ UserMayAct /\ m_transaction
  /\ RollbackTransaction
  /\ UNCHANGED <<queueVars, future, m_failSaveTransaction, stack, closed, shown, ran,
                 closeRequests>>

-----------------------------------------------------------------------------
(* The pool thread: executeJobItem runs the statement and ends.  From then  *)
(* on QFuture::isRunning is false; the watcher's event is on its way.       *)
ExecuteJobItem ==
  /\ future.state = "running"
  /\ \E ok \in BOOLEAN :
       /\ ServerRuns(<<future.job, future.item>>, future.kind, ok)
       /\ future' = [state |-> "done", job |-> future.job, item |-> future.item,
                     kind |-> future.kind, ok |-> ok]
  /\ ran' = ran \cup {<<future.job, future.item>>}
  /\ UNCHANGED <<queueVars, txVars, stack, closed, shown, closeRequests>>

(* onJobItemExecuted up to its first processEvents.                         *)
OnJobItemExecuted ==
  /\ future.state = "done"
  /\ IF ~future.ok
     THEN IF m_failSaveTransaction THEN UNCHANGED <<m_transaction, serverVars>>
                                   ELSE RollbackTransaction
     ELSE /\ m_transaction' = (m_transaction /\ ~EndsTransaction(future.kind))
          /\ UNCHANGED serverVars
  /\ shown' = Append(shown, <<future.job, future.item>>)
  /\ itemsExecuted' = [itemsExecuted EXCEPT ![Head(m_jobs)] = @ + 1]
  /\ future' = NoFuture
  /\ Push("progress")
  /\ UNCHANGED <<m_jobs, script, submitted, finished, m_failSaveTransaction, closed, ran,
                 closeRequests>>

(* Mutant: off by one, the job is reported finished one statement early.    *)
AfterProgressEarly ==
  /\ stack # <<>> /\ Top = "progress"
  /\ LET job == Head(m_jobs) IN
       IF itemsExecuted[job] + 1 >= Len(script[job])
       THEN /\ finished' = finished \cup {job}
            /\ Replace("finishing")
            /\ UNCHANGED <<future, txVars, serverVars>>
       ELSE /\ stack' = Pop
            /\ Wake(m_jobs, script, itemsExecuted)
            /\ UNCHANGED finished
  /\ UNCHANGED <<m_jobs, script, itemsExecuted, submitted, closed, shown, ran, closeRequests>>

(* The handler goes on: the last statement finishes the job's future and    *)
(* runs the event loop again, any other wakes the next statement.           *)
AfterProgress ==
  /\ stack # <<>> /\ Top = "progress"
  /\ LET job == Head(m_jobs) IN
       IF itemsExecuted[job] = Len(script[job])
       THEN /\ finished' = finished \cup {job}
            /\ Replace("finishing")
            /\ UNCHANGED <<future, txVars, serverVars>>
       ELSE /\ stack' = Pop
            /\ Wake(m_jobs, script, itemsExecuted)
            /\ UNCHANGED finished
  /\ UNCHANGED <<m_jobs, script, itemsExecuted, submitted, closed, shown, ran, closeRequests>>

(* Mutant: the next job is not woken.                                       *)
AfterFinishingAsleep ==
  /\ stack # <<>> /\ Top = "finishing"
  /\ m_jobs' = Tail(m_jobs)
  /\ stack' = Pop
  /\ UNCHANGED <<future, txVars, serverVars, script, itemsExecuted, submitted, finished, closed,
                 shown, ran, closeRequests>>

(* The job leaves the queue and the next one is started.                    *)
AfterFinishing ==
  /\ stack # <<>> /\ Top = "finishing"
  /\ m_jobs' = Tail(m_jobs)
  /\ stack' = Pop
  /\ Wake(m_jobs', script, itemsExecuted)
  /\ UNCHANGED <<script, itemsExecuted, submitted, finished, closed, shown, ran, closeRequests>>

-----------------------------------------------------------------------------
(* Closing.                                                                 *)

(* removeDatabase: the server rolls back what was not committed.            *)
RemoveDatabase(base) ==
  /\ closed' = TRUE
  /\ stack' = base
  /\ serverTx' = FALSE
  /\ uncommitted' = {}
  /\ lost' = lost \cup uncommitted

(* Mutants: the jobs are not looked at; the transaction is not asked about. *)
CloseConnectionBusy(base) ==
  IF m_transaction
  THEN stack' = Append(base, "close") /\ UNCHANGED <<closed, serverVars>>
  ELSE RemoveDatabase(base)
CloseConnectionUnasked(base) ==
  IF m_jobs # <<>>
  THEN stack' = base /\ UNCHANGED <<closed, serverVars>>
  ELSE RemoveDatabase(base)

(* closeConnection, called with the frames of base on the stack: refused    *)
(* while there are jobs; a started transaction is asked about first.        *)
CloseConnection(base) ==
  IF m_jobs # <<>>
  THEN stack' = base /\ UNCHANGED <<closed, serverVars>>
  ELSE IF m_transaction
       THEN stack' = Append(base, "close") /\ UNCHANGED <<closed, serverVars>>
       ELSE RemoveDatabase(base)

UserClose ==
  /\ UserMayAct
  /\ CloseConnection(stack)
  /\ UNCHANGED <<queueVars, future, txVars, shown, ran, closeRequests>>

(* The prompt of closeConnection.  Cancel keeps the connection; the other   *)
(* answers close it, also when the driver reports an error.                 *)
AnswerClose ==
  /\ stack # <<>> /\ Top = "close"
  /\ \/ stack' = Pop /\ UNCHANGED <<closed, serverVars>>
     \/ /\ closed' = TRUE /\ stack' = Pop
        /\ ServerCommit
     \/ RemoveDatabase(Pop)
  /\ UNCHANGED <<queueVars, future, txVars, shown, ran, closeRequests>>

(* sessionAboutToClose and applicationAboutToClose: ask about a started     *)
(* transaction, whether or not a statement is running.  A window-close      *)
(* event is not a user input event: processEvents delivers it, too, and     *)
(* only a modal dialog keeps it back.                                       *)
AboutToClose ==
  /\ ~closed /\ ~OnStack(ModalFrames)
  /\ closeRequests < MaxCloseRequests
  /\ closeRequests' = closeRequests + 1
  /\ Push(IF m_transaction THEN "about" ELSE "others")
  /\ UNCHANGED <<queueVars, future, txVars, serverVars, closed, shown, ran>>

(* The answer goes to the driver; m_transaction keeps its value.            *)
AnswerAbout ==
  /\ stack # <<>> /\ Top = "about"
  /\ \/ stack' = Pop /\ UNCHANGED serverVars
     \/ /\ \E ok \in BOOLEAN : DriverCommit(ok) \/ DriverRollback(ok)
        /\ Replace("others")
  /\ UNCHANGED <<queueVars, future, txVars, closed, shown, ran, closeRequests>>

(* Another client refuses the close, or all agree and sessionClose or       *)
(* applicationClose closes the connection.                                  *)
OthersVeto ==
  /\ stack # <<>> /\ Top = "others"
  /\ stack' = Pop
  /\ UNCHANGED <<queueVars, future, txVars, serverVars, closed, shown, ran, closeRequests>>

OthersAgree ==
  /\ stack # <<>> /\ Top = "others"
  /\ CloseConnection(Pop)
  /\ UNCHANGED <<queueVars, future, txVars, shown, ran, closeRequests>>

-----------------------------------------------------------------------------
UserStep == \/ \E j \in Jobs, s \in Scripts : StartNewJob(j, s)
            \/ \E j \in Jobs : StartQueryDataNewJob(j)
            \/ UserCommit \/ UserRollback \/ UserClose

HandlerStep == OnJobItemExecuted \/ AfterProgress \/ AfterFinishing
DialogStep  == AnswerClose \/ AnswerAbout \/ OthersVeto \/ OthersAgree

Next == UserStep \/ ExecuteJobItem \/ HandlerStep \/ AboutToClose \/ DialogStep

Spec == Init /\ [][Next]_vars

(* A statement that runs comes to an end, the event loop delivers what is   *)
(* queued, and a dialog on the screen is answered.  Nothing makes the user  *)
(* submit a job or close anything.                                          *)
Fairness == /\ WF_vars(ExecuteJobItem)
            /\ WF_vars(HandlerStep)
            /\ WF_vars(DialogStep)

FairSpec == Spec /\ Fairness

-----------------------------------------------------------------------------
(* Properties.                                                              *)

Futures == {NoFuture}
      \cup [state : {"running"}, job : Jobs, item : Nat, kind : Kinds]
      \cup [state : {"done"}, job : Jobs, item : Nat, kind : Kinds, ok : BOOLEAN]

(* The types of the connection's members and of the history.                *)
TypeOK ==
  /\ m_jobs \in Seq(Jobs)
  /\ script \in [Jobs -> Seq(Kinds)]
  /\ itemsExecuted \in [Jobs -> Nat]
  /\ future \in Futures
  /\ m_transaction \in BOOLEAN /\ m_failSaveTransaction \in BOOLEAN
  /\ stack \in Seq(Frames)
  /\ closed \in BOOLEAN
  /\ serverTx \in BOOLEAN
  /\ uncommitted \subseteq StatementIds /\ lost \subseteq StatementIds
  /\ submitted \subseteq Jobs /\ finished \subseteq Jobs
  /\ shown \in Seq(StatementIds)
  /\ ran \subseteq StatementIds
  /\ closeRequests \in 0..MaxCloseRequests

(* onJobItemExecuted counts its result against m_jobs[0] without looking    *)
(* whose result it is: whenever a result is on its way, the queue is not    *)
(* empty and the result is that of the statement its first job has reached, *)
(* and no earlier call of the handler is still waiting in processEvents.    *)
ResultBelongsToHead ==
  future.state # "none" =>
    /\ m_jobs # <<>>
    /\ ~OnStack(HandlerFrames)
    /\ future.job = Head(m_jobs)
    /\ future.item = itemsExecuted[future.job] + 1
    /\ future.item <= Len(script[future.job])
    /\ future.kind = script[future.job][future.item]

(* wake() is called only when a job arrives and when a statement ends:      *)
(* outside the handler a queue with jobs always has a statement under way,  *)
(* so no job waits for a wake-up that never comes.                          *)
NoLostWakeup ==
  m_jobs # <<>> /\ ~OnStack(HandlerFrames) => future.state # "none"

(* DbManager deletes a connection as soon as closeConnection returns true:  *)
(* at that moment no job is queued, nothing runs in the pool, and no        *)
(* handler or prompt of the connection is still on the stack.               *)
ClosedIsQuiescent ==
  closed => m_jobs = <<>> /\ future.state = "none" /\ stack = <<>>

(* When a job's future reports finished, each of its statements has run.    *)
FinishedJobsRan ==
  \A j \in finished : \A i \in 1..Len(script[j]) : <<j, i>> \in ran

(* Closing asks about a transaction only when the flag is set, and the next *)
(* statement starts one only when it is not: a transaction that is open on  *)
(* the server is never unknown to the connection.                           *)
NoForgottenTransaction ==
  serverTx => m_transaction \/ closed

(* A failed statement is rolled back only together with the transaction     *)
(* that wake() opened for it: handling its failure never discards what      *)
(* earlier statements did in a transaction that was already open.           *)
FailureKeepsEarlierWork == [][OnJobItemExecuted => lost' \subseteq lost]_vars

(* A connection that holds uncommitted work is closed only by an answer to  *)
(* the prompt of closeConnection.                                           *)
WorkLostOnlyWhenAsked ==
  [][closed' # closed /\ uncommitted # {} => stack # <<>> /\ Top = "close"]_vars

(* The connection implements the job service.                               *)
Service == INSTANCE JobService WITH
  Sizes <- {1} \cup {Len(s) : s \in Scripts \ {<<>>}},
  queue <- m_jobs, size <- [j \in Jobs |-> Len(script[j])],
  progress <- itemsExecuted, gone <- closed
ImplementsService == Service!Spec

(* Every job that is submitted finishes, whatever the user and the other    *)
(* clients of a close do meanwhile.                                         *)
EveryJobFinishes == \A j \in Jobs : j \in submitted ~> j \in finished

(* "Connection %1 Has Started Transaction." is the text of both prompts:    *)
(* when one opens, the server has a transaction open or the statement that  *)
(* ended it has not been handled yet.                                       *)
PromptTellsTruth ==
  [][Len(stack') > Len(stack) /\ stack'[Len(stack')] \in {"about", "close"}
       => serverTx \/ future.state # "none"]_vars
=============================================================================
