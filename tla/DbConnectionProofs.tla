------------------------ MODULE DbConnectionProofs -------------------------
(***************************************************************************)
(* Proofs about DbConnection, for every set of jobs, every set of scripts  *)
(* and every driver.                                                       *)
(***************************************************************************)
EXTENDS DbConnection, SequenceTheorems, TLAPS

(* The jobs of the queue are distinct, were submitted with a script, and   *)
(* only the first of them has been worked on.                              *)
QueueOK ==
  /\ \A i \in 1..Len(m_jobs) : m_jobs[i] \in submitted
  /\ \A i, k \in 1..Len(m_jobs) : m_jobs[i] = m_jobs[k] => i = k
  /\ \A j \in submitted : script[j] # <<>>
  /\ \A j \in Jobs \ submitted : itemsExecuted[j] = 0
  /\ \A i \in 2..Len(m_jobs) : itemsExecuted[m_jobs[i]] = 0

(* The call stacks the GUI thread can have: a handler and a prompt of a    *)
(* session or application close may wait in each other's event loop.       *)
StackOK ==
  /\ Len(stack) \in 0..2
  /\ Len(stack) = 2 =>
       \/ stack[1] \in HandlerFrames /\ stack[2] \in {"about", "others"}
       \/ stack[2] \in HandlerFrames /\ stack[1] \in {"about", "others"}

(* While a handler waits in processEvents its job is still at the head of  *)
(* the queue and nothing runs; "finishing" is reached after its last item. *)
HandlerOK ==
  /\ OnStack(HandlerFrames) => m_jobs # <<>> /\ future = NoFuture
  /\ OnStack({"progress"}) => itemsExecuted[m_jobs[1]] <= Len(script[m_jobs[1]])
  /\ OnStack({"finishing"}) => itemsExecuted[m_jobs[1]] = Len(script[m_jobs[1]])

(* The prompt of closeConnection is open only while there is no job.       *)
PromptOK == OnStack({"close"}) => m_jobs = <<>>

IInv == /\ TypeOK
        /\ QueueOK
        /\ StackOK
        /\ HandlerOK
        /\ PromptOK
        /\ ResultBelongsToHead
        /\ NoLostWakeup
        /\ ClosedIsQuiescent

-----------------------------------------------------------------------------
(* The types of what the driver and the flag operators change.             *)
LEMMA ServerTypes ==
  ASSUME TypeOK, StartTransaction \/ CommitTransaction \/ RollbackTransaction
  PROVE  /\ m_transaction' \in BOOLEAN /\ serverTx' \in BOOLEAN
         /\ uncommitted' \subseteq StatementIds /\ lost' \subseteq StatementIds
BY DEF TypeOK, StartTransaction, CommitTransaction, RollbackTransaction, DriverCommit,
       DriverRollback, ServerCommit, ServerRollback, DriverFails, serverVars

(* What wake() leaves: the future it found, or the statement the first job *)
(* has reached, running.                                                   *)
LEMMA WakeStarts ==
  ASSUME TypeOK, NEW q \in Seq(Jobs), NEW t \in [Jobs -> Seq(Kinds)], NEW d \in [Jobs -> Nat],
         q # <<>> => d[Head(q)] < Len(t[Head(q)]),
         Wake(q, t, d)
  PROVE  /\ future' \in Futures
         /\ m_transaction' \in BOOLEAN /\ m_failSaveTransaction' \in BOOLEAN
         /\ serverTx' \in BOOLEAN
         /\ uncommitted' \subseteq StatementIds /\ lost' \subseteq StatementIds
         /\ \/ (future.state = "running" \/ q = <<>>) /\ future' = future
            \/ /\ future.state # "running" /\ q # <<>>
               /\ future' = [state |-> "running", job |-> Head(q), item |-> d[Head(q)] + 1,
                             kind |-> t[Head(q)][d[Head(q)] + 1]]
<1>1. CASE future.state = "running" \/ q = <<>>
  BY <1>1 DEF Wake, TypeOK, txVars, serverVars
<1>2. CASE future.state # "running" /\ q # <<>>
  <2>1. Head(q) \in Jobs
    BY <1>2
  <2>2. d[Head(q)] \in Nat /\ d[Head(q)] + 1 \in 1..Len(t[Head(q)]) /\ t[Head(q)] \in Seq(Kinds)
    BY <1>2, <2>1
  <2>3. t[Head(q)][d[Head(q)] + 1] \in Kinds
    BY <2>2
  <2>4. future' = [state |-> "running", job |-> Head(q), item |-> d[Head(q)] + 1,
                   kind |-> t[Head(q)][d[Head(q)] + 1]]
    BY <1>2 DEF Wake
  <2>5. future' \in Futures
    BY <2>1, <2>2, <2>3, <2>4 DEF Futures
  <2>6. m_failSaveTransaction' = m_transaction
    BY <1>2 DEF Wake
  <2>7. \/ StartTransaction
        \/ UNCHANGED <<m_transaction, serverVars>>
    BY <1>2 DEF Wake
  <2>8. QED
    BY <1>2, <2>4, <2>5, <2>6, <2>7, ServerTypes DEF TypeOK, serverVars
<1>3. QED
  BY <1>1, <1>2

(* The three facts about the call stack that the steps use.                *)
LEMMA PushFacts ==
  ASSUME NEW f \in Frames, stack \in Seq(Frames), Push(f)
  PROVE  /\ stack' \in Seq(Frames)
         /\ \A F : OnStack(F)' <=> OnStack(F) \/ f \in F
BY DEF Push, OnStack

(* A handler that returns leaves at most the frame below it.               *)
LEMMA PopFacts ==
  ASSUME stack \in Seq(Frames), StackOK, stack # <<>>, stack' = Pop
  PROVE  /\ stack' \in Seq(Frames)
         /\ Len(stack) \in 1..2 /\ Len(stack') = Len(stack) - 1
         /\ \A F : OnStack(F)' <=> (Len(stack) = 2 /\ stack[1] \in F)
         /\ \A F : OnStack(F) <=> (Top \in F \/ (Len(stack) = 2 /\ stack[1] \in F))
BY DEF StackOK, Pop, Top, OnStack

(* A handler that goes on to its next event loop replaces its frame.       *)
LEMMA ReplaceFacts ==
  ASSUME stack \in Seq(Frames), StackOK, stack # <<>>, NEW f \in Frames, Replace(f)
  PROVE  /\ stack' \in Seq(Frames)
         /\ Len(stack) \in 1..2 /\ Len(stack') = Len(stack)
         /\ stack'[Len(stack)] = f
         /\ Len(stack) = 2 => stack'[1] = stack[1]
         /\ \A F : OnStack(F)' <=> (f \in F \/ (Len(stack) = 2 /\ stack[1] \in F))
         /\ \A F : OnStack(F) <=> (Top \in F \/ (Len(stack) = 2 /\ stack[1] \in F))
BY DEF StackOK, Replace, Pop, Top, OnStack

-----------------------------------------------------------------------------
(* The inductive invariant, action by action.                              *)

(* The invariant holds of a new connection.                                *)
LEMMA InitInv == Init => IInv
<1> SUFFICES ASSUME Init PROVE IInv
  OBVIOUS
<1>1. TypeOK
  <2>1. /\ <<>> \in Seq(Jobs) /\ <<>> \in Seq(Kinds) /\ <<>> \in Seq(Frames)
        /\ <<>> \in Seq(StatementIds)
    BY EmptySeq
  <2>2. closeRequests \in 0..MaxCloseRequests /\ future \in Futures
    BY BoundAssumption DEF Init, Futures
  <2>3. QED
    BY <2>1, <2>2 DEF Init, TypeOK
<1>2. /\ QueueOK /\ StackOK /\ HandlerOK /\ PromptOK /\ ResultBelongsToHead
      /\ NoLostWakeup /\ ClosedIsQuiescent
  BY DEF Init, QueueOK, StackOK, HandlerOK, PromptOK, ResultBelongsToHead, NoLostWakeup,
         ClosedIsQuiescent, OnStack, NoFuture
<1>3. QED
  BY <1>1, <1>2 DEF IInv

(* A job is submitted.                                                     *)
LEMMA EnqueueInv ==
  ASSUME IInv, NEW j \in Jobs, NEW s \in Seq(Kinds), s # <<>>, UserMayAct, Enqueue(j, s)
  PROVE  IInv'
<1> USE DEF UserMayAct
<1> DEFINE q == Append(m_jobs, j)
           t == [script EXCEPT ![j] = s]
<1>1. /\ TypeOK /\ stack = <<>> /\ ~closed /\ j \notin submitted
      /\ m_jobs' = q /\ script' = t /\ submitted' = submitted \cup {j}
      /\ Wake(q, t, itemsExecuted)
      /\ UNCHANGED <<itemsExecuted, finished, stack, closed, shown, ran, closeRequests>>
  BY DEF IInv, Enqueue
<1>2. /\ q \in Seq(Jobs) /\ q # <<>> /\ Len(q) = Len(m_jobs) + 1
      /\ \A i \in 1..Len(m_jobs) : q[i] = m_jobs[i]
      /\ q[Len(m_jobs) + 1] = j
      /\ t \in [Jobs -> Seq(Kinds)] /\ t[j] = s /\ \A k \in Jobs \ {j} : t[k] = script[k]
      /\ Len(m_jobs) \in Nat
  <2>1. m_jobs \in Seq(Jobs) /\ script \in [Jobs -> Seq(Kinds)]
    BY <1>1 DEF TypeOK
  <2>2. /\ q \in Seq(Jobs) /\ q # <<>> /\ Len(q) = Len(m_jobs) + 1
        /\ \A i \in 1..Len(m_jobs) : q[i] = m_jobs[i]
        /\ q[Len(m_jobs) + 1] = j
        /\ Len(m_jobs) \in Nat
    BY <2>1, AppendProperties, LenProperties
  <2>3. t \in [Jobs -> Seq(Kinds)] /\ t[j] = s /\ \A k \in Jobs \ {j} : t[k] = script[k]
    BY <2>1
  <2>4. QED
    BY <2>2, <2>3
<1>3. ~OnStack(HandlerFrames) /\ ~OnStack({"close"}) /\ ~OnStack({"progress"}) /\ ~OnStack({"finishing"})
  BY <1>1 DEF OnStack
<1>4. /\ m_jobs = <<>> => Head(q) = j /\ future.state = "none"
      /\ m_jobs # <<>> => Head(q) = Head(m_jobs) /\ Head(q) \in submitted /\ future.state # "none"
      /\ Head(q) = q[1]
  BY <1>1, <1>2, <1>3 DEF IInv, QueueOK, ResultBelongsToHead, NoLostWakeup, TypeOK
<1>5. itemsExecuted[Head(q)] < Len(t[Head(q)])
  <2>1. CASE m_jobs = <<>>
    BY <2>1, <1>1, <1>2, <1>4 DEF IInv, QueueOK, TypeOK
  <2>2. CASE m_jobs # <<>>
    BY <2>2, <1>1, <1>2, <1>4 DEF IInv, ResultBelongsToHead, TypeOK
  <2>3. QED
    BY <2>1, <2>2
<1>6. /\ future' \in Futures /\ m_transaction' \in BOOLEAN /\ m_failSaveTransaction' \in BOOLEAN
      /\ serverTx' \in BOOLEAN /\ uncommitted' \subseteq StatementIds /\ lost' \subseteq StatementIds
      /\ \/ future.state = "running" /\ future' = future
         \/ future' = [state |-> "running", job |-> Head(q), item |-> itemsExecuted[Head(q)] + 1,
                       kind |-> t[Head(q)][itemsExecuted[Head(q)] + 1]]
  <2>1. /\ TypeOK /\ q \in Seq(Jobs) /\ q # <<>> /\ t \in [Jobs -> Seq(Kinds)]
        /\ itemsExecuted \in [Jobs -> Nat] /\ Wake(q, t, itemsExecuted)
    BY <1>1, <1>2 DEF TypeOK
  <2> HIDE DEF q, t
  <2>2. QED
    BY <2>1, <1>5, WakeStarts
<1>7. TypeOK'
  BY <1>1, <1>2, <1>6 DEF TypeOK
<1>8. QueueOK'
  <2>1. /\ \A i \in 1..Len(q) : q[i] \in submitted'
        /\ \A i, k \in 1..Len(q) : q[i] = q[k] => i = k
        /\ \A i \in 2..Len(q) : itemsExecuted[q[i]] = 0
    <3>1. /\ \A i \in 1..Len(m_jobs) : m_jobs[i] \in submitted
          /\ \A i, k \in 1..Len(m_jobs) : m_jobs[i] = m_jobs[k] => i = k
          /\ \A i \in 2..Len(m_jobs) : itemsExecuted[m_jobs[i]] = 0
          /\ itemsExecuted[j] = 0
      BY <1>1 DEF IInv, QueueOK
    <3>2. \A i \in 1..Len(q) : \/ i \in 1..Len(m_jobs) /\ q[i] = m_jobs[i]
                               \/ i = Len(m_jobs) + 1 /\ q[i] = j
      BY <1>2
    <3> HIDE DEF q
    <3>3. \A i \in 1..Len(q) : q[i] \in submitted'
      BY <1>1, <3>1, <3>2
    <3>4. \A i, k \in 1..Len(q) : q[i] = q[k] => i = k
      BY <1>1, <3>1, <3>2
    <3>5. \A i \in 2..Len(q) : itemsExecuted[q[i]] = 0
      <4>1. \A i \in 2..Len(q) : i \in 1..Len(q) /\ (i \in 1..Len(m_jobs) => i \in 2..Len(m_jobs))
        BY <1>2
      <4>2. QED
        BY <3>1, <3>2, <4>1
    <3>6. QED
      BY <3>3, <3>4, <3>5
  <2>2. \A k \in submitted' : t[k] # <<>>
    BY <1>1, <1>2 DEF IInv, QueueOK, TypeOK
  <2>3. \A k \in Jobs \ submitted' : itemsExecuted[k] = 0
    BY <1>1 DEF IInv, QueueOK
  <2>4. QED
    BY <1>1, <2>1, <2>2, <2>3 DEF QueueOK
<1>9. ResultBelongsToHead'
  <2>1. CASE future.state = "running" /\ future' = future
    BY <2>1, <1>1, <1>2, <1>3, <1>4 DEF IInv, ResultBelongsToHead, OnStack
  <2>2. CASE future' = [state |-> "running", job |-> Head(q), item |-> itemsExecuted[Head(q)] + 1,
                        kind |-> t[Head(q)][itemsExecuted[Head(q)] + 1]]
    <3>1. q # <<>> /\ t[Head(q)] \in Seq(Kinds) /\ itemsExecuted[Head(q)] \in Nat
      BY <1>1, <1>2, <1>4 DEF TypeOK
    <3>2. m_jobs' = q /\ script' = t /\ itemsExecuted' = itemsExecuted /\ ~OnStack(HandlerFrames)'
      BY <1>1 DEF OnStack
    <3> HIDE DEF q, t
    <3>3. QED
      BY <2>2, <1>5, <3>1, <3>2 DEF ResultBelongsToHead
  <2>3. QED
    BY <1>6, <2>1, <2>2
<1>10. future'.state # "none"
  BY <1>6
<1>11. StackOK' /\ HandlerOK' /\ PromptOK' /\ NoLostWakeup' /\ ClosedIsQuiescent'
  BY <1>1, <1>3, <1>10 DEF IInv, StackOK, HandlerOK, PromptOK, NoLostWakeup, ClosedIsQuiescent, OnStack
<1>12. QED
  BY <1>7, <1>8, <1>9, <1>11 DEF IInv

(* Steps that leave the queue and the future alone.                        *)
LEMMA QueueUntouched ==
  ASSUME IInv, UNCHANGED <<queueVars, future>>, TypeOK', StackOK',
         OnStack(HandlerFrames)' <=> OnStack(HandlerFrames),
         OnStack({"progress"})' => OnStack({"progress"}),
         OnStack({"finishing"})' => OnStack({"finishing"}),
         PromptOK', ClosedIsQuiescent'
  PROVE  IInv'
<1>1. QueueOK'
  BY DEF IInv, QueueOK, queueVars
<1>2. HandlerOK'
  BY DEF IInv, HandlerOK, queueVars
<1>3. ResultBelongsToHead' /\ NoLostWakeup'
  BY DEF IInv, ResultBelongsToHead, NoLostWakeup, queueVars
<1>4. QED
  BY <1>1, <1>2, <1>3 DEF IInv

(* Commit and Rollback keep the invariant.                                 *)
LEMMA UserEndsTransactionInv ==
  ASSUME IInv, UserCommit \/ UserRollback
  PROVE  IInv'
<1>1. /\ UNCHANGED <<queueVars, future, m_failSaveTransaction, stack, closed, shown, ran,
                     closeRequests>>
      /\ CommitTransaction \/ RollbackTransaction
  BY DEF UserCommit, UserRollback
<1>2. TypeOK'
  BY <1>1, ServerTypes DEF IInv, TypeOK, queueVars
<1>3. StackOK' /\ PromptOK' /\ ClosedIsQuiescent'
  BY <1>1 DEF IInv, StackOK, PromptOK, ClosedIsQuiescent, OnStack, queueVars
<1>4. /\ OnStack(HandlerFrames)' <=> OnStack(HandlerFrames)
      /\ OnStack({"progress"})' <=> OnStack({"progress"})
      /\ OnStack({"finishing"})' <=> OnStack({"finishing"})
  BY <1>1 DEF OnStack
<1>5. QED
  BY <1>1, <1>2, <1>3, <1>4, QueueUntouched

(* The pool thread ends a statement.                                       *)
LEMMA ExecuteInv ==
  ASSUME IInv, ExecuteJobItem
  PROVE  IInv'
<1> DEFINE id == <<future.job, future.item>>
<1>1. PICK ok \in BOOLEAN :
        /\ ServerRuns(id, future.kind, ok)
        /\ future' = [state |-> "done", job |-> future.job, item |-> future.item,
                      kind |-> future.kind, ok |-> ok]
  BY DEF ExecuteJobItem
<1>2. /\ UNCHANGED <<queueVars, txVars, stack, closed, shown, closeRequests>>
      /\ ran' = ran \cup {id}
      /\ future.state = "running" /\ TypeOK /\ ResultBelongsToHead
  BY DEF ExecuteJobItem, IInv
<1>3. /\ future.job \in Jobs /\ future.item \in Nat \ {0} /\ future.kind \in Kinds
      /\ id \in StatementIds
  <2>1. future.job \in Jobs /\ future.item \in Nat /\ future.kind \in Kinds
    BY <1>2 DEF TypeOK, Futures, NoFuture
  <2>2. future.item = itemsExecuted[future.job] + 1 /\ itemsExecuted[future.job] \in Nat
    BY <1>2, <2>1 DEF TypeOK, ResultBelongsToHead
  <2>3. future.item # 0
    BY <2>2
  <2>4. QED
    BY <2>1, <2>3 DEF StatementIds
<1>4. future' \in Futures
  BY <1>1, <1>3 DEF Futures
<1>5. serverTx' \in BOOLEAN /\ uncommitted' \subseteq StatementIds /\ lost' \subseteq StatementIds
  BY <1>1, <1>2, <1>3 DEF TypeOK, ServerRuns, ServerCommit, ServerRollback, serverVars
<1>6. ran' \subseteq StatementIds
  BY <1>2, <1>3 DEF TypeOK
<1>7. TypeOK'
  BY <1>2, <1>4, <1>5, <1>6 DEF TypeOK, queueVars, txVars
<1>8. /\ future'.state = "done" /\ future'.job = future.job /\ future'.item = future.item
      /\ future'.kind = future.kind
  BY <1>1
<1>9. ResultBelongsToHead'
  BY <1>2, <1>8 DEF ResultBelongsToHead, OnStack, queueVars
<1>10. QueueOK' /\ StackOK' /\ PromptOK' /\ NoLostWakeup' /\ ClosedIsQuiescent'
  BY <1>2, <1>8 DEF IInv, QueueOK, StackOK, PromptOK, NoLostWakeup, ClosedIsQuiescent, OnStack,
                    queueVars
<1>11. ~OnStack(HandlerFrames)'
  BY <1>2 DEF ResultBelongsToHead, OnStack
<1>12. ~OnStack({"progress"})' /\ ~OnStack({"finishing"})'
  BY <1>11 DEF OnStack, HandlerFrames
<1>13. HandlerOK'
  BY <1>11, <1>12 DEF HandlerOK
<1>14. QED
  BY <1>7, <1>9, <1>10, <1>13 DEF IInv

(* A result reaches the GUI thread.                                        *)
LEMMA ResultInv ==
  ASSUME IInv, OnJobItemExecuted
  PROVE  IInv'
<1> DEFINE h == Head(m_jobs)
<1>1. /\ UNCHANGED <<m_jobs, script, submitted, finished, m_failSaveTransaction, closed, ran,
                     closeRequests>>
      /\ shown' = Append(shown, <<future.job, future.item>>)
      /\ itemsExecuted' = [itemsExecuted EXCEPT ![h] = @ + 1]
      /\ future' = NoFuture /\ Push("progress") /\ future.state = "done"
      /\ TypeOK /\ ResultBelongsToHead
  BY DEF OnJobItemExecuted, IInv
<1>2. /\ m_jobs # <<>> /\ m_jobs \in Seq(Jobs) /\ h = m_jobs[1] /\ h \in Jobs /\ Len(m_jobs) \in Nat
      /\ 1 \in 1..Len(m_jobs)
      /\ ~OnStack(HandlerFrames) /\ future.job = h /\ future.item = itemsExecuted[h] + 1
      /\ itemsExecuted[h] + 1 <= Len(script[h])
  BY <1>1 DEF TypeOK, ResultBelongsToHead
<1>3. itemsExecuted[h] \in Nat /\ <<future.job, future.item>> \in StatementIds
  BY <1>1, <1>2 DEF TypeOK, StatementIds
<1>4. /\ stack' \in Seq(Frames)
      /\ \A F : OnStack(F)' <=> OnStack(F) \/ "progress" \in F
  BY <1>1, PushFacts DEF TypeOK, Frames, HandlerFrames
<1>5. /\ m_transaction' \in BOOLEAN /\ serverTx' \in BOOLEAN
      /\ uncommitted' \subseteq StatementIds /\ lost' \subseteq StatementIds
  <2>1. CASE RollbackTransaction
    BY <1>1, <2>1, ServerTypes
  <2>2. CASE UNCHANGED serverVars /\ m_transaction' \in BOOLEAN
    BY <1>1, <2>2 DEF TypeOK, serverVars
  <2>3. QED
    BY <1>1, <2>1, <2>2 DEF OnJobItemExecuted, TypeOK
<1>6. TypeOK'
  <2>1. shown' \in Seq(StatementIds)
    BY <1>1, <1>3, AppendProperties DEF TypeOK
  <2>2. itemsExecuted' \in [Jobs -> Nat]
    <3>1. itemsExecuted \in [Jobs -> Nat] /\ itemsExecuted[h] + 1 \in Nat
      BY <1>1, <1>3 DEF TypeOK
    <3>2. itemsExecuted' = [itemsExecuted EXCEPT ![h] = itemsExecuted[h] + 1]
      BY <1>1
    <3> HIDE DEF h
    <3>3. QED
      BY <3>1, <3>2
  <2>3. future' \in Futures
    BY <1>1 DEF Futures
  <2>4. QED
    BY <1>1, <1>4, <1>5, <2>1, <2>2, <2>3 DEF TypeOK
<1>7. QueueOK'
  <2>1. \A i \in 2..Len(m_jobs) : m_jobs[i] # h /\ m_jobs[i] \in Jobs
    BY <1>2 DEF IInv, QueueOK
  <2>2. \A i \in 2..Len(m_jobs) : itemsExecuted'[m_jobs[i]] = 0
    BY <1>1, <1>2, <2>1 DEF IInv, QueueOK, TypeOK
  <2>3. \A k \in Jobs \ submitted : itemsExecuted'[k] = 0
    BY <1>1, <1>2 DEF IInv, QueueOK, TypeOK
  <2>4. QED
    BY <1>1, <2>2, <2>3 DEF IInv, QueueOK
<1>8. ~OnStack({"close"}) /\ ~OnStack({"progress"}) /\ ~OnStack({"finishing"})
  BY <1>2 DEF IInv, PromptOK, OnStack, HandlerFrames
<1>9. StackOK'
  <2>1. stack \in Seq(Frames) /\ Len(stack) \in 0..2
    BY <1>1 DEF IInv, StackOK, TypeOK
  <2>2. Len(stack) # 2
    BY <1>2, <2>1 DEF IInv, StackOK, OnStack
  <2>3. /\ Len(stack') = Len(stack) + 1 /\ stack'[Len(stack) + 1] = "progress"
        /\ Len(stack) = 1 => stack'[1] = stack[1]
    BY <1>1, <2>1, AppendProperties DEF Push
  <2>4. CASE Len(stack) = 0
    BY <2>3, <2>4 DEF StackOK
  <2>5. CASE Len(stack) = 1
    <3>0. 1 \in 1..Len(stack) /\ stack[1] \in Frames
      BY <2>1, <2>5
    <3>1. stack[1] \notin HandlerFrames /\ stack[1] # "close"
      BY <1>2, <1>8, <3>0 DEF OnStack
    <3>2. stack[1] \in {"about", "others"}
      BY <3>0, <3>1 DEF Frames, ModalFrames
    <3>3. QED
      BY <2>3, <2>5, <3>2 DEF StackOK, HandlerFrames
  <2>6. QED
    BY <2>1, <2>2, <2>4, <2>5
<1>10. HandlerOK'
  <2>1. itemsExecuted'[h] = itemsExecuted[h] + 1
    BY <1>1, <1>2, <1>3 DEF TypeOK
  <2>2. itemsExecuted'[m_jobs'[1]] <= Len(script'[m_jobs'[1]])
    BY <1>1, <1>2, <2>1
  <2>3. ~OnStack({"finishing"})'
    BY <1>4, <1>8
  <2>4. m_jobs' # <<>> /\ future' = NoFuture
    BY <1>1, <1>2
  <2>5. QED
    BY <2>2, <2>3, <2>4 DEF HandlerOK
<1>11. OnStack(HandlerFrames)' /\ ~OnStack({"close"})'
  BY <1>4, <1>8 DEF HandlerFrames
<1>12. PromptOK' /\ ResultBelongsToHead' /\ NoLostWakeup' /\ ClosedIsQuiescent'
  BY <1>1, <1>2, <1>11 DEF IInv, PromptOK, ResultBelongsToHead, NoLostWakeup, ClosedIsQuiescent,
                           NoFuture
<1>13. QED
  BY <1>6, <1>7, <1>9, <1>10, <1>12 DEF IInv

(* What holds once a handler has returned and woken the queue q.           *)
LEMMA HandlerReturns ==
  ASSUME IInv, stack # <<>>, Top \in HandlerFrames, stack' = Pop,
         m_jobs' \in Seq(Jobs), QueueOK',
         m_jobs' # <<>> => itemsExecuted[Head(m_jobs')] < Len(script[Head(m_jobs')]),
         Wake(m_jobs', script, itemsExecuted),
         finished' \subseteq Jobs,
         UNCHANGED <<script, itemsExecuted, submitted, closed, shown, ran, closeRequests>>
  PROVE  IInv'
<1>1. TypeOK
  BY DEF IInv
<1>2. /\ stack' \in Seq(Frames) /\ Len(stack) \in 1..2 /\ Len(stack') = Len(stack) - 1
      /\ \A F : OnStack(F)' <=> (Len(stack) = 2 /\ stack[1] \in F)
      /\ \A F : OnStack(F) <=> (Top \in F \/ (Len(stack) = 2 /\ stack[1] \in F))
  BY <1>1, PopFacts DEF IInv, TypeOK
<1>3. OnStack(HandlerFrames)
  BY <1>2
<1>4. m_jobs # <<>> /\ future = NoFuture /\ ~closed
  BY <1>3 DEF IInv, HandlerOK, ClosedIsQuiescent
<1>5. Len(stack) = 2 => stack[1] \in {"about", "others"}
  BY <1>1 DEF IInv, StackOK, Top, HandlerFrames, TypeOK
<1>6. ~OnStack(HandlerFrames)' /\ ~OnStack({"progress"})' /\ ~OnStack({"finishing"})'
      /\ ~OnStack({"close"})'
  BY <1>2, <1>5 DEF HandlerFrames
<1>7. script \in [Jobs -> Seq(Kinds)] /\ itemsExecuted \in [Jobs -> Nat]
  BY <1>1 DEF TypeOK
<1>8. /\ future' \in Futures /\ m_transaction' \in BOOLEAN /\ m_failSaveTransaction' \in BOOLEAN
      /\ serverTx' \in BOOLEAN /\ uncommitted' \subseteq StatementIds /\ lost' \subseteq StatementIds
      /\ \/ m_jobs' = <<>> /\ future' = future
         \/ /\ m_jobs' # <<>>
            /\ future' = [state |-> "running", job |-> Head(m_jobs'),
                          item |-> itemsExecuted[Head(m_jobs')] + 1,
                          kind |-> script[Head(m_jobs')][itemsExecuted[Head(m_jobs')] + 1]]
  BY <1>1, <1>4, <1>7, WakeStarts DEF NoFuture
<1>9. TypeOK'
  BY <1>1, <1>2, <1>8 DEF TypeOK
<1>10. StackOK' /\ HandlerOK' /\ PromptOK' /\ ClosedIsQuiescent'
  <2>0. Len(stack') \in 0..1
    BY <1>2
  <2>1. StackOK'
    BY ONLY <2>0 DEF StackOK
  <2>2. HandlerOK' /\ PromptOK'
    BY <1>6 DEF HandlerOK, PromptOK
  <2>3. closed' = closed
    OBVIOUS
  <2>4. QED
    BY <1>4, <2>1, <2>2, <2>3 DEF ClosedIsQuiescent
<1>11. NoLostWakeup'
  BY <1>8 DEF NoLostWakeup
<1>12. ResultBelongsToHead'
  <2>1. CASE m_jobs' = <<>>
    BY <2>1, <1>4, <1>8 DEF ResultBelongsToHead, NoFuture
  <2>2. CASE m_jobs' # <<>>
    <3>1. Head(m_jobs') \in Jobs
      BY <2>2
    <3>2. itemsExecuted[Head(m_jobs')] \in Nat /\ Len(script[Head(m_jobs')]) \in Nat
      BY <1>7, <3>1
    <3>3. future'.job = Head(m_jobs') /\ future'.item = itemsExecuted[Head(m_jobs')] + 1
          /\ future'.kind = script[Head(m_jobs')][itemsExecuted[Head(m_jobs')] + 1]
      BY <1>8, <2>2
    <3>4. QED
      BY <2>2, <1>6, <3>2, <3>3 DEF ResultBelongsToHead
  <2>3. QED
    BY <2>1, <2>2
<1>13. QED
  BY <1>9, <1>10, <1>11, <1>12 DEF IInv

(* Coming back from the first event loop of the handler keeps it.          *)
LEMMA AfterProgressInv ==
  ASSUME IInv, AfterProgress
  PROVE  IInv'
<1> DEFINE h == Head(m_jobs)
<1>1. /\ stack # <<>> /\ Top = "progress"
      /\ UNCHANGED <<m_jobs, script, itemsExecuted, submitted, closed, shown, ran, closeRequests>>
      /\ TypeOK /\ StackOK /\ QueueOK
  BY DEF AfterProgress, IInv
<1>2. OnStack({"progress"}) /\ OnStack(HandlerFrames)
  BY <1>1 DEF OnStack, Top, StackOK, TypeOK, HandlerFrames
<1>3. /\ m_jobs # <<>> /\ m_jobs \in Seq(Jobs) /\ h = m_jobs[1] /\ h \in Jobs
      /\ itemsExecuted[h] <= Len(script[h]) /\ itemsExecuted[h] \in Nat /\ Len(script[h]) \in Nat
      /\ future = NoFuture
  BY <1>1, <1>2 DEF IInv, HandlerOK, TypeOK
<1>4. QueueOK'
  BY <1>1 DEF QueueOK
<1>5. CASE itemsExecuted[h] = Len(script[h])
  <2>1. /\ finished' = finished \cup {h} /\ Replace("finishing")
        /\ UNCHANGED <<future, txVars, serverVars>>
    BY <1>5 DEF AfterProgress
  <2>2. /\ stack' \in Seq(Frames) /\ Len(stack) \in 1..2 /\ Len(stack') = Len(stack)
        /\ stack'[Len(stack)] = "finishing"
        /\ Len(stack) = 2 => stack'[1] = stack[1]
        /\ \A F : OnStack(F)' <=> ("finishing" \in F \/ (Len(stack) = 2 /\ stack[1] \in F))
        /\ \A F : OnStack(F) <=> (Top \in F \/ (Len(stack) = 2 /\ stack[1] \in F))
    BY <1>1, <2>1, ReplaceFacts DEF TypeOK, Frames, HandlerFrames
  <2>3. Len(stack) = 2 => stack[1] \in {"about", "others"}
    BY <1>1 DEF StackOK, Top, HandlerFrames
  <2>4. TypeOK'
    BY <1>1, <1>3, <2>1, <2>2 DEF TypeOK, txVars, serverVars
  <2>5. StackOK'
    BY <2>2, <2>3 DEF StackOK, HandlerFrames
  <2>6. ~OnStack({"progress"})' /\ ~OnStack({"close"})' /\ OnStack(HandlerFrames)'
    BY <2>2, <2>3 DEF HandlerFrames
  <2>7. HandlerOK'
    BY <1>1, <1>3, <1>5, <2>1, <2>6 DEF HandlerOK
  <2>8. ~closed
    BY <1>1 DEF IInv, ClosedIsQuiescent
  <2>9. PromptOK' /\ ResultBelongsToHead' /\ NoLostWakeup' /\ ClosedIsQuiescent'
    BY <1>1, <1>3, <2>1, <2>6, <2>8
    DEF PromptOK, ResultBelongsToHead, NoLostWakeup, ClosedIsQuiescent, NoFuture
  <2>10. QED
    BY <1>4, <2>4, <2>5, <2>7, <2>9 DEF IInv
<1>6. CASE itemsExecuted[h] # Len(script[h])
  <2>1. /\ stack' = Pop /\ Wake(m_jobs, script, itemsExecuted) /\ UNCHANGED finished
    BY <1>6 DEF AfterProgress
  <2>2. m_jobs' = m_jobs /\ itemsExecuted[h] < Len(script[h])
    BY <1>1, <1>3, <1>6
  <2>3. Wake(m_jobs', script, itemsExecuted)
    BY <2>1, <2>2
  <2>4. Top \in HandlerFrames /\ finished' \subseteq Jobs
    BY <1>1, <2>1 DEF HandlerFrames, TypeOK
  <2>5. QED
    BY <1>1, <1>3, <1>4, <2>1, <2>2, <2>3, <2>4, HandlerReturns
<1>7. QED
  BY <1>5, <1>6

(* Coming back from the second one, with the job removed, keeps it.        *)
LEMMA AfterFinishingInv ==
  ASSUME IInv, AfterFinishing
  PROVE  IInv'
<1>1. /\ stack # <<>> /\ Top = "finishing" /\ m_jobs' = Tail(m_jobs) /\ stack' = Pop
      /\ Wake(m_jobs', script, itemsExecuted)
      /\ UNCHANGED <<script, itemsExecuted, submitted, finished, closed, shown, ran,
                     closeRequests>>
      /\ TypeOK /\ StackOK /\ QueueOK
  BY DEF AfterFinishing, IInv
<1>2. OnStack(HandlerFrames)
  BY <1>1 DEF OnStack, Top, StackOK, TypeOK, HandlerFrames
<1>3. m_jobs # <<>> /\ m_jobs \in Seq(Jobs) /\ Len(m_jobs) \in Nat \ {0}
  BY <1>1, <1>2 DEF IInv, HandlerOK, TypeOK
<1>4. /\ m_jobs' \in Seq(Jobs) /\ Len(m_jobs') = Len(m_jobs) - 1
      /\ \A i \in 1..Len(m_jobs') : m_jobs'[i] = m_jobs[i + 1] /\ i + 1 \in 2..Len(m_jobs)
  BY <1>1, <1>3, HeadTailProperties
<1>5. QueueOK'
  <2>1. \A i \in 1..Len(m_jobs') : m_jobs'[i] \in submitted'
    BY <1>1, <1>3, <1>4 DEF QueueOK
  <2>2. \A i, k \in 1..Len(m_jobs') : m_jobs'[i] = m_jobs'[k] => i = k
    BY <1>1, <1>3, <1>4 DEF QueueOK
  <2>3. \A i \in 2..Len(m_jobs') : itemsExecuted'[m_jobs'[i]] = 0
    BY <1>1, <1>3, <1>4 DEF QueueOK
  <2>4. QED
    BY <1>1, <2>1, <2>2, <2>3 DEF QueueOK
<1>6. m_jobs' # <<>> => itemsExecuted[Head(m_jobs')] < Len(script[Head(m_jobs')])
  <2> SUFFICES ASSUME m_jobs' # <<>>
               PROVE  itemsExecuted[Head(m_jobs')] < Len(script[Head(m_jobs')])
    OBVIOUS
  <2>1. Head(m_jobs') = m_jobs'[1] /\ 1 \in 1..Len(m_jobs')
    BY <1>4
  <2>2. Head(m_jobs') = m_jobs[2] /\ 2 \in 2..Len(m_jobs)
    BY <1>4, <2>1
  <2>3. Head(m_jobs') \in submitted /\ itemsExecuted[Head(m_jobs')] = 0
    BY <1>1, <1>3, <2>2 DEF QueueOK
  <2>4. script[Head(m_jobs')] \in Seq(Kinds) /\ script[Head(m_jobs')] # <<>>
    BY <1>1, <2>3 DEF QueueOK, TypeOK
  <2>5. QED
    BY <2>3, <2>4
<1>7. Top \in HandlerFrames /\ finished' \subseteq Jobs
  BY <1>1 DEF HandlerFrames, TypeOK
<1>8. QED
  BY <1>1, <1>4, <1>5, <1>6, <1>7, HandlerReturns

(* A session or an application begins to close.                            *)
LEMMA AboutToCloseInv ==
  ASSUME IInv, AboutToClose
  PROVE  IInv'
<1> DEFINE f == IF m_transaction THEN "about" ELSE "others"
<1>1. /\ ~closed /\ ~OnStack(ModalFrames) /\ closeRequests < MaxCloseRequests
      /\ closeRequests' = closeRequests + 1 /\ Push(f)
      /\ UNCHANGED <<queueVars, future, txVars, serverVars, closed, shown, ran>>
      /\ TypeOK
  BY DEF AboutToClose, IInv
<1>2. f \in {"about", "others"} /\ f \in Frames
  BY DEF Frames, ModalFrames
<1>3. /\ stack' \in Seq(Frames)
      /\ \A F : OnStack(F)' <=> OnStack(F) \/ f \in F
  BY <1>1, <1>2, PushFacts DEF TypeOK
<1>4. closeRequests' \in 0..MaxCloseRequests
  BY <1>1, BoundAssumption DEF TypeOK
<1>5. TypeOK'
  BY <1>1, <1>3, <1>4 DEF TypeOK, queueVars, txVars, serverVars
<1>6. StackOK'
  <2>1. stack \in Seq(Frames) /\ Len(stack) \in 0..2
    BY <1>1 DEF IInv, StackOK, TypeOK
  <2>2. Len(stack) # 2
    BY <1>1, <2>1 DEF IInv, StackOK, OnStack, ModalFrames
  <2>3. /\ Len(stack') = Len(stack) + 1 /\ stack'[Len(stack) + 1] = f
        /\ Len(stack) = 1 => stack'[1] = stack[1]
    BY <1>1, <1>2, <2>1, AppendProperties DEF Push
  <2>4. CASE Len(stack) = 0
    BY <2>3, <2>4 DEF StackOK
  <2>5. CASE Len(stack) = 1
    <3>1. 1 \in 1..Len(stack) /\ stack[1] \in Frames
      BY <2>1, <2>5
    <3>2. stack[1] \notin ModalFrames
      BY <1>1, <3>1 DEF OnStack
    <3>3. stack[1] \in HandlerFrames
      BY <3>1, <3>2 DEF Frames
    <3>4. QED
      BY <1>2, <2>3, <2>5, <3>3 DEF StackOK
  <2>6. QED
    BY <2>1, <2>2, <2>4, <2>5
<1>7. /\ OnStack(HandlerFrames)' <=> OnStack(HandlerFrames)
      /\ OnStack({"progress"})' <=> OnStack({"progress"})
      /\ OnStack({"finishing"})' <=> OnStack({"finishing"})
      /\ OnStack({"close"})' <=> OnStack({"close"})
  BY <1>2, <1>3 DEF HandlerFrames
<1>8. PromptOK' /\ ClosedIsQuiescent'
  BY <1>1, <1>7 DEF IInv, PromptOK, ClosedIsQuiescent, queueVars
<1>9. QED
  BY <1>1, <1>5, <1>6, <1>7, <1>8, QueueUntouched

(* A prompt returns and closes nothing.                                    *)
LEMMA PromptReturns ==
  ASSUME IInv, stack # <<>>, Top \in ModalFrames, stack' = Pop, TypeOK',
         UNCHANGED <<queueVars, future, closed>>
  PROVE  IInv'
<1>1. /\ stack' \in Seq(Frames) /\ Len(stack) \in 1..2 /\ Len(stack') = Len(stack) - 1
      /\ \A F : OnStack(F)' <=> (Len(stack) = 2 /\ stack[1] \in F)
      /\ \A F : OnStack(F) <=> (Top \in F \/ (Len(stack) = 2 /\ stack[1] \in F))
  BY PopFacts DEF IInv, TypeOK
<1>2. Top \notin HandlerFrames
  BY DEF HandlerFrames, ModalFrames
<1>3. /\ OnStack(HandlerFrames)' <=> OnStack(HandlerFrames)
      /\ OnStack({"progress"})' <=> OnStack({"progress"})
      /\ OnStack({"finishing"})' <=> OnStack({"finishing"})
      /\ OnStack({"close"})' => OnStack({"close"})
  BY <1>1, <1>2 DEF HandlerFrames
<1>4. Len(stack') \in 0..1
  BY <1>1
<1>5. StackOK'
  BY ONLY <1>4 DEF StackOK
<1>6. ~closed
  BY DEF IInv, ClosedIsQuiescent
<1>7. PromptOK' /\ ClosedIsQuiescent'
  BY <1>3, <1>6 DEF IInv, PromptOK, ClosedIsQuiescent, queueVars
<1>8. QED
  BY <1>3, <1>5, <1>7, QueueUntouched

(* Answering the prompt of a session or application close keeps it.        *)
LEMMA AnswerAboutInv ==
  ASSUME IInv, AnswerAbout
  PROVE  IInv'
<1>1. /\ stack # <<>> /\ Top = "about"
      /\ UNCHANGED <<queueVars, future, txVars, closed, shown, ran, closeRequests>>
      /\ TypeOK /\ StackOK /\ stack \in Seq(Frames)
  BY DEF AnswerAbout, IInv, TypeOK
<1>2. Top \in ModalFrames /\ "others" \in Frames
  BY <1>1 DEF ModalFrames, Frames
<1>3. serverTx' \in BOOLEAN /\ uncommitted' \subseteq StatementIds /\ lost' \subseteq StatementIds
  BY <1>1 DEF AnswerAbout, TypeOK, DriverCommit, DriverRollback, ServerCommit, ServerRollback,
              DriverFails, serverVars
<1>4. stack' \in Seq(Frames) => TypeOK'
  BY <1>1, <1>3 DEF TypeOK, queueVars, txVars
<1>5. CASE stack' = Pop
  BY <1>1, <1>2, <1>4, <1>5, PopFacts, PromptReturns
<1>6. CASE Replace("others")
  <2>1. /\ stack' \in Seq(Frames) /\ Len(stack) \in 1..2 /\ Len(stack') = Len(stack)
        /\ stack'[Len(stack)] = "others"
        /\ Len(stack) = 2 => stack'[1] = stack[1]
        /\ \A F : OnStack(F)' <=> ("others" \in F \/ (Len(stack) = 2 /\ stack[1] \in F))
        /\ \A F : OnStack(F) <=> (Top \in F \/ (Len(stack) = 2 /\ stack[1] \in F))
    BY <1>1, <1>2, <1>6, ReplaceFacts
  <2>2. Len(stack) = 2 => stack[1] \in HandlerFrames
    BY <1>1 DEF StackOK, Top, HandlerFrames
  <2>3. StackOK'
    BY <2>1, <2>2 DEF StackOK
  <2>4. /\ OnStack(HandlerFrames)' <=> OnStack(HandlerFrames)
        /\ OnStack({"progress"})' <=> OnStack({"progress"})
        /\ OnStack({"finishing"})' <=> OnStack({"finishing"})
        /\ OnStack({"close"})' <=> OnStack({"close"})
    BY <1>1, <2>1 DEF HandlerFrames
  <2>5. ~closed
    BY <1>1 DEF IInv, ClosedIsQuiescent
  <2>6. PromptOK' /\ ClosedIsQuiescent'
    BY <1>1, <2>4, <2>5 DEF IInv, PromptOK, ClosedIsQuiescent, queueVars
  <2>7. QED
    BY <1>1, <1>4, <2>1, <2>3, <2>4, <2>6, QueueUntouched
<1>7. QED
  BY <1>5, <1>6 DEF AnswerAbout

(* A close refused by another client keeps it.                             *)
LEMMA OthersVetoInv ==
  ASSUME IInv, OthersVeto
  PROVE  IInv'
<1>1. /\ stack # <<>> /\ Top \in ModalFrames /\ stack' = Pop
      /\ UNCHANGED <<queueVars, future, txVars, serverVars, closed, shown, ran, closeRequests>>
      /\ TypeOK /\ StackOK /\ stack \in Seq(Frames)
  BY DEF OthersVeto, IInv, TypeOK, ModalFrames
<1>2. TypeOK'
  BY <1>1, PopFacts DEF TypeOK, queueVars, txVars, serverVars
<1>3. QED
  BY <1>1, <1>2, PromptReturns

(* With no job nothing runs, and no handler and at most one prompt waits.  *)
LEMMA IdleFacts ==
  ASSUME IInv, m_jobs = <<>>
  PROVE  future.state = "none" /\ ~OnStack(HandlerFrames) /\ Len(stack) \in 0..1
<1>1. future.state = "none" /\ ~OnStack(HandlerFrames)
  BY DEF IInv, ResultBelongsToHead, HandlerOK
<1>2. Len(stack) \in 0..2 /\ (Len(stack) = 2 => OnStack(HandlerFrames))
  BY DEF IInv, StackOK, OnStack
<1>3. QED
  BY <1>1, <1>2

(* Closing goes on, or is given up, with no job in the queue.              *)
LEMMA IdleCloses ==
  ASSUME IInv, m_jobs = <<>>, TypeOK', UNCHANGED <<queueVars, future>>,
         \/ stack' = <<"close">> /\ ~closed'
         \/ stack' = <<>>
  PROVE  IInv'
<1>1. future.state = "none" /\ ~OnStack(HandlerFrames)
  BY IdleFacts
<1>2. ~OnStack({"progress"}) /\ ~OnStack({"finishing"})
  BY <1>1 DEF OnStack, HandlerFrames
<1>3. /\ ~OnStack(HandlerFrames)' /\ ~OnStack({"progress"})' /\ ~OnStack({"finishing"})'
      /\ Len(stack') \in 0..1
  BY DEF OnStack, HandlerFrames
<1>4. StackOK'
  BY ONLY <1>3 DEF StackOK
<1>5. m_jobs' = <<>> /\ future' = future
  BY DEF queueVars
<1>6. PromptOK' /\ ClosedIsQuiescent'
  BY <1>1, <1>5 DEF PromptOK, ClosedIsQuiescent
<1>7. QED
  BY <1>1, <1>2, <1>3, <1>4, <1>6, QueueUntouched

(* Asking to close the connection keeps it.                                *)
LEMMA UserCloseInv ==
  ASSUME IInv, UserClose
  PROVE  IInv'
<1>1. /\ stack = <<>> /\ ~closed /\ CloseConnection(stack) /\ TypeOK
      /\ UNCHANGED <<queueVars, future, txVars, shown, ran, closeRequests>>
  BY DEF UserClose, UserMayAct, IInv
<1>2. "close" \in Frames
  BY DEF Frames, ModalFrames
<1>3. /\ stack' \in Seq(Frames) /\ closed' \in BOOLEAN /\ serverTx' \in BOOLEAN
      /\ uncommitted' \subseteq StatementIds /\ lost' \subseteq StatementIds
  <2>1. Append(stack, "close") \in Seq(Frames) /\ stack \in Seq(Frames)
    BY <1>1, <1>2, AppendProperties DEF TypeOK
  <2>2. QED
    BY <1>1, <2>1 DEF CloseConnection, RemoveDatabase, TypeOK, serverVars
<1>4. TypeOK'
  BY <1>1, <1>3 DEF TypeOK, queueVars, txVars
<1>5. CASE m_jobs # <<>>
  <2>1. UNCHANGED <<stack, closed>>
    BY <1>1, <1>5 DEF CloseConnection
  <2>2. /\ StackOK' /\ PromptOK' /\ ClosedIsQuiescent'
        /\ OnStack(HandlerFrames)' <=> OnStack(HandlerFrames)
        /\ OnStack({"progress"})' <=> OnStack({"progress"})
        /\ OnStack({"finishing"})' <=> OnStack({"finishing"})
    BY <1>1, <2>1 DEF IInv, StackOK, PromptOK, ClosedIsQuiescent, OnStack, queueVars
  <2>3. QED
    BY <1>1, <1>4, <2>2, QueueUntouched
<1>6. CASE m_jobs = <<>>
  <2>1. (stack' = <<"close">> /\ ~closed') \/ stack' = <<>>
    BY <1>1, <1>6 DEF CloseConnection, RemoveDatabase
  <2>2. QED
    BY <1>1, <1>4, <1>6, <2>1, IdleCloses
<1>7. QED
  BY <1>5, <1>6

(* A close all clients agree to keeps it.                                  *)
LEMMA OthersAgreeInv ==
  ASSUME IInv, OthersAgree
  PROVE  IInv'
<1>1. /\ stack # <<>> /\ Top \in ModalFrames /\ CloseConnection(Pop) /\ TypeOK /\ StackOK
      /\ UNCHANGED <<queueVars, future, txVars, shown, ran, closeRequests>>
      /\ stack \in Seq(Frames)
  BY DEF OthersAgree, IInv, ModalFrames, TypeOK
<1>2. "close" \in Frames /\ Pop \in Seq(Frames)
  BY <1>1 DEF Frames, ModalFrames, Pop
<1>3. Append(Pop, "close") \in Seq(Frames)
  BY <1>2, AppendProperties
<1>4. /\ stack' \in Seq(Frames) /\ closed' \in BOOLEAN /\ serverTx' \in BOOLEAN
      /\ uncommitted' \subseteq StatementIds /\ lost' \subseteq StatementIds
  BY <1>1, <1>2, <1>3 DEF CloseConnection, RemoveDatabase, TypeOK, serverVars
<1>5. TypeOK'
  BY <1>1, <1>4 DEF TypeOK, queueVars, txVars
<1>6. CASE m_jobs # <<>>
  <2>1. stack' = Pop /\ UNCHANGED closed
    BY <1>1, <1>6 DEF CloseConnection
  <2>2. QED
    BY <1>1, <1>5, <2>1, PromptReturns
<1>7. CASE m_jobs = <<>>
  <2>1. Len(stack) = 1 /\ ~closed
    BY <1>1, <1>7, IdleFacts DEF IInv, ClosedIsQuiescent
  <2>2. Pop = <<>>
    BY <1>1, <2>1 DEF Pop
  <2>3. (stack' = <<"close">> /\ ~closed') \/ stack' = <<>>
    BY <1>1, <1>7, <2>1, <2>2 DEF CloseConnection, RemoveDatabase
  <2>4. QED
    BY <1>1, <1>5, <1>7, <2>3, IdleCloses
<1>8. QED
  BY <1>6, <1>7

(* Answering the prompt of closeConnection keeps it.                       *)
LEMMA AnswerCloseInv ==
  ASSUME IInv, AnswerClose
  PROVE  IInv'
<1>1. /\ stack # <<>> /\ Top = "close" /\ TypeOK /\ StackOK /\ PromptOK
      /\ UNCHANGED <<queueVars, future, txVars, shown, ran, closeRequests>>
      /\ stack \in Seq(Frames)
  BY DEF AnswerClose, IInv, TypeOK
<1>2. OnStack({"close"})
  BY <1>1 DEF OnStack, Top, StackOK
<1>3. m_jobs = <<>>
  BY <1>1, <1>2 DEF PromptOK
<1>4. Len(stack) = 1
  BY <1>1, <1>3, IdleFacts
<1>5. Pop = <<>>
  BY <1>1, <1>4 DEF Pop
<1>6. /\ stack' = <<>> /\ closed' \in BOOLEAN /\ serverTx' \in BOOLEAN
      /\ uncommitted' \subseteq StatementIds /\ lost' \subseteq StatementIds
  BY <1>1, <1>5 DEF AnswerClose, RemoveDatabase, ServerCommit, TypeOK, serverVars
<1>7. TypeOK'
  <2>1. stack' \in Seq(Frames)
    BY <1>6, EmptySeq
  <2>2. QED
    BY <1>1, <1>6, <2>1 DEF TypeOK, queueVars, txVars
<1>8. QED
  BY <1>1, <1>3, <1>6, <1>7, IdleCloses

-----------------------------------------------------------------------------
(* A step that changes nothing keeps it.                                   *)
LEMMA StutterInv == IInv /\ UNCHANGED vars => IInv'
<1> SUFFICES ASSUME IInv, UNCHANGED vars PROVE IInv'
  OBVIOUS
<1>1. TypeOK'
  BY DEF IInv, TypeOK, vars
<1>2. StackOK' /\ PromptOK' /\ ClosedIsQuiescent'
  BY DEF IInv, StackOK, PromptOK, ClosedIsQuiescent, OnStack, vars
<1>3. /\ OnStack(HandlerFrames)' <=> OnStack(HandlerFrames)
      /\ OnStack({"progress"})' <=> OnStack({"progress"})
      /\ OnStack({"finishing"})' <=> OnStack({"finishing"})
  BY DEF OnStack, vars
<1>4. UNCHANGED <<queueVars, future>>
  BY DEF queueVars, vars
<1>5. QED
  BY <1>1, <1>2, <1>3, <1>4, QueueUntouched

(* Every step keeps the invariant.                                         *)
LEMMA NextInv == IInv /\ [Next]_vars => IInv'
<1> SUFFICES ASSUME IInv, [Next]_vars PROVE IInv'
  OBVIOUS
<1>1. ASSUME NEW j \in Jobs, NEW s \in Scripts, StartNewJob(j, s) PROVE IInv'
  <2>1. s \in Seq(Kinds)
    BY ScriptsAssumption
  <2>2. QED
    BY <1>1, <2>1, EnqueueInv DEF StartNewJob
<1>2. ASSUME NEW j \in Jobs, StartQueryDataNewJob(j) PROVE IInv'
  <2>1. <<"select">> \in Seq(Kinds) /\ <<"select">> # <<>>
    BY DEF Kinds
  <2>2. QED
    BY <1>2, <2>1, EnqueueInv DEF StartQueryDataNewJob
<1>3. CASE UserStep
  BY <1>1, <1>2, <1>3, UserEndsTransactionInv, UserCloseInv DEF UserStep
<1>4. CASE HandlerStep
  BY <1>4, ResultInv, AfterProgressInv, AfterFinishingInv DEF HandlerStep
<1>5. CASE DialogStep
  BY <1>5, AnswerCloseInv, AnswerAboutInv, OthersVetoInv, OthersAgreeInv DEF DialogStep
<1>6. QED
  BY <1>3, <1>4, <1>5, ExecuteInv, AboutToCloseInv, StutterInv DEF Next

(* The inductive invariant holds of the connection.                        *)
THEOREM Inductive == Spec => []IInv
<1>1. Init => IInv
  BY InitInv
<1>2. IInv /\ [Next]_vars => IInv'
  BY NextInv
<1>3. QED
  BY <1>1, <1>2, PTL DEF Spec

(* The members of the connection keep their types.                         *)
THEOREM TypeCorrect == Spec => []TypeOK
<1>1. IInv => TypeOK
  BY DEF IInv
<1>2. QED
  BY <1>1, Inductive, PTL

(* Every result the GUI thread handles is counted for the statement that   *)
(* produced it: onJobItemExecuted never meets an empty queue, another      *)
(* job's result, or a call of itself that still waits in processEvents.    *)
THEOREM ResultsBelongToHead == Spec => []ResultBelongsToHead
<1>1. IInv => ResultBelongsToHead
  BY DEF IInv
<1>2. QED
  BY <1>1, Inductive, PTL

(* The queue never stops with jobs in it: outside the handler one of their *)
(* statements runs or its result is on its way.                            *)
THEOREM WakeupsAreNotLost == Spec => []NoLostWakeup
<1>1. IInv => NoLostWakeup
  BY DEF IInv
<1>2. QED
  BY <1>1, Inductive, PTL

(* A connection that closeConnection let go has no job, no running         *)
(* statement and no frame of its own left on the GUI thread's stack.       *)
THEOREM ClosesQuiescent == Spec => []ClosedIsQuiescent
<1>1. IInv => ClosedIsQuiescent
  BY DEF IInv
<1>2. QED
  BY <1>1, Inductive, PTL

-----------------------------------------------------------------------------
(* What has been counted has run, and so has what is on its way; a job     *)
(* that is finished was submitted and is counted to its end.               *)
RanOK ==
  /\ \A j \in Jobs : \A i \in 1..itemsExecuted[j] : <<j, i>> \in ran
  /\ future.state = "done" => <<future.job, future.item>> \in ran
  /\ finished \subseteq submitted
  /\ \A j \in finished : Len(script[j]) <= itemsExecuted[j]

RInv == IInv /\ RanOK

(* wake() makes no result.                                                 *)
LEMMA WakeRan ==
  ASSUME RanOK, NEW q, NEW t, NEW d, Wake(q, t, d)
  PROVE  future'.state = "done" => future' = future
BY DEF Wake

(* A new job counts nothing, and no finished one gets another text.        *)
LEMMA EnqueueRan ==
  ASSUME RInv, NEW j \in Jobs, NEW s \in Seq(Kinds), Enqueue(j, s)
  PROVE  RanOK'
<1>1. /\ j \notin submitted /\ script' = [script EXCEPT ![j] = s]
      /\ submitted' = submitted \cup {j}
      /\ UNCHANGED <<itemsExecuted, finished, ran>>
      /\ Wake(m_jobs', script', itemsExecuted)
  BY DEF Enqueue
<1>2. RanOK /\ script \in [Jobs -> Seq(Kinds)] /\ finished \subseteq Jobs
  BY DEF RInv, IInv, TypeOK
<1>3. future'.state = "done" => future' = future
  BY <1>1, <1>2, WakeRan
<1>4. \A k \in finished : script'[k] = script[k]
  BY <1>1, <1>2 DEF RanOK
<1>5. QED
  BY <1>1, <1>2, <1>3, <1>4 DEF RanOK

(* The handler counts the result that is on its way.                       *)
LEMMA ResultRan ==
  ASSUME RInv, OnJobItemExecuted
  PROVE  RanOK'
<1> DEFINE h == Head(m_jobs)
<1>1. /\ future.state = "done" /\ future' = NoFuture
      /\ itemsExecuted' = [itemsExecuted EXCEPT ![h] = @ + 1]
      /\ UNCHANGED <<script, submitted, finished, ran>>
  BY DEF OnJobItemExecuted
<1>2. /\ RanOK /\ itemsExecuted \in [Jobs -> Nat] /\ h \in Jobs
      /\ <<h, itemsExecuted[h] + 1>> \in ran
  <2>1. RanOK /\ ResultBelongsToHead /\ TypeOK /\ future.state # "none"
    BY <1>1 DEF RInv, IInv
  <2>2. m_jobs # <<>> /\ future.job = h /\ future.item = itemsExecuted[h] + 1
    BY <2>1 DEF ResultBelongsToHead
  <2>3. h \in Jobs
    BY <2>1, <2>2, HeadTailProperties DEF TypeOK
  <2>4. QED
    BY <1>1, <2>1, <2>2, <2>3 DEF RanOK, TypeOK
<1>3. ASSUME NEW j \in Jobs, NEW i \in 1..itemsExecuted'[j]
      PROVE  <<j, i>> \in ran'
  <2>1. CASE j # h
    BY <1>1, <1>2, <1>3, <2>1 DEF RanOK
  <2>2. CASE j = h
    <3>1. i \in 1..itemsExecuted[h] \/ i = itemsExecuted[h] + 1
      BY <1>1, <1>2, <1>3, <2>2
    <3>2. QED
      BY <1>1, <1>2, <2>2, <3>1 DEF RanOK
  <2>3. QED
    BY <2>1, <2>2
<1>4. ASSUME NEW j \in finished
      PROVE  Len(script[j]) <= itemsExecuted'[j]
  <2>1. /\ j \in Jobs /\ itemsExecuted[j] \in Nat /\ Len(script[j]) \in Nat
        /\ Len(script[j]) <= itemsExecuted[j]
    BY <1>2 DEF RInv, IInv, TypeOK, RanOK
  <2>2. QED
    BY <1>1, <1>2, <2>1
<1>5. QED
  BY <1>1, <1>2, <1>3, <1>4 DEF RanOK, NoFuture

(* A job is finished when its last statement is counted.                   *)
LEMMA ProgressRan ==
  ASSUME RInv, AfterProgress
  PROVE  RanOK'
<1> DEFINE h == Head(m_jobs)
<1>1. /\ UNCHANGED <<script, itemsExecuted, submitted, ran>>
      /\ \/ /\ itemsExecuted[h] = Len(script[h])
            /\ finished' = finished \cup {h} /\ UNCHANGED future
         \/ finished' = finished /\ Wake(m_jobs, script, itemsExecuted)
  BY DEF AfterProgress
<1>2. /\ RanOK /\ h \in submitted
      /\ itemsExecuted[h] \in Nat /\ Len(script[h]) \in Nat
  <2>1. IInv /\ RanOK /\ OnStack(HandlerFrames)
    <3>1. stack # <<>> /\ stack[Len(stack)] = "progress" /\ stack \in Seq(Frames)
      BY DEF AfterProgress, Top, RInv, IInv, TypeOK
    <3>2. Len(stack) \in 1..Len(stack)
      BY <3>1, EmptySeq, LenProperties
    <3>3. QED
      BY <3>1, <3>2 DEF RInv, OnStack, HandlerFrames
  <2>2. m_jobs # <<>> /\ m_jobs \in Seq(Jobs)
    BY <2>1 DEF IInv, HandlerOK, TypeOK
  <2>3. h = m_jobs[1] /\ 1 \in 1..Len(m_jobs)
    BY <2>2
  <2>4. h \in submitted /\ h \in Jobs
    BY <2>1, <2>3 DEF IInv, QueueOK, TypeOK
  <2>5. QED
    BY <2>1, <2>4 DEF IInv, TypeOK
<1>3. CASE finished' = finished \cup {h} /\ itemsExecuted[h] = Len(script[h]) /\ UNCHANGED future
  BY <1>1, <1>2, <1>3 DEF RanOK
<1>4. CASE finished' = finished /\ Wake(m_jobs, script, itemsExecuted)
  <2>1. future'.state = "done" => future' = future
    BY <1>2, <1>4, WakeRan
  <2>2. QED
    BY <1>1, <1>2, <1>4, <2>1 DEF RanOK
<1>5. QED
  BY <1>1, <1>3, <1>4

(* Every step keeps it.                                                    *)
LEMMA RanNext == RInv /\ [Next]_vars => RInv'
<1> SUFFICES ASSUME RInv, [Next]_vars PROVE RInv'
  OBVIOUS
<1>1. IInv' /\ RanOK
  BY NextInv DEF RInv
<1>2. ASSUME UNCHANGED <<queueVars, future, ran>> PROVE RanOK'
  BY <1>1, <1>2 DEF RanOK, queueVars
<1>3. CASE UserStep
  <2>1. ASSUME NEW j \in Jobs, NEW s \in Scripts, StartNewJob(j, s) PROVE RanOK'
    <3>1. s \in Seq(Kinds)
      BY ScriptsAssumption
    <3>2. QED
      BY <2>1, <3>1, EnqueueRan DEF StartNewJob
  <2>2. ASSUME NEW j \in Jobs, StartQueryDataNewJob(j) PROVE RanOK'
    <3>1. <<"select">> \in Seq(Kinds)
      BY DEF Kinds
    <3>2. QED
      BY <2>2, <3>1, EnqueueRan DEF StartQueryDataNewJob
  <2>3. CASE UserCommit \/ UserRollback \/ UserClose
    BY <1>1, <1>2, <2>3 DEF UserCommit, UserRollback, UserClose, RInv
  <2>4. QED
    BY <1>1, <1>3, <2>1, <2>2, <2>3 DEF UserStep, RInv
<1>4. CASE ExecuteJobItem
  <2>1. /\ UNCHANGED <<script, itemsExecuted, submitted, finished>>
        /\ ran' = ran \cup {<<future.job, future.item>>}
        /\ future'.job = future.job /\ future'.item = future.item
    BY <1>4 DEF ExecuteJobItem, queueVars
  <2>2. ran \subseteq ran' /\ <<future'.job, future'.item>> \in ran'
    BY <2>1
  <2>3. QED
    BY <1>1, <2>1, <2>2 DEF RInv, RanOK
<1>5. CASE AfterFinishing
  <2>1. /\ UNCHANGED <<script, itemsExecuted, submitted, finished, ran>>
        /\ Wake(m_jobs', script, itemsExecuted)
    BY <1>5 DEF AfterFinishing
  <2>2. future'.state = "done" => future' = future
    BY <1>1, <2>1, WakeRan
  <2>3. QED
    BY <1>1, <2>1, <2>2 DEF RInv, RanOK
<1>6. CASE HandlerStep
  BY <1>1, <1>5, <1>6, ResultRan, ProgressRan DEF RInv, HandlerStep
<1>7. CASE AboutToClose \/ DialogStep \/ UNCHANGED vars
  BY <1>1, <1>2, <1>7 DEF RInv, AboutToClose, DialogStep, AnswerClose, AnswerAbout, OthersVeto,
                          OthersAgree, vars, queueVars
<1>8. QED
  BY <1>1, <1>3, <1>4, <1>6, <1>7 DEF RInv, Next

(* A progress task that ends stands for statements that have run, each of  *)
(* them, whichever other jobs, prompts and commits came between them.      *)
THEOREM FinishedJobsHaveRun == Spec => []FinishedJobsRan
<1>1. Init => RInv
  <2>1. Init => RanOK
    BY DEF Init, RanOK, NoFuture
  <2>2. QED
    BY <2>1, InitInv DEF RInv
<1>2. RInv => FinishedJobsRan
  <2>1. SUFFICES ASSUME RInv, NEW j \in finished, NEW i \in 1..Len(script[j])
                 PROVE  <<j, i>> \in ran
    BY DEF FinishedJobsRan
  <2>2. /\ j \in Jobs /\ itemsExecuted[j] \in Nat /\ Len(script[j]) \in Nat
        /\ Len(script[j]) <= itemsExecuted[j]
    BY <2>1 DEF RInv, IInv, TypeOK, RanOK
  <2>3. i \in 1..itemsExecuted[j]
    BY <2>1, <2>2
  <2>4. QED
    BY <2>1, <2>2, <2>3 DEF RInv, RanOK
<1>3. QED
  BY <1>1, <1>2, RanNext, PTL DEF Spec

-----------------------------------------------------------------------------
(* What the transaction flag of a connection is worth, for engines that do *)
(* not take RELEASE SAVEPOINT for a commit (every engine but PostgreSQL's).*)

NoSavepoints == \A s \in Scripts : \A i \in 1..Len(s) : s[i] # "release"

(* No job in the queue holds a RELEASE SAVEPOINT.                          *)
ScriptsOK == \A j \in Jobs : \A i \in 1..Len(script[j]) : script[j][i] # "release"

(* Uncommitted work needs a transaction to be in, and a commit that        *)
(* succeeded has left none.                                                *)
ServerOK ==
  /\ uncommitted # {} => serverTx
  /\ future.state = "done" /\ future.ok /\ future.kind \in {"commit", "rollback"} => ~serverTx

(* A statement that was started without a transaction meets no work of     *)
(* other statements when it fails.                                         *)
SaveOK ==
  future.state # "none" /\ ~m_failSaveTransaction =>
    /\ future.state = "running" => uncommitted = {}
    /\ future.state = "done" /\ ~future.ok => uncommitted = {}

TxOK == NoForgottenTransaction /\ ServerOK /\ SaveOK
TInv == IInv /\ ScriptsOK /\ TxOK

-----------------------------------------------------------------------------
(* wake() opens a transaction exactly when it knows of none.               *)
LEMMA WakeTx ==
  ASSUME IInv, TxOK, ~closed, NEW q, NEW t, NEW d, Wake(q, t, d)
  PROVE  TxOK' /\ lost' = lost
<1>1. CASE future.state = "running" \/ q = <<>>
  <2>1. UNCHANGED <<future, txVars, serverVars>>
    BY <1>1 DEF Wake
  <2>2. QED
    BY <2>1 DEF TxOK, NoForgottenTransaction, ServerOK, SaveOK, txVars, serverVars
<1>2. CASE future.state # "running" /\ q # <<>>
  <2>1. /\ m_failSaveTransaction' = m_transaction
        /\ future'.state = "running"
        /\ \/ UNCHANGED <<m_transaction, serverVars>>
           \/ StartTransaction
    BY <1>2 DEF Wake
  <2>2. serverTx => m_transaction
    BY DEF TxOK, NoForgottenTransaction
  <2>3. uncommitted' = uncommitted /\ lost' = lost /\ (serverTx' => m_transaction')
    BY <2>1, <2>2 DEF StartTransaction, serverVars
  <2>4. uncommitted # {} => serverTx' /\ serverTx
    BY <2>1 DEF TxOK, ServerOK, StartTransaction, serverVars
  <2>5. QED
    BY <2>1, <2>2, <2>3, <2>4 DEF TxOK, NoForgottenTransaction, ServerOK, SaveOK
<1>3. QED
  BY <1>1, <1>2

(* Ending a transaction through the driver, from a command or a prompt.    *)
LEMMA DriverEndsTx ==
  ASSUME TxOK, NEW ok \in BOOLEAN, DriverCommit(ok) \/ DriverRollback(ok)
  PROVE  /\ uncommitted' \in {uncommitted, {}}
         /\ serverTx' => serverTx
         /\ uncommitted' # {} => serverTx'
         /\ ok => ~serverTx'
BY DEF TxOK, ServerOK, DriverCommit, DriverRollback, ServerCommit, ServerRollback, DriverFails,
       serverVars

(* commitTransaction and rollbackTransaction leave the flag set if the     *)
(* server still has a transaction.                                         *)
LEMMA EndTransactionTx ==
  ASSUME TxOK, CommitTransaction \/ RollbackTransaction
  PROVE  /\ uncommitted' \in {uncommitted, {}}
         /\ serverTx' => serverTx
         /\ uncommitted' # {} => serverTx'
         /\ serverTx' => m_transaction' \/ closed
<1>1. CASE \E ok \in BOOLEAN : (DriverCommit(ok) \/ DriverRollback(ok)) /\ m_transaction' = ~ok
  BY <1>1, DriverEndsTx
<1>2. CASE UNCHANGED <<m_transaction, serverVars>>
  BY <1>2 DEF TxOK, ServerOK, NoForgottenTransaction, serverVars
<1>3. QED
  BY <1>1, <1>2 DEF CommitTransaction, RollbackTransaction

(* The server may end a transaction at any time the future is unchanged.   *)
LEMMA ServerStepTx ==
  ASSUME TxOK, UNCHANGED <<future, m_failSaveTransaction>>,
         uncommitted' \in {uncommitted, {}},
         serverTx' => serverTx, uncommitted' # {} => serverTx',
         serverTx' => m_transaction' \/ closed'
  PROVE  TxOK'
BY DEF TxOK, ServerOK, SaveOK, NoForgottenTransaction

-----------------------------------------------------------------------------
(* No step brings a savepoint statement into the scripts.                  *)
LEMMA ScriptsStep ==
  ASSUME NoSavepoints, IInv, ScriptsOK, [Next]_vars
  PROVE  ScriptsOK'
<1>1. ASSUME NEW j \in Jobs, NEW s \in Seq(Kinds), script' = [script EXCEPT ![j] = s],
             \A i \in 1..Len(s) : s[i] # "release"
      PROVE  ScriptsOK'
  BY <1>1 DEF ScriptsOK, IInv, TypeOK
<1>2. ASSUME NEW j \in Jobs, NEW s \in Scripts, StartNewJob(j, s) PROVE ScriptsOK'
  BY <1>1, <1>2, ScriptsAssumption DEF StartNewJob, Enqueue, NoSavepoints
<1>3. ASSUME NEW j \in Jobs, StartQueryDataNewJob(j) PROVE ScriptsOK'
  <2>1. <<"select">> \in Seq(Kinds) /\ \A i \in 1..Len(<<"select">>) : <<"select">>[i] # "release"
    BY DEF Kinds
  <2>2. QED
    BY <1>1, <1>3, <2>1 DEF StartQueryDataNewJob, Enqueue
<1>4. CASE script' = script
  BY <1>4 DEF ScriptsOK
<1>5. CASE UserStep
  BY <1>2, <1>3, <1>4, <1>5 DEF UserStep, UserCommit, UserRollback, UserClose, queueVars
<1>6. CASE ExecuteJobItem \/ AboutToClose
  BY <1>4, <1>6 DEF ExecuteJobItem, AboutToClose, queueVars
<1>7. CASE HandlerStep
  BY <1>4, <1>7 DEF HandlerStep, OnJobItemExecuted, AfterProgress, AfterFinishing
<1>8. CASE DialogStep
  BY <1>4, <1>8 DEF DialogStep, AnswerClose, AnswerAbout, OthersVeto, OthersAgree, queueVars
<1>9. CASE UNCHANGED vars
  BY <1>4, <1>9 DEF vars
<1>10. QED
  BY <1>5, <1>6, <1>7, <1>8, <1>9 DEF Next

(* The handler's own step: the flag is cleared only by a commit or a       *)
(* rollback that the server has carried out, and a failure that is rolled  *)
(* back finds nothing to roll back.                                        *)
LEMMA ResultTx ==
  ASSUME TInv, OnJobItemExecuted
  PROVE  TxOK' /\ lost' \subseteq lost
<1>1. /\ future.state = "done" /\ future' = NoFuture /\ UNCHANGED closed
      /\ TxOK /\ TypeOK /\ ResultBelongsToHead
  BY DEF OnJobItemExecuted, TInv, IInv
<1>2. future.ok \in BOOLEAN /\ future.kind \in Kinds
  BY <1>1 DEF TypeOK, Futures, NoFuture
<1>3. CASE ~future.ok /\ m_failSaveTransaction
  <2>1. UNCHANGED <<m_transaction, serverVars>>
    BY <1>3 DEF OnJobItemExecuted
  <2>2. QED
    BY <1>1, <2>1 DEF TxOK, NoForgottenTransaction, ServerOK, SaveOK, NoFuture, serverVars
<1>4. CASE ~future.ok /\ ~m_failSaveTransaction
  <2>1. RollbackTransaction
    BY <1>4 DEF OnJobItemExecuted
  <2>2. uncommitted = {}
    BY <1>1, <1>4 DEF TxOK, SaveOK
  <2>3. lost' \subseteq lost
    BY <2>1, <2>2 DEF RollbackTransaction, DriverRollback, ServerRollback, DriverFails, serverVars
  <2>4. /\ uncommitted' \in {uncommitted, {}} /\ (uncommitted' # {} => serverTx')
        /\ (serverTx' => m_transaction' \/ closed)
    BY <1>1, <2>1, EndTransactionTx
  <2>5. QED
    BY <1>1, <2>3, <2>4 DEF TxOK, NoForgottenTransaction, ServerOK, SaveOK, NoFuture
<1>5. CASE future.ok
  <2>1. /\ m_transaction' = (m_transaction /\ ~EndsTransaction(future.kind))
        /\ UNCHANGED serverVars
    BY <1>5 DEF OnJobItemExecuted
  <2>2. future.kind # "release"
    <3>1. /\ future.job \in Jobs /\ future.item \in Nat /\ Len(script[future.job]) \in Nat
          /\ itemsExecuted[future.job] \in Nat /\ future.item = itemsExecuted[future.job] + 1
          /\ future.item <= Len(script[future.job])
          /\ future.kind = script[future.job][future.item]
      BY <1>1 DEF TypeOK, Futures, NoFuture, ResultBelongsToHead
    <3>2. future.item \in 1..Len(script[future.job])
      BY <3>1
    <3>3. QED
      BY <3>1, <3>2 DEF TInv, ScriptsOK
  <2>3. serverTx => m_transaction' \/ closed
    BY <1>1, <1>5, <2>1, <2>2 DEF TxOK, NoForgottenTransaction, ServerOK, EndsTransaction
  <2>4. QED
    BY <1>1, <2>1, <2>3 DEF TxOK, NoForgottenTransaction, ServerOK, SaveOK, NoFuture, serverVars
<1>6. QED
  BY <1>2, <1>3, <1>4, <1>5

(* The pool thread's step: work done while the flag is unset is done       *)
(* outside a transaction.                                                  *)
LEMMA ExecuteTx ==
  ASSUME IInv, TxOK, ExecuteJobItem
  PROVE  TxOK'
<1> DEFINE id == <<future.job, future.item>>
<1>1. PICK ok \in BOOLEAN :
        /\ ServerRuns(id, future.kind, ok)
        /\ future' = [state |-> "done", job |-> future.job, item |-> future.item,
                      kind |-> future.kind, ok |-> ok]
  BY DEF ExecuteJobItem
<1>2. /\ future.state = "running" /\ UNCHANGED <<txVars, closed>>
      /\ future'.state = "done" /\ future'.ok = ok /\ future'.kind = future.kind
  BY <1>1 DEF ExecuteJobItem
<1>3. CASE ~ok
  <2>1. UNCHANGED serverVars
    BY <1>1, <1>3 DEF ServerRuns
  <2>2. QED
    BY <1>2, <1>3, <2>1 DEF TxOK, NoForgottenTransaction, ServerOK, SaveOK, txVars, serverVars
<1>4. CASE ok
  <2>1. /\ serverTx' => serverTx
        /\ uncommitted' # {} => serverTx'
        /\ future.kind \in {"commit", "rollback"} => ~serverTx'
    BY <1>1, <1>4 DEF ServerRuns, ServerCommit, ServerRollback, TxOK, ServerOK, serverVars
  <2>2. QED
    BY <1>2, <1>4, <2>1 DEF TxOK, NoForgottenTransaction, ServerOK, SaveOK, txVars
<1>5. QED
  BY <1>3, <1>4

(* closeConnection: what it removes, it removes with its transaction.      *)
LEMMA CloseConnectionTx ==
  ASSUME TxOK, ~closed, NEW base, CloseConnection(base), UNCHANGED <<future, txVars>>
  PROVE  TxOK'
<1>1. CASE UNCHANGED <<closed, serverVars>>
  BY <1>1 DEF TxOK, NoForgottenTransaction, ServerOK, SaveOK, txVars, serverVars
<1>2. CASE RemoveDatabase(base)
  BY <1>2 DEF RemoveDatabase, TxOK, NoForgottenTransaction, ServerOK, SaveOK, txVars
<1>3. QED
  BY <1>1, <1>2 DEF CloseConnection

(* The answers to the prompts, and the vetoes of other clients, keep the   *)
(* transaction known.                                                      *)
LEMMA DialogTx ==
  ASSUME IInv, TxOK, DialogStep
  PROVE  TxOK'
<1>1. ~closed /\ UNCHANGED <<future, txVars>>
  BY DEF DialogStep, AnswerClose, AnswerAbout, OthersVeto, OthersAgree, IInv, ClosedIsQuiescent
<1>2. CASE AnswerClose
  <2>1. CASE UNCHANGED <<closed, serverVars>>
    BY <1>1, <2>1 DEF TxOK, NoForgottenTransaction, ServerOK, SaveOK, txVars, serverVars
  <2>2. CASE serverTx' = FALSE /\ uncommitted' = {}
    BY <1>1, <2>2 DEF TxOK, NoForgottenTransaction, ServerOK, SaveOK, txVars
  <2>3. QED
    BY <1>2, <2>1, <2>2 DEF AnswerClose, ServerCommit, RemoveDatabase
<1>3. CASE AnswerAbout
  <2>1. UNCHANGED closed
    BY <1>3 DEF AnswerAbout
  <2>2. CASE UNCHANGED serverVars
    BY <1>1, <2>1, <2>2 DEF TxOK, NoForgottenTransaction, ServerOK, SaveOK, txVars, serverVars
  <2>3. CASE \E ok \in BOOLEAN : DriverCommit(ok) \/ DriverRollback(ok)
    <3>1. /\ uncommitted' \in {uncommitted, {}}
          /\ serverTx' => serverTx
          /\ uncommitted' # {} => serverTx'
      BY <2>3, DriverEndsTx
    <3>2. serverTx' => m_transaction' \/ closed'
      BY <1>1, <2>1, <3>1 DEF TxOK, NoForgottenTransaction, txVars
    <3>3. QED
      BY <1>1, <3>1, <3>2, ServerStepTx DEF txVars
  <2>4. QED
    BY <1>3, <2>2, <2>3 DEF AnswerAbout
<1>4. CASE OthersVeto
  BY <1>4 DEF OthersVeto, TxOK, NoForgottenTransaction, ServerOK, SaveOK, txVars, serverVars
<1>5. CASE OthersAgree
  <2>1. CloseConnection(Pop)
    BY <1>5 DEF OthersAgree
  <2>2. QED
    BY <1>1, <2>1, CloseConnectionTx
<1>6. QED
  BY <1>2, <1>3, <1>4, <1>5 DEF DialogStep

(* So do submitting jobs, Commit, Rollback and closing by the user.        *)
LEMMA UserTx ==
  ASSUME IInv, TxOK, UserStep
  PROVE  TxOK'
<1>1. ~closed
  BY DEF UserStep, StartNewJob, StartQueryDataNewJob, UserCommit, UserRollback, UserClose, UserMayAct
<1>2. ASSUME NEW j \in Jobs, NEW s, Enqueue(j, s) PROVE TxOK'
  <2>1. Wake(m_jobs', script', itemsExecuted)
    BY <1>2 DEF Enqueue
  <2>2. QED
    BY <1>1, <2>1, WakeTx
<1>3. CASE UserCommit \/ UserRollback
  <2>1. /\ CommitTransaction \/ RollbackTransaction
        /\ UNCHANGED <<future, m_failSaveTransaction, closed>>
    BY <1>3 DEF UserCommit, UserRollback
  <2>2. QED
    BY <2>1, EndTransactionTx, ServerStepTx
<1>4. CASE UserClose
  BY <1>1, <1>4, CloseConnectionTx DEF UserClose
<1>5. QED
  BY <1>2, <1>3, <1>4 DEF UserStep, StartNewJob, StartQueryDataNewJob

(* Without savepoint statements every step keeps the invariant.            *)
LEMMA TxNext == ASSUME NoSavepoints, TInv, [Next]_vars PROVE TInv'
<1>1. IInv /\ TxOK /\ ScriptsOK
  BY DEF TInv
<1>2. IInv'
  BY <1>1, NextInv
<1>3. ScriptsOK'
  BY <1>1, ScriptsStep
<1>4. TxOK'
  <2>1. CASE UserStep
    BY <1>1, <2>1, UserTx
  <2>2. CASE ExecuteJobItem
    BY <1>1, <2>2, ExecuteTx
  <2>3. CASE OnJobItemExecuted
    BY <2>3, ResultTx
  <2>4. CASE AfterProgress
    <3>1. ~closed
      BY <1>1, <2>4 DEF AfterProgress, IInv, ClosedIsQuiescent
    <3>2. UNCHANGED <<closed, future, txVars, serverVars>> \/ Wake(m_jobs, script, itemsExecuted)
      BY <2>4 DEF AfterProgress
    <3>3. QED
      BY <1>1, <3>1, <3>2, WakeTx
      DEF TxOK, NoForgottenTransaction, ServerOK, SaveOK, txVars, serverVars
  <2>5. CASE AfterFinishing
    <3>1. ~closed /\ Wake(m_jobs', script, itemsExecuted)
      BY <1>1, <2>5 DEF AfterFinishing, IInv, ClosedIsQuiescent
    <3>2. QED
      BY <1>1, <3>1, WakeTx
  <2>6. CASE AboutToClose \/ UNCHANGED vars
    <3>1. UNCHANGED <<closed, future, txVars, serverVars>>
      BY <2>6 DEF AboutToClose, vars, txVars, serverVars
    <3>2. QED
      BY <1>1, <3>1 DEF TxOK, NoForgottenTransaction, ServerOK, SaveOK, txVars, serverVars
  <2>7. CASE DialogStep
    BY <1>1, <2>7, DialogTx
  <2>8. QED
    BY <2>1, <2>2, <2>3, <2>4, <2>5, <2>6, <2>7 DEF Next, HandlerStep
<1>5. QED
  BY <1>2, <1>3, <1>4 DEF TInv

(* A new connection satisfies it.                                          *)
LEMMA TxInit == Init => TInv
<1> SUFFICES ASSUME Init PROVE TInv
  OBVIOUS
<1>1. IInv
  BY InitInv
<1>2. ScriptsOK /\ TxOK
  BY DEF Init, ScriptsOK, TxOK, NoForgottenTransaction, ServerOK, SaveOK, NoFuture
<1>3. QED
  BY <1>1, <1>2 DEF TInv

(* Without savepoints the connection always knows of the transaction the   *)
(* server has open, whatever fails and whoever commits meanwhile.          *)
THEOREM TransactionsAreKnown ==
  ASSUME NoSavepoints
  PROVE  Spec => []NoForgottenTransaction
<1>1. TInv /\ [Next]_vars => TInv'
  BY TxNext
<1>2. TInv => NoForgottenTransaction
  BY DEF TInv, TxOK
<1>3. QED
  BY <1>1, <1>2, TxInit, PTL DEF Spec

(* Without savepoints the rollback of a failed statement never takes       *)
(* earlier statements with it.                                             *)
THEOREM FailuresKeepEarlierWork ==
  ASSUME NoSavepoints
  PROVE  Spec => FailureKeepsEarlierWork
<1>1. TInv /\ [Next]_vars => TInv'
  BY TxNext
<1>2. TInv /\ [Next]_vars => [OnJobItemExecuted => lost' \subseteq lost]_vars
  BY ResultTx
<1>3. QED
  BY <1>1, <1>2, TxInit, PTL DEF Spec, FailureKeepsEarlierWork

(* The connection is closed with work in a transaction only from the       *)
(* prompt: without the prompt it is closed only with the flag unset, and   *)
(* then there is no work.                                                  *)
LEMMA ClosedWithWork ==
  ASSUME TInv, Next, closed' # closed, uncommitted # {}
  PROVE  stack # <<>> /\ Top = "close"
<1>1. ~closed
  <2>1. closed \in BOOLEAN /\ (closed => m_jobs = <<>> /\ future.state = "none" /\ stack = <<>>)
    BY DEF TInv, IInv, TypeOK, ClosedIsQuiescent
  <2>2. SUFFICES ASSUME closed PROVE FALSE
    OBVIOUS
  <2>3. closed' = closed
    BY <2>1, <2>2 DEF Next, UserStep, StartNewJob, StartQueryDataNewJob, UserCommit, UserRollback,
       UserClose, UserMayAct, ExecuteJobItem, HandlerStep, OnJobItemExecuted, AfterProgress,
       AfterFinishing, AboutToClose, DialogStep, AnswerClose, AnswerAbout, OthersVeto, OthersAgree
  <2>4. QED
    BY <2>3
<1>2. m_transaction
  BY <1>1 DEF TInv, TxOK, ServerOK, NoForgottenTransaction
<1>3. \A base : CloseConnection(base) => closed' = closed
  BY <1>2 DEF CloseConnection
<1>4. CASE AnswerClose
  BY <1>4 DEF AnswerClose
<1>5. CASE UserClose \/ OthersAgree
  BY <1>3, <1>5 DEF UserClose, OthersAgree
<1>6. QED
  BY <1>4, <1>5 DEF Next, UserStep, StartNewJob, StartQueryDataNewJob, Enqueue, UserCommit,
     UserRollback, ExecuteJobItem, HandlerStep, OnJobItemExecuted, AfterProgress,
     AfterFinishing, AboutToClose, DialogStep, AnswerAbout, OthersVeto

(* Without savepoints no way of closing the connection, by a command, a    *)
(* session or the application, drops uncommitted work unasked.             *)
THEOREM WorkIsAskedAbout ==
  ASSUME NoSavepoints
  PROVE  Spec => WorkLostOnlyWhenAsked
<1>1. TInv /\ [Next]_vars => TInv'
  BY TxNext
<1>2. TInv /\ [Next]_vars => [closed' # closed /\ uncommitted # {} => stack # <<>> /\ Top = "close"]_vars
  BY ClosedWithWork
<1>3. QED
  BY <1>1, <1>2, TxInit, PTL DEF Spec, WorkLostOnlyWhenAsked

-----------------------------------------------------------------------------
(***************************************************************************)
(* The steps of the connection are those of the job service.  A result is  *)
(* shown when the handler starts, a job retires when the last call of it   *)
(* returns; running a statement, waiting in an event loop, transactions    *)
(* and prompts are not seen.                                               *)
(***************************************************************************)

(* A job that was not submitted has no statements yet.                     *)
UnsentOK == \A j \in Jobs \ submitted : script[j] = <<>>
SInv == IInv /\ UnsentOK

LEMMA UnsentStep == ASSUME SInv, [Next]_vars PROVE UnsentOK'
<1>1. script \in [Jobs -> Seq(Kinds)] /\ submitted \subseteq Jobs
  BY DEF SInv, IInv, TypeOK
<1>2. ASSUME NEW j \in Jobs, NEW s, Enqueue(j, s) PROVE UnsentOK'
  BY <1>1, <1>2 DEF Enqueue, UnsentOK, SInv
<1>3. ASSUME UNCHANGED <<script, submitted>> PROVE UnsentOK'
  BY <1>3 DEF UnsentOK, SInv
<1>4. CASE UserStep
  BY <1>2, <1>3, <1>4 DEF UserStep, StartNewJob, StartQueryDataNewJob, UserCommit, UserRollback,
     UserClose, queueVars
<1>5. CASE HandlerStep \/ DialogStep \/ ExecuteJobItem \/ AboutToClose \/ UNCHANGED vars
  BY <1>3, <1>5 DEF HandlerStep, OnJobItemExecuted, AfterProgress, AfterFinishing, DialogStep,
     AnswerClose, AnswerAbout, OthersVeto, OthersAgree, ExecuteJobItem, AboutToClose, queueVars, vars
<1> QED BY <1>4, <1>5 DEF Next

LEMMA ServiceInit == Init => Service!Init
<1> SUFFICES ASSUME Init PROVE Service!Init
  OBVIOUS
<1>1. [j \in Jobs |-> Len(script[j])] = [j \in Jobs |-> 0]
  BY DEF Init
<1> QED BY <1>1 DEF Init, Service!Init

(* A job that arrives is submitted with as many statements as its script.  *)
LEMMA ServiceSubmit ==
  ASSUME SInv, ~closed, NEW j \in Jobs, NEW s \in Seq(Kinds), Enqueue(j, s)
  PROVE  Service!Submit(j, Len(s))
<1> DEFINE size == [i \in Jobs |-> Len(script[i])]
<1>1. script \in [Jobs -> Seq(Kinds)] /\ j \notin submitted /\ script[j] = <<>>
  BY DEF SInv, IInv, TypeOK, UnsentOK, Enqueue
<1>2. size[j] = 0
  BY <1>1
<1>3. script' = [script EXCEPT ![j] = s]
  BY DEF Enqueue
<1>4. size' = [size EXCEPT ![j] = Len(s)]
  <2>1. \A i \in Jobs : Len(script'[i]) = IF i = j THEN Len(s) ELSE Len(script[i])
    BY <1>1, <1>3
  <2> QED BY <2>1
<1>5. m_jobs' = Append(m_jobs, j) /\ UNCHANGED <<itemsExecuted, shown, closed>>
  BY DEF Enqueue
<1> QED BY <1>2, <1>4, <1>5 DEF Service!Submit

(* The result the handler starts with is the next one of the first job.    *)
LEMMA ServiceShow == ASSUME SInv, OnJobItemExecuted PROVE Service!Show
<1> DEFINE job  == Head(m_jobs)
           size == [i \in Jobs |-> Len(script[i])]
<1>1. /\ m_jobs # <<>> /\ future.job = job /\ future.item = itemsExecuted[job] + 1
      /\ future.item <= Len(script[job])
  BY DEF SInv, IInv, ResultBelongsToHead, OnJobItemExecuted
<1>2. m_jobs \in Seq(Jobs) /\ itemsExecuted \in [Jobs -> Nat] /\ script \in [Jobs -> Seq(Kinds)]
  BY DEF SInv, IInv, TypeOK
<1>3. job \in Jobs
  BY <1>1, <1>2
<1>4. /\ itemsExecuted' = [itemsExecuted EXCEPT ![job] = @ + 1]
      /\ shown' = Append(shown, <<job, itemsExecuted[job] + 1>>)
      /\ UNCHANGED <<m_jobs, script, closed>>
  BY <1>1 DEF OnJobItemExecuted
<1> HIDE DEF job
<1>5. itemsExecuted[job] < size[job]
  <2>1. itemsExecuted[job] \in Nat /\ Len(script[job]) \in Nat /\ size[job] = Len(script[job])
    BY <1>2, <1>3
  <2> QED BY <1>1, <2>1
<1>6. size' = size
  BY <1>4
<1> QED BY <1>1, <1>4, <1>5, <1>6 DEF Service!Show, job

(* The job that leaves the queue has shown all its results.                *)
LEMMA ServiceRetire == ASSUME SInv, AfterFinishing PROVE Service!Retire
<1> DEFINE size == [i \in Jobs |-> Len(script[i])]
<1>1. stack \in Seq(Frames) /\ stack # <<>> /\ Top = "finishing"
  BY DEF SInv, IInv, TypeOK, AfterFinishing
<1>2. OnStack({"finishing"}) /\ OnStack(HandlerFrames)
  BY <1>1 DEF OnStack, Top, HandlerFrames
<1>3. m_jobs # <<>> /\ itemsExecuted[m_jobs[1]] = Len(script[m_jobs[1]]) /\ m_jobs \in Seq(Jobs)
  BY <1>2 DEF SInv, IInv, HandlerOK, TypeOK
<1>4. Head(m_jobs) = m_jobs[1] /\ m_jobs[1] \in Jobs
  BY <1>3
<1>5. itemsExecuted[Head(m_jobs)] = size[Head(m_jobs)]
  BY <1>3, <1>4
<1>6. m_jobs' = Tail(m_jobs) /\ UNCHANGED <<script, itemsExecuted, shown, closed>>
  BY DEF AfterFinishing
<1>7. size' = size
  BY <1>6
<1> QED BY <1>3, <1>5, <1>6, <1>7 DEF Service!Retire

(* What changes nothing the service sees.                                  *)
LEMMA ServiceUntouched ==
  ASSUME UNCHANGED <<m_jobs, script, itemsExecuted, shown, closed>>
  PROVE  UNCHANGED Service!vars
BY DEF Service!vars

(* However the connection is closed, no job is left.                       *)
LEMMA ServiceLeave ==
  ASSUME SInv, UserClose \/ AnswerClose \/ OthersAgree
  PROVE  Service!Leave \/ UNCHANGED Service!vars
<1> DEFINE size == [i \in Jobs |-> Len(script[i])]
<1>1. UNCHANGED <<m_jobs, script, itemsExecuted, shown>>
  BY DEF UserClose, AnswerClose, OthersAgree, queueVars
<1>2. size' = size
  BY <1>1
<1>3. CASE closed' = closed
  BY <1>1, <1>3, ServiceUntouched
<1>4. CASE closed' # closed
  <2>1. closed \in BOOLEAN /\ stack \in Seq(Frames)
    BY DEF SInv, IInv, TypeOK
  <2>2. ~closed
    <3>1. closed => stack = <<>>
      BY DEF SInv, IInv, ClosedIsQuiescent
    <3> QED BY <2>1, <3>1 DEF UserClose, UserMayAct, AnswerClose, OthersAgree
  <2>3. closed' = TRUE
    BY <1>4 DEF UserClose, AnswerClose, OthersAgree, CloseConnection, RemoveDatabase
  <2>4. m_jobs = <<>>
    <3>1. CASE AnswerClose
      <4>1. OnStack({"close"})
        BY <2>1, <3>1 DEF AnswerClose, OnStack, Top
      <4> QED BY <4>1 DEF SInv, IInv, PromptOK
    <3>2. CASE UserClose \/ OthersAgree
      BY <1>4, <3>2 DEF UserClose, OthersAgree, CloseConnection
    <3> QED BY <3>1, <3>2
  <2> QED BY <1>1, <1>2, <2>2, <2>3, <2>4 DEF Service!Leave
<1> QED BY <1>3, <1>4

LEMMA ServiceNext == ASSUME SInv, [Next]_vars PROVE [Service!Next]_(Service!vars)
<1> DEFINE sizes == {1} \cup {Len(s) : s \in Scripts \ {<<>>}}
<1>1. ASSUME NEW j \in Jobs, NEW s \in Scripts, StartNewJob(j, s) PROVE Service!Next
  <2>1. s \in Seq(Kinds) /\ Len(s) \in sizes
    BY <1>1, ScriptsAssumption DEF StartNewJob
  <2>2. Service!Submit(j, Len(s))
    BY <1>1, <2>1, ServiceSubmit DEF StartNewJob, UserMayAct
  <2> QED BY <2>1, <2>2 DEF Service!Next
<1>2. ASSUME NEW j \in Jobs, StartQueryDataNewJob(j) PROVE Service!Next
  <2>1. <<"select">> \in Seq(Kinds) /\ Len(<<"select">>) = 1
    BY DEF Kinds
  <2>2. Service!Submit(j, 1)
    BY <1>2, <2>1, ServiceSubmit DEF StartQueryDataNewJob, UserMayAct
  <2>3. 1 \in sizes
    OBVIOUS
  <2> QED BY <2>2, <2>3 DEF Service!Next
<1>3. CASE UserCommit \/ UserRollback
  BY <1>3, ServiceUntouched DEF UserCommit, UserRollback, queueVars
<1>4. CASE UserClose \/ AnswerClose \/ OthersAgree
  BY <1>4, ServiceLeave DEF Service!Next
<1>5. CASE OnJobItemExecuted
  BY <1>5, ServiceShow DEF Service!Next
<1>6. CASE AfterFinishing
  BY <1>6, ServiceRetire DEF Service!Next
<1>7. CASE AfterProgress \/ AnswerAbout \/ OthersVeto \/ ExecuteJobItem \/ AboutToClose
  BY <1>7, ServiceUntouched DEF AfterProgress, AnswerAbout, OthersVeto, ExecuteJobItem,
     AboutToClose, queueVars
<1>8. CASE UNCHANGED vars
  BY <1>8, ServiceUntouched DEF vars
<1> QED BY <1>1, <1>2, <1>3, <1>4, <1>5, <1>6, <1>7, <1>8 DEF Next, UserStep, HandlerStep, DialogStep

(* Whatever the event loops inside its handlers deliver, the connection    *)
(* takes only steps of the job service: jobs are served in the order of    *)
(* their submission, each result is shown once and in order, and the       *)
(* connection is not closed while there is a job.                          *)
THEOREM ServesLikeTheService == Spec => Service!Steps
<1>1. Init => SInv
  BY InitInv DEF Init, SInv, UnsentOK
<1>2. SInv /\ [Next]_vars => SInv'
  BY NextInv, UnsentStep DEF SInv
<1>3. SInv /\ [Next]_vars => [Service!Next]_(Service!vars)
  BY ServiceNext
<1> QED BY <1>1, <1>2, <1>3, ServiceInit, PTL DEF Spec, Service!Steps

-----------------------------------------------------------------------------
(* Each result of a job is shown at most once and after the ones before    *)
(* it, and between two results of a job there are none of another job.     *)
ShownInOrder ==
  \A i, k \in 1..Len(shown) : i < k /\ shown[i][1] = shown[k][1] =>
    /\ shown[i][2] < shown[k][2]
    /\ \A m \in i..k : shown[m][1] = shown[i][1]

(* What is shown was executed, and once the first job has shown a result   *)
(* only its own results are shown.                                         *)
ShownOK ==
  /\ \A i \in 1..Len(shown) : shown[i][2] <= itemsExecuted[shown[i][1]]
  /\ m_jobs # <<>> =>
       \A i, k \in 1..Len(shown) : i < k /\ shown[i][1] = m_jobs[1] => shown[k][1] = m_jobs[1]

OInv == IInv /\ ShownOK /\ ShownInOrder

(* A job of which nothing has been executed has shown nothing.             *)
LEMMA NothingShown ==
  ASSUME OInv, NEW j \in Jobs, itemsExecuted[j] = 0, NEW i \in 1..Len(shown)
  PROVE  shown[i][1] # j
<1>1. shown[i] \in StatementIds
  BY DEF OInv, IInv, TypeOK
<1>2. shown[i][2] \in Nat \ {0}
  BY <1>1 DEF StatementIds
<1>3. shown[i][2] <= itemsExecuted[shown[i][1]]
  BY DEF OInv, ShownOK
<1> QED BY <1>2, <1>3

LEMMA ResultOrder == ASSUME OInv, OnJobItemExecuted PROVE ShownOK' /\ ShownInOrder'
<1> DEFINE job == m_jobs[1]
           n   == Len(shown)
           e   == <<job, itemsExecuted[job] + 1>>
<1>1. m_jobs \in Seq(Jobs) /\ shown \in Seq(StatementIds) /\ itemsExecuted \in [Jobs -> Nat]
  BY DEF OInv, IInv, TypeOK
<1>2. /\ m_jobs # <<>> /\ future.job = Head(m_jobs)
      /\ future.item = itemsExecuted[future.job] + 1
  BY DEF OInv, IInv, ResultBelongsToHead, OnJobItemExecuted
<1>3. job \in Jobs /\ Head(m_jobs) = job
  BY <1>1, <1>2
<1>4. /\ shown' = Append(shown, e) /\ m_jobs' = m_jobs
      /\ itemsExecuted' = [itemsExecuted EXCEPT ![job] = @ + 1]
  BY <1>2, <1>3 DEF OnJobItemExecuted
<1>5. itemsExecuted[job] \in Nat /\ e[1] = job /\ e[2] = itemsExecuted[job] + 1
  BY <1>1, <1>3
<1>6. n \in Nat /\ \A i \in 1..n : shown[i][1] \in Jobs /\ shown[i][2] \in Nat
  BY <1>1 DEF StatementIds
<1>7. /\ Len(shown') = n + 1 /\ shown'[n + 1] = e
      /\ \A i \in 1..n : shown'[i] = shown[i]
  BY <1>1, <1>4
<1>8. /\ itemsExecuted'[job] = itemsExecuted[job] + 1
      /\ \A j \in Jobs : j # job => itemsExecuted'[j] = itemsExecuted[j]
  BY <1>1, <1>3, <1>4
<1>9. \A i \in 1..n : shown[i][2] <= itemsExecuted[shown[i][1]]
  BY DEF OInv, ShownOK
<1>10. \A i, k \in 1..n : i < k /\ shown[i][1] = job => shown[k][1] = job
  BY <1>2 DEF OInv, ShownOK
<1>11. \A i, k \in 1..n : i < k /\ shown[i][1] = shown[k][1] =>
         shown[i][2] < shown[k][2] /\ \A m \in i..k : shown[m][1] = shown[i][1]
  BY DEF OInv, ShownInOrder
<1> HIDE DEF job, n, e
<1>12. \A i \in 1..n + 1 : i \in 1..n \/ i = n + 1
  BY <1>6
<1>13. ASSUME NEW i \in 1..n + 1 PROVE shown'[i][2] <= itemsExecuted'[shown'[i][1]]
  <2>1. CASE i \in 1..n
    <3>1. CASE shown[i][1] = job
      <4>1. shown[i][2] <= itemsExecuted[job] /\ shown[i][2] \in Nat
        BY <1>6, <1>9, <2>1, <3>1
      <4>2. shown[i][2] <= itemsExecuted[job] + 1
        BY <1>5, <4>1
      <4> QED BY <1>7, <1>8, <2>1, <3>1, <4>2
    <3>2. CASE shown[i][1] # job
      BY <1>6, <1>7, <1>8, <1>9, <2>1, <3>2
    <3> QED BY <3>1, <3>2
  <2>2. CASE i = n + 1
    BY <1>5, <1>7, <1>8, <2>2
  <2> QED BY <1>12, <2>1, <2>2
<1>14. ASSUME NEW i \in 1..n + 1, NEW k \in 1..n + 1, i < k, shown'[i][1] = job
       PROVE  shown'[k][1] = job
  <2>1. i \in 1..n
    BY <1>6, <1>14
  <2> QED BY <1>5, <1>7, <1>10, <1>12, <1>14, <2>1
<1>15. ASSUME NEW i \in 1..n + 1, NEW k \in 1..n + 1, i < k, shown'[i][1] = shown'[k][1]
       PROVE  shown'[i][2] < shown'[k][2] /\ \A m \in i..k : shown'[m][1] = shown'[i][1]
  <2>1. i \in 1..n /\ shown'[i] = shown[i]
    BY <1>6, <1>7, <1>15
  <2>2. CASE k \in 1..n
    <3>1. \A m \in i..k : m \in 1..n
      BY <1>6, <2>1, <2>2
    <3> QED BY <1>7, <1>11, <1>15, <2>1, <2>2, <3>1
  <2>3. CASE k = n + 1
    <3>1. shown[i][1] = job
      BY <1>5, <1>7, <1>15, <2>1, <2>3
    <3>2. shown[i][2] < itemsExecuted[job] + 1
      <4>1. shown[i][2] <= itemsExecuted[job] /\ shown[i][2] \in Nat
        BY <1>6, <1>9, <2>1, <3>1
      <4> QED BY <1>5, <4>1
    <3>3. ASSUME NEW m \in i..k PROVE shown'[m][1] = job
      <4>1. m \in 1..n + 1 /\ (m = i \/ i < m)
        BY <2>1, <2>3, <1>6
      <4> QED BY <1>14, <2>1, <3>1, <4>1
    <3> QED BY <1>5, <1>7, <2>1, <2>3, <3>1, <3>2, <3>3
  <2> QED BY <1>12, <2>2, <2>3
<1>16. m_jobs'[1] = job
  BY <1>4 DEF job
<1>17. ShownOK'
  BY <1>7, <1>13, <1>14, <1>16 DEF ShownOK
<1>18. ShownInOrder'
  BY <1>7, <1>15 DEF ShownInOrder
<1> QED BY <1>17, <1>18

LEMMA OrderNext == ASSUME OInv, [Next]_vars PROVE OInv'
<1> SUFFICES ShownOK' /\ ShownInOrder'
  BY NextInv DEF OInv
<1>1. m_jobs \in Seq(Jobs)
  BY DEF OInv, IInv, TypeOK
<1>2. ASSUME UNCHANGED <<shown, itemsExecuted>>,
             m_jobs' # <<>> => /\ m_jobs'[1] \in Jobs
                               /\ \/ itemsExecuted[m_jobs'[1]] = 0
                                  \/ m_jobs # <<>> /\ m_jobs'[1] = m_jobs[1]
      PROVE  ShownOK' /\ ShownInOrder'
  <2>1. ShownInOrder'
    BY <1>2 DEF OInv, ShownInOrder
  <2>2. \A i \in 1..Len(shown') : shown'[i][2] <= itemsExecuted'[shown'[i][1]]
    BY <1>2 DEF OInv, ShownOK
  <2>3. ASSUME m_jobs' # <<>>, NEW i \in 1..Len(shown'), NEW k \in 1..Len(shown'), i < k,
               shown'[i][1] = m_jobs'[1]
        PROVE  shown'[k][1] = m_jobs'[1]
    <3>1. CASE itemsExecuted[m_jobs'[1]] = 0
      BY <1>2, <2>3, <3>1, NothingShown
    <3>2. CASE m_jobs # <<>> /\ m_jobs'[1] = m_jobs[1]
      BY <1>2, <2>3, <3>2 DEF OInv, ShownOK
    <3> QED BY <1>2, <2>3, <3>1, <3>2
  <2> QED BY <2>1, <2>2, <2>3 DEF ShownOK
<1>3. ASSUME NEW j \in Jobs, NEW s, Enqueue(j, s) PROVE ShownOK' /\ ShownInOrder'
  <2>1. m_jobs' = Append(m_jobs, j) /\ UNCHANGED <<shown, itemsExecuted>> /\ j \notin submitted
    BY <1>3 DEF Enqueue
  <2>2. itemsExecuted[j] = 0
    BY <2>1 DEF OInv, IInv, QueueOK
  <2>3. CASE m_jobs = <<>>
    BY <1>1, <1>2, <2>1, <2>2, <2>3
  <2>4. CASE m_jobs # <<>>
    BY <1>1, <1>2, <2>1, <2>4
  <2> QED BY <2>3, <2>4
<1>4. ASSUME UNCHANGED <<shown, itemsExecuted, m_jobs>> PROVE ShownOK' /\ ShownInOrder'
  BY <1>4 DEF OInv, ShownOK, ShownInOrder
<1>5. CASE AfterFinishing
  <2>1. m_jobs # <<>>
    <3>1. stack \in Seq(Frames) /\ stack # <<>> /\ Top = "finishing"
      BY <1>5 DEF OInv, IInv, TypeOK, AfterFinishing
    <3>2. OnStack(HandlerFrames)
      BY <3>1 DEF OnStack, Top, HandlerFrames
    <3> QED BY <3>2 DEF OInv, IInv, HandlerOK
  <2>2. m_jobs' = Tail(m_jobs) /\ UNCHANGED <<shown, itemsExecuted>>
    BY <1>5 DEF AfterFinishing
  <2>3. ASSUME m_jobs' # <<>> PROVE m_jobs'[1] \in Jobs /\ itemsExecuted[m_jobs'[1]] = 0
    <3>1. 2 \in 2..Len(m_jobs) /\ m_jobs'[1] = m_jobs[2] /\ m_jobs[2] \in Jobs
      BY <1>1, <2>1, <2>2, <2>3
    <3> QED BY <3>1 DEF OInv, IInv, QueueOK
  <2> QED BY <1>2, <2>2, <2>3
<1>6. CASE OnJobItemExecuted
  BY <1>6, ResultOrder
<1>7. CASE UserStep
  BY <1>3, <1>4, <1>7 DEF UserStep, StartNewJob, StartQueryDataNewJob, UserCommit, UserRollback,
     UserClose, queueVars
<1>8. CASE AfterProgress \/ DialogStep \/ ExecuteJobItem \/ AboutToClose \/ UNCHANGED vars
  <2>1. UNCHANGED <<shown, itemsExecuted, m_jobs>>
    BY <1>8 DEF AfterProgress, DialogStep, AnswerClose, AnswerAbout, OthersVeto, OthersAgree,
       ExecuteJobItem, AboutToClose, queueVars, vars
  <2> QED BY <1>4, <2>1
<1>9. \/ UserStep \/ OnJobItemExecuted \/ AfterFinishing
      \/ (AfterProgress \/ DialogStep \/ ExecuteJobItem \/ AboutToClose \/ UNCHANGED vars)
  BY DEF Next, HandlerStep
<1> QED BY <1>5, <1>6, <1>7, <1>8, <1>9

(* What the user sees of the jobs of a connection is in order: the results *)
(* of one job, each once, then those of the next.                          *)
THEOREM ResultsAreShownInOrder == Spec => []ShownInOrder
<1>1. Init => OInv
  BY InitInv DEF Init, OInv, ShownOK, ShownInOrder
<1>2. OInv /\ [Next]_vars => OInv'
  BY OrderNext
<1>3. OInv => ShownInOrder
  BY DEF OInv
<1> QED BY <1>1, <1>2, <1>3, PTL DEF Spec
=============================================================================
