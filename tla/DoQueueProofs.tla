--------------------------- MODULE DoQueueProofs ---------------------------
(***************************************************************************)
(* Proofs about DoQueue, for every set of tasks.                           *)
(***************************************************************************)
EXTENDS DoQueue, SequenceTheorems, TLAPS

(***************************************************************************)
(* The inductive invariant.  A queue holds each task once; its head is the *)
(* only task that runs; the tasks behind it have not been started; those   *)
(* that left were run once and are done.                                   *)
(***************************************************************************)
Distinct == \A i, j \in 1..Len(queue) : queue[i] = queue[j] => i = j
HeadRuns == queue # <<>> => starts[queue[1]] = 1 /\ queue[1] \notin finished
OthersWait == \A i \in 2..Len(queue) : starts[queue[i]] = 0
GoneAreDone == \A t \in Task : ~ Queued(t) =>
                   starts[t] = 0 \/ (starts[t] = 1 /\ t \in finished)
DoneWereRun == \A t \in finished : starts[t] > 0

Inv == TypeOK /\ Distinct /\ HeadRuns /\ OthersWait /\ GoneAreDone /\ DoneWereRun

(***************************************************************************)
(* In a state of the invariant only the head can call done, and removing   *)
(* it leaves the tail (Do.js, remove).                                     *)
(***************************************************************************)
LEMMA OnlyHeadIsDone ==
    ASSUME Inv, NEW t \in Task, starts[t] > 0, t \notin finished
    PROVE  queue # <<>> /\ t = queue[1] /\ Removed(queue, t) = Tail(queue)
<1>1. Queued(t)
  BY DEF Inv, GoneAreDone, TypeOK
<1>2. PICK i \in 1..Len(queue) : queue[i] = t
  BY <1>1 DEF Queued
<1>3. i = 1
  BY <1>2 DEF Inv, OthersWait, TypeOK
<1>4. Len(queue) \in Nat /\ queue # <<>> /\ t = queue[1]
  BY <1>2, <1>3 DEF Inv, TypeOK
<1>5. Position(queue, t) = {1}
  BY <1>4, <1>2, <1>3 DEF Position
<1>6. (CHOOSE k \in Position(queue, t) : TRUE) = 1
  BY <1>5
<1>7. Removed(queue, t) = [j \in 1..(Len(queue) - 1) |-> IF j < 1 THEN queue[j] ELSE queue[j + 1]]
  BY <1>5, <1>6 DEF Removed
<1>8. /\ Tail(queue) \in Seq(Task)
      /\ Len(Tail(queue)) = Len(queue) - 1
      /\ \A j \in 1..Len(Tail(queue)) : Tail(queue)[j] = queue[j + 1]
  BY <1>4, HeadTailProperties DEF Inv, TypeOK
<1>9. Tail(queue) \in [1..(Len(queue) - 1) -> Task]
  BY <1>8, LenProperties
<1>10. Tail(queue) = [j \in 1..(Len(queue) - 1) |-> queue[j + 1]]
  BY <1>8, <1>9
<1> QED
  BY <1>4, <1>7, <1>10

(***************************************************************************)
(* What the two steps do to a state of the invariant.                      *)
(***************************************************************************)
LEMMA InitInv == Init => Inv
  BY DEF Init, Inv, TypeOK, Distinct, HeadRuns, OthersWait, GoneAreDone, DoneWereRun

LEMMA AddInv == ASSUME Inv, NEW t \in Task, Add(t) PROVE Inv'
<1> USE DEF Inv
<1>1. queue \in Seq(Task) /\ Len(queue) \in Nat /\ starts \in [Task -> Nat]
      /\ finished \subseteq Task /\ finished' = finished
  BY DEF TypeOK, Add
<1>2. /\ starts[t] = 0
      /\ \A i \in 1..Len(queue) : queue[i] # t
  BY DEF Add, New
<1>3. /\ queue' \in Seq(Task)
      /\ Len(queue') = Len(queue) + 1
      /\ \A i \in 1..Len(queue) : queue'[i] = queue[i]
      /\ queue'[Len(queue) + 1] = t
  BY <1>1, AppendProperties DEF Add
<1>4. IF queue = <<>> THEN starts' = [starts EXCEPT ![t] = 1] ELSE starts' = starts
  BY <1>1, <1>2 DEF Add, Started
<1>5. TypeOK'
  BY <1>1, <1>3, <1>4 DEF TypeOK
<1>6. t \notin finished
  BY <1>2 DEF DoneWereRun
<1>7. Distinct'
  BY SMTT(30), <1>1, <1>2, <1>3 DEF Distinct
<1>8. HeadRuns'
  <2>1. CASE queue = <<>>
    BY <2>1, <1>1, <1>3, <1>4, <1>6 DEF HeadRuns
  <2>2. CASE queue # <<>>
    BY <2>2, <1>1, <1>3, <1>4, EmptySeq DEF HeadRuns
  <2> QED
    BY <2>1, <2>2
<1>9. OthersWait'
  <2>1. CASE queue = <<>>
    BY <2>1, <1>1, <1>3 DEF OthersWait
  <2>2. CASE queue # <<>>
    <3> SUFFICES ASSUME NEW i \in 2..Len(queue') PROVE starts'[queue'[i]] = 0
      BY DEF OthersWait
    <3>1. CASE i = Len(queue) + 1
      BY <3>1, <2>2, <1>2, <1>3, <1>4
    <3>2. CASE i # Len(queue) + 1
      BY SMTT(30), <3>2, <2>2, <1>1, <1>3, <1>4 DEF OthersWait
    <3> QED
      BY <3>1, <3>2
  <2> QED
    BY <2>1, <2>2
<1>10. GoneAreDone'
  <2> SUFFICES ASSUME NEW u \in Task, ~ Queued(u)'
               PROVE  starts'[u] = 0 \/ (starts'[u] = 1 /\ u \in finished)
    BY <1>1 DEF GoneAreDone
  <2>1. u # t /\ ~ Queued(u)
    BY <1>1, <1>3 DEF Queued
  <2> QED
    BY <2>1, <1>1, <1>4 DEF GoneAreDone
<1>11. DoneWereRun'
  BY <1>1, <1>4 DEF DoneWereRun
<1> QED
  BY <1>5, <1>7, <1>8, <1>9, <1>10, <1>11

LEMMA DoneInv == ASSUME Inv, NEW t \in Task, Done(t) PROVE Inv'
<1> USE DEF Inv
<1>1. queue \in Seq(Task) /\ Len(queue) \in Nat /\ starts \in [Task -> Nat]
      /\ finished \subseteq Task /\ finished' = finished \cup {t}
  BY DEF TypeOK, Done
<1>2. queue # <<>> /\ t = queue[1] /\ queue' = Tail(queue) /\ starts' = Started(Tail(queue))
  BY OnlyHeadIsDone DEF Done
<1>3. /\ queue' \in Seq(Task)
      /\ Len(queue') = Len(queue) - 1
      /\ \A i \in 1..Len(queue') : queue'[i] = queue[i + 1]
  BY <1>1, <1>2, HeadTailProperties
<1>4. starts[t] = 1
  BY <1>2 DEF HeadRuns
<1>5. CASE queue' = <<>>
  <2>1. starts' = starts /\ Len(queue') = 0 /\ Len(queue) = 1
    BY <1>5, <1>1, <1>2, <1>3 DEF Started
  <2>2. GoneAreDone'
    <3> SUFFICES ASSUME NEW u \in Task PROVE starts[u] = 0 \/ (starts[u] = 1 /\ u \in finished')
      BY <2>1 DEF GoneAreDone
    <3>1. CASE u = t
      BY <3>1, <1>1, <1>4
    <3>2. CASE u # t
      BY <3>2, <2>1, <1>1, <1>2 DEF GoneAreDone, Queued
    <3> QED
      BY <3>1, <3>2
  <2> QED
    BY <2>1, <2>2, <1>1, <1>3, <1>4, <1>5
       DEF TypeOK, Distinct, HeadRuns, OthersWait, DoneWereRun
<1>6. CASE queue' # <<>>
  <2> DEFINE h == queue[2]
  <2>1. /\ Len(queue) >= 2 /\ h \in Task /\ queue'[1] = h /\ Head(queue') = h
    BY <1>6, <1>1, <1>3, EmptySeq
  <2>2. starts[h] = 0 /\ h # t /\ h \notin finished
    BY <2>1, <1>1, <1>4 DEF OthersWait, DoneWereRun
  <2>3. starts' = [starts EXCEPT ![h] = 1]
    <3>1. queue' # <<>> /\ starts' = Started(queue')
      BY <1>2, <1>6
    <3>2. starts' = [starts EXCEPT ![h] = starts[h] + 1]
      BY <3>1, <2>1 DEF Started
    <3> QED
      BY <3>2, <2>2
  <2>4. TypeOK'
    BY <2>1, <2>3, <1>1, <1>3 DEF TypeOK
  <2>5. Distinct'
    <3> SUFFICES ASSUME NEW i \in 1..Len(queue'), NEW j \in 1..Len(queue'),
                        queue'[i] = queue'[j]
                 PROVE  i = j
      BY DEF Distinct
    <3>0. Len(queue) \in Nat /\ Len(queue') = Len(queue) - 1
      BY <1>1, <1>3
    <3>1. i + 1 \in 1..Len(queue) /\ j + 1 \in 1..Len(queue)
      BY <3>0
    <3>2. queue[i + 1] = queue[j + 1]
      BY <1>3
    <3> QED
      BY <3>1, <3>2 DEF Distinct
  <2>6. HeadRuns'
    BY <2>1, <2>2, <2>3, <1>1 DEF HeadRuns
  <2>7. OthersWait'
    <3> SUFFICES ASSUME NEW i \in 2..Len(queue') PROVE starts'[queue'[i]] = 0
      BY DEF OthersWait
    <3>0. Len(queue) \in Nat /\ Len(queue') = Len(queue) - 1
      BY <1>1, <1>3
    <3>1. i \in 1..Len(queue') /\ i + 1 \in 2..Len(queue)
      BY <3>0
    <3>3. queue'[i] = queue[i + 1]
      BY <3>1, <1>3
    <3>4. queue[i + 1] \in Task
      BY <3>1, <1>1, ElementOfSeq
    <3>2. queue[i + 1] # h
      BY <3>1, <2>1 DEF Distinct
    <3> QED
      BY <3>1, <3>3, <3>4, <3>2, <2>3, <1>1 DEF OthersWait
  <2>8. GoneAreDone'
    <3> SUFFICES ASSUME NEW u \in Task, ~ Queued(u)'
                 PROVE  starts'[u] = 0 \/ (starts'[u] = 1 /\ u \in finished')
      BY DEF GoneAreDone
    <3>1. u # h
      BY <2>1, <1>1, <1>3 DEF Queued
    <3>2. CASE u = t
      BY <3>1, <3>2, <2>3, <1>1, <1>4
    <3>3. CASE u # t
      <4>1. ~ Queued(u)
        <5> SUFFICES ASSUME NEW i \in 1..Len(queue), queue[i] = u PROVE FALSE
          BY DEF Queued
        <5>1. i # 1
          BY <3>3, <1>2
        <5>2. i - 1 \in 1..Len(queue') /\ queue'[i - 1] = u
          BY <5>1, <1>1, <1>3
        <5> QED
          BY <5>2 DEF Queued
      <4> QED
        BY <4>1, <3>1, <2>3, <1>1 DEF GoneAreDone
    <3> QED
      BY <3>2, <3>3
  <2>9. DoneWereRun'
    BY <2>3, <1>1, <1>4 DEF DoneWereRun
  <2> QED
    BY <2>4, <2>5, <2>6, <2>7, <2>8, <2>9
<1> QED
  BY <1>5, <1>6

(***************************************************************************)
(* The invariant holds in every reachable state.                           *)
(***************************************************************************)
LEMMA Invariance == Spec => []Inv
<1>1. Inv /\ [Next]_vars => Inv'
  <2> SUFFICES ASSUME Inv, [Next]_vars PROVE Inv'
    OBVIOUS
  <2>1. CASE UNCHANGED vars
    BY <2>1 DEF vars, Inv, TypeOK, Distinct, HeadRuns, OthersWait, GoneAreDone,
                DoneWereRun, Queued
  <2>2. CASE Next
    BY <2>2, AddInv, DoneInv DEF Next
  <2> QED
    BY <2>1, <2>2
<1> QED
  BY <1>1, InitInv, PTL DEF Spec

(***************************************************************************)
(* The queue, the counts and the finished tasks keep their types.          *)
(***************************************************************************)
THEOREM TypeCorrect == Spec => []TypeOK
  BY Invariance, PTL DEF Inv

(***************************************************************************)
(* Whatever the number of UT.open and UT.done calls and the moments they   *)
(* come at, none is run twice and no two run at the same time.             *)
(***************************************************************************)
THEOREM RunsOneAtATime == Spec => []OneAtATime
<1>1. Inv => OneAtATime
  <2> SUFFICES ASSUME Inv, NEW t \in Task
               PROVE  /\ starts[t] <= 1
                      /\ starts[t] > 0 /\ t \notin finished => queue # <<>> /\ t = Head(queue)
    BY DEF OneAtATime
  <2>1. CASE Queued(t)
    <3>1. PICK i \in 1..Len(queue) : queue[i] = t
      BY <2>1 DEF Queued
    <3>2. queue # <<>> /\ Len(queue) \in Nat
      BY <3>1 DEF Inv, TypeOK
    <3> QED
      BY <3>1, <3>2 DEF Inv, TypeOK, HeadRuns, OthersWait
  <2>2. CASE ~ Queued(t)
    BY <2>2 DEF Inv, TypeOK, GoneAreDone
  <2> QED
    BY <2>1, <2>2
<1> QED
  BY <1>1, Invariance, PTL

(***************************************************************************)
(* The queue implements the serial executor: an Add is a Submit, a Done is *)
(* a Complete.                                                             *)
(***************************************************************************)
THEOREM Refinement == Spec => ImplementsExecutor
<1>1. Init => Executor!Init
  BY DEF Init, Executor!Init, waitingTasks, activeTask
<1>2. Inv /\ [Next]_vars => [Executor!Next]_(Executor!executorVars)
  <2> SUFFICES ASSUME Inv, [Next]_vars PROVE [Executor!Next]_(Executor!executorVars)
    OBVIOUS
  <2> USE DEF waitingTasks, activeTask
  <2>1. queue \in Seq(Task) /\ Len(queue) \in Nat
    BY DEF Inv, TypeOK
  <2>2. CASE UNCHANGED vars
    BY <2>2 DEF vars, Executor!executorVars
  <2>3. ASSUME NEW t \in Task, Add(t) PROVE Executor!Submit(t)
    <3>1. queue' = Append(queue, t) /\ queue' # <<>>
      BY <2>3, <2>1, AppendProperties DEF Add
    <3>2. /\ Head(queue') = IF queue = <<>> THEN t ELSE Head(queue)
          /\ Tail(queue') = IF queue = <<>> THEN <<>> ELSE Append(Tail(queue), t)
      BY <3>1, <2>1, HeadTailAppend
    <3>3. queue # <<>> => Head(queue) # NoTask
      BY <2>1, HeadTailProperties, TaskAssumption
    <3> QED
      BY <3>1, <3>2, <3>3 DEF Executor!Submit
  <2>4. ASSUME NEW t \in Task, Done(t) PROVE Executor!Complete
    <3>1. queue # <<>> /\ queue' = Tail(queue)
      BY <2>4, OnlyHeadIsDone DEF Done
    <3>2. Head(queue) \in Task /\ Tail(queue) \in Seq(Task)
      BY <3>1, <2>1, HeadTailProperties
    <3> QED
      BY <3>1, <3>2, TaskAssumption DEF Executor!Complete
  <2>5. CASE Next
    BY <2>3, <2>4, <2>5 DEF Next, Executor!Next
  <2> QED
    BY <2>2, <2>5
<1> QED
  BY <1>1, <1>2, Invariance, PTL DEF Spec, ImplementsExecutor, Executor!Spec
=============================================================================
