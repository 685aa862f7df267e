------------------------------ MODULE DoQueue ------------------------------
(***************************************************************************)
(* The task queue of libs/client/js/libs/Do.js, which UITest.js uses to    *)
(* run the UT.open and UT.done calls of a test one after the other.  The   *)
(* head of the queue is the task that was started last; it leaves the      *)
(* queue when its done is called.                                          *)
(***************************************************************************)
EXTENDS Naturals, Sequences

CONSTANTS
    Task,       \* the functions given to the queue
    NoTask      \* nobody runs

ASSUME TaskAssumption == NoTask \notin Task

VARIABLES
    queue,      \* Do.queue
    starts,     \* starts[t]: how often the function of t was called
    finished    \* the tasks that have called their done

vars == <<queue, starts, finished>>

Init ==
    /\ queue = <<>>
    /\ starts = [t \in Task |-> 0]
    /\ finished = {}

\* next: call the function at the head of q, whatever happened to it before
Started(q) == IF q = <<>> THEN starts ELSE [starts EXCEPT ![Head(q)] = @ + 1]

Position(q, t) == {i \in 1..Len(q) : q[i] = t /\ \A j \in 1..(i - 1) : q[j] # t}

\* remove: the first occurrence of the task, if there is one
Removed(q, t) ==
    IF Position(q, t) = {} THEN q
    ELSE LET i == CHOOSE i \in Position(q, t) : TRUE
         IN  [j \in 1..(Len(q) - 1) |-> IF j < i THEN q[j] ELSE q[j + 1]]

New(t) == starts[t] = 0 /\ \A i \in 1..Len(queue) : queue[i] # t

AddSecond(t) ==
    /\ New(t)
    /\ queue' = IF queue = <<>> THEN <<t>> ELSE <<Head(queue), t>> \o Tail(queue)
    /\ starts' = IF queue = <<>> THEN Started(<<t>>) ELSE starts
    /\ UNCHANGED finished

\* add: a new task goes to the end; alone in the queue it is started
Add(t) ==
    /\ New(t)
    /\ queue' = Append(queue, t)
    /\ starts' = IF queue = <<>> THEN Started(<<t>>) ELSE starts
    /\ UNCHANGED finished

DoneNoNext(t) ==     \* mutant: done forgets to call next
    /\ starts[t] > 0
    /\ t \notin finished
    /\ finished' = finished \cup {t}
    /\ queue' = Removed(queue, t)
    /\ UNCHANGED starts

(***************************************************************************)
(* done: only a function that was started has it to call, and UT.open and  *)
(* UT.done call it once: on the answer of WAIT_TEST, which the server      *)
(* sends once, on the refusal of NEW_TEST, or after sending TEST_FINISH.   *)
(***************************************************************************)
Done(t) ==
    /\ starts[t] > 0
    /\ t \notin finished
    /\ finished' = finished \cup {t}
    /\ queue' = Removed(queue, t)
    /\ starts' = Started(Removed(queue, t))

Next == \E t \in Task : Add(t) \/ Done(t)

Spec == Init /\ [][Next]_vars

\* Every function that is started calls its done in the end
FairSpec == Spec /\ \A t \in Task : WF_vars(Done(t))

-----------------------------------------------------------------------------
(***************************************************************************)
(* The queue holds tasks, and starts counts calls (Do.js, queue).          *)
(***************************************************************************)
TypeOK ==
    /\ queue \in Seq(Task)
    /\ starts \in [Task -> Nat]
    /\ finished \subseteq Task

(***************************************************************************)
(* No task is run twice, and the tasks that run are never two: the one     *)
(* that was started and has not called done is the head of the queue       *)
(* (Do.js, add, done and next).                                            *)
(***************************************************************************)
OneAtATime ==
    /\ \A t \in Task : starts[t] <= 1
    /\ \A t \in Task : starts[t] > 0 /\ t \notin finished => queue # <<>> /\ t = Head(queue)

\* The refinement mapping: the head of the queue is the task that runs
waitingTasks == IF queue = <<>> THEN <<>> ELSE Tail(queue)
activeTask == IF queue = <<>> THEN NoTask ELSE Head(queue)

Executor == INSTANCE SerialExecutor WITH waiting <- waitingTasks, active <- activeTask

(***************************************************************************)
(* The queue does what SerialExecutor describes: first in, first run, and  *)
(* never idle while a task waits.                                          *)
(***************************************************************************)
ImplementsExecutor == Executor!Spec

Queued(t) == \E i \in 1..Len(queue) : queue[i] = t

(***************************************************************************)
(* A task that was added is run, and leaves the queue (Do.js, next).       *)
(***************************************************************************)
EveryTaskRuns == \A t \in Task : Queued(t) ~> starts[t] > 0 /\ ~ Queued(t)
=============================================================================
