--------------------------- MODULE SerialExecutor ---------------------------
(***************************************************************************)
(* What Do.js promises to the UITest client: tasks run one at a time, in   *)
(* the order they were added, and the next one starts when the one that    *)
(* runs says that it is done.                                              *)
(***************************************************************************)
EXTENDS Sequences

CONSTANTS
    Task,       \* the functions given to the queue
    NoTask      \* nobody runs

VARIABLES
    waiting,    \* the tasks added and not started, oldest first
    active      \* the task that runs

executorVars == <<waiting, active>>

Init == waiting = <<>> /\ active = NoTask

\* A task added while nobody runs is started at once
Submit(t) ==
    \/ active = NoTask /\ active' = t /\ UNCHANGED waiting
    \/ active # NoTask /\ waiting' = Append(waiting, t) /\ UNCHANGED active

\* The task that runs is done; the oldest waiting one takes its place
Complete ==
    /\ active # NoTask
    /\ \/ waiting = <<>> /\ active' = NoTask /\ UNCHANGED waiting
       \/ waiting # <<>> /\ active' = Head(waiting) /\ waiting' = Tail(waiting)

Next == Complete \/ \E t \in Task : Submit(t)

Spec == Init /\ [][Next]_executorVars
=============================================================================
