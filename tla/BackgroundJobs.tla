--------------------------- MODULE BackgroundJobs ---------------------------
(***************************************************************************)
(* The background jobs of bio.c: the main thread leaves them in a list per *)
(* type, the thread of the type does them.  The list, its count and the    *)
(* condition variable are guarded by the mutex of the type; a job stays in *)
(* the list while it is done.                                              *)
(*                                                                         *)
(* A step is what a thread does between two points where the other one may *)
(* come in between, and more of them where the mutex is to prevent it.     *)
(***************************************************************************)
EXTENDS Integers, Sequences

CONSTANTS
    Type,       \* the types of jobs: one list and one thread for each
    Job,        \* what a job is about
    NoJob,
    MaxJobs     \* bound: how many jobs of a type are created

ASSUME JobAssumption == NoJob \notin Job /\ Type # {} /\ MaxJobs \in Nat

VARIABLES
    bio_jobs, bio_pending,
    bio_mutex,  \* who holds it: "main", "thread" or "nobody"
    thread,     \* where in its loop the thread of a type is
    hand,       \* the job it does
    main,       \* where in a call of bio.c the main thread is
    answer,     \* what bioPendingJobsOfType last said; -1 when it may be out of date
    created, done   \* history: the jobs created and done

vars == <<bio_jobs, bio_pending, bio_mutex, thread, hand, main, answer, created, done>>

\* The main thread is outside of bio.c
Idle == [at |-> "idle", type |-> CHOOSE t \in Type : TRUE, job |-> NoJob]

Init ==
    /\ bio_jobs = [t \in Type |-> <<>>]
    /\ bio_pending = [t \in Type |-> 0]
    /\ bio_mutex = [t \in Type |-> "nobody"]
    /\ thread = [t \in Type |-> "start"]
    /\ hand = [t \in Type |-> NoJob]
    /\ main = Idle
    /\ answer = [t \in Type |-> -1]
    /\ created = [t \in Type |-> <<>>]
    /\ done = [t \in Type |-> <<>>]

-----------------------------------------------------------------------------
(* The main thread.                                                        *)

At(place) == main.at = place
Goes(place) == main' = [main EXCEPT !.at = place]
Leaves == main' = Idle

bioCreateBackgroundJob(t, j) ==
    /\ At("idle") /\ Len(created[t]) < MaxJobs
    /\ main' = [at |-> "lock", type |-> t, job |-> j]
    /\ UNCHANGED <<bio_jobs, bio_pending, bio_mutex, thread, hand, answer, created, done>>

bioPendingJobsOfType(t) ==
    /\ At("idle")
    /\ main' = [at |-> "lock", type |-> t, job |-> NoJob]
    /\ UNCHANGED <<bio_jobs, bio_pending, bio_mutex, thread, hand, answer, created, done>>

MainLock(t) ==
    /\ At("lock") /\ bio_mutex[t] = "nobody"
    /\ bio_mutex' = [bio_mutex EXCEPT ![t] = "main"]
    /\ Goes(IF main.job = NoJob THEN "read" ELSE "add")
    /\ UNCHANGED <<bio_jobs, bio_pending, thread, hand, answer, created, done>>

\* Mutant: the newest job first
AddFirst(t) ==
    /\ At("add")
    /\ bio_jobs' = [bio_jobs EXCEPT ![t] = <<main.job>> \o @]
    /\ created' = [created EXCEPT ![t] = Append(@, main.job)]
    /\ answer' = [answer EXCEPT ![t] = -1]
    /\ Goes("count")
    /\ UNCHANGED <<bio_pending, bio_mutex, thread, hand, done>>

\* listAddNodeTail
Add(t) ==
    /\ At("add")
    /\ bio_jobs' = [bio_jobs EXCEPT ![t] = Append(@, main.job)]
    /\ created' = [created EXCEPT ![t] = Append(@, main.job)]
    /\ answer' = [answer EXCEPT ![t] = -1]
    /\ Goes("count")
    /\ UNCHANGED <<bio_pending, bio_mutex, thread, hand, done>>

Count(t) ==
    /\ At("count")
    /\ bio_pending' = [bio_pending EXCEPT ![t] = @ + 1]
    /\ Goes("signal")
    /\ UNCHANGED <<bio_jobs, bio_mutex, thread, hand, answer, created, done>>

\* Mutant: the thread is signalled for the first job only
SignalFirst(t) ==
    /\ At("signal")
    /\ thread' = IF thread[t] = "waiting" /\ Len(created[t]) = 1
                 THEN [thread EXCEPT ![t] = "woken"] ELSE thread
    /\ Goes("unlock")
    /\ UNCHANGED <<bio_jobs, bio_pending, bio_mutex, hand, answer, created, done>>

\* pthread_cond_signal: nobody hears it but a thread that waits
Signal(t) ==
    /\ At("signal")
    /\ thread' = IF thread[t] = "waiting" THEN [thread EXCEPT ![t] = "woken"] ELSE thread
    /\ Goes("unlock")
    /\ UNCHANGED <<bio_jobs, bio_pending, bio_mutex, hand, answer, created, done>>

Read(t) ==
    /\ At("read")
    /\ answer' = [answer EXCEPT ![t] = bio_pending[t]]
    /\ Goes("unlock")
    /\ UNCHANGED <<bio_jobs, bio_pending, bio_mutex, thread, hand, created, done>>

MainUnlock(t) ==
    /\ At("unlock")
    /\ bio_mutex' = [bio_mutex EXCEPT ![t] = "nobody"]
    /\ Leaves
    /\ UNCHANGED <<bio_jobs, bio_pending, thread, hand, answer, created, done>>

InCall(t) ==
    /\ main.type = t
    /\ \/ MainLock(t) \/ Add(t) \/ Count(t) \/ Signal(t) \/ Read(t) \/ MainUnlock(t)

-----------------------------------------------------------------------------
(* The thread of a type: bioProcessBackgroundJobs.                         *)

\* The mutex is taken: at first, after a wait, and after a job
ThreadLock(t) ==
    /\ thread[t] \in {"start", "woken", "performed"} /\ bio_mutex[t] = "nobody"
    /\ bio_mutex' = [bio_mutex EXCEPT ![t] = "thread"]
    /\ thread' = [thread EXCEPT ![t] = IF @ = "performed" THEN "remove" ELSE "loop"]
    /\ UNCHANGED <<bio_jobs, bio_pending, hand, main, answer, created, done>>

\* pthread_cond_wait gives the mutex back
Wait(t) ==
    /\ thread[t] = "loop" /\ bio_jobs[t] = <<>>
    /\ thread' = [thread EXCEPT ![t] = "waiting"]
    /\ bio_mutex' = [bio_mutex EXCEPT ![t] = "nobody"]
    /\ UNCHANGED <<bio_jobs, bio_pending, hand, main, answer, created, done>>

\* and may return for no reason
SpuriousWakeup(t) ==
    /\ thread[t] = "waiting"
    /\ thread' = [thread EXCEPT ![t] = "woken"]
    /\ UNCHANGED <<bio_jobs, bio_pending, bio_mutex, hand, main, answer, created, done>>

\* Mutant: a job is not pending any more when the thread has taken it
TakeUncounted(t) ==
    /\ thread[t] = "loop" /\ bio_jobs[t] # <<>>
    /\ hand' = [hand EXCEPT ![t] = Head(bio_jobs[t])]
    /\ bio_pending' = [bio_pending EXCEPT ![t] = @ - 1]
    /\ thread' = [thread EXCEPT ![t] = "working"]
    /\ bio_mutex' = [bio_mutex EXCEPT ![t] = "nobody"]
    /\ UNCHANGED <<bio_jobs, main, answer, created, done>>

Take(t) ==
    /\ thread[t] = "loop" /\ bio_jobs[t] # <<>>
    /\ hand' = [hand EXCEPT ![t] = Head(bio_jobs[t])]
    /\ thread' = [thread EXCEPT ![t] = "working"]
    /\ bio_mutex' = [bio_mutex EXCEPT ![t] = "nobody"]
    /\ UNCHANGED <<bio_jobs, bio_pending, main, answer, created, done>>

\* close or fsync
Perform(t) ==
    /\ thread[t] = "working"
    /\ done' = [done EXCEPT ![t] = Append(@, hand[t])]
    /\ hand' = [hand EXCEPT ![t] = NoJob]
    /\ thread' = [thread EXCEPT ![t] = "performed"]
    /\ UNCHANGED <<bio_jobs, bio_pending, bio_mutex, main, answer, created>>

\* listDelNode of the node found before the job was done
Remove(t) ==
    /\ thread[t] = "remove"
    /\ bio_jobs' = [bio_jobs EXCEPT ![t] = Tail(@)]
    /\ thread' = [thread EXCEPT ![t] = "discount"]
    /\ UNCHANGED <<bio_pending, bio_mutex, hand, main, answer, created, done>>

Discount(t) ==
    /\ thread[t] = "discount"
    /\ bio_pending' = [bio_pending EXCEPT ![t] = @ - 1]
    /\ thread' = [thread EXCEPT ![t] = "loop"]
    /\ UNCHANGED <<bio_jobs, bio_mutex, hand, main, answer, created, done>>

ThreadStep(t) ==
    ThreadLock(t) \/ Wait(t) \/ Take(t) \/ Perform(t) \/ Remove(t) \/ Discount(t)

Next ==
    \E t \in Type :
       \/ InCall(t) \/ ThreadStep(t) \/ SpuriousWakeup(t) \/ bioPendingJobsOfType(t)
       \/ \E j \in Job : bioCreateBackgroundJob(t, j)

Spec == Init /\ [][Next]_vars

-----------------------------------------------------------------------------
(* Properties.                                                             *)

(***************************************************************************)
(* The lists hold jobs, and everybody is at a place of its program.        *)
(***************************************************************************)
TypeOK ==
    /\ bio_jobs \in [Type -> Seq(Job)] /\ bio_pending \in [Type -> Nat]
    /\ bio_mutex \in [Type -> {"main", "thread", "nobody"}]
    /\ thread \in [Type -> {"start", "loop", "waiting", "woken", "working", "performed",
                            "remove", "discount"}]
    /\ hand \in [Type -> Job \cup {NoJob}]
    /\ main \in [at : {"idle", "lock", "add", "count", "signal", "read", "unlock"},
                 type : Type, job : Job \cup {NoJob}]
    /\ main.at \in {"add", "count", "signal"} => main.job \in Job
    /\ answer \in [Type -> Int]
    /\ created \in [Type -> Seq(Job)] /\ done \in [Type -> Seq(Job)]

\* The jobs of the list that were not done yet
Undone(t) ==
    IF thread[t] \in {"performed", "remove"} THEN Tail(bio_jobs[t]) ELSE bio_jobs[t]

(***************************************************************************)
(* Every job is done once, in the order in which the jobs of its type were *)
(* created, although the list changes while a job taken from it is done    *)
(* (bio.c, bioProcessBackgroundJobs).                                      *)
(***************************************************************************)
EachOnceInOrder == \A t \in Type : created[t] = done[t] \o Undone(t)

(***************************************************************************)
(* When bioPendingJobsOfType has said zero, and the main thread created no *)
(* job since, no job is there or being done: "the main thread will just    *)
(* wait that there are no longer jobs of this type to be executed before   *)
(* performing the sensible operation" (bio.c:66-71); flushAppendOnlyFile   *)
(* writes to the file then (aof.c:236).                                    *)
(***************************************************************************)
QuietAfterZero ==
    \A t \in Type : answer[t] = 0 =>
       bio_jobs[t] = <<>> /\ thread[t] \notin {"working", "performed", "remove"}

(***************************************************************************)
(* Whenever the mutex is free, the count is the length of the list.        *)
(***************************************************************************)
PendingCounts ==
    \A t \in Type : bio_mutex[t] = "nobody" => bio_pending[t] = Len(bio_jobs[t])

(***************************************************************************)
(* No wakeup is lost: a thread waits while there is a job only as long as  *)
(* the main thread is on its way to signal it (bio.c, pthread_cond_wait).  *)
(***************************************************************************)
NoLostWakeup ==
    \A t \in Type : thread[t] = "waiting" /\ bio_jobs[t] # <<>> =>
       main.type = t /\ main.at \in {"count", "signal"}
=============================================================================
