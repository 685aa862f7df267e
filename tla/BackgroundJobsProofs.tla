------------------------ MODULE BackgroundJobsProofs ------------------------
(***************************************************************************)
(* Proofs about BackgroundJobs, for any number of types and of jobs, and   *)
(* about AofFiles, for any number of descriptors and files: its steps are  *)
(* steps of BackgroundJobs, whose theorems hold of it; and while a rewrite *)
(* is never refused, descriptors are used by their owners.                 *)
(***************************************************************************)
EXTENDS AofFiles, SequenceTheorems, FiniteSetTheorems, WellFoundedInduction, TLAPS

(***************************************************************************)
(* The inductive invariant, for each type: the mutex is held by who is in  *)
(* its section; the count is off by one only within the sections; the job  *)
(* that is done is the head of the list; what was created was done or is   *)
(* in the list; after an answer of zero nothing is there; and a waiting    *)
(* thread with a job is about to be signalled.                             *)
(***************************************************************************)
MainIn(t, places) == main.type = t /\ main.at \in places
Locks(t) ==
    /\ bio_mutex[t] = "thread" <=> thread[t] \in {"loop", "remove", "discount"}
    /\ bio_mutex[t] = "main" <=> MainIn(t, {"add", "count", "signal", "read", "unlock"})
Counting(t) ==
    Len(bio_jobs[t]) = bio_pending[t] + (IF MainIn(t, {"count"}) THEN 1 ELSE 0)
                                      - (IF thread[t] = "discount" THEN 1 ELSE 0)
InHand(t) ==
    /\ thread[t] \in {"working", "performed", "remove"} => bio_jobs[t] # <<>>
    /\ thread[t] = "working" => hand[t] = Head(bio_jobs[t])
History(t) == created[t] = done[t] \o Undone(t)
Quiet(t) == answer[t] = 0 => bio_jobs[t] = <<>>
Wake(t) == thread[t] = "waiting" /\ bio_jobs[t] # <<>> => MainIn(t, {"count", "signal"})

InvOf(t) == Locks(t) /\ Counting(t) /\ InHand(t) /\ History(t) /\ Quiet(t) /\ Wake(t)
Inv == TypeOK /\ \A t \in Type : InvOf(t)

(***************************************************************************)
(* A job at the end of what is to do is one at the end of all jobs; and    *)
(* the first of what is to do is the last of what is done.                 *)
(***************************************************************************)
LEMMA AppendToBoth ==
    ASSUME NEW s \in Seq(Job), NEW r \in Seq(Job), NEW j \in Job
    PROVE  Append(s \o r, j) = s \o Append(r, j)
<1>1. <<j>> \in Seq(Job) /\ s \o r \in Seq(Job)
  BY ConcatProperties
<1>2. Append(s \o r, j) = (s \o r) \o <<j>> /\ Append(r, j) = r \o <<j>>
  BY <1>1, AppendIsConcat
<1> QED
  BY <1>1, <1>2, ConcatAssociative

LEMMA HeadMoves ==
    ASSUME NEW s \in Seq(Job), NEW r \in Seq(Job), r # <<>>
    PROVE  s \o r = Append(s, Head(r)) \o Tail(r)
<1>1. /\ Head(r) \in Job /\ Tail(r) \in Seq(Job) /\ Len(Tail(r)) = Len(r) - 1
      /\ \A i \in 1..Len(Tail(r)) : Tail(r)[i] = r[i + 1]
      /\ Len(r) \in Nat /\ Len(s) \in Nat /\ Head(r) = r[1] /\ Len(r) > 0
  BY HeadTailProperties, LenProperties, EmptySeq
<1>2. /\ Append(s, Head(r)) \in Seq(Job) /\ Len(Append(s, Head(r))) = Len(s) + 1
      /\ \A i \in 1..Len(s) : Append(s, Head(r))[i] = s[i]
      /\ Append(s, Head(r))[Len(s) + 1] = r[1]
  BY <1>1, AppendProperties
<1> DEFINE a == s \o r
           b == Append(s, Head(r)) \o Tail(r)
<1>3. /\ a \in Seq(Job) /\ Len(a) = Len(s) + Len(r)
      /\ \A i \in 1..(Len(s) + Len(r)) : a[i] = IF i <= Len(s) THEN s[i] ELSE r[i - Len(s)]
  BY ConcatProperties
<1>4. /\ b \in Seq(Job) /\ Len(b) = Len(s) + 1 + Len(r) - 1
      /\ \A i \in 1..(Len(s) + Len(r)) :
            b[i] = IF i <= Len(s) + 1 THEN Append(s, Head(r))[i] ELSE Tail(r)[i - (Len(s) + 1)]
  BY <1>1, <1>2, ConcatProperties
<1>5. ASSUME NEW i \in 1..Len(a) PROVE a[i] = b[i]
  <2>1. CASE i <= Len(s)
    BY <2>1, <1>1, <1>2, <1>3, <1>4
  <2>2. CASE i = Len(s) + 1
    BY <2>2, <1>1, <1>2, <1>3, <1>4
  <2>3. CASE i > Len(s) + 1
    <3>1. i - (Len(s) + 1) \in 1..Len(Tail(r)) /\ i - (Len(s) + 1) + 1 = i - Len(s)
      BY <2>3, <1>1, <1>3
    <3> QED
      BY <2>3, <3>1, <1>1, <1>3, <1>4
  <2> QED
    BY <2>1, <2>2, <2>3, <1>1, <1>3
<1> HIDE DEF a, b
<1>6. a = b
  BY <1>1, <1>3, <1>4, <1>5, SeqEqual
<1> QED
  BY <1>6 DEF a, b

(***************************************************************************)
(* A step within a call moves the main thread and nothing else of it.      *)
(***************************************************************************)
Places == {"idle", "lock", "add", "count", "signal", "read", "unlock"}
Calls == [at : Places, type : Type, job : Job \cup {NoJob}]

LEMMA MainMoves ==
    ASSUME main \in Calls, NEW p \in Places, Goes(p)
    PROVE  main' \in Calls /\ main'.at = p /\ main'.type = main.type /\ main'.job = main.job
BY DEF Goes, Calls

LEMMA InitInv == Init => Inv
<1> SUFFICES ASSUME Init PROVE Inv
  OBVIOUS
<1>1. Idle.type \in Type /\ Idle.at = "idle" /\ Idle.job = NoJob
  BY JobAssumption DEF Idle
<1>2. TypeOK
  <2>1. main \in [at : {"idle", "lock", "add", "count", "signal", "read", "unlock"},
                  type : Type, job : Job \cup {NoJob}]
    BY <1>1 DEF Init, Idle
  <2> QED
    BY <1>1, <2>1 DEF Init, TypeOK
<1>3. ASSUME NEW t \in Type PROVE InvOf(t)
  <2>1. <<>> \in Seq(Job) /\ <<>> \o <<>> = <<>>
    BY ConcatEmptySeq, EmptySeq
  <2> QED
    BY <1>1, <2>1 DEF Init, InvOf, Locks, MainIn, Counting, InHand, History, Undone, Quiet, Wake
<1> QED
  BY <1>2, <1>3 DEF Inv

(***************************************************************************)
(* A call begins: nothing but the place of the main thread changes.        *)
(***************************************************************************)
LEMMA BeginInv ==
    ASSUME Inv, NEW t \in Type,
           bioPendingJobsOfType(t) \/ \E j \in Job : bioCreateBackgroundJob(t, j)
    PROVE  Inv'
<1>1. /\ main.at = "idle" /\ main'.at = "lock" /\ main' \in [at : {"lock"}, type : Type, job : Job \cup {NoJob}]
      /\ UNCHANGED <<bio_jobs, bio_pending, bio_mutex, thread, hand, answer, created, done>>
  BY DEF bioPendingJobsOfType, bioCreateBackgroundJob, At
<1>2. TypeOK'
  BY <1>1 DEF Inv, TypeOK
<1>3. ASSUME NEW u \in Type PROVE InvOf(u)'
  BY <1>1 DEF Inv, InvOf, Locks, MainIn, Counting, InHand, History, Undone, Quiet, Wake
<1> QED
  BY <1>2, <1>3 DEF Inv

(***************************************************************************)
(* The main thread enters the section of a type nobody was in.             *)
(***************************************************************************)
LEMMA MainLockInv == ASSUME Inv, NEW t \in Type, main.type = t, MainLock(t) PROVE Inv'
<1> USE DEF Inv, MainLock, At, Goes, Leaves
<1>1. TypeOK'
  BY DEF TypeOK
<1>2. ASSUME NEW u \in Type PROVE InvOf(u)'
  <2> USE DEF InvOf, TypeOK, MainIn
  <2>1. Locks(u)'
    BY DEF Locks
  <2>2. Counting(u)'
    BY DEF Locks, Counting
  <2>3. InHand(u)'
    BY DEF InHand
  <2>4. History(u)'
    BY DEF History, Undone
  <2>5. Quiet(u)'
    BY DEF Quiet
  <2>6. Wake(u)'
    BY DEF Wake
  <2> QED
    BY <2>1, <2>2, <2>3, <2>4, <2>5, <2>6
<1> QED
  BY <1>1, <1>2

(***************************************************************************)
(* A job joins the list: the job that is done stays its head.              *)
(***************************************************************************)
LEMMA AddInv == ASSUME Inv, NEW t \in Type, main.type = t, Add(t) PROVE Inv'
<1> USE DEF Inv, Add, At
<1>m. /\ main.job \in Job /\ main' \in Calls /\ main'.at = "count"
      /\ main'.type = t /\ main'.job = main.job
  BY MainMoves DEF TypeOK, Calls, Places
<1>s. /\ bio_jobs[t] \in Seq(Job) /\ done[t] \in Seq(Job) /\ created[t] \in Seq(Job)
      /\ Append(created[t], main.job) \in Seq(Job)
  BY <1>m, AppendProperties DEF TypeOK
<1>a. /\ Append(bio_jobs[t], main.job) \in Seq(Job) /\ Append(bio_jobs[t], main.job) # <<>>
      /\ Len(Append(bio_jobs[t], main.job)) = Len(bio_jobs[t]) + 1
  <2>1. /\ Append(bio_jobs[t], main.job) \in Seq(Job)
        /\ Len(Append(bio_jobs[t], main.job)) = Len(bio_jobs[t]) + 1
    BY <1>m, <1>s, AppendProperties
  <2>2. Len(bio_jobs[t]) \in Nat
    BY <1>s, LenProperties
  <2>3. Len(Append(bio_jobs[t], main.job)) # 0
    BY <2>1, <2>2
  <2>4. Append(bio_jobs[t], main.job) # <<>>
    BY <2>1, <2>3, EmptySeq
  <2> QED
    BY <2>1, <2>4
<1>h. ASSUME bio_jobs[t] # <<>>
      PROVE  /\ Head(Append(bio_jobs[t], main.job)) = Head(bio_jobs[t])
             /\ Tail(Append(bio_jobs[t], main.job)) = Append(Tail(bio_jobs[t]), main.job)
             /\ Tail(bio_jobs[t]) \in Seq(Job)
  BY <1>h, <1>m, <1>s, HeadTailAppend, HeadTailProperties
<1>1. TypeOK'
  BY <1>m, <1>s, <1>a DEF TypeOK, Calls, Places
<1>2. ASSUME NEW u \in Type PROVE InvOf(u)'
  <2> USE DEF InvOf, TypeOK, MainIn
  <2>1. Locks(u)'
    BY <1>m DEF Locks
  <2>2. Counting(u)'
    <3>1. CASE u = t
      BY <3>1, <1>m, <1>s, <1>a, LenProperties DEF Locks, Counting
    <3>2. CASE u # t
      BY <3>2, <1>m DEF Counting
    <3> QED
      BY <3>1, <3>2
  <2>3. InHand(u)'
    BY <1>m, <1>s, <1>a, <1>h DEF InHand
  <2>4. History(u)'
    <3>1. CASE u = t
      <4>1. Undone(t) \in Seq(Job)
        BY <1>s, <1>h DEF Undone, InHand
      <4>2. Undone(t)' = Append(Undone(t), main.job)
        BY <1>s, <1>h DEF Undone, InHand
      <4>3. /\ created'[t] = Append(created[t], main.job) /\ done'[t] = done[t]
            /\ created[t] = done[t] \o Undone(t)
        BY DEF History
      <4>4. Append(done[t] \o Undone(t), main.job) = done[t] \o Append(Undone(t), main.job)
        <5> HIDE DEF Inv, InvOf, TypeOK, MainIn, Add
        <5>1. main.job \in Job /\ done[t] \in Seq(Job) /\ Undone(t) \in Seq(Job)
          BY <4>1, <1>m, <1>s
        <5> DEFINE s == done[t]
                   q == Undone(t)
                   j == main.job
        <5>2. s \in Seq(Job) /\ q \in Seq(Job) /\ j \in Job
          BY <5>1
        <5> HIDE DEF s, q, j
        <5>3. Append(s \o q, j) = s \o Append(q, j)
          BY <5>2, AppendToBoth
        <5> QED
          BY <5>3 DEF s, q, j
      <4>5. History(t)'
        <5> HIDE DEF Inv, InvOf, TypeOK, MainIn, Add
        <5>1. created'[t] = done'[t] \o Append(Undone(t), main.job)
          BY <4>3, <4>4
        <5> QED
          BY <5>1, <4>2 DEF History
      <4> QED
        BY <3>1, <4>5
    <3>2. CASE u # t
      BY <3>2 DEF History, Undone
    <3> QED
      BY <3>1, <3>2
  <2>5. Quiet(u)'
    BY DEF Quiet
  <2>6. Wake(u)'
    BY <1>m, <1>a DEF Wake, Locks
  <2> QED
    BY <2>1, <2>2, <2>3, <2>4, <2>5, <2>6
<1> QED
  BY <1>1, <1>2

(***************************************************************************)
(* The new job is counted.                                                 *)
(***************************************************************************)
LEMMA CountInv == ASSUME Inv, NEW t \in Type, main.type = t, Count(t) PROVE Inv'
<1> USE DEF Inv, Count, At
<1>m. main' \in Calls /\ main'.at = "signal" /\ main'.type = t /\ main'.job = main.job
  BY MainMoves DEF TypeOK, Calls, Places
<1>n. bio_pending[t] \in Nat /\ Len(bio_jobs[t]) \in Nat /\ (Len(bio_jobs[t]) = 0 <=> bio_jobs[t] = <<>>)
  BY LenProperties, EmptySeq DEF TypeOK
<1>1. TypeOK'
  BY <1>m, <1>n DEF TypeOK, Calls, Places
<1>2. ASSUME NEW u \in Type PROVE InvOf(u)'
  <2> USE DEF InvOf, TypeOK, MainIn
  <2>1. Locks(u)'
    BY <1>m DEF Locks
  <2>2. Counting(u)'
    BY <1>m DEF Locks, Counting
  <2>3. InHand(u)'
    BY <1>m DEF InHand
  <2>4. History(u)'
    BY <1>m DEF History, Undone
  <2>5. Quiet(u)'
    BY <1>m DEF Quiet
  <2>6. Wake(u)'
    BY <1>m DEF Wake
  <2> QED
    BY <2>1, <2>2, <2>3, <2>4, <2>5, <2>6
<1> QED
  BY <1>1, <1>2

(***************************************************************************)
(* The thread hears of the job, or was not waiting.                        *)
(***************************************************************************)
LEMMA SignalInv == ASSUME Inv, NEW t \in Type, main.type = t, Signal(t) PROVE Inv'
<1> USE DEF Inv, Signal, At, Goes, Leaves
<1>1. TypeOK'
  BY DEF TypeOK
<1>2. ASSUME NEW u \in Type PROVE InvOf(u)'
  <2> USE DEF InvOf, TypeOK, MainIn
  <2>1. Locks(u)'
    BY DEF Locks
  <2>2. Counting(u)'
    BY DEF Locks, Counting
  <2>3. InHand(u)'
    BY DEF InHand
  <2>4. History(u)'
    BY DEF History, Undone
  <2>5. Quiet(u)'
    BY DEF Quiet
  <2>6. Wake(u)'
    BY DEF Wake
  <2> QED
    BY <2>1, <2>2, <2>3, <2>4, <2>5, <2>6
<1> QED
  BY <1>1, <1>2

(***************************************************************************)
(* The count is exact while the main thread reads it.                      *)
(***************************************************************************)
LEMMA ReadInv == ASSUME Inv, NEW t \in Type, main.type = t, Read(t) PROVE Inv'
<1> USE DEF Inv, Read, At
<1>m. main' \in Calls /\ main'.at = "unlock" /\ main'.type = t /\ main'.job = main.job
  BY MainMoves DEF TypeOK, Calls, Places
<1>n. bio_pending[t] \in Nat /\ Len(bio_jobs[t]) \in Nat /\ (Len(bio_jobs[t]) = 0 <=> bio_jobs[t] = <<>>)
  BY LenProperties, EmptySeq DEF TypeOK
<1>1. TypeOK'
  BY <1>m, <1>n DEF TypeOK, Calls, Places
<1>2. ASSUME NEW u \in Type PROVE InvOf(u)'
  <2> USE DEF InvOf, TypeOK, MainIn
  <2>1. Locks(u)'
    BY <1>m DEF Locks
  <2>2. Counting(u)'
    BY <1>m DEF Locks, Counting
  <2>3. InHand(u)'
    BY <1>m DEF InHand
  <2>4. History(u)'
    BY <1>m DEF History, Undone
  <2>5. Quiet(u)'
    <3>1. CASE u = t
      <4>1. ~MainIn(t, {"count"}) /\ thread[t] # "discount"
        BY DEF Locks
      <4>2. Len(bio_jobs[t]) = bio_pending[t]
        BY <4>1, <1>n DEF Counting
      <4>3. answer'[t] = bio_pending[t] /\ bio_jobs'[t] = bio_jobs[t]
        OBVIOUS
      <4> QED
        BY <3>1, <4>2, <4>3, <1>n DEF Quiet
    <3>2. CASE u # t
      BY <3>2 DEF Quiet
    <3> QED
      BY <3>1, <3>2
  <2>6. Wake(u)'
    BY <1>m DEF Wake
  <2> QED
    BY <2>1, <2>2, <2>3, <2>4, <2>5, <2>6
<1> QED
  BY <1>1, <1>2

(***************************************************************************)
(* The main thread leaves the section.                                     *)
(***************************************************************************)
LEMMA MainUnlockInv == ASSUME Inv, NEW t \in Type, main.type = t, MainUnlock(t) PROVE Inv'
<1> USE DEF Inv, MainUnlock, At, Goes, Leaves
<1>0. Idle.type \in Type /\ Idle.at = "idle" /\ Idle.job = NoJob
      /\ main' \in [at : {"idle"}, type : Type, job : Job \cup {NoJob}] /\ main'.at = "idle"
  BY JobAssumption DEF Idle
<1>1. TypeOK'
  BY <1>0 DEF TypeOK
<1>2. ASSUME NEW u \in Type PROVE InvOf(u)'
  <2> USE DEF InvOf, TypeOK, MainIn
  <2>1. Locks(u)'
    BY <1>0 DEF Locks
  <2>2. Counting(u)'
    BY <1>0 DEF Locks, Counting
  <2>3. InHand(u)'
    BY DEF InHand
  <2>4. History(u)'
    BY DEF History, Undone
  <2>5. Quiet(u)'
    BY DEF Quiet
  <2>6. Wake(u)'
    BY <1>0 DEF Wake
  <2> QED
    BY <2>1, <2>2, <2>3, <2>4, <2>5, <2>6
<1> QED
  BY <1>1, <1>2

(***************************************************************************)
(* The thread enters its section.                                          *)
(***************************************************************************)
LEMMA ThreadLockInv == ASSUME Inv, NEW t \in Type, ThreadLock(t) PROVE Inv'
<1> USE DEF Inv, ThreadLock
<1>1. TypeOK'
  BY DEF TypeOK
<1>2. ASSUME NEW u \in Type PROVE InvOf(u)'
  <2> USE DEF InvOf, TypeOK, MainIn
  <2>1. Locks(u)'
    BY DEF Locks
  <2>2. Counting(u)'
    BY DEF Locks, Counting
  <2>3. InHand(u)'
    BY DEF InHand
  <2>4. History(u)'
    BY DEF History, Undone
  <2>5. Quiet(u)'
    BY DEF Quiet
  <2>6. Wake(u)'
    BY DEF Wake
  <2> QED
    BY <2>1, <2>2, <2>3, <2>4, <2>5, <2>6
<1> QED
  BY <1>1, <1>2

(***************************************************************************)
(* The thread waits, and there is no job.                                  *)
(***************************************************************************)
LEMMA WaitInv == ASSUME Inv, NEW t \in Type, Wait(t) PROVE Inv'
<1> USE DEF Inv, Wait
<1>1. TypeOK'
  BY DEF TypeOK
<1>2. ASSUME NEW u \in Type PROVE InvOf(u)'
  <2> USE DEF InvOf, TypeOK, MainIn
  <2>1. Locks(u)'
    BY DEF Locks
  <2>2. Counting(u)'
    BY DEF Locks, Counting
  <2>3. InHand(u)'
    BY DEF InHand
  <2>4. History(u)'
    BY DEF History, Undone
  <2>5. Quiet(u)'
    BY DEF Quiet
  <2>6. Wake(u)'
    BY DEF Wake
  <2> QED
    BY <2>1, <2>2, <2>3, <2>4, <2>5, <2>6
<1> QED
  BY <1>1, <1>2

(***************************************************************************)
(* The thread wakes up for no reason.                                      *)
(***************************************************************************)
LEMMA SpuriousWakeupInv == ASSUME Inv, NEW t \in Type, SpuriousWakeup(t) PROVE Inv'
<1> USE DEF Inv, SpuriousWakeup
<1>1. TypeOK'
  BY DEF TypeOK
<1>2. ASSUME NEW u \in Type PROVE InvOf(u)'
  <2> USE DEF InvOf, TypeOK, MainIn
  <2>1. Locks(u)'
    BY DEF Locks
  <2>2. Counting(u)'
    BY DEF Locks, Counting
  <2>3. InHand(u)'
    BY DEF InHand
  <2>4. History(u)'
    BY DEF History, Undone
  <2>5. Quiet(u)'
    BY DEF Quiet
  <2>6. Wake(u)'
    BY DEF Wake
  <2> QED
    BY <2>1, <2>2, <2>3, <2>4, <2>5, <2>6
<1> QED
  BY <1>1, <1>2

(***************************************************************************)
(* The thread takes the oldest job, which stays in the list.               *)
(***************************************************************************)
LEMMA TakeInv == ASSUME Inv, NEW t \in Type, Take(t) PROVE Inv'
<1> USE DEF Inv, Take
<1>1. TypeOK'
  BY HeadTailProperties DEF TypeOK
<1>2. ASSUME NEW u \in Type PROVE InvOf(u)'
  <2> USE DEF InvOf, TypeOK, MainIn
  <2>1. Locks(u)'
    BY DEF Locks
  <2>2. Counting(u)'
    BY DEF Locks, Counting
  <2>3. InHand(u)'
    BY DEF InHand
  <2>4. History(u)'
    BY DEF History, Undone
  <2>5. Quiet(u)'
    BY DEF Quiet
  <2>6. Wake(u)'
    BY DEF Wake
  <2> QED
    BY <2>1, <2>2, <2>3, <2>4, <2>5, <2>6
<1> QED
  BY <1>1, <1>2

(***************************************************************************)
(* The job is done: it is the head of the list, and the rest is to do.     *)
(***************************************************************************)
LEMMA PerformInv == ASSUME Inv, NEW t \in Type, Perform(t) PROVE Inv'
<1> USE DEF Inv, Perform
<1>0. /\ bio_jobs[t] \in Seq(Job) /\ bio_jobs[t] # <<>> /\ hand[t] = Head(bio_jobs[t])
      /\ hand[t] \in Job /\ done[t] \in Seq(Job) /\ Append(done[t], hand[t]) \in Seq(Job)
      /\ done[t] \o bio_jobs[t] = Append(done[t], hand[t]) \o Tail(bio_jobs[t])
  <2>1. /\ bio_jobs[t] \in Seq(Job) /\ bio_jobs[t] # <<>> /\ hand[t] = Head(bio_jobs[t])
        /\ done[t] \in Seq(Job)
    BY DEF TypeOK, InvOf, InHand
  <2>2. hand[t] \in Job
    BY <2>1, HeadTailProperties
  <2>3. Append(done[t], hand[t]) \in Seq(Job)
    BY <2>1, <2>2, AppendProperties
  <2> QED
    BY <2>1, <2>2, <2>3, HeadMoves
<1>1. TypeOK'
  BY <1>0 DEF TypeOK
<1>2. ASSUME NEW u \in Type PROVE InvOf(u)'
  <2> USE DEF InvOf, TypeOK, MainIn
  <2>1. Locks(u)'
    BY DEF Locks
  <2>2. Counting(u)'
    BY DEF Locks, Counting
  <2>3. InHand(u)'
    BY DEF InHand
  <2>4. History(u)'
    BY <1>0 DEF History, Undone
  <2>5. Quiet(u)'
    BY DEF Quiet
  <2>6. Wake(u)'
    BY DEF Wake
  <2> QED
    BY <2>1, <2>2, <2>3, <2>4, <2>5, <2>6
<1> QED
  BY <1>1, <1>2

(***************************************************************************)
(* The head, which was done, leaves the list.                              *)
(***************************************************************************)
LEMMA RemoveInv == ASSUME Inv, NEW t \in Type, Remove(t) PROVE Inv'
<1> USE DEF Inv, Remove
<1>0. /\ bio_jobs[t] \in Seq(Job) /\ bio_jobs[t] # <<>>
      /\ Tail(bio_jobs[t]) \in Seq(Job) /\ Len(Tail(bio_jobs[t])) = Len(bio_jobs[t]) - 1
      /\ Len(bio_jobs[t]) \in Nat
  BY HeadTailProperties, LenProperties DEF TypeOK, InvOf, InHand
<1>1. TypeOK'
  BY <1>0 DEF TypeOK
<1>2. ASSUME NEW u \in Type PROVE InvOf(u)'
  <2> USE DEF InvOf, TypeOK, MainIn
  <2>1. Locks(u)'
    BY DEF Locks
  <2>2. Counting(u)'
    <3>1. CASE u = t
      <4>1. ~MainIn(t, {"count"}) /\ ~MainIn(t, {"count"})'
        BY DEF Locks
      <4>2. Len(bio_jobs[t]) = bio_pending[t] /\ bio_pending[t] \in Nat
        <5>1. bio_pending[t] \in Nat
          BY DEF TypeOK
        <5>2. Counting(t) /\ thread[t] # "discount"
          OBVIOUS
        <5> HIDE DEF Inv, InvOf, TypeOK, MainIn, Remove
        <5> QED
          BY <5>1, <5>2, <4>1, <1>0 DEF Counting
      <4>3. /\ bio_jobs'[t] = Tail(bio_jobs[t]) /\ thread'[t] = "discount"
            /\ bio_pending'[t] = bio_pending[t]
        OBVIOUS
      <4> QED
        <5> HIDE DEF Inv, InvOf, TypeOK, MainIn, Remove
        <5>1. Len(bio_jobs'[t]) = bio_pending'[t] + 0 - 1
          BY <4>2, <4>3, <1>0
        <5> QED
          BY <5>1, <3>1, <4>1, <4>3 DEF Counting
    <3>2. CASE u # t
      BY <3>2 DEF Counting
    <3> QED
      BY <3>1, <3>2
  <2>3. InHand(u)'
    BY DEF InHand
  <2>4. History(u)'
    BY DEF History, Undone
  <2>5. Quiet(u)'
    BY <1>0 DEF Quiet
  <2>6. Wake(u)'
    BY DEF Wake
  <2> QED
    BY <2>1, <2>2, <2>3, <2>4, <2>5, <2>6
<1> QED
  BY <1>1, <1>2

(***************************************************************************)
(* The count becomes the length of the list again.                         *)
(***************************************************************************)
LEMMA DiscountInv == ASSUME Inv, NEW t \in Type, Discount(t) PROVE Inv'
<1> USE DEF Inv, Discount
<1>0. bio_pending[t] = Len(bio_jobs[t]) + 1 /\ Len(bio_jobs[t]) \in Nat
  BY LenProperties DEF TypeOK, InvOf, Counting, Locks, MainIn
<1>1. TypeOK'
  BY <1>0 DEF TypeOK
<1>2. ASSUME NEW u \in Type PROVE InvOf(u)'
  <2> USE DEF InvOf, TypeOK, MainIn
  <2>1. Locks(u)'
    BY DEF Locks
  <2>2. Counting(u)'
    <3>1. CASE u = t
      BY <3>1, <1>0 DEF Locks, Counting
    <3>2. CASE u # t
      BY <3>2 DEF Counting
    <3> QED
      BY <3>1, <3>2
  <2>3. InHand(u)'
    BY DEF InHand
  <2>4. History(u)'
    BY DEF History, Undone
  <2>5. Quiet(u)'
    BY DEF Quiet
  <2>6. Wake(u)'
    BY DEF Wake
  <2> QED
    BY <2>1, <2>2, <2>3, <2>4, <2>5, <2>6
<1> QED
  BY <1>1, <1>2

(***************************************************************************)
(* The invariant holds in every reachable state.                           *)
(***************************************************************************)
LEMMA NextInv == Inv /\ [Next]_vars => Inv'
<1> SUFFICES ASSUME Inv, [Next]_vars PROVE Inv'
  OBVIOUS
<1>1. CASE UNCHANGED vars
  BY <1>1 DEF vars, Inv, TypeOK, InvOf, Locks, MainIn, Counting, InHand, History, Undone,
              Quiet, Wake
<1>2. ASSUME NEW t \in Type, InCall(t) PROVE Inv'
  BY <1>2, MainLockInv, AddInv, CountInv, SignalInv, ReadInv, MainUnlockInv DEF InCall
<1>3. ASSUME NEW t \in Type, ThreadStep(t) \/ SpuriousWakeup(t) PROVE Inv'
  BY <1>3, ThreadLockInv, WaitInv, SpuriousWakeupInv, TakeInv, PerformInv, RemoveInv, DiscountInv DEF ThreadStep
<1>4. ASSUME NEW t \in Type,
             bioPendingJobsOfType(t) \/ \E j \in Job : bioCreateBackgroundJob(t, j)
      PROVE  Inv'
  BY <1>4, BeginInv
<1> QED
  BY <1>1, <1>2, <1>3, <1>4 DEF Next

LEMMA Invariance == Spec => []Inv
  BY NextInv, InitInv, PTL DEF Spec

(***************************************************************************)
(* The lists, the counts and the places of the threads keep their types;   *)
(* the count, an unsigned number in bio.c, never falls below zero.         *)
(***************************************************************************)
THEOREM TypeCorrect == Spec => []TypeOK
  BY Invariance, PTL DEF Inv

(***************************************************************************)
(* Every job is done once and in order (bio.c, bioProcessBackgroundJobs).  *)
(***************************************************************************)
THEOREM DoneOnceInOrder == Spec => []EachOnceInOrder
<1>1. Inv => EachOnceInOrder
  BY DEF Inv, InvOf, History, EachOnceInOrder
<1> QED
  BY <1>1, Invariance, PTL

(***************************************************************************)
(* An answer of zero of bioPendingJobsOfType is true until the next job is *)
(* created: nothing is being done (bio.c:66, aof.c:236).                   *)
(***************************************************************************)
THEOREM ZeroMeansQuiet == Spec => []QuietAfterZero
<1>1. Inv => QuietAfterZero
  BY DEF Inv, InvOf, Quiet, InHand, QuietAfterZero
<1> QED
  BY <1>1, Invariance, PTL

(***************************************************************************)
(* The count is the length of the list whenever the mutex is free.         *)
(***************************************************************************)
THEOREM CountsArePending == Spec => []PendingCounts
<1>1. Inv => PendingCounts
  <2> SUFFICES ASSUME Inv, NEW t \in Type, bio_mutex[t] = "nobody"
               PROVE  bio_pending[t] = Len(bio_jobs[t])
    BY DEF PendingCounts
  <2>1. bio_pending[t] \in Nat /\ Len(bio_jobs[t]) \in Nat
    BY LenProperties DEF Inv, TypeOK
  <2>2. ~MainIn(t, {"count"}) /\ thread[t] # "discount"
    BY DEF Inv, InvOf, Locks, MainIn
  <2> QED
    BY <2>1, <2>2 DEF Inv, InvOf, Counting
<1> QED
  BY <1>1, Invariance, PTL

(***************************************************************************)
(* No wakeup is lost (bio.c, pthread_cond_signal).                         *)
(***************************************************************************)
THEOREM WakeupsArrive == Spec => []NoLostWakeup
<1>1. Inv => NoLostWakeup
  BY DEF Inv, InvOf, Wake, MainIn, NoLostWakeup
<1> QED
  BY <1>1, Invariance, PTL

-----------------------------------------------------------------------------
(***************************************************************************)
(* The inductive invariant: a job to close is about a descriptor that      *)
(* nobody else uses, from the handler that leaves it to the thread that    *)
(* does it, and no two of them are about the same one.                     *)
(***************************************************************************)
Fsync(j) == <<"fsync", j>>
Close(j) == <<"close", j>>

\* What a handler may have left to create
TodoOK ==
    \/ todo = <<>>
    \/ \E j \in Job : todo = <<Fsync(j)>> \/ todo = <<Close(j)>>
    \/ \E j, k \in Job : todo = <<Fsync(j), Close(k)>>

FilesTypeOK ==
    /\ table \in [Fds -> 0..MaxFiles] /\ opened \in 0..MaxFiles
    /\ aof_fd \in Fds \cup {None} /\ clients \subseteq Fds
    /\ TodoOK

\* The job to close that is not in the list yet
Coming(j) ==
    \/ main.type = "close" /\ main.at \in {"lock", "add"} /\ main.job = j
    \/ todo = <<Close(j)>>
    \/ \E k \in Job : todo = <<Fsync(k), Close(j)>>

Unused(fd) == fd \notin clients /\ (On => fd # aof_fd)
Owned(j) == table[j[1]] = j[2] /\ Unused(j[1])

AofOwned ==
    /\ On <=> aof_fd # None
    /\ On => table[aof_fd] = aof_file /\ aof_file \in Files /\ aof_fd \notin clients
ClientsOwned == \A fd \in clients : table[fd] # Closed
\* The last job of a handler is the one to close
OneComing ==
    main.type = "close" /\ main.at \in {"lock", "add"} /\ main.job # NoJob => todo = <<>>
ListedOwned == \A i \in 1..Len(Undone("close")) : Owned(Undone("close")[i])
ListedDistinct ==
    \A i, k \in 1..Len(Undone("close")) :
       Undone("close")[i][1] = Undone("close")[k][1] => i = k
ComingOwned ==
    \A j \in Job : Coming(j) =>
       Owned(j) /\ \A i \in 1..Len(Undone("close")) : Undone("close")[i][1] # j[1]

FilesOwned ==
    AofOwned /\ ClientsOwned /\ OneComing /\ ListedOwned /\ ListedDistinct /\ ComingOwned
FilesInv == Inv /\ FilesTypeOK /\ FilesOwned

(***************************************************************************)
(* The lowest of a nonempty set of descriptors is one of them.             *)
(***************************************************************************)
LEMMA LowestIsOne ==
    ASSUME NEW set, set \subseteq Fds, set # {}
    PROVE  Lowest(set) \in set
<1>1. set \subseteq Nat
  BY FilesAssumption
<1>2. PICK x \in set : \A y \in set : ~ (<<y, x>> \in OpToRel(<, Nat))
  BY <1>1, NatLessThanWellFounded, WFMin
<1>3. \A y \in set : x <= y
  <2>1. ASSUME NEW y \in set, y < x PROVE FALSE
    BY <1>1, <1>2, <2>1 DEF OpToRel
  <2> QED
    BY <1>1, <2>1
<1> QED
  BY <1>3 DEF Lowest, Min

LEMMA FreeIsFree ==
    ASSUME FilesTypeOK, Free # {}
    PROVE  Lowest(Free) \in Fds /\ table[Lowest(Free)] = Closed
<1>1. Free \subseteq Fds
  BY DEF Free
<1>2. Lowest(Free) \in Free
  BY <1>1, LowestIsOne
<1> QED
  BY <1>2 DEF Free

LEMMA SecondIsFree ==
    ASSUME FilesTypeOK, Free # {}, Cardinality(Free) >= 2,
           NEW fd, fd = Lowest(Free \ {Lowest(Free)})
    PROVE  fd \in Fds /\ table[fd] = Closed
<1>1. Free \ {Lowest(Free)} # {}
  <2>1. ASSUME Free \ {Lowest(Free)} = {} PROVE FALSE
    <3>1. Free = {Lowest(Free)}
      BY <2>1
    <3>2. Cardinality(Free) = 1
      BY <3>1, FS_Singleton
    <3> QED
      BY <3>2
  <2> QED
    BY <2>1
<1>2. Free \ {Lowest(Free)} \subseteq Fds
  BY DEF Free
<1>3. fd \in Free
  BY <1>1, <1>2, LowestIsOne
<1> QED
  BY <1>3 DEF Free

(***************************************************************************)
(* A job is a descriptor and the file that was opened with it.             *)
(***************************************************************************)
LEMMA JobIs ==
    /\ \A j \in Job : j[1] \in Fds /\ j[2] \in Files /\ j[2] # Closed /\ j # NoJob
    /\ \A fd \in Fds, file \in Files : <<fd, file>> \in Job
<1>1. \A file \in Files : file # Closed
  BY FilesAssumption DEF Files, Closed
<1> QED
  <2>1. \A j \in Fds \X Files : j[1] \in Fds /\ j[2] \in Files
    OBVIOUS
  <2>2. Job = Fds \X Files /\ NoJob \notin Job
    BY FilesAssumption, JobAssumption DEF FileJobs
  <2> QED
    BY <1>1, <2>1, <2>2

(***************************************************************************)
(* Every step is a step of the background jobs, or none.                   *)
(***************************************************************************)
LEMMA FilesStepIsStep == TodoOK /\ [FilesNext]_allVars => [Next]_vars
<1> SUFFICES ASSUME TodoOK, [FilesNext]_allVars PROVE [Next]_vars
  OBVIOUS
<1>1. CASE UNCHANGED allVars
  BY <1>1 DEF allVars
<1>2. CASE CreateNext
  <2>1. Head(todo)[1] \in Type /\ Head(todo)[2] \in Job
    BY <1>2, FilesAssumption DEF TodoOK, Fsync, Close, CreateNext
  <2> QED
    BY <1>2, <2>1 DEF CreateNext, Next
<1>3. ASSUME NEW t \in Type, Done(t) \/ OtherStep(t) PROVE Next
  BY <1>3 DEF Done, OtherStep, Next, ThreadStep
<1>4. CASE acceptTcpHandler \/ freeClient \/ rewriteAppendOnlyFileBackground
           \/ startAppendOnly \/ stopAppendOnly \/ flushAppendOnlyFile
  BY <1>4 DEF acceptTcpHandler, freeClient, rewriteAppendOnlyFileBackground, startAppendOnly,
              stopAppendOnly, flushAppendOnlyFile
<1>5. CASE RewriteDoneOn \/ RewriteDoneOff \/ RewriteDoneFirst \/ RewriteFailed
  BY <1>5 DEF RewriteDoneOn, RewriteDoneOff, RewriteDoneFirst, RewriteFailed
<1> QED
  BY <1>1, <1>2, <1>3, <1>4, <1>5 DEF FilesNext


(***************************************************************************)
(* What a step of the background jobs leaves of the list of files to close.*)
(***************************************************************************)
LEMMA UndoneIsJobs == ASSUME Inv PROVE Undone("close") \in Seq(Job)
<1>1. "close" \in Type
  BY FilesAssumption
<1>2. bio_jobs["close"] \in Seq(Job) /\ InHand("close")
  BY <1>1 DEF Inv, TypeOK, InvOf
<1> QED
  BY <1>2, HeadTailProperties DEF Undone, InHand

LEMMA UndoneStays ==
    ASSUME Inv, NEW t \in Type,
           \/ MainLock(t) \/ Count(t) \/ Signal(t) \/ Read(t) \/ MainUnlock(t)
           \/ SpuriousWakeup(t) \/ bioPendingJobsOfType(t) \/ ThreadLock(t) \/ Wait(t)
           \/ Take(t) \/ Remove(t) \/ Discount(t) \/ UNCHANGED vars
           \/ \E j \in Job : bioCreateBackgroundJob(t, j)
    PROVE  Undone("close")' = Undone("close")
<1>1. "close" \in Type
  BY FilesAssumption
<1>2. bio_jobs \in [Type -> Seq(Job)] /\ thread \in [Type -> {"start", "loop", "waiting",
         "woken", "working", "performed", "remove", "discount"}]
  BY DEF Inv, TypeOK
<1>3. CASE MainLock(t) \/ Count(t) \/ Read(t) \/ MainUnlock(t) \/ bioPendingJobsOfType(t)
           \/ UNCHANGED vars \/ \E j \in Job : bioCreateBackgroundJob(t, j)
  BY <1>3 DEF MainLock, Count, Read, MainUnlock, bioPendingJobsOfType, bioCreateBackgroundJob,
              vars, Undone
<1>4. CASE Signal(t) \/ SpuriousWakeup(t) \/ Wait(t) \/ Take(t)
  BY <1>1, <1>2, <1>4 DEF Signal, SpuriousWakeup, Wait, Take, Undone
<1>5. CASE ThreadLock(t)
  BY <1>1, <1>2, <1>5 DEF ThreadLock, Undone
<1>6. CASE Remove(t) \/ Discount(t)
  BY <1>1, <1>2, <1>6 DEF Remove, Discount, Undone
<1> QED
  BY <1>3, <1>4, <1>5, <1>6

(***************************************************************************)
(* A step that leaves the descriptors, the list and what is coming as they *)
(* are, or takes something of what was coming away.                        *)
(***************************************************************************)
LEMMA SameOwners ==
    ASSUME FilesTypeOK, FilesOwned,
           UNCHANGED <<table, aof_state, aof_fd, aof_file, clients, Undone("close")>>,
           OneComing', \A j \in Job : Coming(j)' => Coming(j)
    PROVE  FilesOwned'
<1> USE DEF FilesOwned
<1>1. AofOwned' /\ ClientsOwned'
  BY DEF AofOwned, ClientsOwned, On
<1>2. \A j : Owned(j)' <=> Owned(j)
  BY DEF Owned, Unused, On
<1>3. ListedOwned' /\ ListedDistinct' /\ ComingOwned'
  BY <1>2 DEF ListedOwned, ListedDistinct, ComingOwned
<1> QED
  BY <1>1, <1>3

LEMMA HeadsAndTails ==
    /\ \A a : Head(<<a>>) = a /\ Tail(<<a>>) = <<>>
    /\ \A a, b : Head(<<a, b>>) = a /\ Tail(<<a, b>>) = <<b>>
OBVIOUS

LEMMA TodoShapes ==
    ASSUME NEW j \in Job
    PROVE  /\ <<>> # <<Close(j)>> /\ <<>> # <<Fsync(j)>>
           /\ \A k \in Job : <<Fsync(k)>> # <<Close(j)>> /\ <<>> # <<Fsync(k), Close(j)>>
                 /\ (<<Close(k)>> = <<Close(j)>> => k = j)
           /\ \A k, l \in Job : /\ <<Fsync(k)>> # <<Fsync(l), Close(j)>>
                 /\ <<Close(k)>> # <<Fsync(l), Close(j)>>
                 /\ \A m \in Job : <<Fsync(m), Close(k)>> = <<Fsync(l), Close(j)>> => k = j
BY DEF Fsync, Close

(***************************************************************************)
(* The steps of bio.c that do not close a file: a job that was coming is   *)
(* in the list after Add, and stays what it is in the others.              *)
(***************************************************************************)
LEMMA CreateOwned ==
    ASSUME Inv, FilesTypeOK, FilesOwned, CreateNext
    PROVE  FilesTypeOK' /\ FilesOwned'
<1> DEFINE job == Head(todo)[2]
           type == Head(todo)[1]
<1>1. /\ main.at = "idle" /\ main' = [at |-> "lock", type |-> type, job |-> job]
      /\ UNCHANGED <<table, opened, aof_state, aof_fd, aof_file, clients>>
      /\ bioCreateBackgroundJob(type, job) /\ todo' = Tail(todo) /\ todo # <<>>
  BY DEF CreateNext, bioCreateBackgroundJob, At
<1>2. /\ type \in Type /\ job \in Job
      /\ \/ type = "close" /\ todo = <<Close(job)>> /\ todo' = <<>>
         \/ type = "fsync" /\ todo = <<Fsync(job)>> /\ todo' = <<>>
         \/ type = "fsync" /\ \E k \in Job : todo = <<Fsync(job), Close(k)>> /\ todo' = <<Close(k)>>
  <2>1. CASE \E j \in Job : todo = <<Fsync(j)>> \/ todo = <<Close(j)>>
    <3>1. PICK j \in Job : todo = <<Fsync(j)>> \/ todo = <<Close(j)>>
      BY <2>1
    <3>2. /\ todo = <<Fsync(j)>> => Head(todo) = Fsync(j) /\ Tail(todo) = <<>>
          /\ todo = <<Close(j)>> => Head(todo) = Close(j) /\ Tail(todo) = <<>>
      BY HeadsAndTails
    <3> QED
      BY <3>1, <3>2, <1>1, FilesAssumption DEF Fsync, Close
  <2>2. CASE \E j, k \in Job : todo = <<Fsync(j), Close(k)>>
    <3>1. PICK j \in Job, k \in Job : todo = <<Fsync(j), Close(k)>>
      BY <2>2
    <3>2. Head(todo) = Fsync(j) /\ Tail(todo) = <<Close(k)>>
      BY <3>1, HeadsAndTails
    <3> QED
      BY <3>1, <3>2, <1>1, FilesAssumption DEF Fsync
  <2> QED
    BY <2>1, <2>2, <1>1 DEF FilesTypeOK, TodoOK
<1>3. FilesTypeOK'
  BY <1>1, <1>2 DEF FilesTypeOK, TodoOK
<1>4. Undone("close")' = Undone("close")
  BY <1>1, <1>2, UndoneStays
<1> HIDE DEF job, type
<1>5. OneComing'
  BY <1>1, <1>2 DEF OneComing
<1>6. ASSUME NEW j \in Job, Coming(j)' PROVE Coming(j)
  BY <1>1, <1>2, <1>6, TodoShapes DEF Coming
<1> QED
  BY <1>1, <1>3, <1>4, <1>5, <1>6, SameOwners

LEMMA QuietOwned ==
    ASSUME Inv, FilesTypeOK, FilesOwned, UNCHANGED fileVars, NEW t \in Type,
           \/ main.type = t /\ (MainLock(t) \/ Count(t) \/ Signal(t) \/ Read(t) \/ MainUnlock(t))
           \/ SpuriousWakeup(t) \/ (todo = <<>> /\ bioPendingJobsOfType(t))
           \/ ThreadLock(t) \/ Wait(t) \/ Take(t) \/ Remove(t) \/ Discount(t)
    PROVE  FilesTypeOK' /\ FilesOwned'
<1>1. FilesTypeOK' /\ todo' = todo
  BY DEF FilesTypeOK, TodoOK, fileVars
<1>2. Undone("close")' = Undone("close")
  BY UndoneStays
<1>3. main \in Calls
  BY DEF Inv, TypeOK, Calls, Places
<1>4. \/ main' = main
      \/ main.at = "lock" /\ main'.at \in {"add", "read"} /\ main'.type = main.type /\ main'.job = main.job
      \/ main.at # "lock" /\ main'.at \notin {"lock", "add"}
      \/ todo = <<>> /\ main'.job = NoJob
  <2>1. CASE MainLock(t)
    <3>1. main.at = "lock" /\ \E p \in {"add", "read"} : Goes(p)
      BY <2>1 DEF MainLock, At
    <3> QED
      BY <3>1, <1>3, MainMoves DEF Places
  <2>2. CASE Count(t) \/ Signal(t) \/ Read(t)
    BY <2>2, <1>3, MainMoves DEF Count, Signal, Read, At, Places
  <2>3. CASE MainUnlock(t)
    BY <2>3 DEF MainUnlock, Leaves, Idle, At
  <2>4. CASE todo = <<>> /\ bioPendingJobsOfType(t)
    BY <2>4 DEF bioPendingJobsOfType
  <2>5. CASE SpuriousWakeup(t) \/ ThreadLock(t) \/ Wait(t) \/ Take(t) \/ Remove(t) \/ Discount(t)
    BY <2>5 DEF SpuriousWakeup, ThreadLock, Wait, Take, Remove, Discount
  <2> QED
    BY <2>1, <2>2, <2>3, <2>4, <2>5
<1>5. OneComing'
  BY <1>1, <1>4 DEF OneComing, FilesOwned
<1>6. ASSUME NEW j \in Job, Coming(j)' PROVE Coming(j)
  BY <1>1, <1>4, <1>6, JobAssumption DEF Coming
<1>7. UNCHANGED <<table, aof_state, aof_fd, aof_file, clients, Undone("close")>>
  BY <1>2 DEF fileVars
<1> QED
  BY <1>1, <1>5, <1>6, <1>7, SameOwners

(***************************************************************************)
(* A job joins the list: the one that was coming is now its last.          *)
(***************************************************************************)
LEMMA AddOwned ==
    ASSUME Inv, FilesTypeOK, FilesOwned, UNCHANGED fileVars,
           NEW t \in Type, main.type = t, Add(t)
    PROVE  FilesTypeOK' /\ FilesOwned'
<1> DEFINE job == main.job
           listed == Undone("close")
<1>1. FilesTypeOK' /\ todo' = todo
  BY DEF FilesTypeOK, TodoOK, fileVars
<1>2. main.at = "add" /\ main.type = t /\ job \in Job /\ main'.at = "count"
  BY MainMoves DEF Inv, TypeOK, Add, At, Calls, Places
<1>3. CASE t # "close"
  <2>1. Undone("close")' = listed
    BY <1>3, FilesAssumption DEF Add, Undone, Inv, TypeOK
  <2>2. OneComing' /\ \A j \in Job : Coming(j)' => Coming(j)
    BY <1>1, <1>2 DEF OneComing, Coming
  <2> QED
    BY <1>1, <2>1, <2>2, SameOwners DEF fileVars
<1>4. CASE t = "close"
  <2>1. Undone("close")' = Append(listed, job)
    <3>1. /\ bio_jobs["close"] \in Seq(Job) /\ InHand("close")
          /\ bio_jobs'["close"] = Append(bio_jobs["close"], job) /\ thread' = thread
      BY <1>4 DEF Inv, TypeOK, InvOf, Add
    <3>2. bio_jobs["close"] # <<>> =>
             Tail(Append(bio_jobs["close"], job)) = Append(Tail(bio_jobs["close"]), job)
      BY <1>2, <3>1, HeadTailAppend
    <3> QED
      BY <3>1, <3>2 DEF Undone, InHand
  <2>2. listed \in Seq(Job) /\ Len(listed) \in Nat
    BY UndoneIsJobs, LenProperties
  <2> DEFINE after == Append(listed, job)
  <2>3. /\ Len(after) = Len(listed) + 1
        /\ \A i \in 1..Len(listed) : after[i] = listed[i]
        /\ after[Len(listed) + 1] = job
    BY <1>2, <2>2, AppendProperties
  <2>4. todo = <<>> /\ \A j \in Job : ~ Coming(j)'
    BY <1>1, <1>2, <1>4, JobIs, TodoShapes DEF FilesOwned, OneComing, Coming
  <2>5. Owned(job) /\ \A i \in 1..Len(listed) : listed[i][1] # job[1]
    BY <1>2, <1>4 DEF FilesOwned, ComingOwned, Coming
  <2> HIDE DEF after, listed, job
  <2>7. ListedOwned'
    <3>1. ASSUME NEW i \in 1..Len(after) PROVE Owned(after[i])
      <4>1. \A k \in 1..Len(listed) : Owned(listed[k])
        BY DEF FilesOwned, ListedOwned, listed
      <4> QED
        BY <4>1, <2>2, <2>3, <2>5
    <3> QED
      BY <2>1, <3>1 DEF ListedOwned, after, Owned, Unused, On, fileVars
  <2>8. ListedDistinct'
    <3>1. ASSUME NEW i \in 1..Len(after), NEW k \in 1..Len(after), after[i][1] = after[k][1]
          PROVE  i = k
      <4>1. \A k1, k2 \in 1..Len(listed) : listed[k1][1] = listed[k2][1] => k1 = k2
        BY DEF FilesOwned, ListedDistinct, listed
      <4> QED
        BY <4>1, <2>2, <2>3, <2>5, <3>1
    <3> QED
      BY <2>1, <3>1 DEF ListedDistinct, after
  <2>9. ComingOwned' /\ OneComing'
    BY <2>4, <1>2 DEF ComingOwned, OneComing
  <2>10. AofOwned' /\ ClientsOwned'
    BY DEF FilesOwned, AofOwned, ClientsOwned, On, fileVars
  <2> QED
    BY <1>1, <2>7, <2>8, <2>9, <2>10 DEF FilesOwned
<1> QED
  BY <1>3, <1>4

(***************************************************************************)
(* A thread closes a file: it is the first of the list, which nobody else  *)
(* has, so that the number is free for the next who asks.                  *)
(***************************************************************************)
LEMMA DoneOwned ==
    ASSUME Inv, FilesTypeOK, FilesOwned, NEW t \in Type, Done(t)
    PROVE  FilesTypeOK' /\ FilesOwned'
<1> DEFINE listed == Undone("close")
<1>1. /\ Perform(t) /\ UNCHANGED <<opened, aof_state, aof_fd, aof_file, clients, rewriting, todo>>
      /\ main' = main
  BY DEF Done, Perform
<1>2. OneComing' /\ \A j \in Job : Coming(j)' => Coming(j)
  BY <1>1 DEF FilesOwned, OneComing, Coming
<1>3. CASE t # "close"
  <2>1. Undone("close")' = listed /\ table' = table
    BY <1>3, FilesAssumption DEF Done, Perform, Undone, Inv, TypeOK
  <2>2. FilesTypeOK'
    BY <1>1, <2>1 DEF FilesTypeOK, TodoOK
  <2> QED
    BY <1>1, <1>2, <2>1, <2>2, SameOwners
<1>4. CASE t = "close"
  <2> DEFINE job == hand["close"]
             after == Tail(listed)
  <2>1. /\ bio_jobs["close"] \in Seq(Job) /\ bio_jobs["close"] # <<>>
        /\ listed = bio_jobs["close"] /\ job = Head(listed)
        /\ Undone("close")' = after
    BY <1>4 DEF Done, Perform, Undone, Inv, TypeOK, InvOf, InHand
  <2>2. /\ job = listed[1] /\ job \in Job /\ after \in Seq(Job)
        /\ Len(listed) \in Nat /\ Len(listed) >= 1 /\ Len(after) = Len(listed) - 1
        /\ \A i \in 1..Len(after) : after[i] = listed[i + 1]
    BY <2>1, HeadTailProperties, LenProperties, EmptySeq
  <2>3. /\ table' = [table EXCEPT ![job[1]] = Closed] /\ job[1] \in Fds
        /\ Owned(job)
    BY <1>4, <2>2, JobIs DEF Done, FilesOwned, ListedOwned
  <2>4. FilesTypeOK'
    BY <1>1, <2>3, FilesAssumption DEF FilesTypeOK, TodoOK, Closed
  <2>5. AofOwned' /\ ClientsOwned'
    BY <1>1, <2>3 DEF FilesTypeOK, FilesOwned, AofOwned, ClientsOwned, Owned, Unused, On
  <2> HIDE DEF listed, after, job
  <2>6. ASSUME NEW j \in Job, Owned(j), j[1] # job[1] PROVE Owned(j)'
    BY <1>1, <2>3, <2>6, JobIs DEF FilesTypeOK, Owned, Unused, On
  <2>7. ASSUME NEW i \in 1..Len(after)
        PROVE  /\ after[i] \in Job /\ after[i][1] # job[1] /\ Owned(after[i])
               /\ i + 1 \in 1..Len(listed) /\ after[i] = listed[i + 1]
    <3>1. i + 1 \in 1..Len(listed) /\ 1 \in 1..Len(listed) /\ after[i] = listed[i + 1]
      BY <2>2
    <3>2. after[i] \in Job
      BY <2>2, ElementOfSeq
    <3>3. Owned(listed[i + 1]) /\ listed[i + 1][1] # listed[1][1]
      BY <3>1 DEF FilesOwned, ListedOwned, ListedDistinct, listed
    <3> QED
      BY <3>1, <3>2, <3>3, <2>2
  <2>8. ListedOwned'
    BY <2>1, <2>6, <2>7 DEF ListedOwned
  <2>9. ListedDistinct'
    <3>1. ASSUME NEW i \in 1..Len(after), NEW k \in 1..Len(after), after[i][1] = after[k][1]
          PROVE  i = k
      <4>1. i + 1 = k + 1
        BY <2>7, <3>1 DEF FilesOwned, ListedDistinct, listed
      <4> QED
        BY <4>1, <2>2
    <3> QED
      BY <2>1, <3>1 DEF ListedDistinct
  <2>10. ComingOwned'
    <3>1. ASSUME NEW j \in Job, Coming(j)
          PROVE  Owned(j)' /\ \A i \in 1..Len(after) : after[i][1] # j[1]
      <4>1. Owned(j) /\ \A i \in 1..Len(listed) : listed[i][1] # j[1]
        BY <3>1 DEF FilesOwned, ComingOwned, listed
      <4> QED
        BY <4>1, <2>2, <2>6, <2>7
    <3> QED
      BY <1>2, <2>1, <3>1 DEF ComingOwned
  <2> QED
    BY <1>2, <2>4, <2>5, <2>8, <2>9, <2>10 DEF FilesOwned
<1> QED
  BY <1>3, <1>4

(***************************************************************************)
(* A handler between the calls of bio.c: the list stays as it is, and what *)
(* was to be created is created.                                           *)
(***************************************************************************)
LEMMA BetweenCalls ==
    ASSUME Inv, FilesTypeOK, Between, UNCHANGED vars
    PROVE  /\ main.at = "idle" /\ main' = main /\ todo = <<>> /\ OneComing'
           /\ Undone("close")' = Undone("close") /\ Undone("close") \in Seq(Job)
           /\ \A i \in 1..Len(Undone("close")) :
                 Undone("close")[i] \in Job /\ Undone("close")[i][1] \in Fds
                 /\ Undone("close")[i][2] # Closed
           /\ todo' = <<>> => \A j \in Job : ~ Coming(j)'
<1>1. main.at = "idle" /\ main' = main /\ todo = <<>>
  BY DEF Between, At, vars
<1>2. \E t \in Type : TRUE
  BY JobAssumption
<1>3. Undone("close")' = Undone("close") /\ Undone("close") \in Seq(Job)
  BY <1>2, UndoneStays, UndoneIsJobs
<1>4. \A i \in 1..Len(Undone("close")) : Undone("close")[i] \in Job
  BY <1>3, ElementOfSeq
<1> QED
  BY <1>1, <1>3, <1>4, JobIs, TodoShapes DEF OneComing, Coming

(***************************************************************************)
(* Handlers that leave nothing to close.  A file or a socket is given a    *)
(* free descriptor, which no job is about; a client that leaves gives back *)
(* its own.                                                                *)
(***************************************************************************)
LEMMA AcceptOwned ==
    ASSUME Inv, FilesTypeOK, FilesOwned, acceptTcpHandler
    PROVE  FilesTypeOK' /\ FilesOwned'
<1> USE DEF FilesTypeOK, FilesOwned
<1> DEFINE fd == Lowest(Free)
<1>1. /\ Between /\ UNCHANGED vars
      /\ UNCHANGED <<aof_state, aof_fd, aof_file, todo>> /\ opened' = New /\ New \in Files
      /\ table' = [table EXCEPT ![fd] = New] /\ clients' = clients \cup {fd}
      /\ fd \in Fds /\ table[fd] = Closed
  BY FreeIsFree, FilesAssumption DEF acceptTcpHandler, New, Files
<1> HIDE DEF fd
<1>2. FilesTypeOK'
  BY <1>1, FilesAssumption DEF TodoOK, Files, New
<1>3. AofOwned' /\ ClientsOwned'
  BY <1>1, FilesAssumption DEF AofOwned, ClientsOwned, On, Files, Closed
<1>4. ListedOwned' /\ ListedDistinct' /\ ComingOwned' /\ OneComing'
  BY <1>1, BetweenCalls DEF ListedOwned, ListedDistinct, ComingOwned, Owned, Unused, On
<1> QED
  BY <1>2, <1>3, <1>4

LEMMA FreeClientOwned ==
    ASSUME Inv, FilesTypeOK, FilesOwned, freeClient
    PROVE  FilesTypeOK' /\ FilesOwned'
<1> USE DEF FilesTypeOK, FilesOwned
<1>1. PICK fd \in clients : table' = [table EXCEPT ![fd] = Closed] /\ clients' = clients \ {fd}
  BY DEF freeClient
<1>2. /\ Between /\ UNCHANGED vars /\ fd \in Fds /\ table[fd] # Closed
      /\ UNCHANGED <<aof_state, aof_fd, aof_file, todo, opened>>
  BY DEF freeClient, ClientsOwned
<1>3. FilesTypeOK'
  BY <1>1, <1>2, FilesAssumption DEF TodoOK, Closed
<1>4. AofOwned' /\ ClientsOwned'
  BY <1>1, <1>2 DEF AofOwned, ClientsOwned, On
<1>5. ListedOwned' /\ ListedDistinct' /\ ComingOwned' /\ OneComing'
  BY <1>1, <1>2, BetweenCalls DEF ListedOwned, ListedDistinct, ComingOwned, Owned, Unused, On
<1> QED
  BY <1>3, <1>4, <1>5

LEMMA RewritingOwned ==
    ASSUME Inv, FilesTypeOK, FilesOwned,
           rewriteAppendOnlyFileBackground \/ RewriteDoneFirst \/ RewriteFailed
    PROVE  FilesTypeOK' /\ FilesOwned'
<1>1. /\ Between /\ UNCHANGED vars
      /\ UNCHANGED <<table, opened, aof_state, aof_fd, aof_file, clients, todo>>
  BY DEF rewriteAppendOnlyFileBackground, RewriteDoneFirst, RewriteFailed
<1>2. FilesTypeOK'
  BY <1>1 DEF FilesTypeOK, TodoOK
<1>3. todo' = <<>> /\ UNCHANGED Undone("close") /\ OneComing' /\ \A j \in Job : ~ Coming(j)'
  BY <1>1, BetweenCalls
<1> QED
  BY <1>1, <1>2, <1>3, SameOwners

LEMMA StartOwned ==
    ASSUME Inv, FilesTypeOK, FilesOwned, StartMayFail = FALSE, startAppendOnly
    PROVE  FilesTypeOK' /\ FilesOwned'
<1> USE DEF FilesTypeOK, FilesOwned
<1> DEFINE fd == Lowest(Free)
<1>1. /\ Between /\ UNCHANGED vars /\ UNCHANGED <<clients, todo>>
      /\ ~ On /\ opened' = New /\ New \in Files /\ aof_fd' = fd /\ aof_file' = New
      /\ table' = [table EXCEPT ![fd] = New] /\ aof_state' = "on"
      /\ fd \in Fds /\ table[fd] = Closed
  BY FreeIsFree, FilesAssumption DEF startAppendOnly, New, Files
<1> HIDE DEF fd
<1>2. FilesTypeOK'
  BY <1>1, FilesAssumption DEF TodoOK, Files, New
<1>3. AofOwned' /\ ClientsOwned'
  BY <1>1, FilesAssumption DEF AofOwned, ClientsOwned, On, Files, Closed, None
<1>4. /\ UNCHANGED Undone("close") /\ OneComing' /\ \A j \in Job : ~ Coming(j)'
      /\ \A i \in 1..Len(Undone("close")) : Undone("close")[i][1] \in Fds /\ Undone("close")[i][2] # Closed
  BY <1>1, BetweenCalls
<1>5. ListedOwned'
  BY <1>1, <1>4 DEF ListedOwned, Owned, Unused, On
<1>6. ListedDistinct' /\ ComingOwned'
  BY <1>4 DEF ListedDistinct, ComingOwned
<1> QED
  BY <1>2, <1>3, <1>4, <1>5, <1>6

LEMMA StopOwned ==
    ASSUME Inv, FilesTypeOK, FilesOwned, stopAppendOnly
    PROVE  FilesTypeOK' /\ FilesOwned'
<1> USE DEF FilesTypeOK, FilesOwned
<1>1. /\ Between /\ UNCHANGED vars /\ UNCHANGED <<opened, clients, todo>> /\ On
      /\ table' = [table EXCEPT ![aof_fd] = Closed] /\ aof_fd \in Fds
      /\ aof_state' = "off" /\ aof_fd' = None /\ aof_file' = Closed
  BY DEF stopAppendOnly, AofOwned
<1>2. FilesTypeOK'
  BY <1>1, FilesAssumption DEF TodoOK, Closed
<1>3. AofOwned' /\ ClientsOwned'
  BY <1>1 DEF AofOwned, ClientsOwned, On
<1>4. ListedOwned' /\ ListedDistinct' /\ ComingOwned' /\ OneComing'
  BY <1>1, BetweenCalls DEF ListedOwned, ListedDistinct, ComingOwned, Owned, Unused, On
<1> QED
  BY <1>2, <1>3, <1>4

LEMMA FlushOwned ==
    ASSUME Inv, FilesTypeOK, FilesOwned, flushAppendOnlyFile
    PROVE  FilesTypeOK' /\ FilesOwned'
<1>1. /\ Between /\ UNCHANGED vars /\ On
      /\ UNCHANGED <<table, opened, aof_state, aof_fd, aof_file, clients>>
      /\ todo' = <<Fsync(<<aof_fd, table[aof_fd]>>)>>
  BY DEF flushAppendOnlyFile, Fsync
<1>2. <<aof_fd, table[aof_fd]>> \in Job
  BY <1>1, JobIs DEF FilesTypeOK, FilesOwned, AofOwned
<1>3. FilesTypeOK'
  BY <1>1, <1>2 DEF FilesTypeOK, TodoOK
<1>4. UNCHANGED Undone("close") /\ OneComing' /\ main' = main /\ main.at = "idle"
  BY <1>1, BetweenCalls
<1>5. \A j \in Job : ~ Coming(j)'
  BY <1>1, <1>2, <1>4, TodoShapes DEF Coming
<1> QED
  BY <1>1, <1>3, <1>4, <1>5, SameOwners

(***************************************************************************)
(* The rewrite is done: the server goes on with the new file, and the old  *)
(* one becomes a job.                                                      *)
(***************************************************************************)
LEMMA DoneOnOwned ==
    ASSUME Inv, FilesTypeOK, FilesOwned, RewriteDoneOn
    PROVE  FilesTypeOK' /\ FilesOwned'
<1> USE DEF FilesTypeOK, FilesOwned
<1> DEFINE fd == Lowest(Free)
           sync == <<fd, New>>
           old == <<aof_fd, aof_file>>
<1>1. /\ Between /\ UNCHANGED vars /\ UNCHANGED <<aof_state, clients>>
      /\ opened' = New /\ New \in Files /\ aof_fd' = fd /\ aof_file' = New /\ On
      /\ table' = [table EXCEPT ![fd] = New]
      /\ todo' = <<Fsync(sync), Close(old)>>
      /\ fd \in Fds /\ table[fd] = Closed
  BY FreeIsFree, FilesAssumption DEF RewriteDoneOn, New, Files, Fsync, Close, AofOwned
<1>2. /\ old \in Job /\ sync \in Job /\ aof_fd # fd /\ aof_fd \in Fds
      /\ table[aof_fd] = aof_file /\ aof_fd \notin clients
  BY <1>1, JobIs DEF AofOwned
<1>3. old[1] = aof_fd /\ old[2] = aof_file
  OBVIOUS
<1> HIDE DEF fd, sync, old
<1>4. FilesTypeOK'
  BY <1>1, <1>2, FilesAssumption DEF TodoOK, Files, New
<1>5. AofOwned' /\ ClientsOwned'
  BY <1>1, FilesAssumption DEF AofOwned, ClientsOwned, On, Files, Closed, None
<1>6. ListedOwned' /\ ListedDistinct' /\ OneComing'
  BY <1>1, BetweenCalls DEF ListedOwned, ListedDistinct, Owned, Unused, On
<1>7. \A j \in Job : Coming(j)' => j = old
  BY <1>1, <1>2, BetweenCalls, TodoShapes DEF Coming
<1>8. \A i \in 1..Len(Undone("close")) : Undone("close")[i][1] # old[1]
  BY <1>1, <1>3 DEF ListedOwned, Owned, Unused
<1>9. ComingOwned'
  <2>1. \A j \in Job : Coming(j)' => table'[j[1]] = j[2] /\ j[1] \notin clients' /\ (On' => j[1] # aof_fd')
    BY <1>1, <1>2, <1>3, <1>7
  <2> QED
    BY <2>1, <1>1, <1>7, <1>8, BetweenCalls DEF ComingOwned, Owned, Unused
<1> QED
  BY <1>4, <1>5, <1>6, <1>9

LEMMA DoneOffOwned ==
    ASSUME Inv, FilesTypeOK, FilesOwned, RewriteDoneOff
    PROVE  FilesTypeOK' /\ FilesOwned'
<1> USE DEF FilesTypeOK, FilesOwned
<1> DEFINE fd == Lowest(Free \ {Lowest(Free)})
           old == <<fd, New>>
<1>1. /\ Between /\ UNCHANGED vars /\ UNCHANGED <<aof_state, aof_fd, aof_file, clients>>
      /\ opened' = New /\ New \in Files /\ ~ On /\ aof_fd = None
      /\ table' = [table EXCEPT ![fd] = New] /\ todo' = <<Close(old)>>
      /\ Cardinality(Free) >= 2
  BY FilesAssumption DEF RewriteDoneOff, New, Files, Close, AofOwned
<1>2. Free # {}
  BY <1>1, FS_EmptySet
<1>3. fd \in Fds /\ table[fd] = Closed
  BY <1>1, <1>2, SecondIsFree
<1>4. old \in Job /\ old[1] = fd /\ old[2] = New
  BY <1>1, <1>3, JobIs
<1> HIDE DEF fd, old
<1>5. FilesTypeOK'
  BY <1>1, <1>3, <1>4, FilesAssumption DEF TodoOK, Files, New
<1>6. AofOwned' /\ ClientsOwned'
  BY <1>1, <1>3, FilesAssumption DEF AofOwned, ClientsOwned, On, Files, Closed, None
<1>7. ListedOwned' /\ ListedDistinct' /\ OneComing'
  BY <1>1, <1>3, BetweenCalls DEF ListedOwned, ListedDistinct, Owned, Unused, On
<1>8. \A j \in Job : Coming(j)' => j = old
  BY <1>1, <1>4, BetweenCalls, TodoShapes DEF Coming
<1>9. \A i \in 1..Len(Undone("close")) : Undone("close")[i][1] # fd
  BY <1>1, <1>3, BetweenCalls DEF ListedOwned, Owned
<1>10. fd \notin clients
  BY <1>3 DEF ClientsOwned
<1>11. ComingOwned'
  <2>1. \A j \in Job : Coming(j)' => table'[j[1]] = j[2] /\ j[1] \notin clients' /\ ~ On'
    BY <1>1, <1>3, <1>4, <1>8, <1>10 DEF On
  <2> QED
    BY <2>1, <1>1, <1>4, <1>8, <1>9, BetweenCalls DEF ComingOwned, Owned, Unused
<1> QED
  BY <1>5, <1>6, <1>7, <1>11

(***************************************************************************)
(* The invariant holds in every reachable state.                           *)
(***************************************************************************)
LEMMA FilesInitInv == FilesInit => FilesInv
<1> SUFFICES ASSUME FilesInit PROVE FilesInv
  OBVIOUS
<1>1. Inv
  BY InitInv DEF FilesInit
<1>2. FilesTypeOK
  BY FilesAssumption DEF FilesInit, FilesTypeOK, TodoOK, Closed, None
<1>3. main.at = "idle" /\ Undone("close") = <<>>
  BY FilesAssumption, JobAssumption DEF FilesInit, Init, Idle, Undone
<1>4. FilesOwned
  BY <1>3, TodoShapes DEF FilesInit, FilesOwned, AofOwned, ClientsOwned, OneComing,
     ListedOwned, ListedDistinct, ComingOwned, Coming, On, None
<1> QED
  BY <1>1, <1>2, <1>4 DEF FilesInv

LEMMA FilesNextInv ==
    ASSUME StartMayFail = FALSE, FilesInv, [FilesNext]_allVars
    PROVE  FilesInv'
<1> USE DEF FilesInv
<1>1. Inv'
  BY FilesStepIsStep, NextInv DEF FilesTypeOK
<1>2. CASE UNCHANGED allVars
  <2>1. UNCHANGED fileVars /\ UNCHANGED vars
    BY <1>2 DEF allVars
  <2>2. FilesTypeOK' /\ todo' = todo /\ main' = main
    BY <2>1 DEF FilesTypeOK, TodoOK, fileVars, vars
  <2>3. Undone("close")' = Undone("close")
    BY <2>1 DEF Undone, vars
  <2>4. OneComing' /\ \A j \in Job : Coming(j)' => Coming(j)
    BY <2>2 DEF FilesOwned, OneComing, Coming
  <2>5. FilesOwned'
    BY <2>1, <2>2, <2>3, <2>4, SameOwners DEF fileVars
  <2> QED
    BY <1>1, <2>2, <2>5
<1>3. ASSUME NEW t \in Type, OtherStep(t) PROVE FilesTypeOK' /\ FilesOwned'
  BY <1>3, QuietOwned, AddOwned DEF OtherStep, InCall
<1>4. ASSUME NEW t \in Type, Done(t) PROVE FilesTypeOK' /\ FilesOwned'
  BY <1>4, DoneOwned
<1>5. FilesNext => FilesTypeOK' /\ FilesOwned'
  BY <1>3, <1>4, CreateOwned, AcceptOwned, FreeClientOwned, RewritingOwned, StartOwned, StopOwned,
     FlushOwned, DoneOnOwned, DoneOffOwned DEF FilesNext
<1> QED
  BY <1>1, <1>2, <1>5

LEMMA FilesInvariance == StartMayFail = FALSE /\ FilesSpec => []FilesInv
<1>1. StartMayFail = FALSE /\ FilesInv /\ [FilesNext]_allVars => FilesInv'
  BY FilesNextInv
<1>2. ASSUME StartMayFail = FALSE PROVE FilesSpec => []FilesInv
  <2>1. FilesInv /\ [FilesNext]_allVars => FilesInv'
    BY <1>1, <1>2
  <2> QED
    BY <2>1, FilesInitInv, PTL DEF FilesSpec
<1> QED
  BY <1>2

(***************************************************************************)
(* While startAppendOnly is not asked for during a rewrite, descriptors    *)
(* are used by their owners alone, however many files are opened and jobs  *)
(* created (aof.c, backgroundRewriteDoneHandler, and bio.c).               *)
(***************************************************************************)
THEOREM FilesKeepOwners ==
    ASSUME StartMayFail = FALSE
    PROVE  FilesSpec => []DescriptorsOwned
<1>1. FilesInv => DescriptorsOwned
  <2> SUFFICES ASSUME FilesInv PROVE AofDescriptor /\ ClosesItsFile
    BY DEF DescriptorsOwned
  <2>1. AofDescriptor
    BY DEF FilesInv, FilesOwned, AofOwned, AofDescriptor
  <2>2. ASSUME thread["close"] = "working" PROVE table[hand["close"][1]] = hand["close"][2]
    <3>1. /\ bio_jobs["close"] \in Seq(Job) /\ bio_jobs["close"] # <<>>
          /\ Undone("close") = bio_jobs["close"] /\ hand["close"] = Head(bio_jobs["close"])
      BY <2>2, FilesAssumption DEF FilesInv, Inv, TypeOK, InvOf, InHand, Undone
    <3>2. 1 \in 1..Len(Undone("close")) /\ hand["close"] = Undone("close")[1]
      BY <3>1, HeadTailProperties, LenProperties, EmptySeq
    <3> QED
      BY <3>2 DEF FilesInv, FilesOwned, ListedOwned, Owned
  <2> QED
    BY <2>1, <2>2 DEF ClosesItsFile
<1> QED
  BY <1>1, FilesInvariance, PTL

(***************************************************************************)
(* The server with its append only file is one way to use bio.c: what is   *)
(* proved of the background jobs holds of it.                              *)
(***************************************************************************)
THEOREM FilesUseJobs ==
    ASSUME StartMayFail = FALSE
    PROVE  FilesSpec => Spec
<1>1. FilesInit => Init
  BY DEF FilesInit
<1>2. FilesInv /\ [FilesNext]_allVars => [Next]_vars
  BY FilesStepIsStep DEF FilesInv, FilesTypeOK
<1> QED
  BY <1>1, <1>2, FilesInvariance, PTL DEF FilesSpec, Spec
=============================================================================
