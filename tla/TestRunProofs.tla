--------------------------- MODULE TestRunProofs ---------------------------
(***************************************************************************)
(* Proofs about test runs, for any number of sessions, windows and opened  *)
(* pages and for every setting of the other constants.                     *)
(***************************************************************************)
EXTENDS TestRunProperties, SequenceTheorems, TLAPS

-----------------------------------------------------------------------------
(***************************************************************************)
(* Operators of SessionStore and TestServer: what the database commands,   *)
(* the jobs, the connection's queue and the browsers' queues keep true.    *)
(***************************************************************************)

(***************************************************************************)
(* The database commands keep the database well-formed.                    *)
(***************************************************************************)
LEMMA WinFacts == Win \subseteq Nat /\ 0 \notin Win /\ Root \in Win
  BY MaxWinAssumption DEF Win, Root

LEMMA KeyFacts ==
    ASSUME NEW s \in Session
    PROVE  /\ GlobalDataKey(s) \in Key /\ ClientKey(s) \in Key
           /\ \A w \in Win : WinKey(s, w) \in Key
           /\ KeyOf(s) \subseteq Key /\ WinKeyOf(s) \subseteq Key
  BY DEF Key, KeyOf, WinKeyOf

LEMMA RowFacts ==
    /\ \A p \in Win \cup {0} : NewRow(p) \in Row
    /\ NoRow \in Row
    /\ \A old, new \in Row : Merge(old, new) \in Row
<1>1. \A p \in Win \cup {0} : NewRow(p) \in Row
  BY DEF NewRow, Row, NoParent
<1>2. NoRow \in Row
  BY <1>1 DEF NoRow, NoParent
<1>3. ASSUME NEW old \in Row, NEW new \in Row PROVE Merge(old, new) \in Row
  BY DEF Merge, Row
<1> QED
  BY <1>1, <1>2, <1>3

LEMMA DatabaseFacts ==
    ASSUME NEW d \in Database
    PROVE  /\ \A k \in Key : Put(d, k) \in Database
           /\ \A s \in Session, w \in Win, r \in Row : PutRow(d, s, w, r) \in Database
           /\ \A ks : Delete(d, ks) \in Database
           /\ \A s \in Session, w \in Win : RowOf(d, s, w) \in Row
           /\ \A s \in Session : SessionKeys(d, s) \subseteq Key /\ WindowKeys(d, s) \subseteq Key
           /\ AllKeys(d) \subseteq Key
<1>1. d.keys \subseteq Key /\ d.row \in [Session -> [Win -> Row]]
  BY DEF Database
<1>2. ASSUME NEW k \in Key PROVE Put(d, k) \in Database
  BY DEF Put, Database
<1>3. ASSUME NEW s \in Session, NEW w \in Win, NEW r \in Row
      PROVE  PutRow(d, s, w, r) \in Database
  <2>1. WinKey(s, w) \in Key
    BY KeyFacts
  <2>2. Merge(d.row[s][w], r) \in Row
    BY <1>1, <2>1, RowFacts
  <2>3. [d.row EXCEPT ![s][w] = (IF Exists(d, WinKey(s, w)) THEN Merge(@, r) ELSE r)]
          \in [Session -> [Win -> Row]]
    BY <1>1, <2>1, <2>2
  <2> QED
    BY <1>1, <2>1, <2>3 DEF PutRow, Database
<1>4. ASSUME NEW ks PROVE Delete(d, ks) \in Database
  BY <1>1, RowFacts DEF Delete, Database
<1>5. \A s \in Session, w \in Win : RowOf(d, s, w) \in Row
  BY <1>1 DEF RowOf
<1>6. /\ \A s \in Session : SessionKeys(d, s) \subseteq Key /\ WindowKeys(d, s) \subseteq Key
      /\ AllKeys(d) \subseteq Key
  BY <1>1 DEF SessionKeys, WindowKeys, AllKeys
<1> QED
  BY <1>2, <1>3, <1>4, <1>5, <1>6

(***************************************************************************)
(* Jobs: what the constructors of TestServer return.                       *)
(***************************************************************************)
LEMMA JobFacts ==
    ASSUME NEW j \in Job
    PROVE  /\ j.s \in Session /\ j.w \in Win \cup {0} /\ j.p \in Win \cup {0}
           /\ j.row \in Row /\ j.keys \subseteq Key /\ j.seen \subseteq Win
           /\ j.kind \in JobKind /\ j.at \in Command /\ j.then \in Continuation
           /\ \A k \in Continuation :
                 /\ Open(j, k) \in Job
                 /\ Open(j, k).s = j.s /\ Open(j, k).w = j.w /\ Open(j, k).kind = j.kind /\ Open(j, k).row = j.row
                 /\ Open(j, k).then = k /\ Open(j, k).at = "sessionExist"
           /\ \A c \in Command :
                 /\ Ask(j, c) \in Job
                 /\ Ask(j, c).s = j.s /\ Ask(j, c).w = j.w /\ Ask(j, c).kind = j.kind /\ Ask(j, c).row = j.row
                 /\ Ask(j, c).then = j.then /\ Ask(j, c).at = c
  BY DEF Job, Open, Ask, Command

LEMMA NewJobFacts ==
    ASSUME NEW k \in JobKind, NEW s \in Session, NEW w \in Win \cup {0}, NEW p \in Win \cup {0}
    PROVE  /\ NewJob(k, s, w, p) \in Job
           /\ NewJob(k, s, w, p).s = s /\ NewJob(k, s, w, p).w = w /\ NewJob(k, s, w, p).kind = k
           /\ NewJob(k, s, w, p).then = "none"
  BY RowFacts DEF NewJob, Job, Command, Continuation

-----------------------------------------------------------------------------
(***************************************************************************)
(* The connection's queue.  Starting jobs are those of a session whose     *)
(* client is not yet stored: a new session has one, and no other job.      *)
(***************************************************************************)
BootCommand == {"sessionExist", "initGlobalData", "expireKeys", "expire", "setClient"}

Starting(j) == j.then = "setClient"

\* A job waits for a command that its kind uses, and its window is known by then
JobOK(j) ==
    /\ Starting(j) => j.kind = "newRoot" /\ j.at \in BootCommand
    /\ j.at = "setClient" => Starting(j)
    /\ j.at \in {"getWin", "setWin"} \/ j.then = "getWin" => j.kind \in {"finish", "error"}
    /\ j.at = "addWin" \/ j.then = "addWin" => j.w \in Win
    /\ j.kind \in {"finish", "error"} => j.w \in Win

SessionsOf(q) == {q[i].s : i \in 1..Len(q)}
StartsOf(q) == {q[i].s : i \in {i \in 1..Len(q) : Starting(q[i])}}
Alone(q) == \A i, k \in 1..Len(q) : Starting(q[i]) /\ q[k].s = q[i].s => k = i
QueueOK(q) == q \in Seq(Job) /\ Alone(q) /\ \A i \in 1..Len(q) : JobOK(q[i])

\* The head leaves the queue
LEMMA PopQueue ==
    ASSUME NEW q, QueueOK(q), q # <<>>
    PROVE  /\ Head(q) \in Job /\ JobOK(Head(q)) /\ Head(q).s \in SessionsOf(q)
           /\ Starting(Head(q)) => Head(q).s \in StartsOf(q)
           /\ QueueOK(Tail(q))
           /\ SessionsOf(Tail(q)) \subseteq SessionsOf(q)
           /\ StartsOf(Tail(q)) \subseteq StartsOf(q)
           /\ Starting(Head(q)) => Head(q).s \notin SessionsOf(Tail(q))
           /\ Head(q).s \in StartsOf(q) => Starting(Head(q))
<1>1. q \in Seq(Job) /\ Len(q) \in Nat \ {0}
  BY EmptySeq DEF QueueOK
<1>2. /\ Head(q) = q[1] /\ q[1] \in Job
      /\ Tail(q) \in Seq(Job) /\ Len(Tail(q)) = Len(q) - 1
      /\ \A i \in 1..Len(Tail(q)) : Tail(q)[i] = q[i + 1]
  BY <1>1, HeadTailProperties DEF QueueOK
<1>3. \A i \in 1..Len(Tail(q)) : i + 1 \in 1..Len(q) /\ i + 1 # 1
  BY <1>1, <1>2
<1>4. 1 \in 1..Len(q)
  BY <1>1
<1>5. JobOK(Head(q)) /\ Head(q).s \in SessionsOf(q)
      /\ (Starting(Head(q)) => Head(q).s \in StartsOf(q))
  BY <1>2, <1>4 DEF QueueOK, SessionsOf, StartsOf
<1>6. Alone(Tail(q))
  <2> SUFFICES ASSUME NEW i \in 1..Len(Tail(q)), NEW k \in 1..Len(Tail(q)),
                      Starting(Tail(q)[i]), Tail(q)[k].s = Tail(q)[i].s
               PROVE  k = i
    BY DEF Alone
  <2>1. i + 1 = k + 1
    BY <1>2, <1>3 DEF QueueOK, Alone
  <2> QED
    BY <2>1, <1>2
<1>7. QueueOK(Tail(q))
  BY <1>2, <1>3, <1>6 DEF QueueOK
<1>8. SessionsOf(Tail(q)) \subseteq SessionsOf(q)
  BY <1>2, <1>3 DEF SessionsOf
<1>9. StartsOf(Tail(q)) \subseteq StartsOf(q)
  BY <1>2, <1>3 DEF StartsOf
<1>10. Starting(Head(q)) => Head(q).s \notin SessionsOf(Tail(q))
  BY <1>2, <1>3, <1>4 DEF QueueOK, Alone, SessionsOf
<1>11. Head(q).s \in StartsOf(q) => Starting(Head(q))
  BY <1>2, <1>4 DEF QueueOK, Alone, StartsOf
<1> QED
  BY <1>2, <1>5, <1>7, <1>8, <1>9, <1>10, <1>11

\* A job that starts no session joins the queue: its session is none of the starting ones
LEMMA PushJob ==
    ASSUME NEW q, QueueOK(q), NEW j \in Job, JobOK(j), ~ Starting(j), j.s \notin StartsOf(q)
    PROVE  /\ QueueOK(Append(q, j))
           /\ SessionsOf(Append(q, j)) = SessionsOf(q) \cup {j.s}
           /\ StartsOf(Append(q, j)) = StartsOf(q)
<1>1. /\ q \in Seq(Job) /\ Len(q) \in Nat
      /\ Append(q, j) \in Seq(Job) /\ Len(Append(q, j)) = Len(q) + 1
      /\ \A i \in 1..Len(q) : Append(q, j)[i] = q[i]
      /\ Append(q, j)[Len(q) + 1] = j
  BY AppendProperties DEF QueueOK
<1>2. \A i \in 1..Len(Append(q, j)) : i \in 1..Len(q) \/ i = Len(q) + 1
  BY <1>1
<1>3. \A i \in 1..Len(q) : i \in 1..Len(Append(q, j))
  BY <1>1
<1>4. Len(q) + 1 \in 1..Len(Append(q, j))
  BY <1>1
<1>5. Alone(Append(q, j))
  <2> SUFFICES ASSUME NEW i \in 1..Len(Append(q, j)), NEW k \in 1..Len(Append(q, j)),
                      Starting(Append(q, j)[i]), Append(q, j)[k].s = Append(q, j)[i].s
               PROVE  k = i
    BY DEF Alone
  <2>1. i \in 1..Len(q) /\ Starting(q[i])
    BY <1>1, <1>2
  <2>2. q[i].s \in StartsOf(q)
    BY <2>1 DEF StartsOf
  <2>3. k \in 1..Len(q)
    BY <1>1, <1>2, <2>1, <2>2
  <2> QED
    BY <1>1, <2>1, <2>3 DEF QueueOK, Alone
<1>6. QueueOK(Append(q, j))
  BY <1>1, <1>2, <1>5 DEF QueueOK
<1>7. SessionsOf(Append(q, j)) = SessionsOf(q) \cup {j.s}
  BY <1>1, <1>2, <1>3, <1>4 DEF SessionsOf
<1>8. StartsOf(Append(q, j)) = StartsOf(q)
  BY <1>1, <1>2, <1>3 DEF StartsOf
<1> QED
  BY <1>6, <1>7, <1>8

\* The job that starts a session of which the queue has no job
LEMMA PushStart ==
    ASSUME NEW q, QueueOK(q), NEW j \in Job, JobOK(j), Starting(j), j.s \notin SessionsOf(q)
    PROVE  /\ QueueOK(Append(q, j))
           /\ SessionsOf(Append(q, j)) = SessionsOf(q) \cup {j.s}
           /\ StartsOf(Append(q, j)) = StartsOf(q) \cup {j.s}
<1>1. /\ q \in Seq(Job) /\ Len(q) \in Nat
      /\ Append(q, j) \in Seq(Job) /\ Len(Append(q, j)) = Len(q) + 1
      /\ \A i \in 1..Len(q) : Append(q, j)[i] = q[i]
      /\ Append(q, j)[Len(q) + 1] = j
  BY AppendProperties DEF QueueOK
<1>2. \A i \in 1..Len(Append(q, j)) : i \in 1..Len(q) \/ i = Len(q) + 1
  BY <1>1
<1>3. \A i \in 1..Len(q) : i \in 1..Len(Append(q, j)) /\ q[i].s # j.s
  BY <1>1 DEF SessionsOf
<1>4. Len(q) + 1 \in 1..Len(Append(q, j))
  BY <1>1
<1>5. Alone(Append(q, j))
  BY <1>1, <1>2, <1>3 DEF QueueOK, Alone
<1>6. QueueOK(Append(q, j))
  BY <1>1, <1>2, <1>5 DEF QueueOK
<1>7. SessionsOf(Append(q, j)) = SessionsOf(q) \cup {j.s}
  BY <1>1, <1>2, <1>3, <1>4 DEF SessionsOf
<1>8. StartsOf(Append(q, j)) = StartsOf(q) \cup {j.s}
  BY <1>1, <1>2, <1>3, <1>4 DEF StartsOf
<1> QED
  BY <1>6, <1>7, <1>8

(***************************************************************************)
(* The head of the queue goes on with another command: it joins the queue  *)
(* again and starts a session only if it did before.                       *)
(***************************************************************************)
LEMMA GoOnQueue ==
    ASSUME NEW q, QueueOK(q), q # <<>>, NEW j \in Job, JobOK(j), j.s = Head(q).s,
           Starting(j) => Starting(Head(q))
    PROVE  /\ QueueOK(Append(Tail(q), j))
           /\ SessionsOf(Append(Tail(q), j)) \subseteq SessionsOf(q)
           /\ StartsOf(Append(Tail(q), j)) \subseteq StartsOf(q)
<1>1. CASE Starting(j)
  BY <1>1, PopQueue, PushStart
<1>2. CASE ~ Starting(j)
  <2>1. j.s \notin StartsOf(Tail(q))
    <3> SUFFICES ASSUME j.s \in StartsOf(Tail(q)) PROVE FALSE
      OBVIOUS
    <3>1. Starting(Head(q))
      BY PopQueue
    <3>2. j.s \notin SessionsOf(Tail(q))
      BY <3>1, PopQueue
    <3> QED
      BY <3>2 DEF SessionsOf, StartsOf
  <2> QED
    BY <1>2, <2>1, PopQueue, PushJob
<1> QED
  BY <1>1, <1>2

-----------------------------------------------------------------------------
(***************************************************************************)
(* A browser's queue: every command is one of a job of its session, and an *)
(* open that was performed knows its window.                               *)
(***************************************************************************)
CommandOK(b, s) ==
    /\ b.job.s = s
    /\ JobOK(b.job)
    /\ b.performed /\ BrowserCommand(b.job) = "open" => b.job.w \in Win

CommandsOK(d, s) == d \in Seq(BrowserJob) /\ \A i \in 1..Len(d) : CommandOK(d[i], s)

Ends(d) == \E i \in 1..Len(d) : BrowserCommand(d[i].job) = "end"

LEMMA NothingDriven ==
    ASSUME NEW s
    PROVE  CommandsOK(<<>>, s) /\ ~ Ends(<<>>)
  BY EmptySeq DEF CommandsOK, Ends

\* Drive: a command joins the queue
LEMMA DriveQueue ==
    ASSUME NEW s, NEW d, CommandsOK(d, s), NEW j \in Job, JobOK(j), j.s = s
    PROVE  LET e == Append(d, [job |-> j, performed |-> FALSE]) IN
           /\ CommandsOK(e, s) /\ e # <<>>
           /\ Ends(e) => Ends(d) \/ BrowserCommand(j) = "end"
<1> DEFINE b == [job |-> j, performed |-> FALSE]
           e == Append(d, b)
<1>1. b \in BrowserJob /\ CommandOK(b, s)
  BY DEF BrowserJob, CommandOK
<1>2. /\ e \in Seq(BrowserJob) /\ Len(d) \in Nat /\ Len(e) = Len(d) + 1 /\ e # <<>>
      /\ \A i \in 1..Len(d) : e[i] = d[i]
      /\ e[Len(d) + 1] = b
  BY <1>1, AppendProperties DEF CommandsOK
<1> HIDE DEF e
<1>3. \A i \in 1..Len(e) : i \in 1..Len(d) \/ i = Len(d) + 1
  BY <1>2
<1>4. CommandsOK(e, s)
  BY <1>1, <1>2, <1>3 DEF CommandsOK
<1>5. Ends(e) => Ends(d) \/ BrowserCommand(j) = "end"
  BY <1>2, <1>3 DEF Ends
<1> QED
  BY <1>2, <1>4, <1>5 DEF e

\* An answer: the oldest command leaves the queue
LEMMA AnswerQueue ==
    ASSUME NEW s, NEW d, CommandsOK(d, s), d # <<>>
    PROVE  /\ CommandsOK(Tail(d), s)
           /\ Ends(Tail(d)) => Ends(d)
           /\ BrowserCommand(Head(d).job) = "end" => Ends(d)
           /\ Head(d) \in BrowserJob /\ CommandOK(Head(d), s)
<1>1. /\ Tail(d) \in Seq(BrowserJob) /\ Len(d) \in Nat \ {0} /\ Len(Tail(d)) = Len(d) - 1
      /\ Head(d) = d[1] /\ d[1] \in BrowserJob
      /\ \A i \in 1..Len(Tail(d)) : Tail(d)[i] = d[i + 1]
  BY HeadTailProperties, EmptySeq DEF CommandsOK
<1>2. \A i \in 1..Len(Tail(d)) : i + 1 \in 1..Len(d)
  BY <1>1
<1>3. 1 \in 1..Len(d)
  BY <1>1
<1>4. CommandsOK(Tail(d), s)
  BY <1>1, <1>2 DEF CommandsOK
<1>5. Ends(Tail(d)) => Ends(d)
  BY <1>1, <1>2 DEF Ends
<1> QED
  BY <1>1, <1>3, <1>4, <1>5 DEF CommandsOK, Ends

\* The browser performs its oldest command; the job may learn its window
LEMMA PerformQueue ==
    ASSUME NEW s, NEW d, CommandsOK(d, s), d # <<>>,
           NEW b \in BrowserJob, CommandOK(b, s),
           BrowserCommand(b.job) = BrowserCommand(Head(d).job)
    PROVE  LET e == [d EXCEPT ![1] = b] IN
           CommandsOK(e, s) /\ e # <<>> /\ (Ends(e) => Ends(d))
<1> DEFINE e == [d EXCEPT ![1] = b]
<1>1. /\ Len(d) \in Nat \ {0} /\ Head(d) = d[1]
      /\ e \in Seq(BrowserJob) /\ Len(e) = Len(d) /\ e[1] = b
      /\ \A i \in 1..Len(d) : i # 1 => e[i] = d[i]
  <2>1. d \in Seq(BrowserJob) /\ Len(d) \in Nat \ {0} /\ Head(d) = d[1]
    BY EmptySeq DEF CommandsOK
  <2>2. 1 \in 1..Len(d)
    BY <2>1
  <2> QED
    BY <2>1, <2>2, ExceptSeq
<1> HIDE DEF e
<1>2. e # <<>>
  BY <1>1
<1>3. CommandsOK(e, s)
  BY <1>1 DEF CommandsOK
<1>4. Ends(e) => Ends(d)
  BY <1>1 DEF Ends
<1> QED
  BY <1>2, <1>3, <1>4 DEF e

-----------------------------------------------------------------------------
(***************************************************************************)
(* The inductive invariant.  A session is untouched until its browser      *)
(* runs, and until its client is stored only the job that stores it knows  *)
(* the session.                                                            *)
(***************************************************************************)
Untouched(s) ==
    /\ driver[s] = <<>>
    /\ s \notin timers
    /\ s \notin clients
    /\ \A w \in Win : page[s][w].st = "none" /\ inbox[s][w] = <<>>

NotStarted == {"idle", "booting"}

NotStartedUntouched ==
    \A s \in Session : console[s] \in NotStarted =>
        Untouched(s) /\ s \notin SessionsOf(fifo)

StartingUntouched ==
    \A s \in Session : s \in StartsOf(fifo) => Untouched(s) /\ s \in alive

DriverOK == \A s \in Session : CommandsOK(driver[s], s)

FinishedOK == \A cb \in sent : cb.type = "finished" => cb.w \in Win

Inv == TypeOK /\ QueueOK(fifo) /\ DriverOK /\ FinishedOK

SessionsOK == NotStartedUntouched /\ StartingUntouched /\ ClientAlive

IInv == Inv /\ SessionsOK

-----------------------------------------------------------------------------
(***************************************************************************)
(* A step that touches only the sessions of T, none of which is starting,  *)
(* keeps what IInv says of sessions.                                       *)
(***************************************************************************)
Same(s) ==
    /\ driver'[s] = driver[s] /\ page'[s] = page[s] /\ inbox'[s] = inbox[s]
    /\ s \in timers' => s \in timers
    /\ s \in clients' => s \in clients
    /\ s \in alive => s \in alive'
    /\ console'[s] \in NotStarted => console[s] \in NotStarted

Touches(T) ==
    /\ \A s \in Session \ T : Same(s)
    /\ SessionsOf(fifo') \subseteq SessionsOf(fifo) \cup T
    /\ StartsOf(fifo') \subseteq StartsOf(fifo)
    /\ \A s \in T :
          /\ s \notin StartsOf(fifo') /\ console'[s] \notin NotStarted
          /\ s \in clients' => s \in alive' /\ ~ Ends(driver'[s])

LEMMA TouchedSessions ==
    ASSUME SessionsOK, clients' \subseteq Session, NEW T \in SUBSET Session, Touches(T)
    PROVE  SessionsOK'
<1>1. NotStartedUntouched'
  <2> SUFFICES ASSUME NEW s \in Session, console'[s] \in NotStarted
               PROVE  Untouched(s)' /\ s \notin SessionsOf(fifo')
    BY DEF NotStartedUntouched
  <2>1. s \notin T /\ Same(s)
    BY DEF Touches
  <2>2. Untouched(s) /\ s \notin SessionsOf(fifo)
    BY <2>1 DEF Same, SessionsOK, NotStartedUntouched
  <2>3. Untouched(s)'
    BY <2>1, <2>2 DEF Same, Untouched
  <2> QED
    BY <2>1, <2>2, <2>3 DEF Touches
<1>2. StartingUntouched'
  <2> SUFFICES ASSUME NEW s \in Session, s \in StartsOf(fifo')
               PROVE  Untouched(s)' /\ s \in alive'
    BY DEF StartingUntouched
  <2>1. s \notin T /\ s \in StartsOf(fifo) /\ Same(s)
    BY DEF Touches
  <2>2. Untouched(s) /\ s \in alive
    BY <2>1 DEF SessionsOK, StartingUntouched
  <2> QED
    BY <2>1, <2>2 DEF Same, Untouched
<1>3. ClientAlive'
  <2> SUFFICES ASSUME NEW s \in clients'
               PROVE  s \in alive' /\ ~ Ends(driver'[s])
    BY DEF ClientAlive, Ending, Ends
  <2>1. CASE s \in T
    BY <2>1 DEF Touches
  <2>2. CASE s \notin T
    BY <2>2 DEF Touches, Same, SessionsOK, ClientAlive, Ending, Ends
  <2> QED
    BY <2>1, <2>2
<1> QED
  BY <1>1, <1>2, <1>3 DEF SessionsOK

\* A session something happens to is neither waiting for its browser nor starting
LEMMA TouchedIsStarted ==
    ASSUME SessionsOK, NEW s \in Session, ~ Untouched(s)
    PROVE  console[s] \notin NotStarted /\ s \notin StartsOf(fifo)
  BY DEF SessionsOK, NotStartedUntouched, StartingUntouched

\* The same of a session that has a job which does not start it
LEMMA HeadIsStarted ==
    ASSUME Inv, SessionsOK, fifo # <<>>
    PROVE  /\ Head(fifo) \in Job /\ JobOK(Head(fifo)) /\ Head(fifo).s \in Session
           /\ console[Head(fifo).s] \notin NotStarted
           /\ ~ Starting(Head(fifo)) => Head(fifo).s \notin StartsOf(fifo)
<1>1. /\ Head(fifo) \in Job /\ JobOK(Head(fifo)) /\ Head(fifo).s \in SessionsOf(fifo)
      /\ Head(fifo).s \in StartsOf(fifo) => Starting(Head(fifo))
  BY PopQueue DEF Inv
<1>2. Head(fifo).s \in Session
  BY <1>1, JobFacts
<1> QED
  BY <1>1, <1>2 DEF SessionsOK, NotStartedUntouched

\* What a new value of one session's browser queue gives
LEMMA SetDriver ==
    ASSUME Inv, NEW s \in Session, NEW d, CommandsOK(d, s), driver' = [driver EXCEPT ![s] = d]
    PROVE  /\ driver' \in [Session -> Seq(BrowserJob)] /\ DriverOK'
           /\ driver'[s] = d /\ \A r \in Session \ {s} : driver'[r] = driver[r]
<1>1. driver \in [Session -> Seq(BrowserJob)] /\ d \in Seq(BrowserJob)
  BY DEF Inv, TypeOK, CommandsOK
<1>2. /\ driver' \in [Session -> Seq(BrowserJob)]
      /\ driver'[s] = d /\ \A r \in Session \ {s} : driver'[r] = driver[r]
  BY <1>1
<1>3. DriverOK'
  BY <1>2 DEF Inv, DriverOK
<1> QED
  BY <1>2, <1>3

-----------------------------------------------------------------------------
(***************************************************************************)
(* The ways a Redis answer goes on.                                        *)
(***************************************************************************)

\* Opening a TestSession for what no job needs to know its window for
LEMMA OpenPlain ==
    ASSUME NEW j \in Job, JobOK(j), NEW k \in {"runTest", "allResults", "winKeys", "getClient"}
    PROVE  Open(j, k) \in Job /\ JobOK(Open(j, k)) /\ Open(j, k).s = j.s /\ ~ Starting(Open(j, k))
<1>1. k \in Continuation /\ k # "setClient" /\ k # "addWin" /\ k # "getWin"
  BY DEF Continuation
<1>2. /\ Open(j, k) \in Job /\ Open(j, k).s = j.s /\ Open(j, k).w = j.w
      /\ Open(j, k).kind = j.kind /\ Open(j, k).then = k /\ Open(j, k).at = "sessionExist"
  BY <1>1, JobFacts
<1>3. ~ Starting(Open(j, k))
  BY <1>1, <1>2 DEF Starting
<1>4. JobOK(Open(j, k))
  BY <1>1, <1>2, <1>3 DEF JobOK
<1> QED
  BY <1>2, <1>3, <1>4

\* The callback asks for another command
LEMMA GoOnStep ==
    ASSUME Inv, SessionsOK, fifo # <<>>,
           NEW j \in Job, JobOK(j), j.s = Head(fifo).s, Starting(j) => Starting(Head(fifo)),
           GoOn(j), db' \in Database,
           UNCHANGED <<fault, driver, clients, timers, waitTest, waitAll, sent, runVars>>
    PROVE  Inv' /\ SessionsOK'
<1>1. /\ QueueOK(fifo') /\ SessionsOf(fifo') \subseteq SessionsOf(fifo)
      /\ StartsOf(fifo') \subseteq StartsOf(fifo)
  BY GoOnQueue DEF GoOn, Inv
<1>2. Inv'
  BY <1>1 DEF Inv, TypeOK, QueueOK, DriverOK, FinishedOK, runVars
<1>3. Touches({})
  BY <1>1 DEF Touches, Same, runVars
<1> QED
  BY <1>2, <1>3, TouchedSessions DEF Inv, TypeOK

\* The job is over
LEMMA PopStep ==
    ASSUME Inv, SessionsOK, fifo # <<>>,
           fifo' = Tail(fifo), db' \in Database,
           UNCHANGED <<fault, driver, clients, timers, waitTest, waitAll, sent, runVars>>
    PROVE  Inv' /\ SessionsOK'
<1>1. /\ QueueOK(fifo') /\ SessionsOf(fifo') \subseteq SessionsOf(fifo)
      /\ StartsOf(fifo') \subseteq StartsOf(fifo)
  BY PopQueue DEF Inv
<1>2. Inv'
  BY <1>1 DEF Inv, TypeOK, QueueOK, DriverOK, FinishedOK, runVars
<1>3. Touches({})
  BY <1>1 DEF Touches, Same, runVars
<1> QED
  BY <1>2, <1>3, TouchedSessions DEF Inv, TypeOK

\* The callback throws
LEMMA CrashStep ==
    ASSUME Inv, SessionsOK, NEW r \in {"noRow", "errorList", "noClient", "nullWin"},
           Crash(r), UNCHANGED runVars
    PROVE  Inv' /\ SessionsOK'
<1>1. Inv'
  BY DEF Inv, TypeOK, QueueOK, DriverOK, FinishedOK, runVars, Crash
<1>2. Touches({})
  BY DEF Touches, Same, runVars, Crash
<1> QED
  BY <1>1, <1>2, TouchedSessions DEF Inv, TypeOK

(***************************************************************************)
(* The callback hands the job to the session's browser.  A client that     *)
(* becomes known is one of a session that no ended browser belongs to.     *)
(***************************************************************************)
LEMMA DriveStep ==
    ASSUME Inv, SessionsOK, fifo # <<>>,
           NEW j \in Job, JobOK(j), j.s = Head(fifo).s,
           Drive(j), fifo' = Tail(fifo), db' \in Database,
           Starting(Head(fifo)) => clients' = clients \cup {j.s} /\ BrowserCommand(j) # "end",
           ~ Starting(Head(fifo)) => clients' = ClientsAfter(j),
           UNCHANGED <<fault, timers, waitTest, waitAll, sent, runVars>>
    PROVE  Inv' /\ SessionsOK'
<1> DEFINE e == Append(driver[j.s], [job |-> j, performed |-> FALSE])
<1>0. j.s \in Session /\ console[j.s] \notin NotStarted /\ CommandsOK(driver[j.s], j.s)
  BY HeadIsStarted DEF Inv, DriverOK
<1>1. CommandsOK(e, j.s) /\ (Ends(e) => Ends(driver[j.s]) \/ BrowserCommand(j) = "end")
  BY <1>0, DriveQueue
<1>2. /\ driver' \in [Session -> Seq(BrowserJob)] /\ DriverOK'
      /\ driver'[j.s] = e /\ \A r \in Session \ {j.s} : driver'[r] = driver[r]
  BY <1>0, <1>1, SetDriver DEF Drive
<1> HIDE DEF e
<1>3. /\ QueueOK(fifo') /\ SessionsOf(fifo') \subseteq SessionsOf(fifo)
      /\ StartsOf(fifo') \subseteq StartsOf(fifo)
  BY PopQueue DEF Inv
<1>4. j.s \notin StartsOf(fifo')
  <2>1. CASE Starting(Head(fifo))
    BY <2>1, PopQueue DEF Inv, StartsOf, SessionsOf
  <2>2. CASE ~ Starting(Head(fifo))
    BY <2>2, <1>3, HeadIsStarted
  <2> QED
    BY <2>1, <2>2
<1>5. clients' \subseteq clients \cup {j.s} /\ clients' \subseteq Session
  BY <1>0 DEF ClientsAfter, Inv, TypeOK
<1>6. Inv'
  BY <1>2, <1>3, <1>5 DEF Inv, TypeOK, QueueOK, FinishedOK, runVars
<1>7. ASSUME j.s \in clients' PROVE j.s \in alive' /\ ~ Ends(driver'[j.s])
  <2>1. CASE Starting(Head(fifo))
    <3>1. j.s \in StartsOf(fifo)
      BY <2>1, PopQueue DEF Inv
    <3>2. driver[j.s] = <<>> /\ j.s \in alive
      BY <3>1, <1>0 DEF SessionsOK, StartingUntouched, Untouched
    <3> QED
      BY <2>1, <3>2, <1>1, <1>2, NothingDriven DEF runVars
  <2>2. CASE ~ Starting(Head(fifo))
    BY <2>2, <1>7, <1>1, <1>2 DEF ClientsAfter, SessionsOK, ClientAlive, Ending, Ends, runVars
  <2> QED
    BY <2>1, <2>2
<1>8. Touches({j.s})
  BY <1>0, <1>2, <1>3, <1>4, <1>5, <1>7 DEF Touches, Same, runVars
<1> QED
  BY <1>0, <1>5, <1>6, <1>8, TouchedSessions

LEMMA WithClientStep ==
    ASSUME Inv, SessionsOK, fifo # <<>>,
           NEW j \in Job, JobOK(j), j.s = Head(fifo).s, ~ Starting(Head(fifo)),
           WithClient(j, Tail(fifo)), db' \in Database,
           UNCHANGED <<fault, timers, waitTest, waitAll, sent, runVars>>
    PROVE  Inv' /\ SessionsOK'
<1>1. CASE Drive(j) /\ clients' = ClientsAfter(j) /\ fifo' = Tail(fifo)
  BY <1>1, DriveStep
<1>2. CASE fifo' = Append(Tail(fifo), Open(j, "getClient")) /\ UNCHANGED <<driver, clients>>
  <2>1. /\ Open(j, "getClient") \in Job /\ Open(j, "getClient").s = j.s
        /\ JobOK(Open(j, "getClient")) /\ ~ Starting(Open(j, "getClient"))
    BY OpenPlain
  <2> QED
    BY <1>2, <2>1, GoOnStep DEF GoOn
<1> QED
  BY <1>1, <1>2 DEF WithClient

-----------------------------------------------------------------------------
(***************************************************************************)
(* Redis answers.                                                          *)
(***************************************************************************)
LEMMA AnswersFacts ==
    ASSUME Inv, SessionsOK, NEW c, Answers(c)
    PROVE  /\ fifo # <<>> /\ Head(fifo).at = c
           /\ Head(fifo) \in Job /\ JobOK(Head(fifo)) /\ Head(fifo).s \in Session
           /\ db \in Database
  BY HeadIsStarted DEF Answers, Inv, TypeOK

\* Asking for a command that no job needs to know its window for
LEMMA AskPlain ==
    ASSUME NEW j \in Job, JobOK(j), NEW c \in Command,
           c \notin {"setClient", "addWin", "getWin", "setWin"},
           Starting(j) => c \in BootCommand
    PROVE  /\ Ask(j, c) \in Job /\ JobOK(Ask(j, c)) /\ Ask(j, c).s = j.s
           /\ Starting(Ask(j, c)) => Starting(j)
  BY JobFacts DEF JobOK, Starting

LEMMA SessionExistStep ==
    ASSUME Inv, SessionsOK, SessionExist \/ InitGlobalData \/ ExpireKeys, UNCHANGED runVars
    PROVE  Inv' /\ SessionsOK'
<1> DEFINE j == Head(fifo)
<1>1. CASE SessionExist
  <2> DEFINE c == IF SessionKeys(db, j.s) = {} THEN "initGlobalData" ELSE "expireKeys"
  <2>1. fifo # <<>> /\ j \in Job /\ JobOK(j) /\ db \in Database
    BY <1>1, AnswersFacts DEF SessionExist
  <2>2. c \in Command \cap BootCommand /\ c \notin {"setClient", "addWin", "getWin", "setWin"}
    BY DEF Command, BootCommand
  <2>3. /\ GoOn(Ask(j, c)) /\ db' \in Database
        /\ UNCHANGED <<fault, driver, clients, timers, waitTest, waitAll, sent>>
    BY <1>1, <2>1 DEF SessionExist
  <2> HIDE DEF c
  <2> QED
    BY <2>1, <2>2, <2>3, AskPlain, GoOnStep
<1>2. CASE InitGlobalData
  <2>1. fifo # <<>> /\ j \in Job /\ JobOK(j) /\ j.s \in Session /\ db \in Database
    BY <1>2, AnswersFacts DEF InitGlobalData
  <2>2. "expireKeys" \in Command \cap BootCommand
    BY DEF Command, BootCommand
  <2>3. /\ GoOn(Ask(j, "expireKeys")) /\ db' \in Database
        /\ UNCHANGED <<fault, driver, clients, timers, waitTest, waitAll, sent>>
    BY <1>2, <2>1, KeyFacts, DatabaseFacts DEF InitGlobalData
  <2> QED
    BY <2>1, <2>2, <2>3, AskPlain, GoOnStep
<1>3. CASE ExpireKeys
  <2>1. fifo # <<>> /\ j \in Job /\ JobOK(j) /\ db \in Database
    BY <1>3, AnswersFacts DEF ExpireKeys
  <2>2. "expire" \in Command \cap BootCommand
    BY DEF Command, BootCommand
  <2>3. /\ GoOn(Ask(j, "expire")) /\ db' \in Database
        /\ UNCHANGED <<fault, driver, clients, timers, waitTest, waitAll, sent>>
    BY <1>3, <2>1 DEF ExpireKeys
  <2> QED
    BY <2>1, <2>2, <2>3, AskPlain, GoOnStep
<1> QED
  BY <1>1, <1>2, <1>3

LEMMA SessionReadyStep ==
    ASSUME Inv, SessionsOK, SessionReady, UNCHANGED runVars
    PROVE  Inv' /\ SessionsOK'
<1> DEFINE j == Head(fifo)
<1>1. /\ fifo # <<>> /\ j \in Job /\ JobOK(j) /\ j.at = "expire" /\ db' \in Database
      /\ UNCHANGED <<fault, db, timers, waitTest, waitAll, sent>>
  BY AnswersFacts DEF SessionReady
<1>2. CASE /\ j.then \in {"setClient", "addWin", "getWin", "winKeys", "getClient"}
           /\ GoOn(Ask(j, j.then)) /\ UNCHANGED <<driver, clients>>
  <2>1. j.then \in Command
    BY <1>2 DEF Command
  <2>2. /\ Ask(j, j.then) \in Job /\ JobOK(Ask(j, j.then)) /\ Ask(j, j.then).s = j.s
        /\ Starting(Ask(j, j.then)) => Starting(j)
    BY <1>1, <1>2, <2>1, JobFacts DEF JobOK, Starting, BootCommand
  <2> QED
    BY <1>1, <1>2, <2>2, GoOnStep
<1>3. CASE j.then = "allResults" /\ GoOn(Open(j, "winKeys")) /\ UNCHANGED <<driver, clients>>
  <2>1. /\ Open(j, "winKeys") \in Job /\ JobOK(Open(j, "winKeys"))
        /\ Open(j, "winKeys").s = j.s /\ ~ Starting(Open(j, "winKeys"))
    BY <1>1, OpenPlain
  <2> QED
    BY <1>1, <1>3, <2>1, GoOnStep
<1>4. CASE j.then = "runTest" /\ WithClient(j, Tail(fifo))
  BY <1>1, <1>4, WithClientStep DEF Starting
<1> QED
  BY <1>1, <1>2, <1>3, <1>4 DEF SessionReady

LEMMA SetClientStep ==
    ASSUME Inv, SessionsOK, SetClient, UNCHANGED runVars
    PROVE  Inv' /\ SessionsOK'
<1> DEFINE j == Head(fifo)
<1>1. /\ fifo # <<>> /\ j \in Job /\ JobOK(j) /\ j.s \in Session /\ j.at = "setClient"
      /\ db \in Database
  BY AnswersFacts DEF SetClient
<1>2. Starting(j) /\ BrowserCommand(j) # "end"
  BY <1>1 DEF JobOK, BrowserCommand
<1>3. /\ Drive(j) /\ fifo' = Tail(fifo) /\ clients' = clients \cup {j.s} /\ db' \in Database
      /\ UNCHANGED <<fault, timers, waitTest, waitAll, sent>>
  BY <1>1, KeyFacts, DatabaseFacts DEF SetClient
<1> QED
  BY <1>1, <1>2, <1>3, DriveStep

LEMMA GetClientStep ==
    ASSUME Inv, SessionsOK, GetClient, UNCHANGED runVars
    PROVE  Inv' /\ SessionsOK'
<1> DEFINE j == Head(fifo)
<1>1. fifo # <<>> /\ j \in Job /\ JobOK(j) /\ j.at = "getClient" /\ db \in Database
  BY AnswersFacts DEF GetClient
<1>2. ~ Starting(j)
  BY <1>1 DEF JobOK, BootCommand
<1>3. CASE /\ Drive(j) /\ clients' = ClientsAfter(j) /\ fifo' = Tail(fifo)
           /\ UNCHANGED <<fault, db, timers, waitTest, waitAll, sent>>
  BY <1>1, <1>2, <1>3, DriveStep
<1>4. CASE Crash("noClient")
  BY <1>4, CrashStep
<1> QED
  BY <1>3, <1>4 DEF GetClient

LEMMA AddWinStep ==
    ASSUME Inv, SessionsOK, AddWin, UNCHANGED runVars
    PROVE  Inv' /\ SessionsOK'
<1> DEFINE j == Head(fifo)
<1>1. /\ fifo # <<>> /\ j \in Job /\ JobOK(j) /\ j.at = "addWin" /\ db \in Database
      /\ j.s \in Session /\ j.p \in Win \cup {0} /\ j.w \in Win /\ console[j.s] \notin NotStarted
  BY AnswersFacts, HeadIsStarted, JobFacts DEF AddWin, JobOK
<1>2. ~ Starting(j) /\ j.s \notin StartsOf(fifo)
  BY <1>1, HeadIsStarted DEF JobOK, BootCommand
<1>3. /\ QueueOK(fifo') /\ SessionsOf(fifo') \subseteq SessionsOf(fifo)
      /\ StartsOf(fifo') \subseteq StartsOf(fifo)
  BY <1>1, PopQueue DEF Inv, AddWin
<1>4. db' \in Database
  BY <1>1, RowFacts, DatabaseFacts DEF AddWin
<1>5. sent' \subseteq Callback /\ FinishedOK'
  BY <1>1 DEF AddWin, Opened, Callback, Inv, TypeOK, FinishedOK
<1>6. Inv'
  BY <1>1, <1>3, <1>4, <1>5 DEF AddWin, TimersAfter, Inv, TypeOK, QueueOK, DriverOK, runVars
<1>7. Touches({j.s})
  BY <1>1, <1>2, <1>3
     DEF AddWin, TimersAfter, Touches, Same, runVars, SessionsOK, ClientAlive, Ending, Ends
<1> QED
  BY <1>1, <1>6, <1>7, TouchedSessions DEF Inv, TypeOK

LEMMA GetWinStep ==
    ASSUME Inv, SessionsOK, GetWin, UNCHANGED runVars
    PROVE  Inv' /\ SessionsOK'
<1> DEFINE j == Head(fifo)
           row == RowOf(db, j.s, j.w)
<1>1. /\ fifo # <<>> /\ j \in Job /\ JobOK(j) /\ j.at = "getWin" /\ db \in Database
      /\ j.s \in Session /\ j.w \in Win /\ j.kind \in {"finish", "error"}
  BY AnswersFacts DEF GetWin, JobOK
<1>2. ~ Starting(j)
  BY <1>1 DEF JobOK, BootCommand
<1>3. ASSUME NEW r \in Row,
             GoOn([Ask(j, "setWin") EXCEPT !.row = r]),
             UNCHANGED <<fault, db, driver, clients, timers, waitTest, waitAll, sent>>
      PROVE  Inv' /\ SessionsOK'
  <2> DEFINE k == [Ask(j, "setWin") EXCEPT !.row = r]
  <2>1. k \in Job /\ JobOK(k) /\ k.s = j.s /\ ~ Starting(k)
    BY <1>1, <1>2, <1>3 DEF Job, Ask, Command, JobOK, Starting
  <2> HIDE DEF k
  <2>2. GoOn(k)
    BY <1>3 DEF k
  <2> QED
    BY <1>1, <1>3, <2>1, <2>2, GoOnStep
<1>4. row \in Row
  BY <1>1, DatabaseFacts
<1>5. /\ [row EXCEPT !.stat = "done", !.result = TRUE] \in Row
      /\ [row EXCEPT !.errors = TRUE] \in Row
  BY <1>4 DEF Row
<1>6. CASE Crash("noRow") \/ Crash("errorList")
  BY <1>6, CrashStep
<1>7. CASE /\ \/ GoOn([Ask(j, "setWin") EXCEPT !.row = [row EXCEPT !.stat = "done", !.result = TRUE]])
              \/ GoOn([Ask(j, "setWin") EXCEPT !.row = [row EXCEPT !.errors = TRUE]])
           /\ UNCHANGED <<fault, db, driver, clients, timers, waitTest, waitAll, sent>>
  BY <1>3, <1>5, <1>7
<1> QED
  BY <1>6, <1>7 DEF GetWin

LEMMA SetWinStep ==
    ASSUME Inv, SessionsOK, SetWin, UNCHANGED runVars
    PROVE  Inv' /\ SessionsOK'
<1> DEFINE j == Head(fifo)
<1>1. /\ fifo # <<>> /\ j \in Job /\ JobOK(j) /\ j.at = "setWin" /\ db \in Database
      /\ j.s \in Session /\ j.w \in Win /\ j.row \in Row
  BY AnswersFacts, JobFacts DEF SetWin, JobOK
<1>2. ~ Starting(j)
  BY <1>1 DEF JobOK, BootCommand
<1>3. db' \in Database /\ UNCHANGED <<fault, timers, waitTest, waitAll, sent>>
  BY <1>1, DatabaseFacts DEF SetWin
<1>4. CASE fifo' = Tail(fifo) /\ UNCHANGED <<driver, clients>>
  BY <1>1, <1>3, <1>4, PopStep
<1>5. CASE WithClient(j, Tail(fifo))
  BY <1>1, <1>2, <1>3, <1>5, WithClientStep
<1>6. CASE GoOn(Open(j, "winKeys")) /\ UNCHANGED <<driver, clients>>
  <2>1. /\ Open(j, "winKeys") \in Job /\ JobOK(Open(j, "winKeys"))
        /\ Open(j, "winKeys").s = j.s /\ ~ Starting(Open(j, "winKeys"))
    BY <1>1, OpenPlain
  <2> QED
    BY <1>1, <1>3, <1>6, <2>1, GoOnStep
<1> QED
  BY <1>4, <1>5, <1>6 DEF SetWin

LEMMA WinKeysStep ==
    ASSUME Inv, SessionsOK, WinKeys, UNCHANGED runVars
    PROVE  Inv' /\ SessionsOK'
<1> DEFINE j == Head(fifo)
           keys == WindowKeys(db, j.s)
<1>1. /\ fifo # <<>> /\ j \in Job /\ JobOK(j) /\ j.at = "winKeys" /\ db' \in Database
      /\ j.s \in Session /\ keys \subseteq Key
      /\ UNCHANGED <<fault, db, driver, clients, timers, waitTest, waitAll, sent>>
  BY AnswersFacts, DatabaseFacts DEF WinKeys
<1>2. CASE fifo' = Tail(fifo)
  BY <1>1, <1>2, PopStep
<1>3. CASE GoOn([Ask(j, "getWins") EXCEPT !.keys = keys])
  <2> DEFINE k == [Ask(j, "getWins") EXCEPT !.keys = keys]
  <2>1. k \in Job /\ JobOK(k) /\ k.s = j.s /\ ~ Starting(k)
    BY <1>1 DEF Job, Ask, Command, JobOK, Starting, BootCommand
  <2> HIDE DEF k
  <2>2. GoOn(k)
    BY <1>3 DEF k
  <2> QED
    BY <1>1, <2>1, <2>2, GoOnStep
<1> QED
  BY <1>2, <1>3 DEF WinKeys

LEMMA GetWinsStep ==
    ASSUME Inv, SessionsOK, GetWins, UNCHANGED runVars
    PROVE  Inv' /\ SessionsOK'
<1> DEFINE j == Head(fifo)
           seen == {w \in Win : WinKey(j.s, w) \in j.keys /\ RowOf(db, j.s, w).result}
           k == [j EXCEPT !.seen = seen]
<1>1. fifo # <<>> /\ j \in Job /\ JobOK(j) /\ j.at = "getWins" /\ db \in Database
  BY AnswersFacts DEF GetWins
<1>2. ~ Starting(j)
  BY <1>1 DEF JobOK, BootCommand
<1>3. k \in Job /\ JobOK(k) /\ k.s = j.s
  BY <1>1, <1>2 DEF Job, JobOK, Starting
<1>4. CASE Crash("nullWin")
  BY <1>4, CrashStep
<1>5. CASE WithClient(k, Tail(fifo)) /\ UNCHANGED <<fault, db, timers, waitTest, waitAll, sent>>
  <2> HIDE DEF k
  <2> QED
    BY <1>1, <1>2, <1>3, <1>5, WithClientStep
<1> QED
  BY <1>4, <1>5 DEF GetWins

LEMMA DestroyStep ==
    ASSUME Inv, SessionsOK, DestroyKeys \/ Del, UNCHANGED runVars
    PROVE  Inv' /\ SessionsOK'
<1> DEFINE j == Head(fifo)
<1>1. CASE DestroyKeys
  <2>1. /\ fifo # <<>> /\ j \in Job /\ JobOK(j) /\ j.s \in Session /\ db' \in Database
        /\ j.at \in {"ownKeys", "allKeys"}
        /\ UNCHANGED <<fault, db, driver, clients, timers, waitTest, waitAll, sent>>
    BY <1>1, AnswersFacts DEF DestroyKeys
  <2>2. ASSUME NEW ks \in SUBSET Key, GoOn([Ask(j, "del") EXCEPT !.keys = ks])
        PROVE  Inv' /\ SessionsOK'
    <3> DEFINE k == [Ask(j, "del") EXCEPT !.keys = ks]
    <3>1. k \in Job /\ JobOK(k) /\ k.s = j.s /\ ~ Starting(k)
      BY <2>1 DEF Job, Ask, Command, JobOK, Starting, BootCommand
    <3> HIDE DEF k
    <3>2. GoOn(k)
      BY <2>2 DEF k
    <3> QED
      BY <2>1, <3>1, <3>2, GoOnStep
  <2>3. SessionKeys(db, j.s) \subseteq Key /\ AllKeys(db) \subseteq Key
    BY <2>1, DatabaseFacts
  <2> QED
    BY <1>1, <2>2, <2>3 DEF DestroyKeys
<1>2. CASE Del
  <2>1. fifo # <<>> /\ db' \in Database
    BY <1>2, AnswersFacts, DatabaseFacts DEF Del
  <2> QED
    BY <1>2, <2>1, PopStep DEF Del
<1> QED
  BY <1>1, <1>2

LEMMA RedisStepKeeps ==
    ASSUME Inv, SessionsOK, RedisStep
    PROVE  Inv' /\ SessionsOK'
  BY SessionExistStep, SessionReadyStep, SetClientStep, GetClientStep, AddWinStep, GetWinStep,
     SetWinStep, WinKeysStep, GetWinsStep, DestroyStep DEF RedisStep, RedisAnswer

-----------------------------------------------------------------------------
(***************************************************************************)
(* Browsers answer.                                                        *)
(***************************************************************************)
LEMMA BrowserAnswersFacts ==
    ASSUME Inv, SessionsOK, NEW s \in Session, NEW c, BrowserAnswers(s, c)
    PROVE  LET j == Head(driver[s]).job IN
           /\ console[s] \notin NotStarted /\ s \notin StartsOf(fifo)
           /\ j \in Job /\ j.s = s /\ JobOK(j)
           /\ c = "open" => j.w \in Win
           /\ driver' \in [Session -> Seq(BrowserJob)] /\ DriverOK'
           /\ \A r \in Session \ {s} : driver'[r] = driver[r]
           /\ Ends(driver'[s]) => Ends(driver[s])
           /\ c = "end" => Ends(driver[s])
<1> DEFINE j == Head(driver[s]).job
<1>1. driver[s] # <<>> /\ CommandsOK(driver[s], s)
  BY DEF BrowserAnswers, Inv, DriverOK
<1>2. console[s] \notin NotStarted /\ s \notin StartsOf(fifo)
  BY <1>1, TouchedIsStarted DEF Untouched
<1>3. /\ CommandsOK(Tail(driver[s]), s) /\ (Ends(Tail(driver[s])) => Ends(driver[s]))
      /\ BrowserCommand(j) = "end" => Ends(driver[s])
      /\ Head(driver[s]) \in BrowserJob /\ CommandOK(Head(driver[s]), s)
  BY <1>1, AnswerQueue
<1>4. driver' = [driver EXCEPT ![s] = Tail(driver[s])]
  BY DEF BrowserAnswers
<1>5. /\ driver' \in [Session -> Seq(BrowserJob)] /\ DriverOK'
      /\ driver'[s] = Tail(driver[s]) /\ \A r \in Session \ {s} : driver'[r] = driver[r]
  BY <1>3, <1>4, SetDriver
<1>6. j \in Job /\ j.s = s /\ JobOK(j) /\ (c = "open" => j.w \in Win)
  BY <1>3 DEF BrowserJob, CommandOK, BrowserAnswers
<1> QED
  BY <1>2, <1>3, <1>5, <1>6 DEF BrowserAnswers

LEMMA OpenAnsweredStep ==
    ASSUME Inv, SessionsOK, NEW s \in Session, OpenAnswered(s), UNCHANGED runVars
    PROVE  Inv' /\ SessionsOK'
<1> DEFINE j == Head(driver[s]).job
           k == IF j.kind = "newRoot" THEN Open(j, "addWin") ELSE Ask(j, "addWin")
<1>1. /\ console[s] \notin NotStarted /\ s \notin StartsOf(fifo)
      /\ j \in Job /\ j.s = s /\ JobOK(j) /\ j.w \in Win
      /\ driver' \in [Session -> Seq(BrowserJob)] /\ DriverOK'
      /\ \A r \in Session \ {s} : driver'[r] = driver[r]
      /\ Ends(driver'[s]) => Ends(driver[s])
  BY BrowserAnswersFacts DEF OpenAnswered
<1>2. "addWin" \in Command \cap Continuation
  BY DEF Command, Continuation
<1>3. k \in Job /\ JobOK(k) /\ ~ Starting(k) /\ k.s = s
  <2>1. CASE j.kind = "newRoot"
    <3>1. /\ Open(j, "addWin") \in Job /\ Open(j, "addWin").s = s /\ Open(j, "addWin").w = j.w
          /\ Open(j, "addWin").kind = j.kind /\ Open(j, "addWin").then = "addWin"
          /\ Open(j, "addWin").at = "sessionExist"
      BY <1>1, <1>2, JobFacts
    <3>2. JobOK(Open(j, "addWin")) /\ ~ Starting(Open(j, "addWin"))
      BY <1>1, <2>1, <3>1 DEF JobOK, Starting
    <3> QED
      BY <2>1, <3>1, <3>2
  <2>2. CASE j.kind # "newRoot"
    <3>1. /\ Ask(j, "addWin") \in Job /\ Ask(j, "addWin").s = s /\ Ask(j, "addWin").w = j.w
          /\ Ask(j, "addWin").kind = j.kind /\ Ask(j, "addWin").then = j.then
          /\ Ask(j, "addWin").at = "addWin"
      BY <1>1, <1>2, JobFacts
    <3>2. JobOK(Ask(j, "addWin")) /\ ~ Starting(Ask(j, "addWin"))
      BY <1>1, <2>2, <3>1 DEF JobOK, Starting
    <3> QED
      BY <2>2, <3>1, <3>2
  <2> QED
    BY <2>1, <2>2
<1> HIDE DEF k
<1>4. fifo' = Append(fifo, k) /\ UNCHANGED <<fault, db, clients, timers, waitTest, waitAll, sent>>
  BY DEF OpenAnswered, k
<1>5. /\ QueueOK(fifo') /\ SessionsOf(fifo') = SessionsOf(fifo) \cup {s}
      /\ StartsOf(fifo') = StartsOf(fifo)
  BY <1>1, <1>3, <1>4, PushJob DEF Inv
<1>6. Inv'
  BY <1>1, <1>4, <1>5 DEF Inv, TypeOK, QueueOK, FinishedOK, runVars
<1>7. Touches({s})
  BY <1>1, <1>4, <1>5 DEF Touches, Same, runVars, SessionsOK, ClientAlive, Ending, Ends
<1> QED
  BY <1>6, <1>7, TouchedSessions DEF Inv, TypeOK

LEMMA CloseAnsweredStep ==
    ASSUME Inv, SessionsOK, NEW s \in Session, CloseAnswered(s), UNCHANGED runVars
    PROVE  Inv' /\ SessionsOK'
<1> DEFINE j == Head(driver[s]).job
<1>1. /\ console[s] \notin NotStarted /\ s \notin StartsOf(fifo)
      /\ j \in Job /\ j.s = s /\ JobOK(j)
      /\ driver' \in [Session -> Seq(BrowserJob)] /\ DriverOK'
      /\ \A r \in Session \ {s} : driver'[r] = driver[r]
      /\ Ends(driver'[s]) => Ends(driver[s])
      /\ UNCHANGED <<fault, db, fifo, clients, timers, waitAll>>
  BY BrowserAnswersFacts DEF CloseAnswered
<1>2. j.w \in Win
  BY <1>1 DEF CloseAnswered, BrowserAnswers, BrowserCommand, JobOK
<1>3. waitTest \in [Session -> [Win -> Win \cup {0}]] /\ waitTest[s][j.w] \in Win \cup {0}
  BY <1>2 DEF Inv, TypeOK
<1>4. waitTest' \in [Session -> [Win -> Win \cup {0}]]
  BY <1>3 DEF CloseAnswered
<1>5. sent' \subseteq Callback /\ FinishedOK'
  BY <1>2, <1>3 DEF CloseAnswered, Finished, Callback, Inv, TypeOK, FinishedOK
<1>6. Inv'
  BY <1>1, <1>4, <1>5 DEF Inv, TypeOK, QueueOK, runVars
<1>7. Touches({s})
  BY <1>1 DEF Touches, Same, runVars, SessionsOK, ClientAlive, Ending, Ends
<1> QED
  BY <1>6, <1>7, TouchedSessions DEF Inv, TypeOK

LEMMA EndAnsweredStep ==
    ASSUME Inv, SessionsOK, NEW s \in Session, EndAnswered(s), UNCHANGED runVars
    PROVE  Inv' /\ SessionsOK'
<1> DEFINE j == Head(driver[s]).job
           q == Append(fifo, Destroy(s, "ownKeys"))
<1>1. /\ console[s] \notin NotStarted /\ s \notin StartsOf(fifo)
      /\ j \in Job /\ j.s = s
      /\ driver' \in [Session -> Seq(BrowserJob)] /\ DriverOK'
      /\ \A r \in Session \ {s} : driver'[r] = driver[r]
      /\ Ends(driver'[s]) => Ends(driver[s])
  BY BrowserAnswersFacts DEF EndAnswered
<1>2. ASSUME NEW c \in {"ownKeys", "allKeys"}
      PROVE  /\ Destroy(s, c) \in Job /\ JobOK(Destroy(s, c)) /\ ~ Starting(Destroy(s, c))
             /\ Destroy(s, c).s = s
  <2> DEFINE n == NewJob("destroy", s, 0, 0)
  <2>1. n \in Job /\ n.s = s /\ n.kind = "destroy" /\ n.then = "none"
    BY NewJobFacts DEF JobKind
  <2>2. c \in Command
    BY DEF Command
  <2> HIDE DEF n
  <2>3. /\ Ask(n, c) \in Job /\ Ask(n, c).s = s /\ Ask(n, c).kind = "destroy"
        /\ Ask(n, c).then = "none" /\ Ask(n, c).at = c
    BY <2>1, <2>2, JobFacts
  <2>4. JobOK(Ask(n, c)) /\ ~ Starting(Ask(n, c))
    BY <2>3 DEF JobOK, Starting
  <2> QED
    BY <2>3, <2>4 DEF Destroy, n
<1>3. /\ QueueOK(q) /\ SessionsOf(q) = SessionsOf(fifo) \cup {s} /\ StartsOf(q) = StartsOf(fifo)
  BY <1>1, <1>2, PushJob DEF Inv
<1> HIDE DEF q
<1>4. fifo' = Append(q, Destroy(s, "allKeys"))
  BY DEF EndAnswered, q
<1>5. /\ QueueOK(fifo') /\ SessionsOf(fifo') = SessionsOf(fifo) \cup {s}
      /\ StartsOf(fifo') = StartsOf(fifo)
  <2>1. /\ QueueOK(fifo') /\ SessionsOf(fifo') = SessionsOf(q) \cup {s}
        /\ StartsOf(fifo') = StartsOf(q)
    BY <1>1, <1>2, <1>3, <1>4, PushJob
  <2> QED
    BY <1>3, <2>1
<1>6. j.seen \subseteq Win
  BY <1>1, JobFacts
<1>7. sent' \subseteq Callback /\ FinishedOK'
  BY <1>6 DEF EndAnswered, Report, Callback, Inv, TypeOK, FinishedOK
<1>8. Inv'
  BY <1>1, <1>5, <1>7 DEF EndAnswered, Inv, TypeOK, QueueOK, runVars
<1>9. Touches({s})
  BY <1>1, <1>5 DEF EndAnswered, Touches, Same, runVars, SessionsOK, ClientAlive, Ending, Ends
<1> QED
  BY <1>8, <1>9, TouchedSessions DEF Inv, TypeOK

LEMMA AnswerStepKeeps ==
    ASSUME Inv, SessionsOK, NEW s \in Session, AnswerStep(s)
    PROVE  Inv' /\ SessionsOK'
  BY OpenAnsweredStep, CloseAnsweredStep, EndAnsweredStep DEF AnswerStep

-----------------------------------------------------------------------------
(***************************************************************************)
(* Browsers perform commands.                                              *)
(***************************************************************************)
LEMMA PageFacts ==
    ASSUME NEW w \in Win
    PROVE  /\ \A p \in Win \cup {0} : NewPage(w, p) \in Page
           /\ \A pg \in Page : /\ Closed(pg) \in Page
                               /\ [pg EXCEPT !.st = "running"] \in Page
                               /\ [pg EXCEPT !.st = "hung"] \in Page
                               /\ Done(pg.tasks) \in Seq({"open", "done"})
<1>1. Tasks(w) \in Seq({"open", "done"})
  <2> DEFINE S == {"open", "done"}
             opens == [i \in 1..Opens[w] |-> "open"]
             explicit == IF ExplicitDone THEN <<"done">> ELSE <<>>
  <2>1. Opens[w] \in Nat
    BY ParametersAssumption
  <2>2. opens \in [1..Opens[w] -> S]
    OBVIOUS
  <2>3. opens \in Seq(S)
    BY <2>1, <2>2, SeqDef
  <2>4. <<"done">> \in Seq(S) /\ <<>> \in Seq(S)
    OBVIOUS
  <2>5. explicit \in Seq(S)
    BY <2>4
  <2> HIDE DEF opens, explicit, S
  <2>6. (opens \o explicit) \o <<"done">> \in Seq(S)
    BY <2>3, <2>4, <2>5, ConcatProperties
  <2> QED
    BY <2>6 DEF Tasks, opens, explicit, S
<1>2. \A p \in Win \cup {0} : NewPage(w, p) \in Page
  <2>1. 0 \in 0..MaxErrors
    BY ParametersAssumption
  <2> QED
    BY <1>1, <2>1 DEF NewPage, NoPage, Page, PageState
<1>3. ASSUME NEW pg \in Page
      PROVE  Done(pg.tasks) \in Seq({"open", "done"})
  <2>1. pg.tasks \in Seq({"open", "done"}) /\ Len(pg.tasks) \in Nat
    BY LenProperties DEF Page
  <2>2. \A i \in 2..Len(pg.tasks) : pg.tasks[i] \in {"open", "done"}
    BY <2>1, ElementOfSeq
  <2> QED
    BY <2>1, <2>2, SubSeqProperties DEF Done
<1>4. \A pg \in Page : /\ Closed(pg) \in Page
                       /\ [pg EXCEPT !.st = "running"] \in Page
                       /\ [pg EXCEPT !.st = "hung"] \in Page
  BY DEF Closed, Page, PageState
<1> QED
  BY <1>2, <1>3, <1>4

\* The oldest command of a session, performed or not, and its answer
LEMMA PendingFacts ==
    ASSUME Inv, SessionsOK, NEW s \in Session, driver[s] # <<>>
    PROVE  LET j == Head(driver[s]).job IN
           /\ console[s] \notin NotStarted /\ s \notin StartsOf(fifo)
           /\ j \in Job /\ j.s = s /\ JobOK(j) /\ CommandOK(Head(driver[s]), s)
           /\ BrowserCommand(j) = "end" => Ends(driver[s])
  BY TouchedIsStarted, AnswerQueue DEF Untouched, Inv, DriverOK, BrowserJob, CommandOK

LEMMA PerformedFacts ==
    ASSUME Inv, SessionsOK, NEW s \in Session, Pending(s),
           NEW j \in Job, CommandOK([job |-> j, performed |-> TRUE], s),
           BrowserCommand(j) = BrowserCommand(Head(driver[s]).job), Performed(s, j)
    PROVE  /\ driver' \in [Session -> Seq(BrowserJob)] /\ DriverOK'
           /\ \A r \in Session \ {s} : driver'[r] = driver[r]
           /\ Ends(driver'[s]) => Ends(driver[s])
<1> DEFINE b == [job |-> j, performed |-> TRUE]
           e == [driver[s] EXCEPT ![1] = b]
<1>1. b \in BrowserJob /\ CommandsOK(driver[s], s) /\ driver[s] # <<>>
  BY DEF BrowserJob, Inv, DriverOK, Pending
<1>2. CommandsOK(e, s) /\ (Ends(e) => Ends(driver[s]))
  BY <1>1, PerformQueue
<1>3. driver' = [driver EXCEPT ![s] = e]
  BY DEF Performed
<1> HIDE DEF e
<1> QED
  BY <1>2, <1>3, SetDriver

LEMMA PerformOpenStep ==
    ASSUME Inv, SessionsOK, NEW s \in Session, PerformOpen(s)
    PROVE  Inv' /\ SessionsOK'
<1> DEFINE j == Head(driver[s]).job
<1>1. /\ Pending(s) /\ BrowserCommand(j) = "open"
      /\ UNCHANGED <<fault, db, fifo, clients, timers, waitTest, waitAll, sent,
                     console, alive, inbox>>
  BY DEF PerformOpen
<1>2. PICK w \in Win : /\ Performed(s, [j EXCEPT !.w = w])
                       /\ page' = [page EXCEPT ![s][w] = NewPage(w, j.p)]
  BY DEF PerformOpen
<1>3. /\ console[s] \notin NotStarted /\ s \notin StartsOf(fifo)
      /\ j \in Job /\ j.s = s /\ JobOK(j)
  BY <1>1, PendingFacts DEF Pending
<1> DEFINE k == [j EXCEPT !.w = w]
<1>4. /\ k \in Job /\ k.w = w /\ k.s = s /\ k.kind = j.kind /\ k.at = j.at /\ k.then = j.then
      /\ k.row = j.row
  BY <1>3 DEF Job
<1>5. JobOK(k) /\ BrowserCommand(k) = BrowserCommand(j)
  BY <1>3, <1>4 DEF JobOK, Starting, BrowserCommand
<1> HIDE DEF k
<1>6. CommandOK([job |-> k, performed |-> TRUE], s)
  BY <1>4, <1>5 DEF CommandOK
<1>7. Performed(s, k)
  BY <1>2 DEF k
<1>8. /\ driver' \in [Session -> Seq(BrowserJob)] /\ DriverOK'
      /\ \A r \in Session \ {s} : driver'[r] = driver[r]
      /\ Ends(driver'[s]) => Ends(driver[s])
  BY <1>1, <1>4, <1>5, <1>6, <1>7, PerformedFacts
<1>9. j.p \in Win \cup {0}
  BY <1>3, JobFacts
<1>10. page' \in [Session -> [Win -> Page]] /\ \A r \in Session \ {s} : page'[r] = page[r]
  BY <1>2, <1>9, PageFacts DEF Inv, TypeOK
<1>11. Inv'
  BY <1>1, <1>8, <1>10 DEF Inv, TypeOK, QueueOK, FinishedOK
<1>12. Touches({s})
  BY <1>1, <1>3, <1>8, <1>10 DEF Touches, Same, SessionsOK, ClientAlive, Ending, Ends
<1> QED
  BY <1>11, <1>12, TouchedSessions DEF Inv, TypeOK

LEMMA PerformOpenAfterEndStep ==
    ASSUME Inv, SessionsOK, NEW s \in Session, PerformOpenAfterEnd(s)
    PROVE  Inv' /\ SessionsOK'
<1>1. /\ driver[s] # <<>> /\ driver' = [driver EXCEPT ![s] = Tail(driver[s])]
      /\ UNCHANGED <<fault, db, fifo, clients, timers, waitTest, waitAll, sent, runVars>>
  BY DEF PerformOpenAfterEnd, Pending
<1>2. console[s] \notin NotStarted /\ s \notin StartsOf(fifo)
  BY <1>1, PendingFacts
<1>3. CommandsOK(Tail(driver[s]), s) /\ (Ends(Tail(driver[s])) => Ends(driver[s]))
  BY <1>1, AnswerQueue DEF Inv, DriverOK
<1>4. /\ driver' \in [Session -> Seq(BrowserJob)] /\ DriverOK'
      /\ driver'[s] = Tail(driver[s]) /\ \A r \in Session \ {s} : driver'[r] = driver[r]
  BY <1>1, <1>3, SetDriver
<1>5. Inv'
  BY <1>1, <1>4 DEF Inv, TypeOK, QueueOK, FinishedOK, runVars
<1>6. Touches({s})
  BY <1>1, <1>2, <1>3, <1>4 DEF Touches, Same, runVars, SessionsOK, ClientAlive, Ending, Ends
<1> QED
  BY <1>5, <1>6, TouchedSessions DEF Inv, TypeOK

LEMMA PerformCloseStep ==
    ASSUME Inv, SessionsOK, NEW s \in Session, PerformClose(s)
    PROVE  Inv' /\ SessionsOK'
<1> DEFINE j == Head(driver[s]).job
<1>1. /\ Pending(s) /\ BrowserCommand(j) = "close" /\ Performed(s, j)
      /\ page' = [page EXCEPT ![s][j.w] = Closed(@)]
      /\ UNCHANGED <<fault, db, fifo, clients, timers, waitTest, waitAll, sent,
                     console, alive, inbox>>
  BY DEF PerformClose
<1>2. /\ console[s] \notin NotStarted /\ s \notin StartsOf(fifo)
      /\ j \in Job /\ j.s = s /\ JobOK(j)
  BY <1>1, PendingFacts DEF Pending
<1>3. CommandOK([job |-> j, performed |-> TRUE], s)
  BY <1>1, <1>2 DEF CommandOK
<1>4. /\ driver' \in [Session -> Seq(BrowserJob)] /\ DriverOK'
      /\ \A r \in Session \ {s} : driver'[r] = driver[r]
      /\ Ends(driver'[s]) => Ends(driver[s])
  BY <1>1, <1>2, <1>3, PerformedFacts
<1>5. page' \in [Session -> [Win -> Page]] /\ \A r \in Session \ {s} : page'[r] = page[r]
  BY <1>1, PageFacts DEF Inv, TypeOK
<1>6. Inv'
  BY <1>1, <1>4, <1>5 DEF Inv, TypeOK, QueueOK, FinishedOK
<1>7. Touches({s})
  BY <1>1, <1>2, <1>4, <1>5 DEF Touches, Same, SessionsOK, ClientAlive, Ending, Ends
<1> QED
  BY <1>6, <1>7, TouchedSessions DEF Inv, TypeOK

\* The browser ends: its client is no longer known since finishSession asked for it
LEMMA PerformEndStep ==
    ASSUME Inv, SessionsOK, NEW s \in Session, PerformEnd(s)
    PROVE  Inv' /\ SessionsOK'
<1> DEFINE j == Head(driver[s]).job
<1>1. /\ Pending(s) /\ BrowserCommand(j) = "end" /\ Performed(s, j)
      /\ alive' = alive \ {s}
      /\ page' = [page EXCEPT ![s] = [w \in Win |-> Closed(page[s][w])]]
      /\ UNCHANGED <<fault, db, fifo, clients, timers, waitTest, waitAll, sent,
                     console, inbox>>
  BY DEF PerformEnd
<1>2. /\ console[s] \notin NotStarted /\ s \notin StartsOf(fifo)
      /\ j \in Job /\ j.s = s /\ JobOK(j) /\ Ends(driver[s])
  BY <1>1, PendingFacts DEF Pending
<1>3. CommandOK([job |-> j, performed |-> TRUE], s)
  BY <1>1, <1>2 DEF CommandOK
<1>4. /\ driver' \in [Session -> Seq(BrowserJob)] /\ DriverOK'
      /\ \A r \in Session \ {s} : driver'[r] = driver[r]
  BY <1>1, <1>2, <1>3, PerformedFacts
<1>5. page' \in [Session -> [Win -> Page]] /\ \A r \in Session \ {s} : page'[r] = page[r]
  BY <1>1, PageFacts DEF Inv, TypeOK
<1>6. s \notin clients
  BY <1>2 DEF SessionsOK, ClientAlive, Ending, Ends
<1>7. Inv'
  BY <1>1, <1>4, <1>5 DEF Inv, TypeOK, QueueOK, FinishedOK
<1>8. Touches({s})
  BY <1>1, <1>2, <1>4, <1>5, <1>6 DEF Touches, Same
<1> QED
  BY <1>7, <1>8, TouchedSessions DEF Inv, TypeOK

LEMMA BrowserStepKeeps ==
    ASSUME Inv, SessionsOK, NEW s \in Session, BrowserStep(s)
    PROVE  Inv' /\ SessionsOK'
  BY PerformOpenStep, PerformOpenAfterEndStep, PerformCloseStep, PerformEndStep DEF BrowserStep

-----------------------------------------------------------------------------
(***************************************************************************)
(* Consoles.                                                               *)
(***************************************************************************)
ConsoleState == {"idle", "booting", "started", "subscribing", "listening", "reported"}

LEMMA ConsoleMoves ==
    ASSUME Inv, SessionsOK, NEW s \in Session, NEW c \in ConsoleState,
           console' = [console EXCEPT ![s] = c], c \in NotStarted => console[s] \in NotStarted,
           waitAll' \subseteq Session, sent' \subseteq sent,
           UNCHANGED <<fault, db, fifo, driver, clients, timers, waitTest, alive, page, inbox>>
    PROVE  Inv' /\ SessionsOK'
<1>1. /\ console' \in [Session -> ConsoleState]
      /\ \A r \in Session : console'[r] \in NotStarted => console[r] \in NotStarted
  BY DEF Inv, TypeOK, ConsoleState
<1>2. Inv'
  BY <1>1 DEF Inv, TypeOK, QueueOK, DriverOK, FinishedOK, ConsoleState
<1>3. Touches({})
  BY <1>1 DEF Touches, Same
<1> QED
  BY <1>2, <1>3, TouchedSessions DEF Inv, TypeOK

\* The browser of a new session runs: its first job is the one that starts it
LEMMA BrowserReadyStep ==
    ASSUME Inv, SessionsOK, NEW s \in Session, BrowserReady(s)
    PROVE  Inv' /\ SessionsOK'
<1> DEFINE n == NewJob("newRoot", s, 0, NoParent)
           j == Open(n, "setClient")
<1>1. /\ console[s] = "booting" /\ fifo' = Append(fifo, j)
      /\ console' = [console EXCEPT ![s] = "started"] /\ alive' = alive \cup {s}
      /\ UNCHANGED <<fault, db, driver, clients, timers, waitTest, waitAll, sent, page, inbox>>
  BY DEF BrowserReady, NewSession, Queue
<1>2. j \in Job /\ JobOK(j) /\ Starting(j) /\ j.s = s
  <2>1. n \in Job /\ n.s = s /\ n.kind = "newRoot"
    BY NewJobFacts DEF NoParent, JobKind
  <2>2. "setClient" \in Continuation
    BY DEF Continuation
  <2> HIDE DEF n
  <2>3. /\ j \in Job /\ j.s = s /\ j.kind = "newRoot" /\ j.then = "setClient"
        /\ j.at = "sessionExist"
    BY <2>1, <2>2, JobFacts
  <2> HIDE DEF j
  <2> QED
    BY <2>3 DEF JobOK, Starting, BootCommand
<1> HIDE DEF j
<1>3. Untouched(s) /\ s \notin SessionsOf(fifo)
  BY <1>1 DEF SessionsOK, NotStartedUntouched, NotStarted
<1>4. /\ QueueOK(fifo') /\ SessionsOf(fifo') = SessionsOf(fifo) \cup {s}
      /\ StartsOf(fifo') = StartsOf(fifo) \cup {s}
  BY <1>1, <1>2, <1>3, PushStart DEF Inv
<1>5. console'[s] = "started" /\ \A r \in Session \ {s} : console'[r] = console[r]
  BY <1>1 DEF Inv, TypeOK
<1>6. Inv'
  BY <1>1, <1>4 DEF Inv, TypeOK, QueueOK, DriverOK, FinishedOK
<1>7. NotStartedUntouched'
  BY <1>1, <1>4, <1>5 DEF SessionsOK, NotStartedUntouched, Untouched, NotStarted
<1>8. StartingUntouched'
  BY <1>1, <1>3, <1>4 DEF SessionsOK, StartingUntouched, Untouched
<1>9. ClientAlive'
  BY <1>1 DEF SessionsOK, ClientAlive, Ending
<1> QED
  BY <1>6, <1>7, <1>8, <1>9 DEF SessionsOK

LEMMA ConsoleStepKeeps ==
    ASSUME Inv, SessionsOK, NEW s \in Session, Click(s) \/ ConsoleStep(s)
    PROVE  Inv' /\ SessionsOK'
<1>1. CASE Click(s)
  BY <1>1, ConsoleMoves DEF Click, ConsoleState, NotStarted, serverVars, Inv, TypeOK
<1>2. CASE BrowserReady(s)
  BY <1>2, BrowserReadyStep
<1>3. CASE ConsoleOpened(s)
  BY <1>3, ConsoleMoves DEF ConsoleOpened, Deliver, ConsoleState, NotStarted, Inv, TypeOK
<1>4. CASE ConsoleSubscribes(s)
  BY <1>4, ConsoleMoves
     DEF ConsoleSubscribes, WAIT_ALL_TEST, ConsoleState, NotStarted, Inv, TypeOK
<1>5. CASE ConsoleReported(s)
  BY <1>5, ConsoleMoves DEF ConsoleReported, Deliver, ConsoleState, NotStarted, Inv, TypeOK
<1> QED
  BY <1>1, <1>2, <1>3, <1>4, <1>5 DEF ConsoleStep

-----------------------------------------------------------------------------
(***************************************************************************)
(* Pages.  A page that does something was opened.                          *)
(***************************************************************************)
LEMMA PageMoves ==
    ASSUME Inv, SessionsOK, NEW s \in Session, NEW w \in Win, page[s][w].st # "none",
           NEW pg \in Page, page' = [page EXCEPT ![s][w] = pg],
           NEW q \in Seq(Message), inbox' = [inbox EXCEPT ![s][w] = q],
           sent' \subseteq sent,
           UNCHANGED <<fault, db, fifo, driver, clients, timers, waitTest, waitAll,
                       console, alive>>
    PROVE  Inv' /\ SessionsOK'
<1>1. /\ page' \in [Session -> [Win -> Page]] /\ inbox' \in [Session -> [Win -> Seq(Message)]]
      /\ \A r \in Session \ {s} : page'[r] = page[r] /\ inbox'[r] = inbox[r]
  BY DEF Inv, TypeOK
<1>2. console[s] \notin NotStarted /\ s \notin StartsOf(fifo)
  BY TouchedIsStarted DEF Untouched
<1>3. Inv'
  BY <1>1 DEF Inv, TypeOK, QueueOK, DriverOK, FinishedOK
<1>4. Touches({s})
  BY <1>1, <1>2 DEF Touches, Same, SessionsOK, ClientAlive, Ending, Ends
<1> QED
  BY <1>3, <1>4, TouchedSessions DEF Inv, TypeOK

LEMMA SendFacts ==
    ASSUME Inv, NEW s \in Session, NEW w \in Win,
           NEW t \in {"NEW_TEST", "WAIT_TEST", "TEST_FINISH", "TEST_ERROR"}, NEW c \in Win \cup {0}
    PROVE  Append(inbox[s][w], Msg(t, c)) \in Seq(Message)
<1>1. inbox[s][w] \in Seq(Message) /\ Msg(t, c) \in Message
  BY DEF Inv, TypeOK, Msg, Message
<1> QED
  BY <1>1, AppendProperties

LEMMA PageStepKeeps ==
    ASSUME Inv, SessionsOK, NEW s \in Session, NEW w \in Win,
           PageStep(s, w) \/ ShowError(s, w) \/ SendError(s, w) \/ Hang(s, w)
    PROVE  Inv' /\ SessionsOK'
<1> DEFINE pg == page[s][w]
<1>1. /\ pg \in Page /\ inbox[s][w] \in Seq(Message)
      /\ inbox \in [Session -> [Win -> Seq(Message)]] /\ page \in [Session -> [Win -> Page]]
      /\ [inbox EXCEPT ![s][w] = inbox[s][w]] = inbox
  BY DEF Inv, TypeOK
<1>2. CASE StartTest(s, w)
  <2>1. [pg EXCEPT !.st = "running"] \in Page /\ pg.st # "none"
    BY <1>1, <1>2, PageFacts DEF StartTest
  <2>2. page' = [page EXCEPT ![s][w] = [pg EXCEPT !.st = "running"]]
    BY <1>1, <1>2 DEF StartTest
  <2> QED
    BY <1>1, <1>2, <2>1, <2>2, PageMoves DEF StartTest, serverVars
<1>3. CASE SendNewTest(s, w)
  <2>1. [pg EXCEPT !.asked = TRUE] \in Page /\ pg.st # "none"
    BY <1>1, <1>3 DEF SendNewTest, Busy, Page
  <2>2. page' = [page EXCEPT ![s][w] = [pg EXCEPT !.asked = TRUE]]
    BY <1>1, <1>3 DEF SendNewTest
  <2> QED
    BY <1>3, <2>1, <2>2, PageMoves, SendFacts DEF SendNewTest, Send, serverVars
<1>4. CASE PageOpened(s, w)
  <2>1. PICK c \in Win : /\ Deliver(Opened(s, w, c))
                         /\ page' = [page EXCEPT ![s][w].child = c]
                         /\ Send(s, w, Msg("WAIT_TEST", c))
    BY <1>4 DEF PageOpened
  <2>2. [pg EXCEPT !.child = c] \in Page /\ pg.st # "none"
    BY <1>1, <1>4 DEF PageOpened, Page
  <2>3. page' = [page EXCEPT ![s][w] = [pg EXCEPT !.child = c]]
    BY <1>1, <2>1
  <2> QED
    BY <1>4, <2>1, <2>2, <2>3, PageMoves, SendFacts DEF PageOpened, Send, Deliver
<1>5. CASE PageFinished(s, w)
  <2> DEFINE new == [pg EXCEPT !.tasks = Done(@), !.child = 0, !.asked = FALSE]
  <2>1. new \in Page /\ pg.st # "none"
    BY <1>1, <1>5, PageFacts DEF PageFinished, Page
  <2>2. page' = [page EXCEPT ![s][w] = new]
    BY <1>1, <1>5 DEF PageFinished
  <2>3. /\ sent' \subseteq sent /\ inbox' = [inbox EXCEPT ![s][w] = inbox[s][w]]
        /\ UNCHANGED <<fault, db, fifo, driver, clients, timers, waitTest, waitAll,
                       console, alive>>
    BY <1>1, <1>5 DEF PageFinished, Deliver
  <2> HIDE DEF new
  <2> QED
    BY <1>1, <2>1, <2>2, <2>3, PageMoves
<1>6. CASE SendFinish(s, w)
  <2>1. [pg EXCEPT !.tasks = Done(@)] \in Page /\ pg.st # "none"
    BY <1>1, <1>6, PageFacts DEF SendFinish, Busy, Page
  <2>2. page' = [page EXCEPT ![s][w] = [pg EXCEPT !.tasks = Done(@)]]
    BY <1>1, <1>6 DEF SendFinish
  <2> QED
    BY <1>6, <2>1, <2>2, PageMoves, SendFacts DEF SendFinish, Send, serverVars
<1>7. CASE ShowError(s, w)
  <2> DEFINE new == [pg EXCEPT !.st = "alert", !.errors = @ + 1]
  <2>1. pg.errors \in 0..MaxErrors /\ pg.errors < MaxErrors /\ MaxErrors \in Nat
    BY <1>1, <1>7, ParametersAssumption DEF ShowError, Page
  <2>2. pg.errors + 1 \in 0..MaxErrors /\ pg.errors + 1 > 0
    BY <2>1
  <2>3. new \in Page /\ pg.st # "none"
    BY <1>1, <1>7, <2>2 DEF ShowError, Page, PageState
  <2>4. page' = [page EXCEPT ![s][w] = new]
    BY <1>1, <1>7 DEF ShowError
  <2>5. /\ sent' \subseteq sent /\ inbox' = [inbox EXCEPT ![s][w] = inbox[s][w]]
        /\ UNCHANGED <<fault, db, fifo, driver, clients, timers, waitTest, waitAll,
                       console, alive>>
    BY <1>1, <1>7 DEF ShowError, serverVars
  <2> HIDE DEF new
  <2> QED
    BY <1>1, <2>3, <2>4, <2>5, PageMoves
<1>9. CASE SendError(s, w)
  <2>1. [pg EXCEPT !.st = "running"] \in Page /\ pg.st # "none"
    BY <1>1, <1>9, PageFacts DEF SendError
  <2>2. page' = [page EXCEPT ![s][w] = [pg EXCEPT !.st = "running"]]
    BY <1>1, <1>9 DEF SendError
  <2> QED
    BY <1>9, <2>1, <2>2, PageMoves, SendFacts DEF SendError, Send, serverVars
<1>8. CASE Hang(s, w)
  <2>1. [pg EXCEPT !.st = "hung"] \in Page /\ pg.st # "none"
    BY <1>1, <1>8, PageFacts DEF Hang
  <2>2. page' = [page EXCEPT ![s][w] = [pg EXCEPT !.st = "hung"]]
    BY <1>1, <1>8 DEF Hang
  <2> QED
    BY <1>1, <1>8, <2>1, <2>2, PageMoves DEF Hang, serverVars
<1> QED
  BY <1>2, <1>3, <1>4, <1>5, <1>6, <1>7, <1>8, <1>9 DEF PageStep

-----------------------------------------------------------------------------
(***************************************************************************)
(* Messages of pages and timers start new jobs, of sessions that started.  *)
(***************************************************************************)
LEMMA NewJobStep ==
    ASSUME Inv, SessionsOK, NEW s \in Session, ~ Untouched(s),
           NEW k \in JobKind, NEW w \in Win \cup {0}, NEW p \in Win \cup {0}, NEW c \in Continuation,
           c \notin {"setClient", "addWin"},
           k \in {"finish", "error"} => w \in Win,
           c = "getWin" => k \in {"finish", "error"},
           fifo' = Append(fifo, Open(NewJob(k, s, w, p), c)),
           timers' \subseteq timers,
           inbox' \in [Session -> [Win -> Seq(Message)]],
           \A r \in Session \ {s} : inbox'[r] = inbox[r],
           UNCHANGED <<fault, db, driver, clients, waitTest, waitAll, sent, console, alive, page>>
    PROVE  Inv' /\ SessionsOK'
<1> DEFINE n == NewJob(k, s, w, p)
           j == Open(n, c)
<1>1. j \in Job /\ JobOK(j) /\ ~ Starting(j) /\ j.s = s
  <2>1. n \in Job /\ n.s = s /\ n.kind = k /\ n.w = w
    BY ONLY k \in JobKind, s \in Session, w \in Win \cup {0}, p \in Win \cup {0}, NewJobFacts
  <2> HIDE DEF n
  <2>2. /\ j \in Job /\ j.s = s /\ j.kind = k /\ j.w = w /\ j.then = c
        /\ j.at = "sessionExist"
    BY <2>1, JobFacts
  <2> HIDE DEF j
  <2>3. ~ Starting(j)
    BY <2>2 DEF Starting
  <2>4. k \in {"finish", "error"} => w \in Win
    OBVIOUS
  <2>5. JobOK(j)
    BY <2>2, <2>3, <2>4 DEF JobOK
  <2> QED
    BY <2>2, <2>3, <2>5
<1>2. console[s] \notin NotStarted /\ s \notin StartsOf(fifo)
  BY TouchedIsStarted
<1> HIDE DEF j
<1>3. fifo' = Append(fifo, j)
  BY DEF j
<1>4. /\ QueueOK(fifo') /\ SessionsOf(fifo') = SessionsOf(fifo) \cup {s}
      /\ StartsOf(fifo') = StartsOf(fifo)
  BY <1>1, <1>2, <1>3, PushJob DEF Inv
<1>5. Inv'
  BY <1>4 DEF Inv, TypeOK, QueueOK, DriverOK, FinishedOK
<1>6. Touches({s})
  BY <1>2, <1>4 DEF Touches, Same, SessionsOK, ClientAlive, Ending, Ends
<1> QED
  BY <1>5, <1>6, TouchedSessions DEF Inv, TypeOK

LEMMA ReceiveStep ==
    ASSUME Inv, SessionsOK, NEW s \in Session, NEW w \in Win, Receive(s, w)
    PROVE  Inv' /\ SessionsOK'
<1> DEFINE m == Head(inbox[s][w])
<1>1. /\ inbox[s][w] # <<>> /\ inbox[s][w] \in Seq(Message)
      /\ inbox' = [inbox EXCEPT ![s][w] = Tail(inbox[s][w])]
      /\ UNCHANGED <<console, alive, page>>
  BY DEF Receive, Inv, TypeOK
<1>2. m \in Message /\ Tail(inbox[s][w]) \in Seq(Message)
  BY <1>1, HeadTailProperties
<1>3. /\ inbox' \in [Session -> [Win -> Seq(Message)]]
      /\ \A r \in Session \ {s} : inbox'[r] = inbox[r]
  BY <1>1, <1>2 DEF Inv, TypeOK
<1>4. ~ Untouched(s)
  BY <1>1 DEF Untouched
<1>5. /\ {"newChild", "finish", "error"} \subseteq JobKind
      /\ {"runTest", "getWin"} \subseteq Continuation
  BY DEF JobKind, Continuation
<1>6. CASE NEW_TEST(s, w)
  <2>1. /\ fifo' = Append(fifo, Open(NewJob("newChild", s, 0, w), "runTest"))
        /\ UNCHANGED <<fault, db, driver, clients, timers, waitTest, waitAll, sent>>
    BY <1>6 DEF NEW_TEST, Queue
  <2> QED
    <3> DEFINE k == "newChild"
               c == "runTest"
    <3>1. k \in JobKind /\ k \notin {"finish", "error"}
      BY <1>5
    <3>2. c \in Continuation /\ c \notin {"setClient", "addWin", "getWin"}
      BY <1>5
    <3>3. fifo' = Append(fifo, Open(NewJob(k, s, 0, w), c))
      BY <2>1
    <3> HIDE DEF k, c
    <3>4. timers' \subseteq timers /\ 0 \in Win \cup {0} /\ w \in Win \cup {0}
      BY <2>1
    <3>5. UNCHANGED <<fault, db, driver, clients, waitTest, waitAll, sent, console, alive, page>>
      BY <1>1, <2>1
    <3> QED
      BY ONLY Inv, SessionsOK, s \in Session, <1>3, <1>4, <3>1, <3>2, <3>3, <3>4, <3>5, NewJobStep
<1>7. CASE TEST_FINISH(s, w)
  BY <1>1, <1>3, <1>4, <1>5, <1>7, NewJobStep DEF TEST_FINISH, Queue
<1>8. CASE TEST_ERROR(s, w)
  BY <1>1, <1>3, <1>4, <1>5, <1>8, NewJobStep DEF TEST_ERROR, Queue
<1>9. CASE WAIT_TEST(s, m.w, w)
  <2>1. /\ UNCHANGED <<fault, db, fifo, driver, clients, timers, waitAll, sent>>
        /\ waitTest' = [waitTest EXCEPT ![s][m.w] = w]
    BY <1>9 DEF WAIT_TEST
  <2>2. waitTest' \in [Session -> [Win -> Win \cup {0}]]
    BY <2>1 DEF Inv, TypeOK
  <2>3. Inv'
    BY <1>1, <1>3, <2>1, <2>2 DEF Inv, TypeOK, QueueOK, DriverOK, FinishedOK
  <2>4. console[s] \notin NotStarted /\ s \notin StartsOf(fifo)
    BY <1>4, TouchedIsStarted
  <2>5. Touches({s})
    BY <1>1, <1>3, <2>1, <2>4 DEF Touches, Same, SessionsOK, ClientAlive, Ending, Ends
  <2> QED
    BY <2>3, <2>5, TouchedSessions DEF Inv, TypeOK
<1> QED
  BY <1>6, <1>7, <1>8, <1>9 DEF Receive

LEMMA MinuteOverStep ==
    ASSUME Inv, SessionsOK, NEW s \in Session, MinuteOver(s)
    PROVE  Inv' /\ SessionsOK'
<1>1. /\ s \in timers /\ timers' = timers \ {s}
      /\ fifo' = Append(fifo, Open(NewJob("timeout", s, 0, 0), "allResults"))
      /\ UNCHANGED <<fault, db, driver, clients, waitTest, waitAll, sent, runVars>>
  BY DEF MinuteOver, Timeout
<1>2. ~ Untouched(s)
  BY <1>1 DEF Untouched
<1>3. "timeout" \in JobKind /\ "allResults" \in Continuation
  BY DEF JobKind, Continuation
<1>4. inbox' \in [Session -> [Win -> Seq(Message)]] /\ \A r \in Session : inbox'[r] = inbox[r]
  BY <1>1 DEF Inv, TypeOK, runVars
<1> QED
  BY ZenonT(60), <1>1, <1>2, <1>3, <1>4, NewJobStep DEF runVars

-----------------------------------------------------------------------------
(***************************************************************************)
(* The theorems.                                                           *)
(***************************************************************************)
LEMMA InitIInv == ASSUME Init PROVE IInv
<1>1. EmptyDatabase \in Database
  BY RowFacts DEF EmptyDatabase, Database
<1>2. NoPage \in Page
  BY ParametersAssumption DEF NoPage, Page, PageState
<1>3. /\ QueueOK(<<>>) /\ SessionsOf(<<>>) = {} /\ StartsOf(<<>>) = {}
  BY EmptySeq DEF QueueOK, Alone, SessionsOf, StartsOf
<1>4. TypeOK
  BY <1>1, <1>2 DEF Init, ServerInit, TypeOK
<1>5. DriverOK /\ FinishedOK
  BY NothingDriven DEF Init, ServerInit, DriverOK, FinishedOK
<1>6. Inv
  BY <1>3, <1>4, <1>5 DEF Inv, Init, ServerInit
<1>7. SessionsOK
  BY <1>3 DEF Init, ServerInit, SessionsOK, NotStartedUntouched, StartingUntouched, Untouched,
              NoPage, ClientAlive
<1> QED
  BY <1>6, <1>7 DEF IInv

LEMMA NextIInv == ASSUME IInv, [Next]_vars PROVE IInv'
<1>0. Inv /\ SessionsOK
  BY DEF IInv
<1> SUFFICES Inv' /\ SessionsOK'
  BY DEF IInv
<1>1. CASE RedisStep
  BY <1>0, <1>1, RedisStepKeeps
<1>2. ASSUME NEW s \in Session, Chance(s) \/ ConsoleStep(s)
      PROVE  Inv' /\ SessionsOK'
  BY <1>0, <1>2, ConsoleStepKeeps, PageStepKeeps DEF Chance
<1>3. ASSUME NEW s \in Session, BrowserStep(s) \/ AnswerStep(s) \/ MinuteOver(s)
      PROVE  Inv' /\ SessionsOK'
  BY <1>0, <1>3, BrowserStepKeeps, AnswerStepKeeps, MinuteOverStep
<1>4. ASSUME NEW s \in Session, NEW w \in Win, PageStep(s, w) \/ Receive(s, w)
      PROVE  Inv' /\ SessionsOK'
  BY <1>0, <1>4, PageStepKeeps, ReceiveStep
<1>5. CASE UNCHANGED vars
  BY <1>0, <1>5
     DEF vars, Inv, TypeOK, QueueOK, DriverOK, FinishedOK, SessionsOK, NotStartedUntouched,
         StartingUntouched, Untouched, ClientAlive, Ending
<1> QED
  BY <1>1, <1>2, <1>3, <1>4, <1>5 DEF Next

LEMMA Invariance == Spec => []IInv
  BY InitIInv, NextIInv, PTL DEF Spec

(***************************************************************************)
(* Every variable keeps its type, however many sessions, windows, opened   *)
(* pages and errors there are and whatever the timing: no job reaches      *)
(* addWin, getWin or setWin without the window it is about (test.js and    *)
(* session.js), and no known kind of job or command is ever missing.       *)
(***************************************************************************)
THEOREM TypeCorrect == Spec => []TypeOK
<1>1. IInv => TypeOK
  BY DEF IInv, Inv
<1> QED
  BY <1>1, Invariance, PTL

(***************************************************************************)
(* A client in SessionClientList is always one whose browser runs and was  *)
(* not told to end (webdriver.js): setClient keeps a client only while no  *)
(* other job of its session exists, and finishSession forgets it at the    *)
(* moment it hands end to the browser.                                     *)
(***************************************************************************)
THEOREM ClientsAreAlive == Spec => []ClientAlive
<1>1. IInv => ClientAlive
  BY DEF IInv, SessionsOK
<1> QED
  BY <1>1, Invariance, PTL

-----------------------------------------------------------------------------
(***************************************************************************)
(* Sets of jobs.  Most invariants say where the jobs of a set are: in the  *)
(* connection's queue, or in a browser's queue as the job of a command.    *)
(***************************************************************************)
Has(q, S) == \E i \in 1..Len(q) : q[i] \in S
One(q, S) == \A i, k \in 1..Len(q) : q[i] \in S /\ q[k] \in S => i = k
On(S) == {b \in BrowserJob : b.job \in S}

LEMMA NoneInEmpty == ASSUME NEW S PROVE ~ Has(<<>>, S) /\ One(<<>>, S)
  BY DEF Has, One

LEMMA TailHas ==
    ASSUME NEW T, NEW q \in Seq(T), q # <<>>, NEW S
    PROVE  /\ Head(q) \in T /\ Tail(q) \in Seq(T)
           /\ Has(q, S) <=> Head(q) \in S \/ Has(Tail(q), S)
           /\ One(q, S) => One(Tail(q), S) /\ ~ (Head(q) \in S /\ Has(Tail(q), S))
<1>1. /\ Len(q) \in Nat \ {0} /\ Head(q) = q[1] /\ q[1] \in T
      /\ Tail(q) \in Seq(T) /\ Len(Tail(q)) = Len(q) - 1
      /\ \A i \in 1..Len(Tail(q)) : Tail(q)[i] = q[i + 1]
  BY HeadTailProperties, EmptySeq
<1>2. \A i \in 1..Len(Tail(q)) : i + 1 \in 1..Len(q) /\ i + 1 # 1
  BY <1>1
<1>3. 1 \in 1..Len(q)
  BY <1>1
<1>4. ASSUME Has(q, S) PROVE Head(q) \in S \/ Has(Tail(q), S)
  <2>1. PICK i \in 1..Len(q) : q[i] \in S
    BY <1>4 DEF Has
  <2>2. CASE i = 1
    BY <2>1, <2>2, <1>1
  <2>3. CASE i # 1
    <3>1. i - 1 \in 1..Len(Tail(q)) /\ (i - 1) + 1 = i
      BY <2>3, <1>1
    <3>2. Tail(q)[i - 1] = q[i]
      BY <3>1, <1>1
    <3> QED
      BY <2>1, <3>1, <3>2 DEF Has
  <2> QED
    BY <2>2, <2>3
<1>5. Head(q) \in S \/ Has(Tail(q), S) => Has(q, S)
  BY <1>1, <1>2, <1>3 DEF Has
<1>6. ASSUME One(q, S) PROVE One(Tail(q), S)
  <2> SUFFICES ASSUME NEW i \in 1..Len(Tail(q)), NEW k \in 1..Len(Tail(q)),
                      Tail(q)[i] \in S, Tail(q)[k] \in S
               PROVE  i = k
    BY DEF One
  <2>1. i + 1 = k + 1
    BY <1>1, <1>2, <1>6 DEF One
  <2> QED
    BY <2>1, <1>1
<1>7. One(q, S) => ~ (Head(q) \in S /\ Has(Tail(q), S))
  BY <1>1, <1>2, <1>3 DEF One, Has
<1> QED
  BY <1>1, <1>4, <1>5, <1>6, <1>7

LEMMA AppendHas ==
    ASSUME NEW T, NEW q \in Seq(T), NEW e \in T, NEW S
    PROVE  /\ Append(q, e) \in Seq(T) /\ Append(q, e) # <<>>
           /\ Has(Append(q, e), S) <=> Has(q, S) \/ e \in S
           /\ One(q, S) /\ ~ (e \in S /\ Has(q, S)) => One(Append(q, e), S)
<1>1. /\ Len(q) \in Nat
      /\ Append(q, e) \in Seq(T) /\ Append(q, e) # <<>> /\ Len(Append(q, e)) = Len(q) + 1
      /\ \A i \in 1..Len(q) : Append(q, e)[i] = q[i]
      /\ Append(q, e)[Len(q) + 1] = e
  BY AppendProperties
<1>2. \A i \in 1..Len(Append(q, e)) : i \in 1..Len(q) \/ i = Len(q) + 1
  BY <1>1
<1>3. \A i \in 1..Len(q) : i \in 1..Len(Append(q, e)) /\ i # Len(q) + 1
  BY <1>1
<1>4. Len(q) + 1 \in 1..Len(Append(q, e))
  BY <1>1
<1>5. Has(Append(q, e), S) <=> Has(q, S) \/ e \in S
  BY <1>1, <1>2, <1>3, <1>4 DEF Has
<1>6. One(q, S) /\ ~ (e \in S /\ Has(q, S)) => One(Append(q, e), S)
  BY <1>1, <1>2, <1>3 DEF One, Has
<1> QED
  BY <1>1, <1>5, <1>6

\* The head is exchanged for another
LEMMA ExchangeHas ==
    ASSUME NEW T, NEW q \in Seq(T), q # <<>>, NEW e \in T, NEW S
    PROVE  LET r == [q EXCEPT ![1] = e] IN
           /\ r \in Seq(T) /\ r # <<>>
           /\ Has(r, S) <=> e \in S \/ Has(Tail(q), S)
           /\ One(q, S) /\ ~ (e \in S /\ Has(Tail(q), S)) => One(r, S)
<1> DEFINE r == [q EXCEPT ![1] = e]
<1>1. /\ Len(q) \in Nat \ {0} /\ Head(q) = q[1]
      /\ r \in Seq(T) /\ Len(r) = Len(q) /\ r[1] = e
      /\ \A i \in 1..Len(q) : i # 1 => r[i] = q[i]
  <2>1. Len(q) \in Nat \ {0} /\ Head(q) = q[1]
    BY EmptySeq
  <2>2. 1 \in 1..Len(q)
    BY <2>1
  <2> QED
    BY <2>1, <2>2, ExceptSeq
<1> HIDE DEF r
<1>2. r # <<>>
  BY <1>1, EmptySeq
<1>3. Head(r) = e /\ Tail(r) = Tail(q)
  <2>1. /\ Head(r) = r[1] /\ Tail(r) \in Seq(T) /\ Len(Tail(r)) = Len(r) - 1
        /\ \A i \in 1..Len(Tail(r)) : Tail(r)[i] = r[i + 1]
    BY <1>1, <1>2, HeadTailProperties
  <2>2. /\ Tail(q) \in Seq(T) /\ Len(Tail(q)) = Len(q) - 1
        /\ \A i \in 1..Len(Tail(q)) : Tail(q)[i] = q[i + 1]
    BY HeadTailProperties
  <2>3. \A i \in 1..Len(Tail(r)) : i + 1 \in 1..Len(q) /\ i + 1 # 1
    BY <1>1, <2>1
  <2>4. Len(Tail(r)) = Len(Tail(q)) /\ \A i \in 1..Len(Tail(r)) : Tail(r)[i] = Tail(q)[i]
    BY <1>1, <2>1, <2>2, <2>3
  <2>5. Tail(r) = Tail(q)
    BY <2>1, <2>2, <2>4, SeqEqual
  <2> QED
    BY <1>1, <2>1, <2>5
<1>4. Has(r, S) <=> e \in S \/ Has(Tail(q), S)
  BY <1>1, <1>2, <1>3, TailHas
<1>5. ASSUME One(q, S), ~ (e \in S /\ Has(Tail(q), S)) PROVE One(r, S)
  <2>1. One(Tail(q), S)
    BY <1>5, TailHas
  <2>2. ASSUME NEW i \in 1..Len(r), NEW k \in 1..Len(r), r[i] \in S, r[k] \in S, i # 1
        PROVE  k # 1
    <3> SUFFICES ASSUME k = 1 PROVE FALSE
      OBVIOUS
    <3>1. e \in S
      BY <1>1, <2>2
    <3>2. i - 1 \in 1..Len(Tail(q)) /\ Tail(q)[i - 1] = q[i] /\ q[i] \in S
      <4>1. i - 1 \in 1..Len(Tail(q)) /\ (i - 1) + 1 = i
        BY <1>1, <2>2, HeadTailProperties
      <4> QED
        BY <1>1, <2>2, <4>1, HeadTailProperties
    <3> QED
      BY <1>5, <3>1, <3>2 DEF Has
  <2> SUFFICES ASSUME NEW i \in 1..Len(r), NEW k \in 1..Len(r), r[i] \in S, r[k] \in S
               PROVE  i = k
    BY DEF One
  <2>3. CASE i = 1 \/ k = 1
    BY <2>2, <2>3
  <2>4. CASE i # 1 /\ k # 1
    BY <1>1, <1>5, <2>4 DEF One
  <2> QED
    BY <2>3, <2>4
<1> QED
  BY <1>1, <1>2, <1>4, <1>5 DEF r

-----------------------------------------------------------------------------
(***************************************************************************)
(* How jobs move.  A set of jobs of one session is pending while one of    *)
(* them is in the connection's queue or in the session's browser; it is    *)
(* solitary if there is never more than one.                               *)
(***************************************************************************)
JobsOf(s) == {j \in Job : j.s = s /\ j.kind # "destroy"}

Held(f, d, S) == Has(f, S) \/ Has(d, On(S))
Solitary(f, d, S) == One(f, S) /\ One(d, On(S)) /\ ~ (Has(f, S) /\ Has(d, On(S)))

Leaves == fifo # <<>> /\ fifo' = Tail(fifo) /\ driver' = driver
GoesOn(k) == fifo # <<>> /\ fifo' = Append(Tail(fifo), k) /\ driver' = driver
Driven(k) == fifo # <<>> /\ fifo' = Tail(fifo) /\ Drive(k)
Begins(k) == fifo' = Append(fifo, k) /\ driver' = driver
Dismissed(s) == driver[s] # <<>> /\ driver' = [driver EXCEPT ![s] = Tail(@)] /\ fifo' = fifo
Returns(s, k) ==
    driver[s] # <<>> /\ driver' = [driver EXCEPT ![s] = Tail(@)] /\ fifo' = Append(fifo, k)
Ended(s) ==
    /\ driver[s] # <<>>
    /\ driver' = [driver EXCEPT ![s] = Tail(@)]
    /\ fifo' = Append(Append(fifo, Destroy(s, "ownKeys")), Destroy(s, "allKeys"))
PerformedAs(s, k) == driver[s] # <<>> /\ Performed(s, k) /\ fifo' = fifo

\* One job leaves its queue and one joins a queue; out and in say whether they are in S
Turn(s, S, out, in) ==
    /\ Held(fifo', driver'[s], S) => Held(fifo, driver[s], S) \/ in
    /\ in => Held(fifo', driver'[s], S)
    /\ out => Held(fifo, driver[s], S)
    /\ Held(fifo, driver[s], S) /\ ~ out => Held(fifo', driver'[s], S)
    /\ Solitary(fifo, driver[s], S) /\ (in => out \/ ~ Held(fifo, driver[s], S))
          => Solitary(fifo', driver'[s], S)
    /\ Solitary(fifo, driver[s], S) /\ out /\ ~ in => ~ Held(fifo', driver'[s], S)

LEMMA QueuesTyped ==
    ASSUME Inv
    PROVE  fifo \in Seq(Job) /\ \A s \in Session : driver[s] \in Seq(BrowserJob)
  BY DEF Inv, TypeOK

\* The head of a browser's queue changes
LEMMA PopDriver ==
    ASSUME Inv, NEW r \in Session, driver[r] # <<>>, driver' = [driver EXCEPT ![r] = Tail(@)],
           NEW s \in Session, NEW S \in SUBSET JobsOf(s)
    PROVE  /\ Head(driver[r]) \in BrowserJob
           /\ Head(driver[r]).job \in S <=> Head(driver[r]) \in On(S)
           /\ Head(driver[r]).job \in S => r = s
           /\ driver'[s] = IF r = s THEN Tail(driver[s]) ELSE driver[s]
<1>1. driver \in [Session -> Seq(BrowserJob)] /\ CommandsOK(driver[r], r)
  BY DEF Inv, TypeOK, DriverOK
<1>2. Head(driver[r]) \in BrowserJob /\ Head(driver[r]).job.s = r
  BY <1>1, AnswerQueue DEF CommandOK
<1> QED
  BY <1>1, <1>2 DEF On, JobsOf

LEMMA JobsTurn ==
    ASSUME Inv, NEW s \in Session, NEW S \in SUBSET JobsOf(s)
    PROVE  /\ fifo' = fifo /\ driver'[s] = driver[s] => Turn(s, S, FALSE, FALSE)
           /\ Leaves => Turn(s, S, Head(fifo) \in S, FALSE)
           /\ \A k \in Job : GoesOn(k) => Turn(s, S, Head(fifo) \in S, k \in S)
           /\ \A k \in Job : Begins(k) => Turn(s, S, FALSE, k \in S)
<1> DEFINE B == On(S)
<1>1. fifo \in Seq(Job) /\ driver[s] \in Seq(BrowserJob)
  BY QueuesTyped
<1>2. ASSUME fifo # <<>>
      PROVE  /\ Tail(fifo) \in Seq(Job)
             /\ Has(fifo, S) <=> Head(fifo) \in S \/ Has(Tail(fifo), S)
             /\ One(fifo, S) => One(Tail(fifo), S) /\ ~ (Head(fifo) \in S /\ Has(Tail(fifo), S))
  BY <1>1, <1>2, TailHas
<1>3. ASSUME NEW f \in Seq(Job), NEW k \in Job
      PROVE  /\ Has(Append(f, k), S) <=> Has(f, S) \/ k \in S
             /\ One(f, S) /\ ~ (k \in S /\ Has(f, S)) => One(Append(f, k), S)
  BY <1>3, AppendHas
<1> HIDE DEF B
<1>4. fifo' = fifo /\ driver'[s] = driver[s] => Turn(s, S, FALSE, FALSE)
  BY DEF Turn, Held, Solitary
<1>5. Leaves => Turn(s, S, Head(fifo) \in S, FALSE)
  BY <1>2 DEF Turn, Held, Solitary, Leaves
<1>6. ASSUME NEW k \in Job, GoesOn(k) PROVE Turn(s, S, Head(fifo) \in S, k \in S)
  BY <1>2, <1>3, <1>6 DEF Turn, Held, Solitary, GoesOn
<1>7. ASSUME NEW k \in Job, Begins(k) PROVE Turn(s, S, FALSE, k \in S)
  BY <1>1, <1>3, <1>7 DEF Turn, Held, Solitary, Begins
<1> QED
  BY <1>4, <1>5, <1>6, <1>7

LEMMA DrivenTurn ==
    ASSUME Inv, NEW s \in Session, NEW S \in SUBSET JobsOf(s), NEW k \in Job, Driven(k)
    PROVE  Turn(s, S, Head(fifo) \in S, k \in S)
<1> DEFINE b == [job |-> k, performed |-> FALSE]
<1>1. fifo \in Seq(Job) /\ driver[s] \in Seq(BrowserJob) /\ driver \in [Session -> Seq(BrowserJob)]
  BY QueuesTyped DEF Inv, TypeOK
<1>2. b \in BrowserJob /\ (b \in On(S) <=> k \in S) /\ k.s \in Session /\ (k \in S => k.s = s)
  BY JobFacts DEF BrowserJob, On, JobsOf
<1>3. driver' = [driver EXCEPT ![k.s] = Append(@, b)] /\ fifo # <<>> /\ fifo' = Tail(fifo)
  BY DEF Driven, Drive
<1> HIDE DEF b
<1>4. driver'[s] = IF k.s = s THEN Append(driver[s], b) ELSE driver[s]
  BY <1>1, <1>2, <1>3
<1>5. /\ Has(fifo, S) <=> Head(fifo) \in S \/ Has(Tail(fifo), S)
      /\ One(fifo, S) => One(Tail(fifo), S) /\ ~ (Head(fifo) \in S /\ Has(Tail(fifo), S))
  BY <1>1, <1>3, TailHas
<1>6. /\ Has(Append(driver[s], b), On(S)) <=> Has(driver[s], On(S)) \/ k \in S
      /\ One(driver[s], On(S)) /\ ~ (k \in S /\ Has(driver[s], On(S)))
            => One(Append(driver[s], b), On(S))
  BY <1>1, <1>2, AppendHas
<1> QED
  BY <1>2, <1>3, <1>4, <1>5, <1>6 DEF Turn, Held, Solitary

LEMMA AnsweredTurn ==
    ASSUME Inv, NEW s \in Session, NEW S \in SUBSET JobsOf(s), NEW r \in Session
    PROVE  /\ Dismissed(r) => Turn(s, S, Head(driver[r]).job \in S, FALSE)
           /\ \A k \in Job : Returns(r, k) => Turn(s, S, Head(driver[r]).job \in S, k \in S)
           /\ Ended(r) => Turn(s, S, Head(driver[r]).job \in S, FALSE)
<1> DEFINE out == Head(driver[r]).job \in S
<1>1. fifo \in Seq(Job) /\ driver[s] \in Seq(BrowserJob)
  BY QueuesTyped
<1>2. ASSUME driver[r] # <<>>, driver' = [driver EXCEPT ![r] = Tail(@)]
      PROVE  /\ out => r = s
             /\ r = s => /\ driver'[s] = Tail(driver[s])
                         /\ Has(driver[s], On(S)) <=> out \/ Has(driver'[s], On(S))
                         /\ One(driver[s], On(S)) =>
                               One(driver'[s], On(S)) /\ ~ (out /\ Has(driver'[s], On(S)))
             /\ r # s => driver'[s] = driver[s]
  <2>1. /\ out <=> Head(driver[r]) \in On(S)
        /\ out => r = s
        /\ r = s => driver'[s] = Tail(driver[s])
        /\ r # s => driver'[s] = driver[s]
    BY <1>2, PopDriver
  <2> HIDE DEF out
  <2>2. CASE r = s
    <3>1. /\ Has(driver[s], On(S)) <=> Head(driver[s]) \in On(S) \/ Has(Tail(driver[s]), On(S))
          /\ One(driver[s], On(S)) => One(Tail(driver[s]), On(S))
                /\ ~ (Head(driver[s]) \in On(S) /\ Has(Tail(driver[s]), On(S)))
      BY <1>1, <1>2, <2>2, TailHas
    <3> QED
      BY <2>1, <2>2, <3>1
  <2> QED
    BY <2>1, <2>2
<1> HIDE DEF out
<1>3. ASSUME NEW f \in Seq(Job), NEW k \in Job
      PROVE  /\ Append(f, k) \in Seq(Job)
             /\ Has(Append(f, k), S) <=> Has(f, S) \/ k \in S
             /\ One(f, S) /\ ~ (k \in S /\ Has(f, S)) => One(Append(f, k), S)
  BY <1>3, AppendHas
<1>4. Dismissed(r) => Turn(s, S, out, FALSE)
  BY <1>2 DEF Turn, Held, Solitary, Dismissed
<1>5. ASSUME NEW k \in Job, Returns(r, k) PROVE Turn(s, S, out, k \in S)
  BY <1>1, <1>2, <1>3, <1>5 DEF Turn, Held, Solitary, Returns
<1>6. ASSUME Ended(r) PROVE Turn(s, S, out, FALSE)
  <2>1. ASSUME NEW c \in {"ownKeys", "allKeys"} PROVE Destroy(r, c) \in Job \ S
    <3>1. "destroy" \in JobKind /\ c \in Command
      BY DEF JobKind, Command
    <3>2. NewJob("destroy", r, 0, 0) \in Job /\ NewJob("destroy", r, 0, 0).kind = "destroy"
      BY <3>1, NewJobFacts
    <3>3. Destroy(r, c) \in Job /\ Destroy(r, c).kind = "destroy"
      BY <3>1, <3>2, JobFacts DEF Destroy
    <3> QED
      BY <3>3 DEF JobsOf
  <2>2. Has(fifo', S) <=> Has(fifo, S)
    BY <1>1, <1>3, <1>6, <2>1 DEF Ended
  <2>3. One(fifo, S) => One(fifo', S)
    BY <1>1, <1>3, <1>6, <2>1 DEF Ended
  <2> QED
    BY <1>2, <1>6, <2>2, <2>3 DEF Turn, Held, Solitary, Ended
<1> QED
  BY <1>4, <1>5, <1>6 DEF out

LEMMA PerformedTurn ==
    ASSUME Inv, NEW s \in Session, NEW S \in SUBSET JobsOf(s), NEW r \in Session,
           NEW k \in Job, k.s = r, PerformedAs(r, k)
    PROVE  Turn(s, S, Head(driver[r]).job \in S, k \in S)
<1> DEFINE b == [job |-> k, performed |-> TRUE]
           d == driver[s]
<1>1. /\ fifo \in Seq(Job) /\ d \in Seq(BrowserJob) /\ driver[r] \in Seq(BrowserJob)
      /\ CommandsOK(driver[r], r)
  BY QueuesTyped DEF Inv, DriverOK
<1>2. b \in BrowserJob /\ (b \in On(S) <=> k \in S) /\ (k \in S => r = s)
  BY DEF BrowserJob, On, JobsOf
<1>3. /\ Head(driver[r]) \in On(S) <=> Head(driver[r]).job \in S
      /\ Head(driver[r]).job \in S => r = s
  BY <1>1, AnswerQueue DEF PerformedAs, CommandOK, On, JobsOf
<1>4. /\ driver' = [driver EXCEPT ![r] = [@ EXCEPT ![1] = b]] /\ fifo' = fifo /\ driver[r] # <<>>
      /\ driver \in [Session -> Seq(BrowserJob)]
  BY DEF PerformedAs, Performed, Inv, TypeOK
<1> HIDE DEF b, d
<1>5. r = s => driver'[s] = [d EXCEPT ![1] = b]
  BY <1>4 DEF d
<1>6. r # s => driver'[s] = d
  BY <1>4 DEF d
<1>7. ASSUME r = s
      PROVE  /\ Has(d, On(S)) <=> Head(d) \in On(S) \/ Has(Tail(d), On(S))
             /\ One(d, On(S)) => ~ (Head(d) \in On(S) /\ Has(Tail(d), On(S)))
             /\ Has([d EXCEPT ![1] = b], On(S)) <=> b \in On(S) \/ Has(Tail(d), On(S))
             /\ One(d, On(S)) /\ ~ (b \in On(S) /\ Has(Tail(d), On(S)))
                  => One([d EXCEPT ![1] = b], On(S))
  <2>1. d # <<>>
    BY <1>4, <1>7 DEF d
  <2> QED
    BY <1>1, <1>2, <2>1, TailHas, ExchangeHas
<1> QED
  BY <1>2, <1>3, <1>4, <1>5, <1>6, <1>7 DEF Turn, Held, Solitary, d

(***************************************************************************)
(* What arrives in a queue: the elements of a set that the new queue has   *)
(* and the old one has not.                                                *)
(***************************************************************************)
Arrive(s, S, B, inF, inD) ==
    /\ Has(fifo', S) => Has(fifo, S) \/ inF
    /\ Has(driver'[s], B) => Has(driver[s], B) \/ inD

LEMMA FifoArrivals ==
    ASSUME Inv, NEW S, NEW B, NEW s \in Session
    PROVE  /\ fifo' = fifo /\ driver'[s] = driver[s] => Arrive(s, S, B, FALSE, FALSE)
           /\ Leaves => Arrive(s, S, B, FALSE, FALSE)
           /\ \A k \in Job : GoesOn(k) \/ Begins(k) => Arrive(s, S, B, k \in S, FALSE)
<1>1. fifo \in Seq(Job)
  BY QueuesTyped
<1>2. fifo # <<>> => Tail(fifo) \in Seq(Job) /\ (Has(Tail(fifo), S) => Has(fifo, S))
  BY <1>1, TailHas
<1>3. ASSUME NEW f \in Seq(Job), NEW k \in Job PROVE Has(Append(f, k), S) => Has(f, S) \/ k \in S
  BY <1>3, AppendHas
<1> QED
  BY <1>1, <1>2, <1>3 DEF Arrive, Leaves, GoesOn, Begins

LEMMA DrivenArrives ==
    ASSUME Inv, NEW S, NEW B, NEW s \in Session, NEW k \in Job, Driven(k)
    PROVE  Arrive(s, S, B, FALSE, k.s = s /\ [job |-> k, performed |-> FALSE] \in B)
<1> DEFINE b == [job |-> k, performed |-> FALSE]
<1>1. /\ fifo \in Seq(Job) /\ driver[s] \in Seq(BrowserJob) /\ driver \in [Session -> Seq(BrowserJob)]
      /\ b \in BrowserJob /\ k.s \in Session
  BY QueuesTyped, JobFacts DEF Inv, TypeOK, BrowserJob
<1>2. driver' = [driver EXCEPT ![k.s] = Append(@, b)] /\ fifo # <<>> /\ fifo' = Tail(fifo)
  BY DEF Driven, Drive
<1> HIDE DEF b
<1>3. driver'[s] = IF k.s = s THEN Append(driver[s], b) ELSE driver[s]
  BY <1>1, <1>2
<1>4. Has(fifo', S) => Has(fifo, S)
  BY <1>1, <1>2, TailHas
<1>5. Has(Append(driver[s], b), B) => Has(driver[s], B) \/ b \in B
  BY <1>1, AppendHas
<1>6. Arrive(s, S, B, FALSE, k.s = s /\ b \in B)
  BY <1>3, <1>4, <1>5 DEF Arrive
<1> QED
  BY <1>6 DEF b

LEMMA AnswerArrivals ==
    ASSUME Inv, NEW S, NEW B, NEW s \in Session, NEW r \in Session
    PROVE  /\ Dismissed(r) => Arrive(s, S, B, FALSE, FALSE)
           /\ \A k \in Job : Returns(r, k) => Arrive(s, S, B, k \in S, FALSE)
           /\ Ended(r) => Arrive(s, S, B, Destroy(r, "ownKeys") \in S \/ Destroy(r, "allKeys") \in S, FALSE)
<1>1. /\ fifo \in Seq(Job) /\ driver[s] \in Seq(BrowserJob) /\ driver \in [Session -> Seq(BrowserJob)]
  BY QueuesTyped DEF Inv, TypeOK
<1>2. ASSUME driver[r] # <<>>, driver' = [driver EXCEPT ![r] = Tail(@)]
      PROVE  Has(driver'[s], B) => Has(driver[s], B)
  <2>1. driver'[s] = IF r = s THEN Tail(driver[s]) ELSE driver[s]
    BY <1>1, <1>2
  <2>2. r = s => (Has(Tail(driver[s]), B) => Has(driver[s], B))
    BY <1>1, <1>2, TailHas
  <2> QED
    BY <2>1, <2>2
<1>3. ASSUME NEW f \in Seq(Job), NEW k \in Job
      PROVE  Append(f, k) \in Seq(Job) /\ (Has(Append(f, k), S) => Has(f, S) \/ k \in S)
  BY <1>3, AppendHas
<1>4. \A c \in {"ownKeys", "allKeys"} : Destroy(r, c) \in Job
  BY ZenonT(60), NewJobFacts, JobFacts DEF Destroy, JobKind, Command
<1> QED
  BY ZenonT(60), <1>1, <1>2, <1>3, <1>4 DEF Arrive, Dismissed, Returns, Ended

LEMMA PerformedArrives ==
    ASSUME Inv, NEW S, NEW B, NEW s \in Session, NEW r \in Session, NEW k \in Job, PerformedAs(r, k)
    PROVE  Arrive(s, S, B, FALSE, r = s /\ [job |-> k, performed |-> TRUE] \in B)
<1> DEFINE b == [job |-> k, performed |-> TRUE]
           d == driver[s]
<1>1. /\ d \in Seq(BrowserJob) /\ driver \in [Session -> Seq(BrowserJob)] /\ b \in BrowserJob
      /\ driver' = [driver EXCEPT ![r] = [@ EXCEPT ![1] = b]] /\ fifo' = fifo /\ driver[r] # <<>>
  BY QueuesTyped DEF Inv, TypeOK, BrowserJob, PerformedAs, Performed
<1> HIDE DEF b, d
<1>2. driver'[s] = IF r = s THEN [d EXCEPT ![1] = b] ELSE d
  BY <1>1 DEF d
<1>3. r = s => (Has([d EXCEPT ![1] = b], B) => Has(d, B) \/ b \in B)
  <2> SUFFICES ASSUME d # <<>> PROVE Has([d EXCEPT ![1] = b], B) => Has(d, B) \/ b \in B
    BY <1>1 DEF d
  <2> QED
    BY <1>1, TailHas, ExchangeHas
<1>4. Arrive(s, S, B, FALSE, r = s /\ b \in B)
  BY <1>1, <1>2, <1>3 DEF Arrive, d
<1> QED
  BY <1>4 DEF b

-----------------------------------------------------------------------------
(***************************************************************************)
(* The routes of the jobs.  A job's kind tells for what it opens           *)
(* TestSessions, which commands it can wait for and, for a new window,     *)
(* whether it has an opener; it knows no window before the browser opened  *)
(* it; a finish that writes a row writes a result.                         *)
(***************************************************************************)
Opening(j) == j.kind \in {"newRoot", "newChild"}

\* finish or saveError has read the row
Knows(j) == j.at = "setWin" \/ (j.kind = "finish" /\ j.then # "getWin")

ThenOK(j) ==
    /\ j.kind = "newRoot" => j.then \in {"setClient", "addWin"} /\ j.p = NoParent
    /\ j.kind = "newChild" => j.then \in {"runTest", "getClient"} /\ j.p \in Win
    /\ j.kind = "finish" => j.then \in {"getWin", "winKeys", "getClient"}
    /\ j.kind = "timeout" => j.then \in {"allResults", "winKeys", "getClient"}
    /\ j.kind = "error" => j.then = "getWin"

AtOK(j) ==
    /\ j.at \in {"setClient", "getWin", "winKeys", "getClient"} => j.then = j.at
    /\ j.at = "setWin" => j.then = "getWin"
    /\ j.at = "getWins" => j.then = "winKeys"
    /\ j.at = "addWin" => Opening(j)
    /\ j.at \in {"ownKeys", "allKeys", "del"} <=> j.kind = "destroy"

Fit(j) ==
    /\ ThenOK(j) /\ AtOK(j)
    /\ Opening(j) /\ j.at # "addWin" /\ j.then # "addWin" => j.w = 0
    /\ j.kind = "finish" /\ Knows(j) => j.row.result

FitCommand(b) ==
    /\ ThenOK(b.job)
    /\ \/ Opening(b.job) \/ b.job.kind = "timeout"
       \/ b.job.kind = "finish" /\ Knows(b.job)
    /\ Opening(b.job) /\ ~ b.performed => b.job.w = 0

Misfit == {j \in Job : ~ Fit(j)}
MisfitCommand == {b \in BrowserJob : ~ FitCommand(b)}
RoutesOK == \A s \in Session : ~ Has(fifo, Misfit) /\ ~ Has(driver[s], MisfitCommand)

LEMMA FitHeads ==
    ASSUME Inv, RoutesOK
    PROVE  /\ fifo # <<>> => Fit(Head(fifo))
           /\ \A s \in Session : driver[s] # <<>> =>
                 FitCommand(Head(driver[s])) /\ Head(driver[s]) \in BrowserJob /\ Head(driver[s]).job \in Job
                 /\ Head(driver[s]).job.s = s
<1>1. fifo \in Seq(Job) /\ \A s \in Session : driver[s] \in Seq(BrowserJob)
  BY QueuesTyped
<1>2. fifo # <<>> => Head(fifo) \in Job /\ Head(fifo) \notin Misfit
  BY <1>1, TailHas, JobFacts DEF RoutesOK
<1>3. ASSUME NEW s \in Session, driver[s] # <<>>
      PROVE  Head(driver[s]) \in BrowserJob /\ Head(driver[s]) \notin MisfitCommand
             /\ Head(driver[s]).job.s = s
  BY <1>1, <1>3, TailHas, AnswerQueue DEF RoutesOK, Inv, DriverOK, CommandOK
<1> QED
  BY <1>2, <1>3 DEF Misfit, MisfitCommand, BrowserJob

(***************************************************************************)
(* What most Redis answers do: the job at the head of the connection's     *)
(* queue goes on, is handed to the browser or is over, no row changes      *)
(* except that it may disappear, and nothing else is touched.              *)
(***************************************************************************)
\* finish has written its row
Written(j) == j.kind = "finish" /\ j.then # "getWin"

Follows(j, k) ==
    /\ k \in Job /\ k.kind = j.kind /\ k.s = j.s /\ k.p = j.p /\ k.w = j.w
    /\ Knows(k) => Knows(j) /\ k.row = j.row
    /\ Written(k) => Written(j)

Handed(k) == [job |-> k, performed |-> FALSE]

LEMMA HandedFacts ==
    ASSUME NEW k \in Job
    PROVE  Handed(k) \in BrowserJob /\ Handed(k).job = k /\ Handed(k).performed = FALSE
  BY DEF Handed, BrowserJob

JobMoves ==
    \/ fifo' = fifo /\ driver' = driver
    \/ Leaves /\ ~ Opening(Head(fifo))
    \/ \E k \in Job : GoesOn(k) /\ Fit(k) /\ Follows(Head(fifo), k)
    \/ \E k \in Job : /\ Driven(k) /\ FitCommand(Handed(k)) /\ Follows(Head(fifo), k)
                      /\ k.kind = "finish" => Written(k)

RowsStay ==
    \A s \in Session, w \in Win : Exists(db', WinKey(s, w)) =>
        Exists(db, WinKey(s, w)) /\ RowOf(db', s, w) = RowOf(db, s, w)

QuietStep ==
    JobMoves /\ RowsStay /\ UNCHANGED <<timers, waitTest, waitAll, sent, console, alive, page, inbox>>

LEMMA RowsStayFacts ==
    /\ db' = db => RowsStay
    /\ \A s \in Session : db' = Put(db, ClientKey(s)) \/ db' = Put(db, GlobalDataKey(s))
          => (db \in Database => RowsStay)
    /\ \A ks : db' = Delete(db, ks) => RowsStay
<1>1. db' = db => RowsStay
  BY DEF RowsStay
<1>2. ASSUME NEW r \in Session, db \in Database,
             db' = Put(db, ClientKey(r)) \/ db' = Put(db, GlobalDataKey(r))
      PROVE  RowsStay
  <2> SUFFICES ASSUME NEW s \in Session, NEW w \in Win, Exists(db', WinKey(s, w))
               PROVE  Exists(db, WinKey(s, w)) /\ RowOf(db', s, w) = RowOf(db, s, w)
    BY DEF RowsStay
  <2>1. WinKey(s, w) # ClientKey(r) /\ WinKey(s, w) # GlobalDataKey(r)
    BY DEF WinKey, ClientKey, GlobalDataKey
  <2> QED
    BY <1>2, <2>1 DEF Put, Exists, RowOf, Database
<1>3. ASSUME NEW ks, db' = Delete(db, ks) PROVE RowsStay
  BY <1>3 DEF RowsStay, Delete, Exists, RowOf
<1> QED
  BY <1>1, <1>2, <1>3

\* The commands that open a TestSession
Boot == {"sessionExist", "initGlobalData", "expireKeys", "expire"}

LEMMA BootFit ==
    ASSUME NEW j \in Job, Fit(j), j.at \in Boot, NEW c \in Boot
    PROVE  Ask(j, c) \in Job /\ Fit(Ask(j, c)) /\ Follows(j, Ask(j, c))
  BY DEF Boot, Ask, Job, Command, Fit, ThenOK, AtOK, Opening, Knows, Follows, Written

\* Opening a TestSession goes on with a later continuation
LEMMA OpenFit ==
    ASSUME NEW j \in Job, Fit(j), j.kind # "destroy", j.at # "addWin",
           NEW k \in {"winKeys", "getClient"}, ThenOK(Open(j, k)),
           j.kind = "finish" => Knows(j)
    PROVE  /\ Open(j, k) \in Job /\ Fit(Open(j, k))
           /\ Open(j, k).kind = j.kind /\ Open(j, k).s = j.s /\ Open(j, k).p = j.p /\ Open(j, k).w = j.w
           /\ Open(j, k).row = j.row
           /\ (j.kind = "finish" => Written(j)) => Follows(j, Open(j, k))
<1>1. k \in Continuation /\ "sessionExist" \in Command
  BY DEF Continuation, Command
<1>2. /\ Open(j, k) \in Job
      /\ Open(j, k).kind = j.kind /\ Open(j, k).s = j.s /\ Open(j, k).p = j.p /\ Open(j, k).w = j.w
      /\ Open(j, k).row = j.row /\ Open(j, k).then = k /\ Open(j, k).at = "sessionExist"
  BY <1>1 DEF Open, Job
<1>3. ThenOK(j) /\ AtOK(j)
  BY DEF Fit
<1>4. Opening(j) => j.w = 0
  BY <1>1, <1>2, <1>3 DEF Fit, ThenOK, AtOK, Opening
<1>5. Fit(Open(j, k))
  BY <1>2, <1>4 DEF Fit, AtOK, Opening, Knows
<1> QED
  BY <1>2, <1>5 DEF Follows, Knows, Written


(***************************************************************************)
(* The quiet answers, one lemma for the ways they go on.                   *)
(***************************************************************************)
LEMMA WithClientMoves ==
    ASSUME Inv, fifo # <<>>, NEW j \in Job, Follows(Head(fifo), j),
           FitCommand(Handed(j)), j.kind = "finish" => Written(j),
           Open(j, "getClient") \in Job, Fit(Open(j, "getClient")), Follows(Head(fifo), Open(j, "getClient")),
           WithClient(j, Tail(fifo))
    PROVE  JobMoves
<1>1. CASE Drive(j) /\ fifo' = Tail(fifo)
  BY <1>1 DEF JobMoves, Driven
<1>2. CASE fifo' = Append(Tail(fifo), Open(j, "getClient")) /\ UNCHANGED <<driver, clients>>
  BY <1>2 DEF JobMoves, GoesOn
<1> QED
  BY <1>1, <1>2 DEF WithClient

LEMMA QuietAnswers ==
    ASSUME Inv, SessionsOK, RoutesOK, UNCHANGED runVars,
           \/ SessionExist \/ InitGlobalData \/ ExpireKeys \/ SessionReady
           \/ SetClient \/ GetClient \/ WinKeys \/ GetWins \/ DestroyKeys \/ Del
    PROVE  QuietStep
<1> DEFINE j == Head(fifo)
<1>0. Fit(j) /\ ThenOK(j) /\ AtOK(j) /\ j \in Job /\ j.s \in Session /\ db \in Database
  BY AnswersFacts, FitHeads
     DEF SessionExist, InitGlobalData, ExpireKeys, SessionReady, SetClient, GetClient, WinKeys,
         GetWins, DestroyKeys, Del, Fit
<1> SUFFICES JobMoves /\ RowsStay /\ UNCHANGED <<timers, waitTest, waitAll, sent>>
  BY DEF QuietStep, runVars
<1>1. CASE SessionExist \/ InitGlobalData \/ ExpireKeys
  <2>1. fifo # <<>> /\ j.at \in Boot /\ driver' = driver
    BY <1>1, AnswersFacts DEF SessionExist, InitGlobalData, ExpireKeys, Boot
  <2>2. PICK c \in Boot : GoOn(Ask(j, c))
    BY <1>1 DEF SessionExist, InitGlobalData, ExpireKeys, Boot
  <2>3. JobMoves
    BY <1>0, <2>1, <2>2, BootFit DEF JobMoves, GoesOn, GoOn
  <2> QED
    BY <1>0, <1>1, <2>3, RowsStayFacts DEF SessionExist, InitGlobalData, ExpireKeys
<1>2. CASE SessionReady
  <2>1. fifo # <<>> /\ j.at = "expire" /\ UNCHANGED <<db, timers, waitTest, waitAll, sent>>
    BY <1>2, AnswersFacts DEF SessionReady
  <2>2. CASE /\ j.then \in {"setClient", "addWin", "getWin", "winKeys", "getClient"}
             /\ GoOn(Ask(j, j.then)) /\ UNCHANGED <<driver, clients>>
    <3>1. Ask(j, j.then) \in Job /\ Fit(Ask(j, j.then)) /\ Follows(j, Ask(j, j.then))
      BY <1>0, <2>1, <2>2
         DEF Ask, Job, JobKind, Command, Fit, ThenOK, AtOK, Opening, Knows, Follows, Written
    <3> QED
      BY <2>1, <2>2, <3>1, RowsStayFacts DEF JobMoves, GoesOn, GoOn
  <2>3. CASE j.then = "allResults" /\ GoOn(Open(j, "winKeys")) /\ UNCHANGED <<driver, clients>>
    <3>1. j.kind = "timeout"
      BY <1>0, <2>1, <2>3 DEF ThenOK, AtOK, Job, JobKind
    <3>2. ThenOK(Open(j, "winKeys"))
      BY <3>1, <1>0 DEF ThenOK, Open, Job
    <3> QED
      BY <1>0, <2>1, <2>3, <3>1, <3>2, OpenFit, RowsStayFacts DEF JobMoves, GoesOn, GoOn
  <2>4. CASE j.then = "runTest" /\ WithClient(j, Tail(fifo))
    <3>1. j.kind = "newChild"
      BY <1>0, <2>1, <2>4 DEF ThenOK, AtOK, Job, JobKind
    <3>2. ThenOK(Open(j, "getClient"))
      BY <3>1, <1>0 DEF ThenOK, Open, Job
    <3>3. FitCommand(Handed(j)) /\ Follows(j, j)
      BY <1>0, <2>1, <2>4, <3>1, HandedFacts DEF FitCommand, Opening, Fit, Follows
    <3>4. /\ Open(j, "getClient") \in Job /\ Fit(Open(j, "getClient"))
          /\ Follows(j, Open(j, "getClient"))
      BY <1>0, <2>1, <3>1, <3>2, OpenFit
    <3>5. JobMoves
      BY <1>0, <2>1, <2>4, <3>1, <3>3, <3>4, WithClientMoves
    <3> QED
      BY <2>1, <3>5, RowsStayFacts
  <2> QED
    BY <1>2, <2>2, <2>3, <2>4 DEF SessionReady
<1>3. CASE SetClient
  <2>1. fifo # <<>> /\ j.at = "setClient" /\ UNCHANGED <<timers, waitTest, waitAll, sent>>
    BY <1>3, AnswersFacts DEF SetClient
  <2>2. j.kind = "newRoot" /\ j.w = 0
    BY <1>0, <2>1 DEF Fit, ThenOK, AtOK, Opening, Job, JobKind
  <2>3. FitCommand(Handed(j)) /\ Follows(j, j)
    BY <1>0, <2>2, HandedFacts DEF FitCommand, Opening, Follows
  <2>4. JobMoves
    BY <1>0, <1>3, <2>1, <2>2, <2>3 DEF SetClient, JobMoves, Driven
  <2>5. RowsStay
    BY <1>0, <1>3, RowsStayFacts DEF SetClient
  <2> QED
    BY <2>1, <2>4, <2>5
<1>4. CASE GetClient
  <2>1. fifo # <<>> /\ j.at = "getClient"
    BY <1>4, AnswersFacts DEF GetClient
  <2>2. CASE Crash("noClient")
    BY <2>2, RowsStayFacts DEF Crash, JobMoves
  <2>3. CASE /\ Drive(j) /\ fifo' = Tail(fifo)
             /\ UNCHANGED <<fault, db, timers, waitTest, waitAll, sent>>
    <3>1. j.then = "getClient" /\ j.kind \in {"newChild", "finish", "timeout"}
      BY <1>0, <2>1 DEF ThenOK, AtOK, Job, JobKind
    <3>2. FitCommand(Handed(j)) /\ Follows(j, j) /\ (j.kind = "finish" => Written(j))
      BY <1>0, <2>1, <3>1, HandedFacts DEF FitCommand, Opening, Fit, Follows, Knows, Written
    <3>3. JobMoves
      BY <1>0, <2>1, <2>3, <3>2 DEF JobMoves, Driven
    <3> QED
      BY <2>3, <3>3, RowsStayFacts
  <2> QED
    BY <1>4, <2>2, <2>3 DEF GetClient
<1>5. CASE WinKeys
  <2>1. /\ fifo # <<>> /\ j.at = "winKeys" /\ UNCHANGED <<db, driver, timers, waitTest, waitAll, sent>>
    BY <1>5, AnswersFacts DEF WinKeys
  <2>2. j.then = "winKeys" /\ j.kind \in {"finish", "timeout"}
    BY <1>0, <2>1 DEF ThenOK, AtOK, Job, JobKind
  <2>3. CASE fifo' = Tail(fifo)
    BY <2>1, <2>2, <2>3, RowsStayFacts DEF JobMoves, Leaves, Opening
  <2>4. CASE GoOn([Ask(j, "getWins") EXCEPT !.keys = WindowKeys(db, j.s)])
    <3> DEFINE k == [Ask(j, "getWins") EXCEPT !.keys = WindowKeys(db, j.s)]
    <3>1. WindowKeys(db, j.s) \subseteq Key
      BY <1>0, DatabaseFacts
    <3>2. k \in Job /\ Fit(k) /\ Follows(j, k)
      BY <1>0, <2>1, <2>2, <3>1
         DEF Ask, Job, JobKind, Command, Fit, ThenOK, AtOK, Opening, Knows, Follows, Written
    <3> HIDE DEF k
    <3> QED
      BY <2>1, <2>4, <3>2, RowsStayFacts DEF JobMoves, GoesOn, GoOn, k
  <2> QED
    BY <1>5, <2>3, <2>4 DEF WinKeys
<1>6. CASE GetWins
  <2>1. fifo # <<>> /\ j.at = "getWins"
    BY <1>6, AnswersFacts DEF GetWins
  <2>2. j.then = "winKeys" /\ j.kind \in {"finish", "timeout"}
    BY <1>0, <2>1 DEF ThenOK, AtOK, Job, JobKind
  <2>3. CASE Crash("nullWin")
    BY <2>3, RowsStayFacts DEF Crash, JobMoves
  <2>4. ASSUME NEW seen \in SUBSET Win, WithClient([j EXCEPT !.seen = seen], Tail(fifo)),
               UNCHANGED <<fault, db, timers, waitTest, waitAll, sent>>
        PROVE  JobMoves /\ RowsStay /\ UNCHANGED <<timers, waitTest, waitAll, sent>>
    <3> DEFINE k == [j EXCEPT !.seen = seen]
    <3>1. k \in Job /\ Fit(k) /\ Follows(j, k) /\ k.kind = j.kind /\ k.then = j.then /\ k.at = j.at
      BY <1>0, <2>4 DEF Job, Fit, ThenOK, AtOK, Opening, Knows, Follows, Written
    <3> HIDE DEF k
    <3>2. ThenOK(Open(k, "getClient"))
      BY <2>2, <3>1 DEF ThenOK, Open, Job
    <3>3. k.kind = "finish" => Written(k) /\ Written(j) /\ Knows(k)
      BY <2>2, <3>1 DEF Written, Knows
    <3>4. FitCommand(Handed(k))
      BY <2>2, <3>1, <3>3, HandedFacts DEF FitCommand, Opening, Fit
    <3>5. /\ Open(k, "getClient") \in Job /\ Fit(Open(k, "getClient"))
          /\ Follows(k, Open(k, "getClient"))
      BY <2>1, <2>2, <3>1, <3>2, <3>3, OpenFit
    <3>6. Follows(j, Open(k, "getClient"))
      BY <3>1, <3>5 DEF Follows
    <3>7. WithClient(k, Tail(fifo))
      BY <2>4 DEF k
    <3>8. JobMoves
      BY <2>1, <3>1, <3>3, <3>4, <3>5, <3>6, <3>7, WithClientMoves
    <3> QED
      BY <2>4, <3>8, RowsStayFacts
  <2> QED
    BY <1>6, <2>3, <2>4 DEF GetWins
<1>7. CASE DestroyKeys
  <2>1. /\ fifo # <<>> /\ j.at \in {"ownKeys", "allKeys"}
        /\ UNCHANGED <<db, driver, timers, waitTest, waitAll, sent>>
    BY <1>7, AnswersFacts DEF DestroyKeys
  <2>2. PICK ks \in SUBSET Key : GoOn([Ask(j, "del") EXCEPT !.keys = ks])
    BY <1>0, <1>7, DatabaseFacts DEF DestroyKeys
  <2> DEFINE k == [Ask(j, "del") EXCEPT !.keys = ks]
  <2>3. k \in Job /\ Fit(k) /\ Follows(j, k)
    BY <1>0, <2>1 DEF Ask, Job, JobKind, Command, Fit, ThenOK, AtOK, Opening, Knows, Follows, Written
  <2> HIDE DEF k
  <2> QED
    BY <2>1, <2>2, <2>3, RowsStayFacts DEF JobMoves, GoesOn, GoOn, k
<1>8. CASE Del
  <2>1. fifo # <<>> /\ j.at = "del"
    BY <1>8, AnswersFacts DEF Del
  <2>2. ~ Opening(j)
    BY <1>0, <2>1 DEF AtOK, Opening
  <2> QED
    BY <1>8, <2>1, <2>2, RowsStayFacts DEF Del, JobMoves, Leaves
<1> QED
  BY <1>1, <1>2, <1>3, <1>4, <1>5, <1>6, <1>7, <1>8

-----------------------------------------------------------------------------
(***************************************************************************)
(* The other steps, as what they do with jobs.                             *)
(***************************************************************************)
Alike(j, k) == k \in Job /\ k.kind = j.kind /\ k.s = j.s /\ k.p = j.p /\ k.w = j.w

LEMMA AddWinJob ==
    ASSUME Inv, SessionsOK, RoutesOK, AddWin
    PROVE  /\ Leaves /\ Head(fifo) \in Job /\ Opening(Head(fifo)) /\ Fit(Head(fifo))
           /\ Head(fifo).s \in Session /\ Head(fifo).w \in Win /\ Head(fifo).p \in Win \cup {0}
           /\ Head(fifo).kind = "newRoot" <=> Head(fifo).p = NoParent
<1> DEFINE j == Head(fifo)
<1>1. fifo # <<>> /\ j \in Job /\ JobOK(j) /\ j.at = "addWin" /\ j.s \in Session /\ Fit(j)
  BY AnswersFacts, FitHeads DEF AddWin
<1>2. Opening(j) /\ j.w \in Win /\ j.p \in Win \cup {0} /\ ThenOK(j)
  BY <1>1, JobFacts DEF Fit, AtOK, JobOK
<1>3. j.kind = "newRoot" <=> j.p = NoParent
  BY <1>2, WinFacts DEF Opening, ThenOK, NoParent
<1> QED
  BY <1>1, <1>2, <1>3 DEF AddWin, Leaves

LEMMA GetWinJob ==
    ASSUME Inv, SessionsOK, RoutesOK, GetWin
    PROVE  /\ UNCHANGED <<db, timers, waitTest, waitAll, sent>>
           /\ \/ fifo' = fifo /\ driver' = driver
              \/ \E k \in Job :
                    /\ GoesOn(k) /\ Fit(k) /\ Alike(Head(fifo), k) /\ ~ Written(k)
                    /\ Exists(db, WinKey(k.s, k.w)) /\ k.w \in Win /\ k.s \in Session
                    /\ k.row.parent = RowOf(db, k.s, k.w).parent
                    /\ k.kind \in {"finish", "error"}
<1> DEFINE j == Head(fifo)
           row == RowOf(db, j.s, j.w)
<1>1. /\ fifo # <<>> /\ j \in Job /\ JobOK(j) /\ j.at = "getWin" /\ db \in Database
      /\ j.s \in Session /\ j.w \in Win /\ j.kind \in {"finish", "error"} /\ Fit(j)
  BY AnswersFacts, FitHeads DEF GetWin, JobOK
<1>2. row \in Row
  BY <1>1, DatabaseFacts
<1> HIDE DEF row
<1>3. ASSUME NEW r \in Row, r.parent = row.parent, j.kind = "finish" => r.result,
             GoOn([Ask(j, "setWin") EXCEPT !.row = r]), UNCHANGED driver
      PROVE  \E k \in Job : /\ GoesOn(k) /\ Fit(k) /\ Alike(j, k) /\ ~ Written(k)
                            /\ k.row.parent = row.parent
  <2> DEFINE k == [Ask(j, "setWin") EXCEPT !.row = r]
  <2>1. /\ k \in Job /\ Alike(j, k) /\ k.row = r /\ k.at = "setWin" /\ k.then = j.then
        /\ j.then = "getWin"
    BY <1>1, <1>3 DEF Job, Ask, Command, Alike, Fit, AtOK
  <2> HIDE DEF k
  <2>2. Fit(k) /\ ~ Written(k)
    BY <1>1, <1>3, <2>1 DEF Fit, ThenOK, AtOK, Opening, Alike, Written
  <2>3. GoesOn(k)
    BY <1>1, <1>3 DEF GoesOn, GoOn, k
  <2> QED
    BY <1>3, <2>1, <2>2, <2>3
<1>4. /\ [row EXCEPT !.stat = "done", !.result = TRUE] \in Row
      /\ [row EXCEPT !.stat = "done", !.result = TRUE].parent = row.parent
      /\ [row EXCEPT !.stat = "done", !.result = TRUE].result
      /\ [row EXCEPT !.errors = TRUE] \in Row
      /\ [row EXCEPT !.errors = TRUE].parent = row.parent
  BY <1>2 DEF Row
<1>5. UNCHANGED <<db, timers, waitTest, waitAll, sent>>
  BY DEF GetWin, Crash
<1>6. CASE Crash("noRow") \/ Crash("errorList")
  BY <1>5, <1>6 DEF Crash
<1>7. CASE /\ j.kind = "finish" /\ Exists(db, WinKey(j.s, j.w)) /\ UNCHANGED driver
           /\ GoOn([Ask(j, "setWin") EXCEPT !.row = [row EXCEPT !.stat = "done", !.result = TRUE]])
  <2>1. PICK k \in Job : /\ GoesOn(k) /\ Fit(k) /\ Alike(j, k) /\ ~ Written(k)
                         /\ k.row.parent = row.parent
    BY <1>3, <1>4, <1>7
  <2> QED
    BY <1>1, <1>5, <1>7, <2>1 DEF Alike, row
<1>8. CASE /\ j.kind = "error" /\ Exists(db, WinKey(j.s, j.w)) /\ UNCHANGED driver
           /\ GoOn([Ask(j, "setWin") EXCEPT !.row = [row EXCEPT !.errors = TRUE]])
  <2>1. PICK k \in Job : /\ GoesOn(k) /\ Fit(k) /\ Alike(j, k) /\ ~ Written(k)
                         /\ k.row.parent = row.parent
    BY <1>3, <1>4, <1>8
  <2> QED
    BY <1>1, <1>5, <1>8, <2>1 DEF Alike, row
<1> QED
  BY <1>6, <1>7, <1>8 DEF GetWin, row

\* k is the job as it goes on; a finish that goes on has written its row
LEMMA SetWinJob ==
    ASSUME Inv, SessionsOK, RoutesOK, SetWin
    PROVE  LET j == Head(fifo) IN
           /\ j \in Job /\ Knows(j) /\ j.kind \in {"finish", "error"} /\ j.s \in Session /\ j.w \in Win
           /\ j.row \in Row /\ (j.kind = "finish" => j.row.result)
           /\ db' = PutRow(db, j.s, j.w, j.row)
           /\ UNCHANGED <<timers, waitTest, waitAll, sent>>
           /\ \/ Leaves
              \/ \E k \in Job : GoesOn(k) /\ Fit(k) /\ Alike(j, k) /\ k.row = j.row /\ j.kind = "finish"
              \/ Driven(j) /\ FitCommand(Handed(j)) /\ j.kind = "finish"
<1> DEFINE j == Head(fifo)
<1>1. /\ fifo # <<>> /\ j \in Job /\ JobOK(j) /\ j.at = "setWin"
      /\ j.s \in Session /\ j.w \in Win /\ j.row \in Row /\ Fit(j)
      /\ j.kind \in {"finish", "error"}
  BY AnswersFacts, JobFacts, FitHeads DEF SetWin, JobOK
<1>2. Knows(j) /\ (j.kind = "finish" => j.row.result)
  BY <1>1 DEF Knows, Fit
<1>3. db' = PutRow(db, j.s, j.w, j.row) /\ UNCHANGED <<timers, waitTest, waitAll, sent>>
  BY DEF SetWin
<1>4. ASSUME j.kind = "finish", NEW c \in {"winKeys", "getClient"}
      PROVE  Open(j, c) \in Job /\ Fit(Open(j, c)) /\ Alike(j, Open(j, c)) /\ Open(j, c).row = j.row
  <2>1. ThenOK(Open(j, c))
    BY <1>1, <1>4 DEF ThenOK, Open, Job
  <2> QED
    BY <1>1, <1>2, <1>4, <2>1, OpenFit DEF Alike
<1>5. CASE j.kind = "error" /\ fifo' = Tail(fifo) /\ UNCHANGED <<driver, clients>>
  BY <1>1, <1>2, <1>3, <1>5 DEF Leaves
<1>6. CASE j.kind = "finish" /\ GoOn(Open(j, "winKeys")) /\ UNCHANGED <<driver, clients>>
  BY <1>1, <1>2, <1>3, <1>4, <1>6 DEF GoesOn, GoOn
<1>7. CASE j.kind = "finish" /\ WithClient(j, Tail(fifo))
  <2>1. CASE Drive(j) /\ fifo' = Tail(fifo)
    <3>1. FitCommand(Handed(j))
      BY <1>1, <1>2, <1>7, HandedFacts DEF FitCommand, Opening, Fit
    <3> QED
      BY <1>1, <1>2, <1>3, <1>7, <2>1, <3>1 DEF Driven
  <2>2. CASE fifo' = Append(Tail(fifo), Open(j, "getClient")) /\ UNCHANGED <<driver, clients>>
    BY <1>1, <1>2, <1>3, <1>4, <1>7, <2>2 DEF GoesOn
  <2> QED
    BY <1>7, <2>1, <2>2 DEF WithClient
<1> QED
  BY <1>5, <1>6, <1>7 DEF SetWin

-----------------------------------------------------------------------------
(***************************************************************************)
(* Browsers.                                                               *)
(***************************************************************************)
LEMMA OpenAnsweredJob ==
    ASSUME Inv, SessionsOK, RoutesOK, NEW s \in Session, OpenAnswered(s)
    PROVE  LET j == Head(driver[s]).job IN
           /\ j \in Job /\ Opening(j) /\ j.s = s
           /\ UNCHANGED <<db, timers, waitTest, waitAll, sent>>
           /\ \E k \in Job : Returns(s, k) /\ Fit(k) /\ Alike(j, k)
<1> DEFINE j == Head(driver[s]).job
           k == IF j.kind = "newRoot" THEN Open(j, "addWin") ELSE Ask(j, "addWin")
<1>1. /\ driver[s] # <<>> /\ BrowserCommand(j) = "open"
      /\ driver' = [driver EXCEPT ![s] = Tail(@)] /\ fifo' = Append(fifo, k)
      /\ UNCHANGED <<db, timers, waitTest, waitAll, sent>>
  BY DEF OpenAnswered, BrowserAnswers
<1>2. j \in Job /\ ThenOK(j) /\ j.s = s
  BY <1>1, FitHeads DEF FitCommand
<1>3. Opening(j)
  BY <1>1 DEF BrowserCommand, Opening
<1>4. k \in Job /\ Fit(k) /\ Alike(j, k)
  <2>1. CASE j.kind = "newRoot"
    BY <1>2, <2>1 DEF Open, Job, Command, Continuation, Fit, ThenOK, AtOK, Opening, Alike
  <2>2. CASE j.kind # "newRoot"
    BY <1>2, <1>3, <2>2 DEF Ask, Job, Command, Continuation, Fit, ThenOK, AtOK, Opening, Alike
  <2> QED
    BY <2>1, <2>2
<1> HIDE DEF k
<1> QED
  BY <1>1, <1>2, <1>3, <1>4 DEF Returns

LEMMA CloseAnsweredJob ==
    ASSUME Inv, SessionsOK, RoutesOK, NEW s \in Session, CloseAnswered(s)
    PROVE  LET b == Head(driver[s]) IN
           /\ Dismissed(s)
           /\ b \in BrowserJob /\ b.job \in Job /\ b.job.s = s /\ b.job.kind = "finish" /\ b.job.w \in Win
           /\ b.performed /\ BrowserCommand(b.job) = "close"
           /\ UNCHANGED <<fault, db, fifo, clients, timers, waitAll>>
<1> DEFINE b == Head(driver[s])
<1>1. /\ driver[s] # <<>> /\ BrowserCommand(b.job) = "close" /\ b.performed
      /\ driver' = [driver EXCEPT ![s] = Tail(@)]
      /\ UNCHANGED <<fault, db, fifo, clients, timers, waitAll>>
  BY DEF CloseAnswered, BrowserAnswers
<1>2. b \in BrowserJob /\ b.job \in Job /\ b.job.s = s /\ JobOK(b.job)
  BY <1>1, FitHeads, PendingFacts
<1>3. b.job.kind = "finish" /\ b.job.w \in Win
  BY <1>1, <1>2 DEF BrowserCommand, JobOK
<1> QED
  BY <1>1, <1>2, <1>3 DEF Dismissed

LEMMA EndAnsweredJob ==
    ASSUME Inv, SessionsOK, RoutesOK, NEW s \in Session, EndAnswered(s)
    PROVE  /\ Ended(s) /\ ~ Opening(Head(driver[s]).job) /\ Head(driver[s]).job \in Job
           /\ BrowserCommand(Head(driver[s]).job) = "end" /\ Head(driver[s]).job.s = s
           /\ timers' = timers \ {s} /\ UNCHANGED <<db, waitTest, waitAll>>
  BY FitHeads DEF EndAnswered, BrowserAnswers, Ended, Opening, BrowserCommand

LEMMA PerformOpenJob ==
    ASSUME Inv, SessionsOK, RoutesOK, NEW s \in Session, PerformOpen(s)
    PROVE  LET j == Head(driver[s]).job IN
           /\ j \in Job /\ Opening(j) /\ j.s = s /\ j.w = 0 /\ j.p \in Win \cup {0} /\ s \in alive
           /\ driver[s] # <<>>
           /\ \E w \in Win :
                /\ Unopened(s, w) /\ PerformedAs(s, [j EXCEPT !.w = w])
                /\ page' = [page EXCEPT ![s][w] = NewPage(w, j.p)]
           /\ UNCHANGED <<db, timers, waitTest, waitAll, sent, console, alive, inbox>>
<1> DEFINE j == Head(driver[s]).job
<1>1. driver[s] # <<>> /\ ~ Head(driver[s]).performed /\ BrowserCommand(j) = "open"
  BY DEF PerformOpen, Pending
<1>2. j \in Job /\ j.s = s /\ FitCommand(Head(driver[s]))
  BY <1>1, FitHeads
<1>3. Opening(j) /\ j.w = 0 /\ j.p \in Win \cup {0}
  BY <1>1, <1>2, JobFacts DEF BrowserCommand, Opening, FitCommand
<1> QED
  BY <1>1, <1>2, <1>3 DEF PerformOpen, PerformedAs

LEMMA PerformOpenAfterEndJob ==
    ASSUME Inv, SessionsOK, RoutesOK, NEW s \in Session, PerformOpenAfterEnd(s)
    PROVE  LET j == Head(driver[s]).job IN
           /\ Dismissed(s) /\ j \in Job /\ Opening(j) /\ j.w = 0 /\ j.s = s
           /\ UNCHANGED <<db, timers, waitTest, waitAll, sent, console, alive, page, inbox>>
<1> DEFINE j == Head(driver[s]).job
<1>1. driver[s] # <<>> /\ ~ Head(driver[s]).performed /\ BrowserCommand(j) = "open"
  BY DEF PerformOpenAfterEnd, Pending
<1>2. j \in Job /\ j.s = s /\ FitCommand(Head(driver[s]))
  BY <1>1, FitHeads
<1>3. Opening(j) /\ j.w = 0
  BY <1>1, <1>2 DEF BrowserCommand, Opening, FitCommand
<1> QED
  BY <1>1, <1>2, <1>3 DEF PerformOpenAfterEnd, Dismissed, runVars

LEMMA PerformCloseJob ==
    ASSUME Inv, SessionsOK, RoutesOK, NEW s \in Session, PerformClose(s)
    PROVE  LET j == Head(driver[s]).job IN
           /\ PerformedAs(s, j) /\ j \in Job /\ j.s = s /\ j.kind = "finish" /\ Knows(j) /\ j.w \in Win
           /\ page' = [page EXCEPT ![s][j.w] = Closed(@)]
           /\ FitCommand([job |-> j, performed |-> TRUE])
           /\ UNCHANGED <<db, timers, waitTest, waitAll, sent, console, alive, inbox>>
<1> DEFINE j == Head(driver[s]).job
<1>1. driver[s] # <<>> /\ BrowserCommand(j) = "close"
  BY DEF PerformClose, Pending
<1>2. j \in Job /\ j.s = s /\ FitCommand(Head(driver[s])) /\ JobOK(j)
  BY <1>1, FitHeads, PendingFacts
<1>3. j.kind = "finish" /\ j.w \in Win
  BY <1>1, <1>2 DEF BrowserCommand, JobOK
<1>4. Knows(j) /\ FitCommand([job |-> j, performed |-> TRUE])
  BY <1>2, <1>3 DEF FitCommand, Opening
<1> QED
  BY <1>1, <1>2, <1>3, <1>4 DEF PerformClose, PerformedAs

LEMMA PerformEndJob ==
    ASSUME Inv, SessionsOK, RoutesOK, NEW s \in Session, PerformEnd(s)
    PROVE  LET j == Head(driver[s]).job IN
           /\ PerformedAs(s, j) /\ j \in Job /\ j.s = s /\ BrowserCommand(j) = "end" /\ ~ Opening(j)
           /\ j.kind = "timeout" \/ (Knows(j) /\ j.kind = "finish" /\ j.row.parent = NoParent)
           /\ alive' = alive \ {s}
           /\ page' = [page EXCEPT ![s] = [w \in Win |-> Closed(@[w])]]
           /\ FitCommand([job |-> j, performed |-> TRUE])
           /\ UNCHANGED <<db, timers, waitTest, waitAll, sent, console, inbox>>
<1> DEFINE j == Head(driver[s]).job
<1>1. driver[s] # <<>> /\ BrowserCommand(j) = "end"
  BY DEF PerformEnd, Pending
<1>2. j \in Job /\ j.s = s /\ FitCommand(Head(driver[s]))
  BY <1>1, FitHeads
<1>3. ~ Opening(j) /\ (j.kind = "timeout" \/ (Knows(j) /\ j.kind = "finish" /\ j.row.parent = NoParent))
  BY <1>1, <1>2 DEF BrowserCommand, FitCommand, Opening
<1>4. FitCommand([job |-> j, performed |-> TRUE])
  BY <1>2, <1>3 DEF FitCommand, Opening
<1> QED
  BY <1>1, <1>2, <1>3, <1>4 DEF PerformEnd, PerformedAs

-----------------------------------------------------------------------------
(***************************************************************************)
(* New jobs.                                                               *)
(***************************************************************************)
LEMMA NewJobFit ==
    ASSUME NEW s \in Session
    PROVE  /\ LET k == Open(NewJob("newRoot", s, 0, NoParent), "setClient") IN
              k \in Job /\ Fit(k) /\ k.kind = "newRoot" /\ k.s = s /\ k.p = NoParent /\ k.w = 0
           /\ \A p \in Win : LET k == Open(NewJob("newChild", s, 0, p), "runTest") IN
              k \in Job /\ Fit(k) /\ k.kind = "newChild" /\ k.s = s /\ k.p = p /\ k.w = 0
           /\ \A w \in Win, c \in {"finish", "error"} : LET k == Open(NewJob(c, s, w, 0), "getWin") IN
              k \in Job /\ Fit(k) /\ k.kind = c /\ k.s = s /\ ~ Knows(k)
           /\ LET k == Open(NewJob("timeout", s, 0, 0), "allResults") IN
              k \in Job /\ Fit(k) /\ k.kind = "timeout" /\ k.s = s /\ ~ Knows(k)
           /\ \A c \in {"ownKeys", "allKeys"} : LET k == Destroy(s, c) IN
              k \in Job /\ Fit(k) /\ k.kind = "destroy"
<1>1. NoRow \in Row /\ 0 \in Win \cup {0} /\ NoParent = 0
  BY RowFacts DEF NoParent
<1>2. LET k == Open(NewJob("newRoot", s, 0, NoParent), "setClient") IN
      k \in Job /\ Fit(k) /\ k.kind = "newRoot" /\ k.s = s /\ k.p = NoParent /\ k.w = 0
  BY <1>1 DEF NewJob, Open, Job, JobKind, Command, Continuation, Fit, ThenOK, AtOK, Opening
<1>3. ASSUME NEW p \in Win
      PROVE  LET k == Open(NewJob("newChild", s, 0, p), "runTest") IN
             k \in Job /\ Fit(k) /\ k.kind = "newChild" /\ k.s = s /\ k.p = p /\ k.w = 0
  BY <1>1 DEF NewJob, Open, Job, JobKind, Command, Continuation, Fit, ThenOK, AtOK, Opening
<1>4. ASSUME NEW w \in Win, NEW c \in {"finish", "error"}
      PROVE  LET k == Open(NewJob(c, s, w, 0), "getWin") IN
             k \in Job /\ Fit(k) /\ k.kind = c /\ k.s = s /\ ~ Knows(k)
  BY <1>1 DEF NewJob, Open, Job, JobKind, Command, Continuation, Fit, ThenOK, AtOK, Opening, Knows
<1>5. LET k == Open(NewJob("timeout", s, 0, 0), "allResults") IN
      k \in Job /\ Fit(k) /\ k.kind = "timeout" /\ k.s = s /\ ~ Knows(k)
  BY <1>1 DEF NewJob, Open, Job, JobKind, Command, Continuation, Fit, ThenOK, AtOK, Opening, Knows
<1>6. ASSUME NEW c \in {"ownKeys", "allKeys"}
      PROVE  LET k == Destroy(s, c) IN k \in Job /\ Fit(k) /\ k.kind = "destroy"
  BY <1>1 DEF Destroy, Ask, NewJob, Job, JobKind, Command, Continuation, Fit, ThenOK, AtOK, Opening
<1> QED
  BY <1>2, <1>3, <1>4, <1>5, <1>6

\* Consoles and pages move no job and change no row, no timer and no browser
IdleStep ==
    /\ UNCHANGED <<db, fifo, driver, timers, alive>>
    /\ \A s \in Session : console'[s] \in NotStarted => console[s] \in NotStarted

LEMMA StepCases ==
    ASSUME Inv, SessionsOK, RoutesOK, [Next]_vars
    PROVE  \/ IdleStep
           \/ QuietStep
           \/ (AddWin \/ GetWin \/ SetWin) /\ UNCHANGED runVars
           \/ \E s \in Session :
                 \/ BrowserReady(s)
                 \/ PerformOpen(s) \/ PerformOpenAfterEnd(s) \/ PerformClose(s) \/ PerformEnd(s)
                 \/ (OpenAnswered(s) \/ CloseAnswered(s) \/ EndAnswered(s)) /\ UNCHANGED runVars
                 \/ MinuteOver(s)
                 \/ \E w \in Win : NEW_TEST(s, w) /\ Receive(s, w)
                 \/ \E w \in Win : (TEST_FINISH(s, w) \/ TEST_ERROR(s, w)) /\ Receive(s, w)
<1>1. CASE RedisStep
  BY <1>1, QuietAnswers DEF RedisStep, RedisAnswer
<1>2. ASSUME NEW s \in Session,
             Click(s) \/ ConsoleOpened(s) \/ ConsoleSubscribes(s) \/ ConsoleReported(s)
      PROVE  IdleStep
  <2>1. console \in [Session -> ConsoleState]
    BY DEF Inv, TypeOK, ConsoleState
  <2>2. UNCHANGED <<db, fifo, driver, timers, alive>>
    BY <1>2 DEF Click, ConsoleOpened, ConsoleSubscribes, ConsoleReported, WAIT_ALL_TEST, serverVars
  <2>3. \A r \in Session : console'[r] \in NotStarted => console[r] \in NotStarted
    BY <1>2, <2>1 DEF Click, ConsoleOpened, ConsoleSubscribes, ConsoleReported, NotStarted
  <2> QED
    BY <2>2, <2>3 DEF IdleStep
<1>3. ASSUME NEW s \in Session, NEW w \in Win,
             PageStep(s, w) \/ ShowError(s, w) \/ SendError(s, w) \/ Hang(s, w)
      PROVE  IdleStep
  BY <1>3 DEF PageStep, StartTest, SendNewTest, PageOpened, PageFinished, SendFinish, ShowError, SendError,
              Hang, Deliver, serverVars, IdleStep
<1>4. ASSUME NEW s \in Session, NEW w \in Win, Receive(s, w)
      PROVE  \/ IdleStep
             \/ NEW_TEST(s, w) \/ TEST_FINISH(s, w) \/ TEST_ERROR(s, w)
  BY <1>4 DEF Receive, WAIT_TEST, IdleStep
<1>5. CASE UNCHANGED vars
  BY <1>5 DEF vars, IdleStep
<1> QED
  BY <1>1, <1>2, <1>3, <1>4, <1>5
     DEF Next, Chance, ConsoleStep, BrowserStep, AnswerStep

LEMMA BrowserReadyJob ==
    ASSUME Inv, NEW s \in Session, BrowserReady(s)
    PROVE  /\ \E k \in Job : Begins(k) /\ Fit(k) /\ k.kind = "newRoot" /\ k.s = s /\ k.p = NoParent /\ k.w = 0
           /\ console[s] \in NotStarted /\ console'[s] \notin NotStarted /\ alive' = alive \cup {s}
           /\ \A r \in Session \ {s} : console'[r] = console[r]
           /\ UNCHANGED <<db, timers, waitTest, waitAll, sent, page, inbox>>
<1>1. /\ Begins(Open(NewJob("newRoot", s, 0, NoParent), "setClient"))
      /\ console[s] = "booting" /\ console' = [console EXCEPT ![s] = "started"]
      /\ alive' = alive \cup {s}
      /\ UNCHANGED <<db, timers, waitTest, waitAll, sent, page, inbox>>
  BY DEF BrowserReady, NewSession, Queue, Begins
<1>2. /\ console[s] \in NotStarted /\ console'[s] \notin NotStarted
      /\ \A r \in Session \ {s} : console'[r] = console[r]
  BY <1>1 DEF Inv, TypeOK, NotStarted
<1> QED
  BY <1>1, <1>2, NewJobFit

LEMMA MinuteOverJob ==
    ASSUME Inv, NEW s \in Session, MinuteOver(s)
    PROVE  /\ \E k \in Job : Begins(k) /\ Fit(k) /\ k.kind = "timeout" /\ k.s = s /\ ~ Knows(k)
           /\ s \in timers /\ timers' = timers \ {s}
           /\ UNCHANGED <<db, waitTest, waitAll, sent, console, alive, page, inbox>>
<1>1. /\ Begins(Open(NewJob("timeout", s, 0, 0), "allResults"))
      /\ s \in timers /\ timers' = timers \ {s}
      /\ UNCHANGED <<db, waitTest, waitAll, sent, console, alive, page, inbox>>
  BY DEF MinuteOver, Timeout, Begins, runVars
<1> QED
  BY <1>1, NewJobFit

LEMMA ReceivedJob ==
    ASSUME Inv, NEW s \in Session, NEW w \in Win,
           NEW_TEST(s, w) \/ TEST_FINISH(s, w) \/ TEST_ERROR(s, w)
    PROVE  /\ UNCHANGED <<db, timers, waitTest, waitAll, sent>>
           /\ NEW_TEST(s, w) => \E k \in Job :
                 Begins(k) /\ Fit(k) /\ k.kind = "newChild" /\ k.s = s /\ k.p = w /\ k.w = 0
           /\ TEST_FINISH(s, w) => \E k \in Job :
                 Begins(k) /\ Fit(k) /\ k.kind = "finish" /\ k.s = s /\ ~ Knows(k)
           /\ TEST_ERROR(s, w) => \E k \in Job :
                 Begins(k) /\ Fit(k) /\ k.kind = "error" /\ k.s = s /\ ~ Knows(k)
<1>1. NEW_TEST(s, w) => Begins(Open(NewJob("newChild", s, 0, w), "runTest"))
  BY DEF NEW_TEST, Queue, Begins
<1>2. TEST_FINISH(s, w) => Begins(Open(NewJob("finish", s, w, 0), "getWin"))
  BY DEF TEST_FINISH, Queue, Begins
<1>3. TEST_ERROR(s, w) => Begins(Open(NewJob("error", s, w, 0), "getWin"))
  BY DEF TEST_ERROR, Queue, Begins
<1>4. UNCHANGED <<db, timers, waitTest, waitAll, sent>>
  BY DEF NEW_TEST, TEST_FINISH, TEST_ERROR, Queue
<1> QED
  BY <1>1, <1>2, <1>3, <1>4, NewJobFit

-----------------------------------------------------------------------------
(***************************************************************************)
(* Every step keeps the routes.                                            *)
(***************************************************************************)
Tidy(s) == Arrive(s, Misfit, MisfitCommand, FALSE, FALSE)

LEMMA FitMoves ==
    ASSUME Inv, NEW s \in Session
    PROVE  /\ fifo' = fifo /\ driver' = driver => Tidy(s)
           /\ Leaves => Tidy(s)
           /\ \A k \in Job : Fit(k) /\ (GoesOn(k) \/ Begins(k)) => Tidy(s)
           /\ \A k \in Job : FitCommand(Handed(k)) /\ Driven(k) => Tidy(s)
           /\ \A r \in Session : Dismissed(r) \/ Ended(r) => Tidy(s)
           /\ \A r \in Session, k \in Job : Fit(k) /\ Returns(r, k) => Tidy(s)
           /\ \A r \in Session, k \in Job :
                 FitCommand([job |-> k, performed |-> TRUE]) /\ PerformedAs(r, k) => Tidy(s)
<1>0. \A k : (k \in Misfit => ~ Fit(k)) /\ (k \in MisfitCommand => ~ FitCommand(k))
  BY DEF Misfit, MisfitCommand
<1>1. (fifo' = fifo /\ driver' = driver) \/ Leaves => Tidy(s)
  BY FifoArrivals DEF Tidy
<1>2. ASSUME NEW k \in Job, Fit(k), GoesOn(k) \/ Begins(k) PROVE Tidy(s)
  BY <1>0, <1>2, FifoArrivals DEF Tidy, Arrive
<1>3. ASSUME NEW k \in Job, FitCommand(Handed(k)), Driven(k) PROVE Tidy(s)
  <2>1. Arrive(s, Misfit, MisfitCommand, FALSE, k.s = s /\ Handed(k) \in MisfitCommand)
    BY <1>3, DrivenArrives DEF Handed
  <2> QED
    BY <1>0, <1>3, <2>1 DEF Tidy, Arrive
<1>4. ASSUME NEW r \in Session, Dismissed(r) PROVE Tidy(s)
  BY <1>4, AnswerArrivals DEF Tidy
<1>5. ASSUME NEW r \in Session, Ended(r) PROVE Tidy(s)
  <2>1. Destroy(r, "ownKeys") \notin Misfit /\ Destroy(r, "allKeys") \notin Misfit
    BY <1>0, NewJobFit
  <2> QED
    BY <1>5, <2>1, AnswerArrivals DEF Tidy, Arrive
<1>6. ASSUME NEW r \in Session, NEW k \in Job, Fit(k), Returns(r, k) PROVE Tidy(s)
  BY <1>0, <1>6, AnswerArrivals DEF Tidy, Arrive
<1>7. ASSUME NEW r \in Session, NEW k \in Job, FitCommand([job |-> k, performed |-> TRUE]), PerformedAs(r, k)
      PROVE  Tidy(s)
  <2>1. [job |-> k, performed |-> TRUE] \notin MisfitCommand
    BY <1>0, <1>7
  <2>2. Arrive(s, Misfit, MisfitCommand, FALSE, r = s /\ [job |-> k, performed |-> TRUE] \in MisfitCommand)
    BY <1>7, PerformedArrives
  <2> QED
    BY <2>1, <2>2 DEF Tidy, Arrive
<1> QED
  BY <1>1, <1>2, <1>3, <1>4, <1>5, <1>6, <1>7

LEMMA RoutesKept ==
    ASSUME Inv, SessionsOK, RoutesOK, [Next]_vars
    PROVE  RoutesOK'
<1> SUFFICES ASSUME NEW s \in Session PROVE Tidy(s)
  BY DEF RoutesOK, Arrive, Tidy
<1>1. CASE IdleStep \/ QuietStep
  BY <1>1, FitMoves DEF IdleStep, QuietStep, JobMoves
<1>2. CASE AddWin \/ GetWin
  BY <1>2, AddWinJob, GetWinJob, FitMoves
<1>3. CASE SetWin
  BY <1>3, SetWinJob, FitMoves
<1>4. ASSUME NEW r \in Session, BrowserReady(r) \/ MinuteOver(r) PROVE Tidy(s)
  BY <1>4, BrowserReadyJob, MinuteOverJob, FitMoves
<1>5. ASSUME NEW r \in Session, NEW w \in Win, NEW_TEST(r, w) \/ TEST_FINISH(r, w) \/ TEST_ERROR(r, w)
      PROVE  Tidy(s)
  BY <1>5, ReceivedJob, FitMoves
<1>6. ASSUME NEW r \in Session, PerformOpen(r) PROVE Tidy(s)
  <2> DEFINE j == Head(driver[r]).job
  <2>1. PICK w \in Win : PerformedAs(r, [j EXCEPT !.w = w])
    BY <1>6, PerformOpenJob
  <2> DEFINE k == [j EXCEPT !.w = w]
  <2>2. /\ j \in Job /\ Opening(j) /\ driver[r] # <<>>
    BY <1>6, PerformOpenJob
  <2>3. ThenOK(j)
    BY <2>2, FitHeads DEF FitCommand
  <2>4. k \in Job /\ FitCommand([job |-> k, performed |-> TRUE])
    BY <2>2, <2>3 DEF Job, FitCommand, ThenOK, Opening
  <2> HIDE DEF k
  <2>5. PerformedAs(r, k)
    BY <2>1 DEF k
  <2> QED
    BY <2>4, <2>5, FitMoves
<1>7. ASSUME NEW r \in Session, PerformClose(r) \/ PerformEnd(r) PROVE Tidy(s)
  BY <1>7, PerformCloseJob, PerformEndJob, FitMoves
<1>8. ASSUME NEW r \in Session, PerformOpenAfterEnd(r) \/ CloseAnswered(r) \/ EndAnswered(r)
      PROVE  Tidy(s)
  BY <1>8, PerformOpenAfterEndJob, CloseAnsweredJob, EndAnsweredJob, FitMoves
<1>9. ASSUME NEW r \in Session, OpenAnswered(r) PROVE Tidy(s)
  BY <1>9, OpenAnsweredJob, FitMoves
<1> QED
  BY <1>1, <1>2, <1>3, <1>4, <1>5, <1>6, <1>7, <1>8, <1>9, StepCases

-----------------------------------------------------------------------------
(***************************************************************************)
(* A set of jobs stays when a step puts no job in it that was not there:   *)
(* if none was held none is, and if it was solitary it is.                 *)
(***************************************************************************)
Stays(s, S) ==
    /\ Held(fifo', driver'[s], S) => Held(fifo, driver[s], S)
    /\ Solitary(fifo, driver[s], S) => Solitary(fifo', driver'[s], S)

LEMMA MovesStay ==
    ASSUME Inv, NEW s \in Session, NEW S \in SUBSET JobsOf(s)
    PROVE  /\ fifo' = fifo /\ driver' = driver => Stays(s, S)
           /\ Leaves => Stays(s, S)
           /\ \A k \in Job : GoesOn(k) /\ (k \in S => Head(fifo) \in S) => Stays(s, S)
           /\ \A k \in Job : Begins(k) /\ k \notin S => Stays(s, S)
           /\ \A k \in Job : Driven(k) /\ (k \in S => Head(fifo) \in S) => Stays(s, S)
           /\ \A r \in Session : Dismissed(r) \/ Ended(r) => Stays(s, S)
           /\ \A r \in Session, k \in Job :
                 Returns(r, k) /\ (k \in S => Head(driver[r]).job \in S) => Stays(s, S)
           /\ \A r \in Session, k \in Job :
                 PerformedAs(r, k) /\ k.s = r /\ (k \in S => Head(driver[r]).job \in S) => Stays(s, S)
<1>1. (fifo' = fifo /\ driver' = driver) \/ Leaves => Stays(s, S)
  BY JobsTurn DEF Turn, Stays
<1>2. ASSUME NEW k \in Job, \/ GoesOn(k) /\ (k \in S => Head(fifo) \in S)
                            \/ Begins(k) /\ k \notin S
      PROVE  Stays(s, S)
  BY <1>2, JobsTurn DEF Turn, Stays
<1>3. ASSUME NEW k \in Job, Driven(k), k \in S => Head(fifo) \in S PROVE Stays(s, S)
  BY <1>3, DrivenTurn DEF Turn, Stays
<1>4. ASSUME NEW r \in Session, Dismissed(r) \/ Ended(r) PROVE Stays(s, S)
  BY <1>4, AnsweredTurn DEF Turn, Stays
<1>5. ASSUME NEW r \in Session, NEW k \in Job, Returns(r, k), k \in S => Head(driver[r]).job \in S
      PROVE  Stays(s, S)
  BY <1>5, AnsweredTurn DEF Turn, Stays
<1>6. ASSUME NEW r \in Session, NEW k \in Job, PerformedAs(r, k), k.s = r,
             k \in S => Head(driver[r]).job \in S
      PROVE  Stays(s, S)
  BY <1>6, PerformedTurn DEF Turn, Stays
<1> QED
  BY <1>1, <1>2, <1>3, <1>4, <1>5, <1>6

-----------------------------------------------------------------------------
(***************************************************************************)
(* The timer.  Until the row of its first window is written a session is   *)
(* early: its browser runs, its timer is off, and no job of it can end the *)
(* browser, for lack of a root row and of a timeout.                       *)
(***************************************************************************)
RootJobs(s) == {j \in JobsOf(s) : j.kind = "newRoot"}
LateJobs(s) ==
    {j \in JobsOf(s) : j.kind = "timeout" \/ (Knows(j) /\ j.row.parent = NoParent)}
EndCommands == {b \in BrowserJob : BrowserCommand(b.job) = "end"}

Early(s) == console[s] \in NotStarted \/ Held(fifo, driver[s], RootJobs(s))

EarlyOK(s) ==
    /\ s \notin timers
    /\ ~ Held(fifo, driver[s], LateJobs(s))
    /\ \A w \in Win : Exists(db, WinKey(s, w)) => RowOf(db, s, w).parent # NoParent

TimerOK(s) ==
    /\ Solitary(fifo, driver[s], RootJobs(s))
    /\ console[s] \in NotStarted => ~ Held(fifo, driver[s], RootJobs(s))
    /\ Held(fifo, driver[s], RootJobs(s)) => s \in alive
    /\ Early(s) => EarlyOK(s)
    /\ s \in timers => s \in alive \/ Has(driver[s], EndCommands)

TimersOK == \A s \in Session : TimerOK(s)

LEMMA TimerSets ==
    \A s \in Session : RootJobs(s) \in SUBSET JobsOf(s) /\ LateJobs(s) \in SUBSET JobsOf(s)
  BY DEF RootJobs, LateJobs

\* A step that starts no session and ends no browser
Calm(s) ==
    /\ console'[s] \in NotStarted => console[s] \in NotStarted
    /\ s \in alive => s \in alive'
    /\ s \in timers' => s \in timers
    /\ Stays(s, RootJobs(s))

\* It gives an early session no root row and no job that could end it
CalmEarly(s) ==
    /\ Stays(s, LateJobs(s))
    /\ \A w \in Win : Exists(db', WinKey(s, w)) /\ RowOf(db', s, w).parent = NoParent =>
          Exists(db, WinKey(s, w)) /\ RowOf(db, s, w).parent = NoParent

LEMMA CalmKeeps ==
    ASSUME NEW s \in Session, TimerOK(s), Calm(s), Early(s) => CalmEarly(s),
           Has(driver[s], EndCommands) /\ s \in timers' => Has(driver'[s], EndCommands)
    PROVE  TimerOK(s)'
  BY DEF TimerOK, Early, EarlyOK, Calm, CalmEarly, Stays

\* What the moves of jobs leave of the end commands
LEMMA EndsStay ==
    ASSUME Inv, NEW s \in Session
    PROVE  /\ driver' = driver => Has(driver'[s], EndCommands) = Has(driver[s], EndCommands)
           /\ \A k \in Job : Driven(k) =>
                 (Has(driver[s], EndCommands) => Has(driver'[s], EndCommands))
           /\ \A r \in Session :
                 /\ driver[r] # <<>> /\ driver' = [driver EXCEPT ![r] = Tail(@)]
                 /\ BrowserCommand(Head(driver[r]).job) # "end" \/ r # s
                 => (Has(driver[s], EndCommands) => Has(driver'[s], EndCommands))
           /\ \A r \in Session, k \in Job :
                 PerformedAs(r, k) /\ BrowserCommand(k) = BrowserCommand(Head(driver[r]).job)
                 => (Has(driver[s], EndCommands) => Has(driver'[s], EndCommands))
<1>1. driver \in [Session -> Seq(BrowserJob)] /\ driver[s] \in Seq(BrowserJob)
  BY DEF Inv, TypeOK
<1>2. ASSUME NEW k \in Job, Driven(k), Has(driver[s], EndCommands)
      PROVE  Has(driver'[s], EndCommands)
  <2>1. k.s \in Session /\ Handed(k) \in BrowserJob /\ driver' = [driver EXCEPT ![k.s] = Append(@, Handed(k))]
    BY <1>2, JobFacts, HandedFacts DEF Driven, Drive, Handed
  <2>2. driver'[s] = IF k.s = s THEN Append(driver[s], Handed(k)) ELSE driver[s]
    BY <1>1, <2>1
  <2> QED
    BY <1>1, <1>2, <2>1, <2>2, AppendHas
<1>3. ASSUME NEW r \in Session, driver[r] # <<>>, driver' = [driver EXCEPT ![r] = Tail(@)],
             BrowserCommand(Head(driver[r]).job) # "end" \/ r # s, Has(driver[s], EndCommands)
      PROVE  Has(driver'[s], EndCommands)
  <2>1. driver'[s] = IF r = s THEN Tail(driver[s]) ELSE driver[s]
    BY <1>1, <1>3
  <2>2. r = s => Head(driver[s]) \notin EndCommands
    BY <1>3 DEF EndCommands
  <2> QED
    BY <1>1, <1>3, <2>1, <2>2, TailHas
<1>4. ASSUME NEW r \in Session, NEW k \in Job, PerformedAs(r, k),
             BrowserCommand(k) = BrowserCommand(Head(driver[r]).job), Has(driver[s], EndCommands)
      PROVE  Has(driver'[s], EndCommands)
  <2> DEFINE b == [job |-> k, performed |-> TRUE]
             e == [driver[s] EXCEPT ![1] = b]
  <2>1. b \in BrowserJob /\ b.job = k
    BY DEF BrowserJob
  <2>2. driver[r] # <<>> /\ driver' = [driver EXCEPT ![r] = [@ EXCEPT ![1] = b]]
    BY <1>4 DEF PerformedAs, Performed
  <2>3. r = s => driver'[s] = e
    BY <1>1, <2>2
  <2>4. r # s => driver'[s] = driver[s]
    BY <1>1, <2>2
  <2> HIDE DEF b
  <2>5. r = s => (Has(e, EndCommands) <=> b \in EndCommands \/ Has(Tail(driver[s]), EndCommands))
    BY <1>1, <2>1, <2>2, ExchangeHas
  <2>6. r = s => (Has(driver[s], EndCommands) <=>
                  Head(driver[s]) \in EndCommands \/ Has(Tail(driver[s]), EndCommands))
    BY <1>1, <2>2, TailHas
  <2>7. r = s /\ Head(driver[s]) \in EndCommands => b \in EndCommands
    BY <1>4, <2>1 DEF EndCommands
  <2> HIDE DEF e
  <2> QED
    BY <1>4, <2>3, <2>4, <2>5, <2>6, <2>7
<1> QED
  BY <1>2, <1>3, <1>4


LEMMA TimerMembers ==
    ASSUME NEW s \in Session, NEW j \in Job, NEW k \in Job
    PROVE  /\ k.kind = j.kind /\ k.s = j.s => (k \in RootJobs(s) <=> j \in RootJobs(s))
           /\ Follows(j, k) => (k \in LateJobs(s) => j \in LateJobs(s))
           /\ Opening(k) /\ Fit(k) => k \notin LateJobs(s)
           /\ k.kind # "newRoot" \/ k.s # s => k \notin RootJobs(s)
           /\ (k.kind # "timeout" /\ ~ Knows(k)) \/ k.s # s => k \notin LateJobs(s)
<1>1. Opening(k) /\ Fit(k) => k \notin LateJobs(s)
  BY DEF Opening, Fit, ThenOK, AtOK, Knows, LateJobs
<1> QED
  BY <1>1 DEF RootJobs, LateJobs, JobsOf, Follows

LEMMA PutRowParent ==
    ASSUME db \in Database, NEW r \in Session, NEW v \in Win, NEW row \in Row, db' = PutRow(db, r, v, row),
           NEW s \in Session, NEW w \in Win
    PROVE  /\ Exists(db', WinKey(s, w)) <=> Exists(db, WinKey(s, w)) \/ (s = r /\ w = v)
           /\ s = r /\ w = v => RowOf(db', s, w).parent = row.parent
           /\ ~ (s = r /\ w = v) => RowOf(db', s, w) = RowOf(db, s, w)
<1>1. db.row \in [Session -> [Win -> Row]]
  BY DEF Database
<1>2. RowOf(db', s, w) = IF s = r /\ w = v
                         THEN IF Exists(db, WinKey(r, v)) THEN Merge(RowOf(db, r, v), row) ELSE row
                         ELSE RowOf(db, s, w)
  BY <1>1 DEF PutRow, RowOf
<1>3. Merge(RowOf(db, r, v), row).parent = row.parent
  BY DEF Merge, Row
<1>4. Exists(db', WinKey(s, w)) <=> Exists(db, WinKey(s, w)) \/ (s = r /\ w = v)
  BY DEF PutRow, Exists, WinKey
<1> QED
  BY <1>2, <1>3, <1>4

LEMMA TimersKept ==
    ASSUME Inv, SessionsOK, RoutesOK, TimersOK, [Next]_vars
    PROVE  TimersOK'
<1> SUFFICES ASSUME NEW s \in Session PROVE TimerOK(s)'
  BY DEF TimersOK
<1> USE TimerSets
<1>0. TimerOK(s) /\ db \in Database /\ fifo \in Seq(Job) /\ driver[s] \in Seq(BrowserJob)
  BY QueuesTyped DEF TimersOK, Inv, TypeOK
<1>1. CASE IdleStep
  BY <1>0, <1>1, MovesStay, CalmKeeps DEF IdleStep, Calm, CalmEarly
<1>2. CASE QuietStep
  <2>1. Stays(s, RootJobs(s)) /\ Stays(s, LateJobs(s))
    <3>1. CASE (fifo' = fifo /\ driver' = driver) \/ Leaves
      BY <3>1, MovesStay
    <3>2. ASSUME NEW k \in Job, GoesOn(k) \/ Driven(k), Follows(Head(fifo), k)
          PROVE  Stays(s, RootJobs(s)) /\ Stays(s, LateJobs(s))
      <4>1. Head(fifo) \in Job
        BY <1>0, <3>2, TailHas DEF GoesOn, Driven
      <4>2. /\ k \in RootJobs(s) => Head(fifo) \in RootJobs(s)
            /\ k \in LateJobs(s) => Head(fifo) \in LateJobs(s)
        BY <3>2, <4>1, TimerMembers DEF Follows
      <4> QED
        BY <3>2, <4>2, MovesStay
    <3> QED
      BY <1>2, <3>1, <3>2 DEF QuietStep, JobMoves
  <2>2. Has(driver[s], EndCommands) => Has(driver'[s], EndCommands)
    BY <1>2, EndsStay DEF QuietStep, JobMoves, Leaves, GoesOn
  <2> QED
    BY <1>0, <1>2, <2>1, <2>2, CalmKeeps DEF QuietStep, RowsStay, Calm, CalmEarly
<1>3. CASE AddWin /\ UNCHANGED runVars
  <2> DEFINE j == Head(fifo)
  <2>1. /\ Leaves /\ j \in Job /\ Opening(j) /\ Fit(j) /\ j.s \in Session /\ j.w \in Win
        /\ j.p \in Win \cup {0} /\ (j.kind = "newRoot" <=> j.p = NoParent)
    BY <1>3, AddWinJob
  <2>2. /\ db' = PutRow(db, j.s, j.w, NewRow(j.p)) /\ NewRow(j.p) \in Row /\ NewRow(j.p).parent = j.p
        /\ timers' = TimersAfter(j) /\ UNCHANGED <<console, alive, driver>>
    BY <1>3, <2>1, RowFacts DEF AddWin, runVars, NewRow
  <2> HIDE DEF j
  <2>3. Stays(s, RootJobs(s)) /\ Stays(s, LateJobs(s))
    BY <2>1, MovesStay
  <2>4. CASE j.s # s \/ j.kind # "newRoot"
    <3>1. CalmEarly(s)
      BY <1>0, <2>1, <2>2, <2>3, <2>4, PutRowParent DEF CalmEarly
    <3>2. Calm(s)
      BY <2>2, <2>3, <2>4 DEF Calm, TimersAfter
    <3> QED
      BY <1>0, <2>2, <3>1, <3>2, CalmKeeps
  <2>5. CASE j.s = s /\ j.kind = "newRoot"
    <3>1. j \in RootJobs(s)
      BY <2>1, <2>5 DEF RootJobs, JobsOf
    <3>2. Turn(s, RootJobs(s), TRUE, FALSE)
      BY <2>1, <3>1, JobsTurn DEF j
    <3>3. /\ Held(fifo, driver[s], RootJobs(s)) /\ ~ Held(fifo', driver'[s], RootJobs(s))
          /\ Solitary(fifo', driver'[s], RootJobs(s))
      BY <1>0, <3>2 DEF Turn, TimerOK
    <3>4. s \in alive /\ console[s] \notin NotStarted
      BY <1>0, <3>3 DEF TimerOK
    <3> QED
      BY <2>2, <3>3, <3>4 DEF TimerOK, Early
  <2> QED
    BY <2>4, <2>5
<1>4. CASE GetWin /\ UNCHANGED runVars
  <2>1. /\ UNCHANGED <<db, timers, console, alive>>
        /\ \/ fifo' = fifo /\ driver' = driver
           \/ \E k \in Job :
                 /\ GoesOn(k) /\ Alike(Head(fifo), k) /\ Head(fifo) \in Job
                 /\ Exists(db, WinKey(k.s, k.w)) /\ k.w \in Win /\ k.s \in Session
                 /\ k.row.parent = RowOf(db, k.s, k.w).parent /\ k.kind \in {"finish", "error"}
    <3>1. fifo # <<>> => Head(fifo) \in Job
      BY <1>0, TailHas
    <3> QED
      BY <1>4, <3>1, GetWinJob DEF runVars, GoesOn
  <2>2. CASE fifo' = fifo /\ driver' = driver
    BY <1>0, <2>1, <2>2, MovesStay, CalmKeeps DEF Calm, CalmEarly
  <2>3. ASSUME NEW k \in Job, GoesOn(k), Alike(Head(fifo), k), Head(fifo) \in Job,
               Exists(db, WinKey(k.s, k.w)), k.w \in Win, k.s \in Session,
               k.row.parent = RowOf(db, k.s, k.w).parent, k.kind \in {"finish", "error"}
        PROVE  TimerOK(s)'
    <3>1. Stays(s, RootJobs(s))
      BY <2>3, MovesStay, TimerMembers DEF Alike
    <3>2. Early(s) => k \notin LateJobs(s)
      BY <1>0, <2>3 DEF TimerOK, EarlyOK, LateJobs, JobsOf
    <3>3. Early(s) => Stays(s, LateJobs(s))
      BY <2>3, <3>2, MovesStay
    <3>4. driver' = driver
      BY <2>3 DEF GoesOn
    <3> QED
      BY <1>0, <2>1, <3>1, <3>3, <3>4, CalmKeeps DEF Calm, CalmEarly
  <2> QED
    BY <2>1, <2>2, <2>3
<1>5. CASE SetWin /\ UNCHANGED runVars
  <2> DEFINE j == Head(fifo)
  <2>1. /\ j \in Job /\ Knows(j) /\ j.kind \in {"finish", "error"} /\ j.s \in Session /\ j.w \in Win
        /\ j.row \in Row /\ db' = PutRow(db, j.s, j.w, j.row)
        /\ UNCHANGED <<timers, console, alive>>
        /\ \/ Leaves
           \/ \E k \in Job : GoesOn(k) /\ Alike(j, k) /\ k.row = j.row
           \/ Driven(j)
    BY <1>5, SetWinJob DEF runVars
  <2>2. Head(fifo) \in LateJobs(s) => Held(fifo, driver[s], LateJobs(s))
    <3>1. fifo # <<>>
      BY <2>1 DEF Leaves, GoesOn, Driven
    <3> QED
      BY <1>0, <3>1, TailHas DEF Held
  <2>3. Early(s) /\ j.s = s => j.row.parent # NoParent
    BY <1>0, <2>1, <2>2 DEF TimerOK, EarlyOK, LateJobs, JobsOf
  <2>4. Stays(s, RootJobs(s)) /\ Stays(s, LateJobs(s))
    <3>1. ASSUME NEW k \in Job, Alike(j, k), k.row = j.row
          PROVE  k \notin RootJobs(s) /\ (k \in LateJobs(s) => j \in LateJobs(s))
      BY <2>1, <3>1 DEF RootJobs, LateJobs, JobsOf, Alike
    <3>2. j \notin RootJobs(s)
      BY <2>1 DEF RootJobs
    <3> HIDE DEF j
    <3>3. ASSUME NEW k \in Job, GoesOn(k), Alike(j, k), k.row = j.row
          PROVE  Stays(s, RootJobs(s)) /\ Stays(s, LateJobs(s))
      BY <3>1, <3>3, MovesStay DEF j
    <3>4. Driven(j) => Stays(s, RootJobs(s)) /\ Stays(s, LateJobs(s))
      BY <2>1, <3>2, MovesStay DEF j
    <3>5. Leaves => Stays(s, RootJobs(s)) /\ Stays(s, LateJobs(s))
      BY MovesStay
    <3> QED
      BY <2>1, <3>3, <3>4, <3>5
  <2>5. Has(driver[s], EndCommands) => Has(driver'[s], EndCommands)
    <3> HIDE DEF j
    <3> QED
      BY <2>1, EndsStay DEF Leaves, GoesOn
  <2> HIDE DEF j
  <2>6. Early(s) => CalmEarly(s)
    BY <1>0, <2>1, <2>3, <2>4, PutRowParent DEF CalmEarly
  <2> QED
    BY <1>0, <2>1, <2>4, <2>5, <2>6, CalmKeeps DEF Calm
<1>6. ASSUME NEW r \in Session, BrowserReady(r) PROVE TimerOK(s)'
  <2>1. PICK k \in Job : Begins(k) /\ Fit(k) /\ k.kind = "newRoot" /\ k.s = r
    BY <1>6, BrowserReadyJob
  <2>2. /\ console[r] \in NotStarted /\ console'[r] \notin NotStarted /\ alive' = alive \cup {r}
        /\ s # r => console'[s] = console[s]
        /\ UNCHANGED <<db, timers, driver>>
    BY <1>6, <2>1, BrowserReadyJob DEF Begins
  <2>3. Stays(s, LateJobs(s))
    <3>1. k \notin LateJobs(s)
      BY <2>1, TimerMembers DEF Opening
    <3> QED
      BY <2>1, <3>1, MovesStay
  <2>4. CASE s # r
    <3>1. Stays(s, RootJobs(s))
      BY <2>1, <2>4, MovesStay, TimerMembers
    <3> QED
      BY <1>0, <2>2, <2>3, <2>4, <3>1, CalmKeeps DEF Calm, CalmEarly
  <2>5. CASE s = r
    <3>1. k \in RootJobs(s)
      BY <2>1, <2>5 DEF RootJobs, JobsOf
    <3>2. Turn(s, RootJobs(s), FALSE, TRUE)
      BY <2>1, <3>1, JobsTurn
    <3>3. Early(s) /\ ~ Held(fifo, driver[s], RootJobs(s))
      BY <1>0, <2>2, <2>5 DEF TimerOK, Early
    <3>4. Solitary(fifo', driver'[s], RootJobs(s))
      BY <1>0, <3>2, <3>3 DEF Turn, TimerOK
    <3>5. EarlyOK(s)'
      BY <1>0, <2>2, <2>3, <3>3 DEF TimerOK, EarlyOK, Stays
    <3>6. s \in alive' /\ console'[s] \notin NotStarted /\ s \notin timers'
      BY <2>2, <2>5, <3>5 DEF EarlyOK
    <3> QED
      BY <3>4, <3>5, <3>6 DEF TimerOK
  <2> QED
    BY <2>4, <2>5
<1>7. ASSUME NEW r \in Session, MinuteOver(r) PROVE TimerOK(s)'
  <2>1. PICK k \in Job : Begins(k) /\ k.kind = "timeout" /\ k.s = r
    BY <1>7, MinuteOverJob
  <2>2. r \in timers /\ timers' = timers \ {r} /\ UNCHANGED <<db, console, alive>> /\ driver' = driver
    BY <1>7, <2>1, MinuteOverJob DEF Begins
  <2>3. Stays(s, RootJobs(s))
    BY <2>1, MovesStay, TimerMembers
  <2>4. Early(s) => Stays(s, LateJobs(s))
    <3>1. Early(s) => k.s # s
      BY <1>0, <2>1, <2>2 DEF TimerOK, EarlyOK
    <3>2. k.s # s => k \notin LateJobs(s)
      BY DEF LateJobs, JobsOf
    <3> QED
      BY <2>1, <3>1, <3>2, MovesStay
  <2> QED
    BY <1>0, <2>2, <2>3, <2>4, CalmKeeps DEF Calm, CalmEarly

<1>8. ASSUME NEW r \in Session, NEW w \in Win,
             NEW_TEST(r, w) \/ TEST_FINISH(r, w) \/ TEST_ERROR(r, w), Receive(r, w)
      PROVE  TimerOK(s)'
  <2>1. PICK k \in Job : Begins(k) /\ Fit(k) /\ k.kind \in {"newChild", "finish", "error"} /\
                         (Opening(k) \/ ~ Knows(k))
    BY <1>8, ReceivedJob DEF Opening
  <2>2. UNCHANGED <<db, timers, console, alive>> /\ driver' = driver
    BY <1>8, <2>1, ReceivedJob DEF Receive, Begins
  <2>3. Stays(s, RootJobs(s)) /\ Stays(s, LateJobs(s))
    BY <2>1, MovesStay, TimerMembers
  <2> QED
    BY <1>0, <2>2, <2>3, CalmKeeps DEF Calm, CalmEarly
<1>9. ASSUME NEW r \in Session, PerformOpen(r) PROVE TimerOK(s)'
  <2> DEFINE j == Head(driver[r]).job
  <2>1. PICK w \in Win : PerformedAs(r, [j EXCEPT !.w = w])
    BY <1>9, PerformOpenJob
  <2> DEFINE k == [j EXCEPT !.w = w]
  <2>2. /\ j \in Job /\ Opening(j) /\ j.s = r /\ UNCHANGED <<db, timers, console, alive>>
    BY <1>9, PerformOpenJob
  <2>3. /\ k \in Job /\ k.kind = j.kind /\ k.s = j.s /\ k.at = j.at /\ k.then = j.then /\ k.row = j.row
    BY <2>2 DEF Job
  <2>4. k \in LateJobs(s) => j \in LateJobs(s)
    BY <2>2, <2>3 DEF LateJobs, JobsOf, Knows
  <2>5. BrowserCommand(k) = BrowserCommand(j)
    BY <2>3 DEF BrowserCommand
  <2> HIDE DEF k
  <2>6. PerformedAs(r, k)
    BY <2>1 DEF k
  <2> HIDE DEF j
  <2>7. Stays(s, RootJobs(s)) /\ Stays(s, LateJobs(s))
    BY <2>2, <2>3, <2>4, <2>6, MovesStay, TimerMembers DEF j
  <2>8. Has(driver[s], EndCommands) => Has(driver'[s], EndCommands)
    BY <2>3, <2>5, <2>6, EndsStay DEF j
  <2> QED
    BY <1>0, <2>2, <2>7, <2>8, CalmKeeps DEF Calm, CalmEarly
<1>10. ASSUME NEW r \in Session, PerformOpenAfterEnd(r) PROVE TimerOK(s)'
  <2>1. /\ Dismissed(r) /\ Opening(Head(driver[r]).job)
        /\ UNCHANGED <<db, timers, console, alive>>
    BY <1>10, PerformOpenAfterEndJob
  <2>2. BrowserCommand(Head(driver[r]).job) # "end"
    BY <2>1 DEF BrowserCommand, Opening
  <2>3. Stays(s, RootJobs(s)) /\ Stays(s, LateJobs(s))
    BY <2>1, MovesStay
  <2>4. Has(driver[s], EndCommands) => Has(driver'[s], EndCommands)
    BY <2>1, <2>2, EndsStay DEF Dismissed
  <2> QED
    BY <1>0, <2>1, <2>3, <2>4, CalmKeeps DEF Calm, CalmEarly
<1>11. ASSUME NEW r \in Session, PerformClose(r) PROVE TimerOK(s)'
  <2> DEFINE j == Head(driver[r]).job
  <2>1. PerformedAs(r, j) /\ j \in Job /\ j.s = r /\ UNCHANGED <<db, timers, console, alive>>
    BY <1>11, PerformCloseJob
  <2>2. Stays(s, RootJobs(s)) /\ Stays(s, LateJobs(s))
    BY <2>1, MovesStay
  <2>3. Has(driver[s], EndCommands) => Has(driver'[s], EndCommands)
    BY <2>1, EndsStay
  <2> QED
    BY <1>0, <2>1, <2>2, <2>3, CalmKeeps DEF Calm, CalmEarly
<1>12. ASSUME NEW r \in Session, CloseAnswered(r), UNCHANGED runVars PROVE TimerOK(s)'
  <2>1. Dismissed(r) /\ UNCHANGED <<db, timers, console, alive>>
    BY <1>12, CloseAnsweredJob DEF runVars
  <2>2. BrowserCommand(Head(driver[r]).job) # "end"
    BY <1>12, CloseAnsweredJob
  <2>3. Stays(s, RootJobs(s)) /\ Stays(s, LateJobs(s))
    BY <2>1, MovesStay
  <2>4. Has(driver[s], EndCommands) => Has(driver'[s], EndCommands)
    BY <2>1, <2>2, EndsStay DEF Dismissed
  <2> QED
    BY <1>0, <2>1, <2>3, <2>4, CalmKeeps DEF Calm, CalmEarly
<1>13. ASSUME NEW r \in Session, OpenAnswered(r), UNCHANGED runVars PROVE TimerOK(s)'
  <2> DEFINE j == Head(driver[r]).job
  <2>1. j \in Job /\ Opening(j) /\ UNCHANGED <<db, timers, console, alive>>
    BY <1>13, OpenAnsweredJob DEF runVars
  <2>2. PICK k \in Job : Returns(r, k) /\ Fit(k) /\ Alike(j, k)
    BY <1>13, OpenAnsweredJob
  <2>3. BrowserCommand(j) # "end" /\ Opening(k)
    BY <2>1, <2>2 DEF BrowserCommand, Opening, Alike
  <2> HIDE DEF j
  <2>4. Stays(s, RootJobs(s)) /\ Stays(s, LateJobs(s))
    BY <2>1, <2>2, <2>3, MovesStay, TimerMembers DEF Alike, j
  <2>5. Has(driver[s], EndCommands) => Has(driver'[s], EndCommands)
    BY <2>2, <2>3, EndsStay DEF Returns, j
  <2> QED
    BY <1>0, <2>1, <2>4, <2>5, CalmKeeps DEF Calm, CalmEarly
<1>14. ASSUME NEW r \in Session, PerformEnd(r) PROVE TimerOK(s)'
  <2> DEFINE j == Head(driver[r]).job
  <2>1. /\ PerformedAs(r, j) /\ j \in Job /\ j.s = r /\ BrowserCommand(j) = "end"
        /\ j.kind = "timeout" \/ (Knows(j) /\ j.kind = "finish" /\ j.row.parent = NoParent)
        /\ alive' = alive \ {r} /\ UNCHANGED <<db, timers, console>>
    BY <1>14, PerformEndJob
  <2> HIDE DEF j
  <2>2. Stays(s, RootJobs(s)) /\ Stays(s, LateJobs(s))
    BY <2>1, MovesStay DEF j
  <2>3. Has(driver[s], EndCommands) => Has(driver'[s], EndCommands)
    BY <2>1, EndsStay DEF j
  <2>4. CASE s # r
    BY <1>0, <2>1, <2>2, <2>3, <2>4, CalmKeeps DEF Calm, CalmEarly
  <2>5. CASE s = r
    <3>1. j \in LateJobs(s)
      BY <2>1, <2>5 DEF LateJobs, JobsOf
    <3>2. driver[s] # <<>> /\ Head(driver[s]) \in BrowserJob /\ Head(driver[s]).job = j
      BY <1>0, <2>1, <2>5, TailHas DEF PerformedAs, j
    <3>3. Head(driver[s]) \in On(LateJobs(s)) /\ Head(driver[s]) \in EndCommands
      BY <2>1, <3>1, <3>2 DEF On, EndCommands
    <3>4. Held(fifo, driver[s], LateJobs(s)) /\ Has(driver[s], EndCommands)
      BY <1>0, <3>2, <3>3, TailHas DEF Held
    <3>5. console[s] \notin NotStarted /\ ~ Held(fifo, driver[s], RootJobs(s))
      BY <1>0, <3>4 DEF TimerOK, Early, EarlyOK
    <3>6. console'[s] \notin NotStarted /\ ~ Held(fifo', driver'[s], RootJobs(s))
      BY <2>1, <2>2, <3>5 DEF Stays
    <3>7. Solitary(fifo', driver'[s], RootJobs(s)) /\ Has(driver'[s], EndCommands)
      BY <1>0, <2>2, <2>3, <3>4 DEF Stays, TimerOK
    <3> QED
      BY <3>6, <3>7 DEF TimerOK, Early
  <2> QED
    BY <2>4, <2>5
<1>15. ASSUME NEW r \in Session, EndAnswered(r), UNCHANGED runVars PROVE TimerOK(s)'
  <2>1. Ended(r) /\ timers' = timers \ {r} /\ UNCHANGED <<db, console, alive>>
    BY <1>15, EndAnsweredJob DEF runVars
  <2>2. Stays(s, RootJobs(s)) /\ Stays(s, LateJobs(s))
    BY <2>1, MovesStay
  <2>3. r # s => (Has(driver[s], EndCommands) => Has(driver'[s], EndCommands))
    BY <2>1, EndsStay DEF Ended
  <2> QED
    BY <1>0, <2>1, <2>2, <2>3, CalmKeeps DEF Calm, CalmEarly
<1> QED
  BY <1>1, <1>2, <1>3, <1>4, <1>5, <1>6, <1>7, <1>8, <1>9, <1>10, <1>11, <1>12, <1>13, <1>14, <1>15, StepCases

-----------------------------------------------------------------------------
(***************************************************************************)
(* The invariant of the queues and the timers.                             *)
(***************************************************************************)
RunInv == IInv /\ RoutesOK /\ TimersOK

LEMMA QueuesInit ==
    ASSUME Init
    PROVE  RoutesOK /\ TimersOK
<1>1. fifo = <<>> /\ driver = [s \in Session |-> <<>>] /\ timers = {} /\ db = EmptyDatabase
      /\ console = [s \in Session |-> "idle"]
  BY DEF Init, ServerInit
<1>2. \A S : ~ Has(fifo, S) /\ One(fifo, S)
  BY <1>1, NoneInEmpty
<1>3. \A S : \A s \in Session : ~ Has(driver[s], S) /\ One(driver[s], S)
  BY <1>1, NoneInEmpty
<1>4. \A s \in Session, w \in Win : ~ Exists(db, WinKey(s, w))
  BY <1>1 DEF EmptyDatabase, Exists
<1> QED
  BY <1>1, <1>2, <1>3, <1>4
     DEF RoutesOK, TimersOK, TimerOK, EarlyOK, Held, Solitary, NotStarted, Early

LEMMA RunInvariance == Spec => []RunInv
<1>1. Init => RunInv
  BY QueuesInit, InitIInv DEF RunInv
<1>2. RunInv /\ [Next]_vars => RunInv'
  BY NextIInv, RoutesKept, TimersKept DEF RunInv, IInv
<1> QED
  BY <1>1, <1>2, PTL DEF Spec

(***************************************************************************)
(* For every instance, the timer of a session that has ended is off for    *)
(* good: no session is timed out and reported a second time (socket.js).   *)
(***************************************************************************)
THEOREM TimersEndWithSessions == Spec => []NoTimerAfterEnd
<1>1. ASSUME RunInv PROVE NoTimerAfterEnd
  <2> SUFFICES ASSUME NEW s \in timers PROVE s \in alive \/ Ending(s)
    BY DEF NoTimerAfterEnd
  <2>1. s \in Session
    BY <1>1 DEF RunInv, IInv, Inv, TypeOK
  <2>2. s \in alive \/ Has(driver[s], EndCommands)
    BY <1>1, <2>1 DEF RunInv, TimersOK, TimerOK
  <2> QED
    BY <2>2 DEF Has, EndCommands, Ending
<1> QED
  BY <1>1, RunInvariance, PTL
=============================================================================
