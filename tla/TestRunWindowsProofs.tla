--------------------------- MODULE TestRunWindowsProofs ---------------------
(***************************************************************************)
(* Proofs about the windows of test runs without script errors: a page is  *)
(* told of its child when the child is closed and stored, and windows open *)
(* one after the other.                                                    *)
(***************************************************************************)
EXTENDS TestRunProofs

-----------------------------------------------------------------------------
(***************************************************************************)
(* Opening windows without script errors.  The request of a page to open   *)
(* another one is in one place at a time: in the page's message NEW_TEST,  *)
(* in the job that opens the window, in the callback with the new window   *)
(* or in the child the page waits for; and the page has asked.             *)
(***************************************************************************)
NewTests == {m \in Message : m.type = "NEW_TEST"}
ScriptErrors == {m \in Message : m.type = "TEST_ERROR"}
ErrorJobs == {j \in Job : j.kind = "error"}

AnyWin == Win \cup {0}
Openings(s, P, W) == {j \in JobsOf(s) : Opening(j) /\ j.p \in P /\ j.w \in W}
OpeningsFor(s, p) == Openings(s, {p}, AnyWin)
OpeningsOf(s, w) == Openings(s, AnyWin, {w})
OpeningsBy(s, p, w) == Openings(s, {p}, {w})

OpenedTo(s, p) == {cb \in sent : cb.type = "opened" /\ cb.s = s /\ cb.to = p}

NoErrors ==
    \A s \in Session :
        ~ Has(fifo, ErrorJobs) /\ \A w \in Win : ~ Has(inbox[s][w], ScriptErrors)

RequestOK(s, p) ==
    LET pg == page[s][p]
        asks == Has(inbox[s][p], NewTests)
        opens == Held(fifo, driver[s], OpeningsFor(s, p))
        told == OpenedTo(s, p) # {}
        waits == pg.child # 0
    IN
    /\ One(inbox[s][p], NewTests)
    /\ Solitary(fifo, driver[s], OpeningsFor(s, p))
    /\ \A a, b \in OpenedTo(s, p) : a = b
    /\ pg.st = "none" => ~ pg.asked
    /\ asks \/ opens \/ told \/ waits => pg.asked
    /\ asks => ~ opens /\ ~ told /\ ~ waits
    /\ opens => ~ told /\ ~ waits
    /\ told => ~ waits

(***************************************************************************)
(* Until the row of a new window is written nobody knows the window: it    *)
(* has no row, no job has read one, and nobody was told that it finished.  *)
(***************************************************************************)
Past(s, w) == {j \in JobsOf(s) : j.w = w /\ Knows(j) /\ ~ Opening(j)}
Told(s, w) == \E cb \in sent : cb.type = "finished" /\ cb.s = s /\ cb.w = w

WindowOK(s, w) ==
    /\ Solitary(fifo, driver[s], OpeningsOf(s, w))
    /\ \/ Exists(db, WinKey(s, w))
       \/ Held(fifo, driver[s], Past(s, w))
       \/ Held(fifo, driver[s], OpeningsOf(s, w))
       => Appeared(s, w)
    /\ Held(fifo, driver[s], OpeningsOf(s, w)) =>
          ~ Exists(db, WinKey(s, w)) /\ ~ Held(fifo, driver[s], Past(s, w)) /\ ~ Told(s, w)
    /\ \A p \in AnyWin :
          Held(fifo, driver[s], OpeningsBy(s, p, w)) => page[s][w].parent = p

(***************************************************************************)
(* The result of a window is in its row from the time it is written, and   *)
(* the window is closed from the time the browser has performed that.      *)
(***************************************************************************)
WrittenOf(s, w) == {j \in JobsOf(s) : j.w = w /\ Written(j)}
FinishesOf(s, w) == {b \in BrowserJob : b.job.kind = "finish" /\ b.job.w = w}
ClosesOf(s, w) ==
    {b \in BrowserJob : b.performed /\ BrowserCommand(b.job) = "close" /\ b.job.w = w}

DoneOK(s, w) ==
    /\ Has(fifo, WrittenOf(s, w)) \/ Has(driver[s], FinishesOf(s, w)) => ResultStored(s, w)
    /\ Has(driver[s], ClosesOf(s, w)) => page[s][w].st = "closed"
    /\ Told(s, w) => page[s][w].st = "closed" /\ ResultStored(s, w)

(***************************************************************************)
(* The windows a page opened are over, but for the one its request is      *)
(* about; no window is a root before the root's is opened.                 *)
(***************************************************************************)
Current(s, p, w) ==
    \/ Held(fifo, driver[s], OpeningsBy(s, p, w))
    \/ \E cb \in OpenedTo(s, p) : cb.w = w
    \/ page[s][p].child = w

OrderOK(s) ==
    /\ \A p, w \in Win : Appeared(s, w) /\ page[s][w].parent = p /\ ~ Current(s, p, w) =>
          page[s][w].st = "closed" /\ ResultStored(s, w)
    /\ console[s] \in NotStarted \/ Held(fifo, driver[s], OpeningsBy(s, NoParent, 0)) =>
          \A w \in Win : Appeared(s, w) => page[s][w].parent # NoParent

OpenInv ==
    /\ NoErrors
    /\ \A s \in Session, w \in Win : RequestOK(s, w) /\ WindowOK(s, w) /\ DoneOK(s, w)
    /\ \A s \in Session : OrderOK(s)

-----------------------------------------------------------------------------
(***************************************************************************)
(* Pages.  A window that appeared stays, with its opener, and is never     *)
(* open again once it is closed.                                           *)
(***************************************************************************)
PageStays(s, w) ==
    /\ Appeared(s, w) => page'[s][w].st # "none" /\ page'[s][w].parent = page[s][w].parent
    /\ page[s][w].st = "closed" => page'[s][w].st = "closed"

\* No window appears, and the page's request is where it was
PageCalm(s, w) ==
    /\ PageStays(s, w)
    /\ page'[s][w].st # "none" => page[s][w].st # "none"
    /\ page'[s][w].asked = page[s][w].asked /\ page'[s][w].child = page[s][w].child

\* No message of T comes
Fewer(s, w, T) ==
    /\ Has(inbox'[s][w], T) => Has(inbox[s][w], T)
    /\ One(inbox[s][w], T) => One(inbox'[s][w], T)

PagesCalm == \A s \in Session, w \in Win : PageCalm(s, w)
MessagesCalm == \A s \in Session, w \in Win : Fewer(s, w, NewTests) /\ Fewer(s, w, ScriptErrors)

\* What the step of one page is, in the one page's record and message queue
LEMMA OnePage ==
    ASSUME Inv, NEW s \in Session, NEW w \in Win, NEW pg,
           page' = [page EXCEPT ![s][w] = pg]
    PROVE  \A r \in Session, v \in Win :
              page'[r][v] = IF r = s /\ v = w THEN pg ELSE page[r][v]
  BY DEF Inv, TypeOK

LEMMA SamePages ==
    /\ page' = page => PagesCalm
    /\ inbox' = inbox => MessagesCalm
  BY DEF PagesCalm, PageCalm, PageStays, Appeared, MessagesCalm, Fewer

LEMMA SentMessage ==
    ASSUME Inv, NEW s \in Session, NEW w \in Win, NEW m \in Message, Send(s, w, m), NEW T
    PROVE  /\ m \notin T => \A r \in Session, v \in Win : Fewer(r, v, T)
           /\ \A r \in Session, v \in Win : ~ (r = s /\ v = w) => Fewer(r, v, T)
           /\ ~ Has(inbox[s][w], T) /\ One(inbox[s][w], T) => One(inbox'[s][w], T)
<1>1. inbox \in [Session -> [Win -> Seq(Message)]] /\ inbox[s][w] \in Seq(Message)
  BY DEF Inv, TypeOK
<1>2. \A r \in Session, v \in Win :
         inbox'[r][v] = IF r = s /\ v = w THEN Append(inbox[s][w], m) ELSE inbox[r][v]
  BY <1>1 DEF Send
<1>3. /\ Has(Append(inbox[s][w], m), T) <=> Has(inbox[s][w], T) \/ m \in T
      /\ One(inbox[s][w], T) /\ ~ (m \in T /\ Has(inbox[s][w], T)) => One(Append(inbox[s][w], m), T)
  BY <1>1, AppendHas
<1> QED
  BY <1>2, <1>3 DEF Fewer

LEMMA ReceivedMessage ==
    ASSUME Inv, NEW s \in Session, NEW w \in Win, Receive(s, w), NEW T
    PROVE  /\ \A r \in Session, v \in Win : Fewer(r, v, T)
           /\ inbox[s][w] # <<>> /\ Head(inbox[s][w]) \in Message
           /\ Head(inbox[s][w]) \in T => Has(inbox[s][w], T)
           /\ Head(inbox[s][w]) \in T /\ One(inbox[s][w], T) => ~ Has(inbox'[s][w], T)
           /\ \A r \in Session, v \in Win : ~ (r = s /\ v = w) => inbox'[r][v] = inbox[r][v]
<1>1. inbox \in [Session -> [Win -> Seq(Message)]] /\ inbox[s][w] \in Seq(Message)
  BY DEF Inv, TypeOK
<1>2. inbox[s][w] # <<>> /\ inbox' = [inbox EXCEPT ![s][w] = Tail(@)]
  BY DEF Receive
<1>3. \A r \in Session, v \in Win :
         inbox'[r][v] = IF r = s /\ v = w THEN Tail(inbox[s][w]) ELSE inbox[r][v]
  BY <1>1, <1>2
<1>4. /\ Head(inbox[s][w]) \in Message
      /\ Has(inbox[s][w], T) <=> Head(inbox[s][w]) \in T \/ Has(Tail(inbox[s][w]), T)
      /\ One(inbox[s][w], T) =>
            One(Tail(inbox[s][w]), T) /\ ~ (Head(inbox[s][w]) \in T /\ Has(Tail(inbox[s][w]), T))
  BY <1>1, <1>2, TailHas
<1> QED
  BY <1>2, <1>3, <1>4 DEF Fewer

-----------------------------------------------------------------------------
(***************************************************************************)
(* The steps of consoles and pages, and what they mean for requests.       *)
(***************************************************************************)
\* No page misses the callback with its new window
PagesTold == \A cb \in sent : cb.type = "opened" /\ cb.to # NoParent => cb \in sent'

StillStep == IdleStep /\ PagesCalm /\ MessagesCalm /\ PagesTold /\ sent' \subseteq sent

LEMMA PlainPages ==
    ASSUME Inv, MaxErrors = 0, NEW s \in Session, NEW w \in Win,
           StartTest(s, w) \/ SendFinish(s, w) \/ ShowError(s, w) \/ SendError(s, w) \/ Hang(s, w)
    PROVE  StillStep
<1> DEFINE pg == page[s][w]
<1>1. pg \in Page
  BY DEF Inv, TypeOK
<1>2. ~ ShowError(s, w) /\ ~ SendError(s, w)
  <2>1. pg.errors = 0 /\ pg.st # "alert"
    BY <1>1 DEF Page
  <2> QED
    BY <2>1 DEF ShowError, SendError
<1>3. /\ pg.st # "none" /\ pg.st # "closed" /\ UNCHANGED serverVars /\ UNCHANGED <<console, alive>>
      /\ \E st \in PageState : \E t :
            /\ page' = [page EXCEPT ![s][w] = [pg EXCEPT !.st = st, !.tasks = t]] /\ st # "none"
  <2>1. page \in [Session -> [Win -> Page]]
    BY DEF Inv, TypeOK
  <2>2. CASE StartTest(s, w)
    <3>1. page' = [page EXCEPT ![s][w] = [pg EXCEPT !.st = "running", !.tasks = pg.tasks]]
      BY <1>1, <2>1, <2>2 DEF StartTest, Page
    <3> QED
      BY <2>2, <3>1 DEF StartTest, PageState
  <2>3. CASE Hang(s, w)
    <3>1. page' = [page EXCEPT ![s][w] = [pg EXCEPT !.st = "hung", !.tasks = pg.tasks]]
      BY <1>1, <2>1, <2>3 DEF Hang, Page
    <3> QED
      BY <2>3, <3>1 DEF Hang, PageState
  <2>4. CASE SendFinish(s, w)
    <3>1. page' = [page EXCEPT ![s][w] = [pg EXCEPT !.st = "running", !.tasks = Done(pg.tasks)]]
      BY <1>1, <2>1, <2>4 DEF SendFinish, Busy, Page
    <3> QED
      BY <2>4, <3>1 DEF SendFinish, Busy, PageState
  <2> QED
    BY <1>2, <2>2, <2>3, <2>4
<1>4. PICK st \in PageState :
         \E t : page' = [page EXCEPT ![s][w] = [pg EXCEPT !.st = st, !.tasks = t]] /\ st # "none"
  BY <1>3
<1>41. PICK t : page' = [page EXCEPT ![s][w] = [pg EXCEPT !.st = st, !.tasks = t]] /\ st # "none"
  BY <1>4
<1>5. PagesCalm
  BY <1>1, <1>3, <1>41, OnePage DEF PagesCalm, PageCalm, PageStays, Appeared, Page
<1>6. MessagesCalm
  <2>1. CASE inbox' = inbox
    BY <2>1, SamePages
  <2>2. CASE Send(s, w, Msg("TEST_FINISH", 0))
    <3>1. Msg("TEST_FINISH", 0) \in Message \ (NewTests \cup ScriptErrors)
      BY DEF Msg, Message, NewTests, ScriptErrors
    <3> QED
      BY <2>2, <3>1, SentMessage DEF MessagesCalm
  <2> QED
    BY <1>2, <2>1, <2>2 DEF StartTest, SendFinish, Hang
<1> QED
  BY <1>3, <1>5, <1>6 DEF StillStep, IdleStep, PagesTold, serverVars

LEMMA StillCases ==
    ASSUME Inv, MaxErrors = 0, NEW s \in Session
    PROVE  /\ Click(s) \/ ConsoleOpened(s) \/ ConsoleSubscribes(s) \/ ConsoleReported(s) => StillStep
           /\ \A w \in Win : Receive(s, w) /\ WAIT_TEST(s, Head(inbox[s][w]).w, w) => StillStep
           /\ UNCHANGED vars => StillStep
<1>1. ASSUME Click(s) \/ ConsoleOpened(s) \/ ConsoleSubscribes(s) \/ ConsoleReported(s) PROVE StillStep
  <2>1. console \in [Session -> ConsoleState]
    BY DEF Inv, TypeOK, ConsoleState
  <2>2. UNCHANGED <<db, fifo, driver, timers, alive, page, inbox>> /\ sent' \subseteq sent
    BY <1>1 DEF Click, ConsoleOpened, ConsoleSubscribes, ConsoleReported, WAIT_ALL_TEST, serverVars, Deliver
  <2>3. \A r \in Session : console'[r] \in NotStarted => console[r] \in NotStarted
    BY <1>1, <2>1 DEF Click, ConsoleOpened, ConsoleSubscribes, ConsoleReported, NotStarted
  <2>4. PagesTold
    <3>1. \A w \in Win : Opened(s, NoParent, w).to = NoParent
      BY DEF Opened
    <3>2. \A wins \in SUBSET Win : Report(s, wins).type # "opened"
      BY DEF Report
    <3> QED
      BY <1>1, <3>1, <3>2
         DEF Click, ConsoleOpened, ConsoleSubscribes, ConsoleReported, WAIT_ALL_TEST, serverVars, Deliver,
             PagesTold
  <2> QED
    BY <2>2, <2>3, <2>4, SamePages DEF StillStep, IdleStep
<1>2. ASSUME NEW w \in Win, Receive(s, w), WAIT_TEST(s, Head(inbox[s][w]).w, w) PROVE StillStep
  <2>1. UNCHANGED <<db, fifo, driver, timers, alive, console, page, sent>>
    BY <1>2 DEF Receive, WAIT_TEST
  <2>2. MessagesCalm
    BY <1>2, ReceivedMessage DEF MessagesCalm
  <2> QED
    BY <2>1, <2>2, SamePages DEF StillStep, IdleStep, PagesTold
<1>3. UNCHANGED vars => StillStep
  BY SamePages DEF vars, StillStep, IdleStep, PagesTold
<1> QED
  BY <1>1, <1>2, <1>3

\* The steps a run without script errors takes
LEMMA PlayCases ==
    ASSUME Inv, SessionsOK, RoutesOK, NoErrors, MaxErrors = 0, [Next]_vars
    PROVE  \/ StillStep
           \/ \E s \in Session, w \in Win : SendNewTest(s, w) \/ PageOpened(s, w) \/ PageFinished(s, w)
           \/ QuietStep
           \/ (AddWin \/ GetWin \/ SetWin) /\ UNCHANGED runVars
           \/ \E s \in Session :
                 \/ BrowserReady(s)
                 \/ PerformOpen(s) \/ PerformOpenAfterEnd(s) \/ PerformClose(s) \/ PerformEnd(s)
                 \/ (OpenAnswered(s) \/ CloseAnswered(s) \/ EndAnswered(s)) /\ UNCHANGED runVars
                 \/ MinuteOver(s)
                 \/ \E w \in Win : /\ Receive(s, w) 
                                   /\ \/ Head(inbox[s][w]).type = "NEW_TEST" /\ NEW_TEST(s, w)
                                      \/ TEST_FINISH(s, w)
<1>1. CASE RedisStep
  BY <1>1, QuietAnswers DEF RedisStep, RedisAnswer
<1>2. ASSUME NEW s \in Session, ConsoleStep(s) \/ Chance(s)
      PROVE  StillStep \/ BrowserReady(s)
  BY <1>2, StillCases, PlainPages DEF ConsoleStep, Chance
<1>3. ASSUME NEW s \in Session, NEW w \in Win, PageStep(s, w)
      PROVE  StillStep \/ SendNewTest(s, w) \/ PageOpened(s, w) \/ PageFinished(s, w)
  BY <1>3, PlainPages DEF PageStep
<1>4. ASSUME NEW s \in Session, NEW w \in Win, Receive(s, w)
      PROVE  \/ StillStep
             \/ Head(inbox[s][w]).type = "NEW_TEST" /\ NEW_TEST(s, w)
             \/ TEST_FINISH(s, w)
  <2>1. Head(inbox[s][w]).type # "TEST_ERROR"
    <3>1. Head(inbox[s][w]) \in Message /\ Head(inbox[s][w]) \notin ScriptErrors
      BY <1>4, ReceivedMessage DEF NoErrors
    <3> QED
      BY <3>1 DEF ScriptErrors
  <2> QED
    BY <1>4, <2>1, StillCases DEF Receive
<1>5. CASE UNCHANGED vars
  <2>1. UNCHANGED <<db, fifo, driver, timers, alive, console, page, inbox, sent>>
    BY <1>5 DEF vars
  <2> QED
    BY <2>1, SamePages DEF StillStep, IdleStep, PagesTold
<1> QED
  BY <1>1, <1>2, <1>3, <1>4, <1>5 DEF Next, BrowserStep, AnswerStep

\* What the three steps of a request do
LEMMA AskFacts ==
    ASSUME Inv, NEW s \in Session, NEW w \in Win, SendNewTest(s, w)
    PROVE  /\ ~ page[s][w].asked /\ Appeared(s, w)
           /\ page'[s][w] = [page[s][w] EXCEPT !.asked = TRUE]
           /\ \A r \in Session, v \in Win : ~ (r = s /\ v = w) =>
                 page'[r][v] = page[r][v] /\ Fewer(r, v, NewTests)
           /\ ~ Has(inbox[s][w], NewTests) => One(inbox'[s][w], NewTests)
           /\ \A r \in Session, v \in Win : PageStays(r, v) /\ Fewer(r, v, ScriptErrors)
           /\ UNCHANGED <<db, fifo, driver, timers, sent, console, alive>>
<1>1. page[s][w] \in Page /\ page \in [Session -> [Win -> Page]]
  BY DEF Inv, TypeOK
<1>2. /\ Appeared(s, w) /\ ~ page[s][w].asked /\ Send(s, w, Msg("NEW_TEST", 0))
      /\ page' = [page EXCEPT ![s][w] = [page[s][w] EXCEPT !.asked = TRUE]]
      /\ UNCHANGED <<db, fifo, driver, timers, sent, console, alive>>
  BY <1>1 DEF SendNewTest, Busy, Appeared, serverVars
<1>3. Msg("NEW_TEST", 0) \in Message /\ Msg("NEW_TEST", 0) \notin ScriptErrors
  BY DEF Msg, Message, ScriptErrors
<1>4. \A r \in Session, v \in Win :
         page'[r][v] = IF r = s /\ v = w THEN [page[s][w] EXCEPT !.asked = TRUE] ELSE page[r][v]
  BY <1>1, <1>2
<1>5. \A r \in Session, v \in Win : PageStays(r, v)
  <2>1. /\ [page[s][w] EXCEPT !.asked = TRUE].st = page[s][w].st
        /\ [page[s][w] EXCEPT !.asked = TRUE].parent = page[s][w].parent
    BY <1>1 DEF Page
  <2> QED
    BY <1>4, <2>1 DEF PageStays, Appeared
<1>6. One(inbox[s][w], NewTests) \/ Has(inbox[s][w], NewTests)
  BY DEF One, Has
<1> QED
  BY <1>2, <1>3, <1>4, <1>5, <1>6, SentMessage

LEMMA OpenedFacts ==
    ASSUME Inv, NEW s \in Session, NEW w \in Win, PageOpened(s, w)
    PROVE  /\ \E c \in Win :
                 /\ Opened(s, w, c) \in sent /\ sent' = sent \ {Opened(s, w, c)}
                 /\ page'[s][w] = [page[s][w] EXCEPT !.child = c]
           /\ \A r \in Session, v \in Win : ~ (r = s /\ v = w) => page'[r][v] = page[r][v]
           /\ \A r \in Session, v \in Win :
                 PageStays(r, v) /\ Fewer(r, v, ScriptErrors) /\ Fewer(r, v, NewTests)
           /\ UNCHANGED <<db, fifo, driver, timers, console, alive>>
<1>1. page[s][w] \in Page /\ page \in [Session -> [Win -> Page]]
  BY DEF Inv, TypeOK
<1>2. PICK c \in Win : /\ Deliver(Opened(s, w, c)) /\ Send(s, w, Msg("WAIT_TEST", c))
                       /\ page' = [page EXCEPT ![s][w] = [page[s][w] EXCEPT !.child = c]]
  BY <1>1 DEF PageOpened
<1>3. /\ Msg("WAIT_TEST", c) \in Message /\ Msg("WAIT_TEST", c) \notin ScriptErrors
      /\ Msg("WAIT_TEST", c) \notin NewTests
  BY DEF Msg, Message, ScriptErrors, NewTests
<1>4. \A r \in Session, v \in Win :
         page'[r][v] = IF r = s /\ v = w THEN [page[s][w] EXCEPT !.child = c] ELSE page[r][v]
  BY <1>1, <1>2
<1>5. \A r \in Session, v \in Win : PageStays(r, v)
  BY <1>1, <1>4 DEF PageStays, Appeared, Page
<1>6. UNCHANGED <<db, fifo, driver, timers, console, alive>>
  BY DEF PageOpened
<1> QED
  BY <1>2, <1>3, <1>4, <1>5, <1>6, SentMessage DEF Deliver

LEMMA FinishedFacts ==
    ASSUME Inv, NEW s \in Session, NEW w \in Win, PageFinished(s, w)
    PROVE  /\ Finished(s, w, page[s][w].child) \in sent
           /\ sent' = sent \ {Finished(s, w, page[s][w].child)} /\ page[s][w].child \in Win
           /\ page'[s][w].child = 0 /\ page'[s][w].asked = FALSE
           /\ page'[s][w].st = page[s][w].st /\ Appeared(s, w)
           /\ \A r \in Session, v \in Win : ~ (r = s /\ v = w) => page'[r][v] = page[r][v]
           /\ \A r \in Session, v \in Win : PageStays(r, v)
           /\ MessagesCalm
           /\ UNCHANGED <<db, fifo, driver, timers, console, alive, inbox>>
<1> DEFINE pg == page[s][w]
           new == [pg EXCEPT !.tasks = Done(@), !.child = 0, !.asked = FALSE]
<1>1. pg \in Page /\ page \in [Session -> [Win -> Page]]
  BY DEF Inv, TypeOK
<1>2. /\ Finished(s, w, pg.child) \in sent /\ sent' = sent \ {Finished(s, w, pg.child)}
      /\ page' = [page EXCEPT ![s][w] = new] /\ pg.st = "running"
      /\ UNCHANGED <<db, fifo, driver, timers, console, alive, inbox>>
  BY <1>1 DEF PageFinished, Deliver
<1>3. pg.child \in Win
  <2>1. Finished(s, w, pg.child).type = "finished" /\ Finished(s, w, pg.child).w = pg.child
    BY DEF Finished
  <2> QED
    BY <1>2, <2>1 DEF Inv, FinishedOK
<1>4. /\ new.child = 0 /\ new.asked = FALSE /\ new.st = pg.st /\ new.parent = pg.parent
  BY <1>1 DEF Page
<1> HIDE DEF new
<1>5. \A r \in Session, v \in Win : page'[r][v] = IF r = s /\ v = w THEN new ELSE page[r][v]
  BY <1>1, <1>2
<1>6. \A r \in Session, v \in Win : PageStays(r, v)
  BY <1>4, <1>5 DEF PageStays, Appeared
<1> QED
  BY <1>2, <1>3, <1>4, <1>5, <1>6, SamePages DEF Appeared

-----------------------------------------------------------------------------
(***************************************************************************)
(* A set of jobs is kept when it stays and none of it is lost.             *)
(***************************************************************************)
Kept(s, S) == Stays(s, S) /\ (Held(fifo, driver[s], S) => Held(fifo', driver'[s], S))

LEMMA MovesKeep ==
    ASSUME Inv, NEW s \in Session, NEW S \in SUBSET JobsOf(s)
    PROVE  /\ fifo' = fifo /\ driver' = driver => Kept(s, S)
           /\ Leaves /\ Head(fifo) \notin S => Kept(s, S)
           /\ \A k \in Job : (GoesOn(k) \/ Driven(k)) /\ (k \in S <=> Head(fifo) \in S) => Kept(s, S)
           /\ \A k \in Job : Begins(k) /\ k \notin S => Kept(s, S)
           /\ \A r \in Session :
                 (Dismissed(r) \/ Ended(r)) /\ Head(driver[r]).job \notin S => Kept(s, S)
           /\ \A r \in Session, k \in Job :
                 Returns(r, k) /\ (k \in S <=> Head(driver[r]).job \in S) => Kept(s, S)
           /\ \A r \in Session, k \in Job :
                 PerformedAs(r, k) /\ k.s = r /\ (k \in S <=> Head(driver[r]).job \in S) => Kept(s, S)
<1>1. (fifo' = fifo /\ driver' = driver) \/ (Leaves /\ Head(fifo) \notin S) => Kept(s, S)
  BY JobsTurn DEF Turn, Stays, Kept
<1>2. ASSUME NEW k \in Job, \/ GoesOn(k) /\ (k \in S <=> Head(fifo) \in S)
                            \/ Begins(k) /\ k \notin S
      PROVE  Kept(s, S)
  BY <1>2, JobsTurn DEF Turn, Stays, Kept
<1>3. ASSUME NEW k \in Job, Driven(k), k \in S <=> Head(fifo) \in S PROVE Kept(s, S)
  BY <1>3, DrivenTurn DEF Turn, Stays, Kept
<1>4. ASSUME NEW r \in Session, Dismissed(r) \/ Ended(r), Head(driver[r]).job \notin S PROVE Kept(s, S)
  BY <1>4, AnsweredTurn DEF Turn, Stays, Kept
<1>5. ASSUME NEW r \in Session, NEW k \in Job, Returns(r, k), k \in S <=> Head(driver[r]).job \in S
      PROVE  Kept(s, S)
  BY <1>5, AnsweredTurn DEF Turn, Stays, Kept
<1>6. ASSUME NEW r \in Session, NEW k \in Job, PerformedAs(r, k), k.s = r,
             k \in S <=> Head(driver[r]).job \in S
      PROVE  Kept(s, S)
  BY <1>6, PerformedTurn DEF Turn, Stays, Kept
<1> QED
  BY <1>1, <1>2, <1>3, <1>4, <1>5, <1>6

LEMMA OpeningMembers ==
    ASSUME NEW s \in Session, NEW P, NEW W
    PROVE  /\ Openings(s, P, W) \in SUBSET JobsOf(s)
           /\ \A j, k \in Job : k.kind = j.kind /\ k.s = j.s /\ k.p = j.p /\ k.w = j.w =>
                 (k \in Openings(s, P, W) <=> j \in Openings(s, P, W))
           /\ \A k \in Openings(s, P, W) : Opening(k) /\ k.s = s /\ k.p \in P /\ k.w \in W
           /\ \A k \in Job : Opening(k) /\ k.s = s /\ k.p \in P /\ k.w \in W => k \in Openings(s, P, W)
  BY DEF Openings, JobsOf, Opening

OpeningsKept(s) == \A P, W : Kept(s, Openings(s, P, W))

LEMMA OpeningsStay ==
    ASSUME Inv, SessionsOK, RoutesOK, NEW s \in Session, NEW P, NEW W
    PROVE  LET S == Openings(s, P, W) IN
           /\ IdleStep \/ QuietStep \/ GetWin \/ SetWin => Kept(s, S)
           /\ \A r \in Session : PerformClose(r) \/ PerformEnd(r) \/ OpenAnswered(r)
                                 \/ CloseAnswered(r) \/ EndAnswered(r) \/ MinuteOver(r) => Kept(s, S)
           /\ \A r \in Session, w \in Win : TEST_FINISH(r, w) => Kept(s, S)
<1> DEFINE S == Openings(s, P, W)
<1>0. /\ S \in SUBSET JobsOf(s)
      /\ \A j, k \in Job : k.kind = j.kind /\ k.s = j.s /\ k.p = j.p /\ k.w = j.w =>
            (k \in S <=> j \in S)
      /\ \A k : ~ Opening(k) => k \notin S
      /\ fifo # <<>> => Head(fifo) \in Job
  <2>1. fifo # <<>> => Head(fifo) \in Job
    BY QueuesTyped, TailHas
  <2> QED
    BY <2>1, OpeningMembers
<1> HIDE DEF S
<1>1. ASSUME IdleStep PROVE Kept(s, S)
  BY <1>0, <1>1, MovesKeep DEF IdleStep
<1>2. ASSUME QuietStep PROVE Kept(s, S)
  <2>1. ASSUME NEW k \in Job, GoesOn(k) \/ Driven(k), Follows(Head(fifo), k) PROVE Kept(s, S)
    <3>1. k \in S <=> Head(fifo) \in S
      BY <1>0, <2>1 DEF Follows, GoesOn, Driven
    <3> QED
      BY <1>0, <2>1, <3>1, MovesKeep
  <2> QED
    BY <1>0, <1>2, <2>1, MovesKeep DEF QuietStep, JobMoves
<1>3. ASSUME GetWin PROVE Kept(s, S)
  <2>1. ASSUME NEW k \in Job, GoesOn(k), Alike(Head(fifo), k) PROVE Kept(s, S)
    <3>1. k \in S <=> Head(fifo) \in S
      BY <1>0, <2>1 DEF Alike, GoesOn
    <3> QED
      BY <1>0, <2>1, <3>1, MovesKeep
  <2> QED
    BY <1>0, <1>3, <2>1, GetWinJob, MovesKeep
<1>4. ASSUME SetWin PROVE Kept(s, S)
  <2>1. /\ Head(fifo) \in Job /\ ~ Opening(Head(fifo))
        /\ \/ Leaves
           \/ \E k \in Job : GoesOn(k) /\ Alike(Head(fifo), k)
           \/ Driven(Head(fifo))
    BY <1>4, SetWinJob DEF Opening
  <2>2. ASSUME NEW k \in Job, GoesOn(k), Alike(Head(fifo), k) PROVE Kept(s, S)
    <3>1. k \in S <=> Head(fifo) \in S
      BY <1>0, <2>2 DEF Alike, GoesOn
    <3> QED
      BY <1>0, <2>2, <3>1, MovesKeep
  <2> QED
    BY <1>0, <2>1, <2>2, MovesKeep
<1>5. ASSUME NEW r \in Session, PerformClose(r) \/ PerformEnd(r) PROVE Kept(s, S)
  <2>1. PICK j \in Job : PerformedAs(r, j) /\ j.s = r /\ j = Head(driver[r]).job
    BY <1>5, PerformCloseJob, PerformEndJob
  <2> QED
    BY <1>0, <2>1, MovesKeep
<1>6. ASSUME NEW r \in Session, OpenAnswered(r) PROVE Kept(s, S)
  <2>1. Head(driver[r]).job \in Job
    BY <1>6, OpenAnsweredJob
  <2>2. PICK k \in Job : Returns(r, k) /\ Alike(Head(driver[r]).job, k)
    BY <1>6, OpenAnsweredJob
  <2>3. k \in S <=> Head(driver[r]).job \in S
    BY <1>0, <2>1, <2>2 DEF Alike
  <2> QED
    BY <1>0, <2>2, <2>3, MovesKeep
<1>7. ASSUME NEW r \in Session, CloseAnswered(r) PROVE Kept(s, S)
  <2>1. Dismissed(r) /\ ~ Opening(Head(driver[r]).job)
    BY <1>7, CloseAnsweredJob DEF Opening
  <2> QED
    BY <1>0, <2>1, MovesKeep
<1>8. ASSUME NEW r \in Session, EndAnswered(r) PROVE Kept(s, S)
  BY <1>0, <1>8, EndAnsweredJob, MovesKeep
<1>9. ASSUME NEW r \in Session, MinuteOver(r) PROVE Kept(s, S)
  <2>1. PICK k \in Job : Begins(k) /\ k.kind = "timeout"
    BY <1>9, MinuteOverJob
  <2> QED
    BY <1>0, <2>1, MovesKeep DEF Opening
<1>10. ASSUME NEW r \in Session, NEW w \in Win, TEST_FINISH(r, w) PROVE Kept(s, S)
  <2>1. PICK k \in Job : Begins(k) /\ k.kind = "finish"
    BY <1>10, ReceivedJob
  <2> QED
    BY <1>0, <2>1, MovesKeep DEF Opening
<1> QED
  BY <1>1, <1>2, <1>3, <1>4, <1>5, <1>6, <1>7, <1>8, <1>9, <1>10 DEF S

-----------------------------------------------------------------------------
(***************************************************************************)
(* Only GetWin makes jobs that know a window.                              *)
(***************************************************************************)
LEMMA PastMembers ==
    ASSUME NEW s \in Session, NEW w
    PROVE  /\ Past(s, w) \in SUBSET JobsOf(s)
           /\ \A j, k \in Job : Follows(j, k) => (k \in Past(s, w) => j \in Past(s, w))
           /\ \A j, k \in Job : Alike(j, k) /\ Knows(j) => (k \in Past(s, w) => j \in Past(s, w))
           /\ \A k : Opening(k) \/ ~ Knows(k) => k \notin Past(s, w)
  BY DEF Past, JobsOf, Follows, Alike, Opening

LEMMA PastStays ==
    ASSUME Inv, SessionsOK, RoutesOK, NEW s \in Session, NEW w
    PROVE  LET S == Past(s, w) IN
           /\ IdleStep \/ QuietStep \/ AddWin \/ SetWin => Stays(s, S)
           /\ \A r \in Session :
                 BrowserReady(r) \/ PerformOpen(r) \/ PerformOpenAfterEnd(r) \/ PerformClose(r) \/ PerformEnd(r)
                 \/ OpenAnswered(r) \/ CloseAnswered(r) \/ EndAnswered(r) \/ MinuteOver(r) => Stays(s, S)
           /\ \A r \in Session, v \in Win : NEW_TEST(r, v) \/ TEST_FINISH(r, v) => Stays(s, S)
<1> DEFINE S == Past(s, w)
<1>0. /\ S \in SUBSET JobsOf(s)
      /\ \A j, k \in Job : Follows(j, k) => (k \in S => j \in S)
      /\ \A j, k \in Job : Alike(j, k) /\ Knows(j) => (k \in S => j \in S)
      /\ \A k : Opening(k) \/ ~ Knows(k) => k \notin S
      /\ fifo # <<>> => Head(fifo) \in Job
  <2>1. fifo # <<>> => Head(fifo) \in Job
    BY QueuesTyped, TailHas
  <2> QED
    BY <2>1, PastMembers
<1> HIDE DEF S
<1>1. ASSUME IdleStep \/ AddWin PROVE Stays(s, S)
  BY <1>0, <1>1, AddWinJob, MovesStay DEF IdleStep
<1>2. ASSUME QuietStep PROVE Stays(s, S)
  <2>1. ASSUME NEW k \in Job, GoesOn(k) \/ Driven(k), Follows(Head(fifo), k) PROVE Stays(s, S)
    <3>1. k \in S => Head(fifo) \in S
      BY <1>0, <2>1 DEF GoesOn, Driven
    <3> QED
      BY <1>0, <2>1, <3>1, MovesStay
  <2> QED
    BY <1>0, <1>2, <2>1, MovesStay DEF QuietStep, JobMoves
<1>3. ASSUME SetWin PROVE Stays(s, S)
  <2>1. /\ Head(fifo) \in Job /\ Knows(Head(fifo))
        /\ \/ Leaves
           \/ \E k \in Job : GoesOn(k) /\ Alike(Head(fifo), k)
           \/ Driven(Head(fifo))
    BY <1>3, SetWinJob
  <2>2. ASSUME NEW k \in Job, GoesOn(k), Alike(Head(fifo), k) PROVE Stays(s, S)
    <3>1. k \in S => Head(fifo) \in S
      BY <1>0, <2>1, <2>2
    <3> QED
      BY <1>0, <2>2, <3>1, MovesStay
  <2> QED
    BY <1>0, <2>1, <2>2, MovesStay
<1>4. ASSUME NEW r \in Session, BrowserReady(r) PROVE Stays(s, S)
  <2>1. PICK k \in Job : Begins(k) /\ k.kind = "newRoot"
    BY <1>4, BrowserReadyJob
  <2> QED
    BY <1>0, <2>1, MovesStay DEF Opening
<1>5. ASSUME NEW r \in Session, PerformOpen(r) PROVE Stays(s, S)
  <2> DEFINE j == Head(driver[r]).job
  <2>1. j \in Job /\ Opening(j) /\ j.s = r
    BY <1>5, PerformOpenJob
  <2>2. PICK v \in Win : PerformedAs(r, [j EXCEPT !.w = v])
    BY <1>5, PerformOpenJob
  <2> DEFINE k == [j EXCEPT !.w = v]
  <2>3. k \in Job /\ Opening(k) /\ k.s = r
    BY <2>1 DEF Job, Opening
  <2> HIDE DEF k
  <2>4. PerformedAs(r, k) /\ k \notin S
    BY <1>0, <2>2, <2>3 DEF k
  <2> QED
    BY <1>0, <2>3, <2>4, MovesStay
<1>6. ASSUME NEW r \in Session, PerformClose(r) \/ PerformEnd(r) PROVE Stays(s, S)
  BY <1>0, <1>6, PerformCloseJob, PerformEndJob, MovesStay
<1>7. ASSUME NEW r \in Session, OpenAnswered(r) PROVE Stays(s, S)
  <2>1. Opening(Head(driver[r]).job)
    BY <1>7, OpenAnsweredJob
  <2>2. PICK k \in Job : Returns(r, k) /\ Alike(Head(driver[r]).job, k)
    BY <1>7, OpenAnsweredJob
  <2>3. k \notin S
    BY <1>0, <2>1, <2>2 DEF Alike, Opening
  <2> QED
    BY <1>0, <2>2, <2>3, MovesStay
<1>8. ASSUME NEW r \in Session, PerformOpenAfterEnd(r) \/ CloseAnswered(r) \/ EndAnswered(r)
      PROVE  Stays(s, S)
  BY <1>0, <1>8, PerformOpenAfterEndJob, CloseAnsweredJob, EndAnsweredJob, MovesStay
<1>9. ASSUME NEW r \in Session, MinuteOver(r) PROVE Stays(s, S)
  <2>1. PICK k \in Job : Begins(k) /\ ~ Knows(k)
    BY <1>9, MinuteOverJob
  <2> QED
    BY <1>0, <2>1, MovesStay
<1>10. ASSUME NEW r \in Session, NEW v \in Win, NEW_TEST(r, v) \/ TEST_FINISH(r, v) PROVE Stays(s, S)
  <2>1. PICK k \in Job : Begins(k) /\ (Opening(k) \/ ~ Knows(k))
    BY <1>10, ReceivedJob DEF Opening
  <2> QED
    BY <1>0, <2>1, MovesStay
<1> QED
  BY <1>1, <1>2, <1>3, <1>4, <1>5, <1>6, <1>7, <1>8, <1>9, <1>10 DEF S

-----------------------------------------------------------------------------
(***************************************************************************)
(* Most steps touch no request: what is left are the steps a request takes.*)
(***************************************************************************)
CalmStep ==
    /\ PagesCalm /\ MessagesCalm /\ PagesTold
    /\ \A s \in Session : \A P, W : Kept(s, Openings(s, P, W))
    /\ \A cb \in sent' : cb \in sent \/ cb.type # "opened"

LEMMA ClosingPages ==
    ASSUME Inv, SessionsOK, RoutesOK, NEW r \in Session
    PROVE  /\ PerformClose(r) => PagesCalm
           /\ PerformEnd(r) => PagesCalm
<1>1. page \in [Session -> [Win -> Page]]
  BY DEF Inv, TypeOK
<1>2. \A pg \in Page : /\ Closed(pg).st = "none" <=> pg.st = "none"
                       /\ pg.st = "closed" => Closed(pg).st = "closed"
                       /\ Closed(pg).parent = pg.parent /\ Closed(pg).asked = pg.asked
                       /\ Closed(pg).child = pg.child
  BY DEF Closed, Page
<1>3. ASSUME PerformClose(r) PROVE PagesCalm
  <2> DEFINE c == Closed(page[r][Head(driver[r]).job.w])
  <2>1. page' = [page EXCEPT ![r][Head(driver[r]).job.w] = c] /\ Head(driver[r]).job.w \in Win
    BY <1>1, <1>3, PerformCloseJob
  <2>2. \A s \in Session, w \in Win :
           page'[s][w] = IF s = r /\ w = Head(driver[r]).job.w THEN Closed(page[s][w]) ELSE page[s][w]
    BY <1>1, <2>1
  <2>3. \A s \in Session, w \in Win : page[s][w] \in Page
    BY <1>1
  <2> QED
    BY <1>2, <2>2, <2>3 DEF PagesCalm, PageCalm, PageStays, Appeared
<1>4. ASSUME PerformEnd(r) PROVE PagesCalm
  <2>1. page' = [page EXCEPT ![r] = [w \in Win |-> Closed(@[w])]]
    BY <1>4, PerformEndJob
  <2>2. \A s \in Session, w \in Win :
           page'[s][w] = IF s = r THEN Closed(page[s][w]) ELSE page[s][w]
    BY <1>1, <2>1
  <2>3. \A s \in Session, w \in Win : page[s][w] \in Page
    BY <1>1
  <2> QED
    BY <1>2, <2>2, <2>3 DEF PagesCalm, PageCalm, PageStays, Appeared
<1> QED
  BY <1>3, <1>4

LEMMA RequestCases ==
    ASSUME Inv, SessionsOK, RoutesOK, NoErrors, MaxErrors = 0, [Next]_vars
    PROVE  \/ CalmStep
           \/ \E s \in Session, w \in Win : SendNewTest(s, w) \/ PageOpened(s, w) \/ PageFinished(s, w)
           \/ AddWin /\ UNCHANGED runVars
           \/ \E s \in Session :
                 \/ BrowserReady(s) \/ PerformOpen(s) \/ PerformOpenAfterEnd(s)
                 \/ \E w \in Win : /\ Receive(s, w)
                                   /\ Head(inbox[s][w]).type = "NEW_TEST" /\ NEW_TEST(s, w)
<1>1. CASE StillStep \/ QuietStep
  <2>1. \A s \in Session : \A P, W : Kept(s, Openings(s, P, W))
    BY <1>1, OpeningsStay DEF StillStep
  <2>2. PagesCalm /\ MessagesCalm /\ PagesTold /\ sent' \subseteq sent
    BY <1>1, SamePages DEF StillStep, QuietStep, PagesTold
  <2> QED
    BY <2>1, <2>2 DEF CalmStep
<1>2. CASE (GetWin \/ SetWin) /\ UNCHANGED runVars
  <2>1. \A s \in Session : \A P, W : Kept(s, Openings(s, P, W))
    BY <1>2, OpeningsStay
  <2>2. PagesCalm /\ MessagesCalm /\ sent' = sent
    BY <1>2, GetWinJob, SetWinJob, SamePages DEF runVars
  <2> QED
    BY <2>1, <2>2 DEF CalmStep, PagesTold
<1>3. ASSUME NEW r \in Session,
             \/ PerformClose(r) \/ PerformEnd(r) \/ MinuteOver(r)
             \/ (OpenAnswered(r) \/ CloseAnswered(r) \/ EndAnswered(r)) /\ UNCHANGED runVars
      PROVE  CalmStep
  <2>1. \A s \in Session : \A P, W : Kept(s, Openings(s, P, W))
    BY <1>3, OpeningsStay
  <2>2. PagesCalm /\ MessagesCalm
    BY <1>3, ClosingPages, PerformCloseJob, PerformEndJob, MinuteOverJob, SamePages DEF runVars
  <2>3. \A cb \in sent' : cb \in sent \/ cb.type # "opened"
    <3>1. \A p, w : Finished(r, p, w).type # "opened"
      BY DEF Finished
    <3>2. \A wins : Report(r, wins).type # "opened"
      BY DEF Report
    <3>3. CASE CloseAnswered(r)
      BY <3>1, <3>3 DEF CloseAnswered
    <3>4. CASE EndAnswered(r)
      BY <3>2, <3>4 DEF EndAnswered
    <3>5. CASE PerformClose(r) \/ PerformEnd(r) \/ MinuteOver(r) \/ OpenAnswered(r)
      BY <3>5, PerformCloseJob, PerformEndJob, MinuteOverJob, OpenAnsweredJob
    <3> QED
      BY <1>3, <3>3, <3>4, <3>5
  <2>4. PagesTold
    BY <1>3, PerformCloseJob, PerformEndJob, MinuteOverJob, OpenAnsweredJob
       DEF CloseAnswered, EndAnswered, PagesTold
  <2> QED
    BY <2>1, <2>2, <2>3, <2>4 DEF CalmStep
<1>4. ASSUME NEW r \in Session, NEW w \in Win, Receive(r, w), TEST_FINISH(r, w) PROVE CalmStep
  <2>1. \A s \in Session : \A P, W : Kept(s, Openings(s, P, W))
    BY <1>4, OpeningsStay
  <2>2. page' = page /\ sent' = sent
    BY <1>4, ReceivedJob DEF Receive
  <2>3. MessagesCalm
    BY <1>4, ReceivedMessage DEF MessagesCalm
  <2> QED
    BY <2>1, <2>2, <2>3, SamePages DEF CalmStep, PagesTold
<1> QED
  BY <1>1, <1>2, <1>3, <1>4, PlayCases

-----------------------------------------------------------------------------
(***************************************************************************)
(* No script error comes about.                                            *)
(***************************************************************************)
LEMMA NoErrorsKept ==
    ASSUME Inv, SessionsOK, RoutesOK, NoErrors, MaxErrors = 0, [Next]_vars
    PROVE  NoErrors'
<1> SUFFICES ASSUME NEW s \in Session
             PROVE  ~ Has(fifo', ErrorJobs) /\ \A w \in Win : ~ Has(inbox'[s][w], ScriptErrors)
  BY DEF NoErrors
<1>0. /\ ~ Has(fifo, ErrorJobs) /\ \A w \in Win : ~ Has(inbox[s][w], ScriptErrors)
      /\ fifo # <<>> => Head(fifo) \in Job /\ Head(fifo).kind # "error"
  <2>1. ~ Has(fifo, ErrorJobs) /\ \A w \in Win : ~ Has(inbox[s][w], ScriptErrors)
    BY DEF NoErrors
  <2>2. fifo # <<>> => Head(fifo) \in Job /\ Head(fifo) \notin ErrorJobs
    BY <2>1, QueuesTyped, TailHas
  <2> QED
    BY <2>1, <2>2 DEF ErrorJobs
<1> DEFINE Clean == Arrive(s, ErrorJobs, {}, FALSE, FALSE)
<1>1. /\ fifo' = fifo /\ driver' = driver => Clean
      /\ Leaves => Clean
      /\ \A k \in Job : (GoesOn(k) \/ Begins(k)) /\ k.kind # "error" => Clean
      /\ \A k \in Job : Driven(k) => Clean
  <2>1. \A k \in Job : k.kind # "error" => k \notin ErrorJobs
    BY DEF ErrorJobs
  <2>2. \A k \in Job : Driven(k) => Clean
    BY DrivenArrives DEF Arrive
  <2> QED
    BY <2>1, <2>2, FifoArrivals DEF Arrive
<1>2. \A r \in Session : /\ Dismissed(r) \/ Ended(r) => Clean
                         /\ \A k \in Job : Returns(r, k) /\ k.kind # "error" => Clean
                         /\ \A k \in Job : PerformedAs(r, k) => Clean
  <2>1. \A k \in Job : k.kind # "error" => k \notin ErrorJobs
    BY DEF ErrorJobs
  <2>2. \A r \in Session : Destroy(r, "ownKeys") \notin ErrorJobs /\ Destroy(r, "allKeys") \notin ErrorJobs
    BY <2>1, NewJobFit
  <2>3. \A r \in Session, k \in Job : PerformedAs(r, k) => Clean
    BY DEF Arrive, PerformedAs, Has
  <2> QED
    BY <2>1, <2>2, <2>3, AnswerArrivals DEF Arrive
<1>3. Clean => ~ Has(fifo', ErrorJobs)
  BY <1>0 DEF Arrive
<1> HIDE DEF Clean
<1>4. Clean
  <2>1. CASE StillStep
    BY <1>1, <2>1 DEF StillStep, IdleStep
  <2>2. CASE QuietStep
    BY <1>0, <1>1, <2>2 DEF QuietStep, JobMoves, Follows, GoesOn
  <2>3. CASE AddWin \/ GetWin
    <3>1. Leaves \/ (fifo' = fifo /\ driver' = driver) \/ \E k \in Job : GoesOn(k) /\ Alike(Head(fifo), k)
      BY <2>3, AddWinJob, GetWinJob
    <3> QED
      BY <1>0, <1>1, <3>1 DEF Alike, GoesOn
  <2>4. CASE SetWin
    <3>1. Leaves \/ Driven(Head(fifo)) \/ \E k \in Job : GoesOn(k) /\ Alike(Head(fifo), k)
      BY <2>4, SetWinJob
    <3>2. Driven(Head(fifo)) => fifo # <<>>
      BY DEF Driven
    <3> QED
      BY <1>0, <1>1, <3>1, <3>2 DEF Alike, GoesOn
  <2>5. ASSUME NEW r \in Session, BrowserReady(r) \/ MinuteOver(r) PROVE Clean
    <3>1. PICK k \in Job : Begins(k) /\ k.kind # "error"
      BY <2>5, BrowserReadyJob, MinuteOverJob
    <3> QED
      BY <1>1, <3>1
  <2>6. ASSUME NEW r \in Session, NEW v \in Win, NEW_TEST(r, v) \/ TEST_FINISH(r, v) PROVE Clean
    <3>1. PICK k \in Job : Begins(k) /\ k.kind # "error"
      BY <2>6, ReceivedJob
    <3> QED
      BY <1>1, <3>1
  <2>7. ASSUME NEW r \in Session, PerformOpen(r) PROVE Clean
    <3>1. /\ Head(driver[r]).job \in Job
          /\ \E w \in Win : PerformedAs(r, [Head(driver[r]).job EXCEPT !.w = w])
      BY <2>7, PerformOpenJob
    <3>2. \A w \in Win : [Head(driver[r]).job EXCEPT !.w = w] \in Job
      BY <3>1 DEF Job
    <3> QED
      BY <1>2, <3>1, <3>2
  <2>8. ASSUME NEW r \in Session, PerformClose(r) \/ PerformEnd(r) PROVE Clean
    BY <1>2, <2>8, PerformCloseJob, PerformEndJob
  <2>9. ASSUME NEW r \in Session, PerformOpenAfterEnd(r) \/ CloseAnswered(r) \/ EndAnswered(r) PROVE Clean
    BY <1>2, <2>9, PerformOpenAfterEndJob, CloseAnsweredJob, EndAnsweredJob
  <2>10. ASSUME NEW r \in Session, OpenAnswered(r) PROVE Clean
    <3>1. PICK k \in Job : Returns(r, k) /\ Alike(Head(driver[r]).job, k) /\ Opening(Head(driver[r]).job)
      BY <2>10, OpenAnsweredJob
    <3>2. k.kind # "error"
      BY <3>1 DEF Alike, Opening
    <3> QED
      BY <1>2, <3>1, <3>2
  <2>11. ASSUME NEW r \in Session, NEW v \in Win, SendNewTest(r, v) \/ PageOpened(r, v) \/ PageFinished(r, v)
         PROVE  Clean
    BY <1>1, <2>11, AskFacts, OpenedFacts, FinishedFacts
  <2> QED
    BY <2>1, <2>2, <2>3, <2>4, <2>5, <2>6, <2>7, <2>8, <2>9, <2>10, <2>11, PlayCases
<1>5. \A w \in Win : Fewer(s, w, ScriptErrors)
  <2>1. inbox' = inbox => \A w \in Win : Fewer(s, w, ScriptErrors)
    BY SamePages DEF MessagesCalm
  <2>2. ASSUME NEW r \in Session, NEW v \in Win, SendNewTest(r, v) \/ PageOpened(r, v) \/ PageFinished(r, v)
        PROVE  \A w \in Win : Fewer(s, w, ScriptErrors)
    BY <2>2, AskFacts, OpenedFacts, FinishedFacts DEF MessagesCalm
  <2>3. ASSUME NEW r \in Session, BrowserReady(r) \/ PerformOpen(r) \/ PerformOpenAfterEnd(r)
        PROVE  \A w \in Win : Fewer(s, w, ScriptErrors)
    BY <2>1, <2>3, BrowserReadyJob, PerformOpenJob, PerformOpenAfterEndJob
  <2>4. ASSUME NEW r \in Session, NEW v \in Win, Receive(r, v)
        PROVE  \A w \in Win : Fewer(s, w, ScriptErrors)
    BY <2>4, ReceivedMessage
  <2>5. CASE CalmStep \/ (AddWin /\ UNCHANGED runVars)
    BY <2>1, <2>5 DEF CalmStep, MessagesCalm, runVars
  <2> QED
    BY <2>2, <2>3, <2>4, <2>5, RequestCases
<1> QED
  BY <1>0, <1>3, <1>4, <1>5 DEF Fewer

-----------------------------------------------------------------------------
(***************************************************************************)
(* Every step keeps the requests.                                          *)
(***************************************************************************)
RequestCalm(s, p) ==
    /\ page'[s][p].asked = page[s][p].asked /\ page'[s][p].child = page[s][p].child
    /\ page'[s][p].st = "none" => page[s][p].st = "none"
    /\ Fewer(s, p, NewTests)
    /\ Stays(s, OpeningsFor(s, p))
    /\ OpenedTo(s, p)' \subseteq OpenedTo(s, p)

LEMMA CalmRequests ==
    ASSUME NEW s \in Session, NEW p \in Win, RequestOK(s, p), RequestCalm(s, p)
    PROVE  RequestOK(s, p)'
  BY DEF RequestOK, RequestCalm, Fewer, Stays

LEMMA OpenedToFacts ==
    ASSUME NEW s \in Session, NEW p \in Win
    PROVE  /\ (\A cb \in sent' : cb \in sent \/ cb.type # "opened") => OpenedTo(s, p)' \subseteq OpenedTo(s, p)
           /\ sent' \subseteq sent => OpenedTo(s, p)' \subseteq OpenedTo(s, p)
           /\ \A r, q, w : sent' = sent \cup {Opened(r, q, w)} =>
                 OpenedTo(s, p)' = IF r = s /\ q = p THEN OpenedTo(s, p) \cup {Opened(r, q, w)}
                                   ELSE OpenedTo(s, p)
           /\ \A w : Opened(s, p, w) \in sent => Opened(s, p, w) \in OpenedTo(s, p)
<1>1. \A r, q, w : /\ Opened(r, q, w).type = "opened" /\ Opened(r, q, w).s = r /\ Opened(r, q, w).to = q
  BY DEF Opened
<1> QED
  BY <1>1 DEF OpenedTo

LEMMA RequestsKept ==
    ASSUME Inv, SessionsOK, RoutesOK, NoErrors, MaxErrors = 0, [Next]_vars,
           NEW s \in Session, NEW p \in Win, RequestOK(s, p)
    PROVE  RequestOK(s, p)'
<1> DEFINE S == OpeningsFor(s, p)
<1>0. /\ S \in SUBSET JobsOf(s)
      /\ \A k \in S : k.p = p /\ k.s = s /\ Opening(k)
      /\ \A k \in Job : Opening(k) /\ k.s = s /\ k.p = p /\ k.w \in AnyWin => k \in S
      /\ \A j, k \in Job : k.kind = j.kind /\ k.s = j.s /\ k.p = j.p /\ k.w = j.w => (k \in S <=> j \in S)
  BY OpeningMembers DEF OpeningsFor
<1>1. CASE CalmStep
  <2>1. PageCalm(s, p) /\ Fewer(s, p, NewTests) /\ Stays(s, S) /\ OpenedTo(s, p)' \subseteq OpenedTo(s, p)
    BY <1>1, OpenedToFacts DEF CalmStep, PagesCalm, MessagesCalm, OpeningsFor, Kept
  <2> HIDE DEF S
  <2> QED
    BY <2>1, CalmRequests DEF RequestCalm, PageCalm, PageStays, Appeared, S
<1>2. ASSUME NEW r \in Session, NEW v \in Win, SendNewTest(r, v) PROVE RequestOK(s, p)'
  <2>1. UNCHANGED <<fifo, driver, sent>>
    BY <1>2, AskFacts
  <2>2. Stays(s, S) /\ OpenedTo(s, p)' = OpenedTo(s, p)
    BY <2>1 DEF Stays, OpenedTo
  <2>3. CASE r = s /\ v = p
    <3>0. page[s][p] \in Page
      BY DEF Inv, TypeOK
    <3>1. ~ page[s][p].asked /\ page[s][p].st # "none" /\ page[s][p] \in Page
      BY <1>2, <2>3, <3>0, AskFacts DEF Appeared
    <3>2. page'[s][p].asked /\ page'[s][p].child = page[s][p].child /\ page'[s][p].st # "none"
      <4>1. page'[s][p] = [page[s][p] EXCEPT !.asked = TRUE]
        BY <1>2, <2>3, AskFacts
      <4> QED
        BY <3>1, <4>1 DEF Page
    <3>3. One(inbox'[s][p], NewTests)
      BY <1>2, <2>3, <3>1, AskFacts DEF RequestOK
    <3> HIDE DEF S
    <3> QED
      BY <2>1, <2>2, <3>1, <3>2, <3>3 DEF RequestOK, Stays, S
  <2>4. CASE ~ (r = s /\ v = p)
    <3>1. page'[s][p] = page[s][p] /\ Fewer(s, p, NewTests)
      BY <1>2, <2>4, AskFacts
    <3> HIDE DEF S
    <3> QED
      BY <2>2, <3>1, CalmRequests DEF RequestCalm, S
  <2> QED
    BY <2>3, <2>4
<1>3. ASSUME NEW r \in Session, NEW v \in Win, PageOpened(r, v) PROVE RequestOK(s, p)'
  <2>1. PICK c \in Win : /\ Opened(r, v, c) \in sent /\ sent' = sent \ {Opened(r, v, c)}
                         /\ page'[r][v] = [page[r][v] EXCEPT !.child = c]
    BY <1>3, OpenedFacts
  <2>2. Stays(s, S) /\ Fewer(s, p, NewTests) /\ OpenedTo(s, p)' \subseteq OpenedTo(s, p)
        /\ UNCHANGED <<fifo, driver>>
    BY <1>3, <2>1, OpenedFacts, OpenedToFacts DEF Stays
  <2>3. CASE r = s /\ v = p
    <3>1. page[s][p] \in Page /\ c # 0 /\ Opened(s, p, c) \in OpenedTo(s, p)
      BY <2>1, <2>3, OpenedToFacts, WinFacts DEF Inv, TypeOK
    <3>2. page'[s][p].asked = page[s][p].asked /\ page'[s][p].child # 0 /\ page'[s][p].st = page[s][p].st
      BY <2>1, <2>3, <3>1 DEF Page
    <3>3. OpenedTo(s, p)' = {}
      BY <2>1, <2>2, <2>3, <3>1 DEF RequestOK, OpenedTo
    <3> HIDE DEF S
    <3> QED
      BY <2>2, <3>1, <3>2, <3>3 DEF RequestOK, Fewer, S
  <2>4. CASE ~ (r = s /\ v = p)
    <3>1. page'[s][p] = page[s][p]
      BY <1>3, <2>4, OpenedFacts
    <3> HIDE DEF S
    <3> QED
      BY <2>2, <3>1, CalmRequests DEF RequestCalm, S
  <2> QED
    BY <2>3, <2>4
<1>4. ASSUME NEW r \in Session, NEW v \in Win, PageFinished(r, v) PROVE RequestOK(s, p)'
  <2>0. /\ page'[r][v].child = 0 /\ page'[r][v].asked = FALSE /\ page[r][v].child \in Win
        /\ \A a \in Session, b \in Win : ~ (a = r /\ b = v) => page'[a][b] = page[a][b]
    BY <1>4, FinishedFacts
  <2>1. UNCHANGED <<fifo, driver, inbox>> /\ sent' \subseteq sent
    BY <1>4, FinishedFacts
  <2>2. Stays(s, S) /\ Fewer(s, p, NewTests) /\ OpenedTo(s, p)' \subseteq OpenedTo(s, p)
    BY <1>4, <2>1, FinishedFacts, OpenedToFacts DEF Stays, MessagesCalm
  <2>3. CASE r = s /\ v = p
    <3>1. /\ page'[s][p].child = 0 /\ page'[s][p].asked = FALSE
          /\ page[s][p].child # 0
      BY <2>0, <2>3, WinFacts
    <3> HIDE DEF S
    <3> QED
      BY <2>1, <2>2, <3>1 DEF RequestOK, Fewer, S
  <2>4. CASE ~ (r = s /\ v = p)
    <3>1. page'[s][p] = page[s][p]
      BY <2>0, <2>4
    <3> HIDE DEF S
    <3> QED
      BY <2>2, <3>1, CalmRequests DEF RequestCalm, S
  <2> QED
    BY <2>3, <2>4
<1>5. CASE AddWin /\ UNCHANGED runVars
  <2> DEFINE j == Head(fifo)
  <2>1. /\ Leaves /\ j \in Job /\ Opening(j) /\ j.w \in Win
        /\ UNCHANGED <<page, inbox>> /\ sent' = sent \cup {Opened(j.s, j.p, j.w)}
    BY <1>5, AddWinJob DEF AddWin, runVars
  <2>2. Turn(s, S, j \in S, FALSE)
    BY <1>0, <2>1, JobsTurn
  <2> HIDE DEF j
  <2>3. CASE j.s = s /\ j.p = p
    <3>1. j \in S
      BY <1>0, <2>1, <2>3 DEF AnyWin
    <3>2. OpenedTo(s, p)' = OpenedTo(s, p) \cup {Opened(j.s, j.p, j.w)}
      BY <2>1, <2>3, OpenedToFacts
    <3> HIDE DEF S
    <3>3. Held(fifo, driver[s], S) /\ OpenedTo(s, p) = {} /\ ~ Held(fifo', driver'[s], S)
      BY <2>2, <3>1 DEF RequestOK, Turn, S
    <3> QED
      BY <2>1, <2>2, <3>1, <3>2, <3>3 DEF RequestOK, Turn, S
  <2>4. CASE ~ (j.s = s /\ j.p = p)
    <3>1. OpenedTo(s, p)' = OpenedTo(s, p)
      BY <2>1, <2>4, OpenedToFacts
    <3> HIDE DEF S
    <3>2. Stays(s, S) /\ Fewer(s, p, NewTests)
      BY <2>1, <2>2 DEF Turn, Stays, Fewer
    <3> QED
      BY <2>1, <3>1, <3>2, CalmRequests DEF RequestCalm, S
  <2> QED
    BY <2>3, <2>4
<1>6. ASSUME NEW r \in Session, BrowserReady(r) PROVE RequestOK(s, p)'
  <2>1. PICK k \in Job : Begins(k) /\ k.p = NoParent
    BY <1>6, BrowserReadyJob
  <2>2. k \notin S
    BY <1>0, <2>1, WinFacts DEF NoParent
  <2>3. UNCHANGED <<page, inbox, sent>>
    BY <1>6, BrowserReadyJob
  <2> HIDE DEF S
  <2>4. Stays(s, S)
    BY <1>0, <2>1, <2>2, MovesStay
  <2> QED
    BY <2>3, <2>4, CalmRequests DEF RequestCalm, Fewer, OpenedTo, S
<1>7. ASSUME NEW r \in Session, PerformOpen(r) PROVE RequestOK(s, p)'
  <2> DEFINE j == Head(driver[r]).job
  <2>1. PICK v \in Win : /\ Unopened(r, v) /\ PerformedAs(r, [j EXCEPT !.w = v])
                         /\ page' = [page EXCEPT ![r][v] = NewPage(v, j.p)]
    BY <1>7, PerformOpenJob
  <2> DEFINE k == [j EXCEPT !.w = v]
  <2>2. j \in Job /\ Opening(j) /\ j.s = r /\ j.w = 0 /\ UNCHANGED <<inbox, sent>>
    BY <1>7, PerformOpenJob
  <2>3. k \in Job /\ k.kind = j.kind /\ k.s = j.s /\ k.p = j.p /\ k.w = v
    BY <2>2 DEF Job
  <2>4. k \in S => j \in S
    BY <1>0, <2>2, <2>3 DEF Opening, AnyWin
  <2> HIDE DEF k
  <2>5. PerformedAs(r, k)
    BY <2>1 DEF k
  <2> HIDE DEF S, j
  <2>6. Stays(s, S)
    BY <1>0, <2>2, <2>3, <2>4, <2>5, MovesStay DEF j
  <2>7. Fewer(s, p, NewTests) /\ OpenedTo(s, p)' = OpenedTo(s, p)
    BY <2>2 DEF Fewer, OpenedTo
  <2>8. page'[s][p] = IF s = r /\ p = v THEN NewPage(v, j.p) ELSE page[s][p]
    BY <2>1 DEF Inv, TypeOK
  <2>9. CASE s = r /\ p = v
    <3>1. page[s][p].st = "none" /\ ~ page[s][p].asked
      BY <2>1, <2>9 DEF Unopened, RequestOK
    <3>2. page'[s][p].asked = FALSE /\ page'[s][p].child = 0
      BY <2>8, <2>9 DEF NewPage, NoPage
    <3> QED
      BY <2>6, <2>7, <3>1, <3>2 DEF RequestOK, Fewer, Stays, S
  <2>10. CASE ~ (s = r /\ p = v)
    BY <2>6, <2>7, <2>8, <2>10, CalmRequests DEF RequestCalm, S
  <2> QED
    BY <2>9, <2>10
<1>8. ASSUME NEW r \in Session, PerformOpenAfterEnd(r) PROVE RequestOK(s, p)'
  <2>1. Dismissed(r) /\ UNCHANGED <<page, inbox, sent>>
    BY <1>8, PerformOpenAfterEndJob
  <2> HIDE DEF S
  <2>2. Stays(s, S)
    BY <1>0, <2>1, MovesStay
  <2> QED
    BY <2>1, <2>2, CalmRequests DEF RequestCalm, Fewer, OpenedTo, S
<1>9. ASSUME NEW r \in Session, NEW v \in Win, Receive(r, v),
             Head(inbox[r][v]).type = "NEW_TEST", NEW_TEST(r, v)
      PROVE  RequestOK(s, p)'
  <2>1. PICK k \in Job : Begins(k) /\ k.kind = "newChild" /\ k.s = r /\ k.p = v /\ k.w = 0
    BY <1>9, ReceivedJob
  <2>2. page' = page /\ sent' = sent /\ Fewer(s, p, NewTests)
    <3>1. page' = page
      BY <1>9 DEF Receive
    <3>2. sent' = sent
      BY <1>9, ReceivedJob
    <3> QED
      BY <1>9, <3>1, <3>2, ReceivedMessage
  <2>3. OpenedTo(s, p)' = OpenedTo(s, p)
    BY <2>2 DEF OpenedTo
  <2>4. CASE r = s /\ v = p
    <3>1. k \in S
      BY <1>0, <2>1, <2>4 DEF Opening, AnyWin
    <3>2. Head(inbox[r][v]) \in NewTests
      BY <1>9, ReceivedMessage DEF NewTests
    <3>3. Has(inbox[s][p], NewTests) /\ (One(inbox[s][p], NewTests) => ~ Has(inbox'[s][p], NewTests))
      BY <1>9, <2>4, <3>2, ReceivedMessage
    <3> HIDE DEF S
    <3>4. Turn(s, S, FALSE, TRUE)
      BY <1>0, <2>1, <3>1, JobsTurn
    <3> QED
      BY <2>2, <2>3, <3>3, <3>4 DEF RequestOK, Turn, Fewer, S
  <2>5. CASE ~ (r = s /\ v = p)
    <3>1. k \notin S
      BY <1>0, <2>1, <2>5
    <3> HIDE DEF S
    <3>2. Stays(s, S)
      BY <1>0, <2>1, <3>1, MovesStay
    <3> QED
      BY <2>2, <2>3, <3>2, CalmRequests DEF RequestCalm, S
  <2> QED
    BY <2>4, <2>5
<1> QED
  BY <1>1, <1>2, <1>3, <1>4, <1>5, <1>6, <1>7, <1>8, <1>9, RequestCases

-----------------------------------------------------------------------------
(***************************************************************************)
(* Every step keeps the windows.                                           *)
(***************************************************************************)
LEMMA HeldWithin ==
    ASSUME NEW f, NEW d, NEW S, NEW T, S \subseteq T
    PROVE  /\ Held(f, d, S) => Held(f, d, T)
           /\ Solitary(f, d, T) => Solitary(f, d, S)
  BY DEF Held, Solitary, Has, One, On

LEMMA OpeningsWithin ==
    ASSUME NEW s \in Session, NEW p \in AnyWin, NEW w \in AnyWin
    PROVE  OpeningsBy(s, p, w) \subseteq OpeningsOf(s, w) /\ OpeningsBy(s, p, w) \subseteq OpeningsFor(s, p)
  BY DEF OpeningsBy, OpeningsOf, OpeningsFor, Openings

WindowCalm(s, w) ==
    /\ PageStays(s, w)
    /\ \A P : Stays(s, Openings(s, P, {w}))
    /\ Stays(s, Past(s, w)) \/ Exists(db, WinKey(s, w))
    /\ Exists(db', WinKey(s, w)) =>
          Exists(db, WinKey(s, w)) \/ Held(fifo, driver[s], Past(s, w))
    /\ Told(s, w)' => Told(s, w) \/ Held(fifo, driver[s], Past(s, w))

LEMMA CalmWindows ==
    ASSUME NEW s \in Session, NEW w \in Win, WindowOK(s, w), WindowCalm(s, w)
    PROVE  WindowOK(s, w)'
<1> DEFINE S == OpeningsOf(s, w)
<1>1. Stays(s, S) /\ \A p \in AnyWin : Stays(s, OpeningsBy(s, p, w))
  BY DEF WindowCalm, OpeningsOf, OpeningsBy
<1>2. \A p \in AnyWin : Held(fifo, driver[s], OpeningsBy(s, p, w)) => Held(fifo, driver[s], S)
  BY HeldWithin, OpeningsWithin DEF AnyWin
<1> HIDE DEF S
<1>3. /\ Solitary(fifo, driver[s], S)
      /\ \/ Exists(db, WinKey(s, w)) \/ Held(fifo, driver[s], Past(s, w)) \/ Held(fifo, driver[s], S)
         => Appeared(s, w)
      /\ Held(fifo, driver[s], S) =>
            ~ Exists(db, WinKey(s, w)) /\ ~ Held(fifo, driver[s], Past(s, w)) /\ ~ Told(s, w)
      /\ \A p \in AnyWin : Held(fifo, driver[s], OpeningsBy(s, p, w)) => page[s][w].parent = p
  BY DEF WindowOK, S
<1>4. /\ Solitary(fifo', driver'[s], S)
      /\ \/ Exists(db', WinKey(s, w)) \/ Held(fifo', driver'[s], Past(s, w)) \/ Held(fifo', driver'[s], S)
         => page'[s][w].st # "none"
  BY <1>1, <1>3 DEF WindowCalm, Stays, PageStays
<1>5. Held(fifo', driver'[s], S) =>
          ~ Exists(db', WinKey(s, w)) /\ ~ Held(fifo', driver'[s], Past(s, w)) /\ ~ Told(s, w)'
  BY <1>1, <1>3 DEF WindowCalm, Stays
<1>6. \A p \in AnyWin : Held(fifo', driver'[s], OpeningsBy(s, p, w)) => page'[s][w].parent = p
  BY <1>1, <1>2, <1>3 DEF WindowCalm, Stays, PageStays
<1> QED
  BY <1>4, <1>5, <1>6 DEF WindowOK, Appeared, S

LEMMA ToldFacts ==
    ASSUME Inv, NEW s \in Session, NEW w \in Win
    PROVE  /\ sent' \subseteq sent => (Told(s, w)' => Told(s, w))
           /\ \A r, p, v : sent' = sent \cup {Opened(r, p, v)} => (Told(s, w)' => Told(s, w))
           /\ \A r : EndAnswered(r) => (Told(s, w)' => Told(s, w))
           /\ \A r : CloseAnswered(r) =>
                 (Told(s, w)' => Told(s, w) \/ (r = s /\ Head(driver[r]).job.w = w))
<1>1. \A r, p, v : Opened(r, p, v).type # "finished" /\ Finished(r, p, v).s = r /\ Finished(r, p, v).w = v
  BY DEF Opened, Finished
<1>2. \A r, wins : Report(r, wins).type # "finished"
  BY DEF Report
<1>3. ASSUME NEW r, EndAnswered(r), Told(s, w)' PROVE Told(s, w)
  BY <1>2, <1>3 DEF Told, EndAnswered
<1>4. ASSUME NEW r, CloseAnswered(r), Told(s, w)'
      PROVE  Told(s, w) \/ (r = s /\ Head(driver[r]).job.w = w)
  BY <1>1, <1>4 DEF Told, CloseAnswered
<1>5. ASSUME NEW r, NEW p, NEW v, sent' = sent \cup {Opened(r, p, v)}, Told(s, w)' PROVE Told(s, w)
  BY <1>1, <1>5 DEF Told
<1> QED
  BY <1>3, <1>4, <1>5 DEF Told

\* The steps that write no row, end no window and open none
LEMMA PlainWindows ==
    ASSUME Inv, SessionsOK, RoutesOK, MaxErrors = 0, NEW s \in Session, NEW w \in Win,
           \/ StillStep \/ QuietStep
           \/ \E r \in Session :
                 \/ PerformClose(r) \/ PerformEnd(r) \/ MinuteOver(r)
                 \/ (OpenAnswered(r) \/ EndAnswered(r)) /\ UNCHANGED runVars
                 \/ \E v \in Win : Receive(r, v) /\ TEST_FINISH(r, v)
                 \/ \E v \in Win : SendNewTest(r, v) \/ PageOpened(r, v) \/ PageFinished(r, v)
    PROVE  WindowCalm(s, w)
<1>1. Exists(db', WinKey(s, w)) => Exists(db, WinKey(s, w))
  <2>1. db' = db \/ RowsStay
    BY PerformCloseJob, PerformEndJob, MinuteOverJob, OpenAnsweredJob, EndAnsweredJob, ReceivedJob,
       AskFacts, OpenedFacts, FinishedFacts DEF StillStep, IdleStep, QuietStep
  <2> QED
    BY <2>1 DEF RowsStay
<1>2. PageStays(s, w)
  <2>1. CASE \E r \in Session, v \in Win : SendNewTest(r, v) \/ PageOpened(r, v) \/ PageFinished(r, v)
    BY <2>1, AskFacts, OpenedFacts, FinishedFacts
  <2>2. CASE \/ StillStep
             \/ \E r \in Session : PerformClose(r) \/ PerformEnd(r)
    BY <2>2, ClosingPages DEF StillStep, PagesCalm, PageCalm
  <2>3. CASE \/ QuietStep
             \/ \E r \in Session :
                   \/ MinuteOver(r)
                   \/ (OpenAnswered(r) \/ EndAnswered(r)) /\ UNCHANGED runVars
                   \/ \E v \in Win : Receive(r, v) /\ TEST_FINISH(r, v)
    <3>1. page' = page
      BY <2>3, MinuteOverJob DEF QuietStep, runVars, Receive
    <3> QED
      BY <3>1, SamePages DEF PagesCalm, PageCalm
  <2> QED
    BY <2>1, <2>2, <2>3
<1>3. (\A P : Stays(s, Openings(s, P, {w}))) /\ Stays(s, Past(s, w))
  <2>1. CASE \E r \in Session, v \in Win : SendNewTest(r, v) \/ PageOpened(r, v) \/ PageFinished(r, v)
    <3>1. fifo' = fifo /\ driver' = driver
      BY <2>1, AskFacts, OpenedFacts, FinishedFacts
    <3> QED
      BY <3>1 DEF Stays
  <2>2. CASE StillStep \/ QuietStep
    BY <2>2, OpeningsStay, PastStays DEF StillStep, Kept
  <2>3. ASSUME NEW r \in Session,
               \/ PerformClose(r) \/ PerformEnd(r) \/ MinuteOver(r) \/ OpenAnswered(r) \/ EndAnswered(r)
               \/ \E v \in Win : TEST_FINISH(r, v)
        PROVE  (\A P : Stays(s, Openings(s, P, {w}))) /\ Stays(s, Past(s, w))
    BY <2>3, OpeningsStay, PastStays DEF Kept
  <2> QED
    BY <2>1, <2>2, <2>3
<1>4. Told(s, w)' => Told(s, w)
  <2>1. CASE \E r \in Session : EndAnswered(r)
    BY <2>1, ToldFacts
  <2>2. CASE ~ \E r \in Session : EndAnswered(r)
    <3>1. StillStep \/ QuietStep => sent' \subseteq sent
      BY DEF StillStep, QuietStep
    <3>2. \A r \in Session : PerformClose(r) \/ PerformEnd(r) \/ MinuteOver(r) \/ OpenAnswered(r)
                             => sent' = sent
      BY PerformCloseJob, PerformEndJob, MinuteOverJob, OpenAnsweredJob
    <3>3. \A r \in Session, v \in Win :
             /\ TEST_FINISH(r, v) \/ SendNewTest(r, v) => sent' = sent
             /\ PageOpened(r, v) \/ PageFinished(r, v) => sent' \subseteq sent
      BY ReceivedJob, AskFacts, OpenedFacts, FinishedFacts
    <3>4. sent' \subseteq sent
      BY <2>2, <3>1, <3>2, <3>3
    <3> QED
      BY <3>4, ToldFacts
  <2> QED
    BY <2>1, <2>2
<1> QED
  BY <1>1, <1>2, <1>3, <1>4 DEF WindowCalm

LEMMA AddWinWindow ==
    ASSUME Inv, SessionsOK, RoutesOK, AddWin, UNCHANGED runVars,
           NEW s \in Session, NEW w \in Win, WindowOK(s, w)
    PROVE  /\ WindowOK(s, w)'
           /\ Head(fifo).s = s /\ Head(fifo).w = w => Held(fifo, driver[s], OpeningsOf(s, w))
           /\ ~ (Head(fifo).s = s /\ Head(fifo).w = w) =>
                 /\ Exists(db', WinKey(s, w)) <=> Exists(db, WinKey(s, w))
                 /\ RowOf(db', s, w) = RowOf(db, s, w)
<1> DEFINE j == Head(fifo)
           S == OpeningsOf(s, w)
<1>1. /\ Leaves /\ j \in Job /\ Opening(j) /\ j.s \in Session /\ j.w \in Win /\ j.p \in AnyWin
      /\ db' = PutRow(db, j.s, j.w, NewRow(j.p)) /\ NewRow(j.p) \in Row /\ db \in Database
      /\ page' = page /\ sent' = sent \cup {Opened(j.s, j.p, j.w)}
  BY AddWinJob, RowFacts DEF AddWin, runVars, AnyWin, Inv, TypeOK
<1>2. /\ S \in SUBSET JobsOf(s) /\ (j.s = s /\ j.w = w <=> j \in S)
      /\ \A p \in AnyWin : OpeningsBy(s, p, w) \subseteq S
  <2>1. w \in AnyWin
    BY DEF AnyWin
  <2>2. S \in SUBSET JobsOf(s) /\ \A k \in S : k.s = s /\ k.w = w
    BY OpeningMembers DEF OpeningsOf
  <2>3. j.s = s /\ j.w = w => j \in S
    <3> HIDE DEF j
    <3> QED
      BY <1>1, OpeningMembers DEF OpeningsOf
  <2>4. \A p \in AnyWin : OpeningsBy(s, p, w) \subseteq S
    BY <2>1, OpeningsWithin
  <2> QED
    BY <2>2, <2>3, <2>4
<1>3. Turn(s, S, j \in S, FALSE)
  BY <1>1, <1>2, JobsTurn
<1>4. \A P : Stays(s, Openings(s, P, {w}))
  BY <1>1, OpeningMembers, MovesStay
<1>5. Stays(s, Past(s, w))
  BY PastStays
<1>6. Told(s, w)' => Told(s, w)
  BY <1>1, ToldFacts
<1>7. PageStays(s, w)
  BY <1>1 DEF PageStays, Appeared
<1> HIDE DEF S
<1>8. CASE ~ (j.s = s /\ j.w = w)
  <2>1. /\ Exists(db', WinKey(s, w)) <=> Exists(db, WinKey(s, w))
        /\ RowOf(db', s, w) = RowOf(db, s, w)
    <3> HIDE DEF j
    <3> QED
      BY <1>1, <1>8, PutRowParent
  <2> HIDE DEF j
  <2>2. WindowOK(s, w)'
    BY <1>4, <1>5, <1>6, <1>7, <2>1, CalmWindows DEF WindowCalm
  <2> QED
    BY <1>8, <2>1, <2>2 DEF j
<1>9. CASE j.s = s /\ j.w = w
  <2>1. j \in S
    BY <1>2, <1>9
  <2>2. Held(fifo, driver[s], S) /\ ~ Held(fifo', driver'[s], S) /\ Solitary(fifo', driver'[s], S)
    BY <1>3, <2>1 DEF Turn, WindowOK, S
  <2>3. Appeared(s, w) /\ page'[s][w] = page[s][w]
    BY <1>1, <2>2 DEF WindowOK, S
  <2>4. \A p \in AnyWin : ~ Held(fifo', driver'[s], OpeningsBy(s, p, w))
    BY <1>2, <2>2, HeldWithin
  <2>5. WindowOK(s, w)'
    BY <2>2, <2>3, <2>4 DEF WindowOK, Appeared, S
  <2> QED
    BY <1>9, <2>2, <2>5 DEF S
<1> QED
  BY <1>8, <1>9

LEMMA PerformOpenWindow ==
    ASSUME Inv, SessionsOK, RoutesOK, NEW r \in Session, PerformOpen(r),
           NEW s \in Session, NEW w \in Win, WindowOK(s, w), DoneOK(s, w)
    PROVE  WindowOK(s, w)'
<1> DEFINE j == Head(driver[r]).job
           S == OpeningsOf(s, w)
<1>1. PICK v \in Win : /\ Unopened(r, v) /\ PerformedAs(r, [j EXCEPT !.w = v])
                       /\ page' = [page EXCEPT ![r][v] = NewPage(v, j.p)]
  BY PerformOpenJob
<1> DEFINE k == [j EXCEPT !.w = v]
<1>2. /\ j \in Job /\ Opening(j) /\ j.s = r /\ j.w = 0 /\ j.p \in AnyWin /\ UNCHANGED <<db, sent>>
  BY PerformOpenJob DEF AnyWin
<1>3. k \in Job /\ k.kind = j.kind /\ k.s = j.s /\ k.p = j.p /\ k.w = v
  BY <1>2 DEF Job
<1> HIDE DEF k
<1>4. PerformedAs(r, k)
  BY <1>1 DEF k
<1>5. page'[s][w] = IF s = r /\ w = v THEN NewPage(v, j.p) ELSE page[s][w]
  BY <1>1 DEF Inv, TypeOK
<1>6. \A P : /\ Openings(s, P, {w}) \in SUBSET JobsOf(s)
             /\ j \notin Openings(s, P, {w})
             /\ k \in Openings(s, P, {w}) => s = r /\ w = v /\ j.p \in P
  <2>1. w # 0
    BY WinFacts
  <2> QED
    BY <1>2, <1>3, <2>1, OpeningMembers
<1>7. Stays(s, Past(s, w))
  BY PastStays
<1>8. Told(s, w)' <=> Told(s, w)
  BY <1>2 DEF Told
<1> HIDE DEF j, S
<1>9. CASE ~ (s = r /\ w = v)
  <2>1. \A P : Stays(s, Openings(s, P, {w}))
    BY <1>2, <1>3, <1>4, <1>6, <1>9, MovesStay DEF j
  <2>2. PageStays(s, w)
    BY <1>5, <1>9 DEF PageStays, Appeared
  <2> QED
    BY <1>2, <1>7, <1>8, <2>1, <2>2, CalmWindows DEF WindowCalm
<1>10. CASE s = r /\ w = v
  <2>1. /\ ~ Appeared(s, w) /\ page'[s][w] = NewPage(v, j.p)
        /\ ~ Exists(db, WinKey(s, w)) /\ ~ Held(fifo, driver[s], Past(s, w))
        /\ ~ Held(fifo, driver[s], S) /\ Solitary(fifo, driver[s], S)
    BY <1>1, <1>5, <1>10 DEF Unopened, Appeared, WindowOK, S
  <2>2. NewPage(v, j.p).st = "loading" /\ NewPage(v, j.p).parent = j.p
    BY DEF NewPage, NoPage
  <2>3. ~ Told(s, w)
    BY <2>1 DEF DoneOK, Appeared
  <2>4. \A P : Turn(s, Openings(s, P, {w}), FALSE, k \in Openings(s, P, {w}))
    <3> TAKE P
    <3>1. Turn(s, Openings(s, P, {w}), j \in Openings(s, P, {w}), k \in Openings(s, P, {w}))
      BY <1>2, <1>3, <1>4, <1>6, PerformedTurn DEF j
    <3>2. j \notin Openings(s, P, {w})
      BY <1>6
    <3> QED
      BY <3>1, <3>2 DEF Turn
  <2>5. Solitary(fifo', driver'[s], S)
    BY <2>1, <2>4 DEF Turn, S, OpeningsOf
  <2>6. ASSUME NEW p \in AnyWin, Held(fifo', driver'[s], OpeningsBy(s, p, w))
        PROVE  page'[s][w].parent = p
    <3>1. ~ Held(fifo, driver[s], OpeningsBy(s, p, w))
      <4>1. OpeningsBy(s, p, w) \subseteq S
        BY OpeningsWithin DEF AnyWin, S
      <4> QED
        BY <2>1, <4>1, HeldWithin
    <3>2. k \in OpeningsBy(s, p, w)
      BY <2>4, <2>6, <3>1 DEF Turn, OpeningsBy
    <3>3. j.p = p
      BY <1>6, <3>2 DEF OpeningsBy
    <3> QED
      BY <2>1, <2>2, <3>3
  <2>7. ~ Held(fifo', driver'[s], Past(s, w))
    BY <1>7, <2>1 DEF Stays
  <2> QED
    BY <1>2, <1>8, <2>1, <2>2, <2>3, <2>5, <2>6, <2>7 DEF WindowOK, Appeared, S
<1> QED
  BY <1>9, <1>10

LEMMA WindowsKept ==
    ASSUME Inv, SessionsOK, RoutesOK, NoErrors, MaxErrors = 0, [Next]_vars,
           NEW s \in Session, NEW w \in Win, WindowOK(s, w), DoneOK(s, w)
    PROVE  WindowOK(s, w)'
<1>0. fifo # <<>> => Head(fifo) \in Job /\ (Head(fifo) \in Past(s, w) => Held(fifo, driver[s], Past(s, w)))
  BY QueuesTyped, TailHas DEF Held
<1>1. CASE \/ StillStep \/ QuietStep
           \/ \E r \in Session :
                 \/ PerformClose(r) \/ PerformEnd(r) \/ MinuteOver(r)
                 \/ (OpenAnswered(r) \/ EndAnswered(r)) /\ UNCHANGED runVars
                 \/ \E v \in Win : Receive(r, v) /\ TEST_FINISH(r, v)
                 \/ \E v \in Win : SendNewTest(r, v) \/ PageOpened(r, v) \/ PageFinished(r, v)
  BY <1>1, PlainWindows, CalmWindows
<1>2. CASE AddWin /\ UNCHANGED runVars
  BY <1>2, AddWinWindow
<1>3. CASE GetWin /\ UNCHANGED runVars
  <2>1. (\A P : Stays(s, Openings(s, P, {w}))) /\ db' = db /\ sent' = sent /\ page' = page
    BY <1>3, OpeningsStay, GetWinJob DEF Kept, runVars
  <2>2. Stays(s, Past(s, w)) \/ Exists(db, WinKey(s, w))
    <3>1. CASE fifo' = fifo /\ driver' = driver
      BY <3>1 DEF Stays
    <3>2. ASSUME NEW k \in Job, GoesOn(k), Exists(db, WinKey(k.s, k.w))
          PROVE  Stays(s, Past(s, w)) \/ Exists(db, WinKey(s, w))
      <4>1. k \in Past(s, w) => k.s = s /\ k.w = w
        BY DEF Past, JobsOf
      <4>2. k \notin Past(s, w) => Stays(s, Past(s, w))
        BY <3>2, PastMembers, MovesStay
      <4> QED
        BY <3>2, <4>1, <4>2
    <3> QED
      BY <1>3, <3>1, <3>2, GetWinJob
  <2>3. PageStays(s, w) /\ (Told(s, w)' => Told(s, w))
    BY <2>1 DEF PageStays, Appeared, Told
  <2> QED
    BY <2>1, <2>2, <2>3, CalmWindows DEF WindowCalm
<1>4. CASE SetWin /\ UNCHANGED runVars
  <2> DEFINE j == Head(fifo)
  <2>1. /\ (\A P : Stays(s, Openings(s, P, {w}))) /\ Stays(s, Past(s, w))
        /\ sent' = sent /\ page' = page
    BY <1>4, OpeningsStay, PastStays, SetWinJob DEF Kept, runVars
  <2>2. /\ j \in Job /\ Knows(j) /\ j.kind \in {"finish", "error"} /\ j.s \in Session /\ j.w \in Win
        /\ j.row \in Row /\ db' = PutRow(db, j.s, j.w, j.row) /\ db \in Database /\ fifo # <<>>
    BY <1>4, SetWinJob, AnswersFacts DEF SetWin, Inv, TypeOK
  <2>3. j.s = s /\ j.w = w => j \in Past(s, w)
    BY <2>2 DEF Past, JobsOf, Opening
  <2>4. j.s = s /\ j.w = w => Held(fifo, driver[s], Past(s, w))
    BY <1>0, <2>2, <2>3
  <2> HIDE DEF j
  <2>5. Exists(db', WinKey(s, w)) =>
          Exists(db, WinKey(s, w)) \/ Held(fifo, driver[s], Past(s, w))
    BY <2>2, <2>4, PutRowParent
  <2>6. PageStays(s, w) /\ (Told(s, w)' => Told(s, w))
    BY <2>1 DEF PageStays, Appeared, Told
  <2> QED
    BY <2>1, <2>5, <2>6, CalmWindows DEF WindowCalm
<1>5. ASSUME NEW r \in Session, PerformOpen(r) PROVE WindowOK(s, w)'
  BY <1>5, PerformOpenWindow
<1>6. ASSUME NEW r \in Session,
             \/ BrowserReady(r) \/ PerformOpenAfterEnd(r)
             \/ \E v \in Win : Receive(r, v) /\ NEW_TEST(r, v)
      PROVE  WindowOK(s, w)'
  <2>1. db' = db /\ sent' = sent /\ page' = page
    BY <1>6, BrowserReadyJob, PerformOpenAfterEndJob, ReceivedJob DEF Receive
  <2>2. Stays(s, Past(s, w))
    BY <1>6, PastStays
  <2>3. \A P : Stays(s, Openings(s, P, {w}))
    <3> TAKE P
    <3>1. \A k \in Job : k.w = 0 => k \notin Openings(s, P, {w})
      BY WinFacts, OpeningMembers
    <3>2. Openings(s, P, {w}) \in SUBSET JobsOf(s)
      BY OpeningMembers
    <3>3. CASE PerformOpenAfterEnd(r)
      BY <3>2, <3>3, PerformOpenAfterEndJob, MovesStay
    <3>4. CASE BrowserReady(r) \/ \E v \in Win : Receive(r, v) /\ NEW_TEST(r, v)
      <4>1. PICK k \in Job : Begins(k) /\ k.w = 0
        BY <3>4, BrowserReadyJob, ReceivedJob
      <4> QED
        BY <3>1, <3>2, <4>1, MovesStay
    <3> QED
      BY <1>6, <3>3, <3>4
  <2>4. PageStays(s, w) /\ (Told(s, w)' => Told(s, w))
    BY <2>1 DEF PageStays, Appeared, Told
  <2> QED
    BY <2>1, <2>2, <2>3, <2>4, CalmWindows DEF WindowCalm
<1>7. ASSUME NEW r \in Session, CloseAnswered(r), UNCHANGED runVars PROVE WindowOK(s, w)'
  <2> DEFINE j == Head(driver[r]).job
  <2>1. /\ Dismissed(r) /\ j \in Job /\ j.s = r /\ j.kind = "finish" /\ j.w \in Win
        /\ Head(driver[r]) \in BrowserJob /\ db' = db
    BY <1>7, CloseAnsweredJob
  <2>2. Knows(j)
    BY <2>1, FitHeads DEF FitCommand, Opening, Dismissed
  <2>3. (\A P : Stays(s, Openings(s, P, {w}))) /\ Stays(s, Past(s, w))
    BY <1>7, OpeningsStay, PastStays DEF Kept
  <2>4. r = s /\ j.w = w => Held(fifo, driver[s], Past(s, w))
    <3>1. ASSUME r = s, j.w = w PROVE Head(driver[s]) \in On(Past(s, w))
      BY <2>1, <2>2, <3>1 DEF On, Past, JobsOf, Opening
    <3> QED
      BY <2>1, <3>1, QueuesTyped, TailHas DEF Held, Dismissed
  <2>5. Told(s, w)' => Told(s, w) \/ Held(fifo, driver[s], Past(s, w))
    BY <1>7, <2>4, ToldFacts
  <2>6. PageStays(s, w)
    BY <1>7 DEF PageStays, Appeared, runVars
  <2> QED
    BY <2>1, <2>3, <2>5, <2>6, CalmWindows DEF WindowCalm
<1> QED
  BY <1>1, <1>2, <1>3, <1>4, <1>5, <1>6, <1>7, PlayCases

-----------------------------------------------------------------------------
(***************************************************************************)
(* Every step keeps what is done: the results that are written and the     *)
(* windows that are closed.                                                *)
(***************************************************************************)
Finishing(s, w) == Has(fifo, WrittenOf(s, w)) \/ Has(driver[s], FinishesOf(s, w))
Closing(s, w) == Has(driver[s], ClosesOf(s, w))

LEMMA DoneMoves ==
    ASSUME Inv, NEW s \in Session, NEW w \in Win
    PROVE  /\ fifo' = fifo /\ driver' = driver =>
                 (Finishing(s, w)' => Finishing(s, w)) /\ (Closing(s, w)' => Closing(s, w))
           /\ Leaves => (Finishing(s, w)' => Finishing(s, w)) /\ (Closing(s, w)' => Closing(s, w))
           /\ \A r \in Session : Dismissed(r) \/ Ended(r) =>
                 (Finishing(s, w)' => Finishing(s, w)) /\ (Closing(s, w)' => Closing(s, w))
           /\ \A k \in Job : GoesOn(k) \/ Begins(k) \/ (\E r \in Session : Returns(r, k)) =>
                 /\ Finishing(s, w)' => Finishing(s, w) \/ k \in WrittenOf(s, w)
                 /\ Closing(s, w)' => Closing(s, w)
           /\ \A k \in Job : Driven(k) =>
                 /\ Finishing(s, w)' => Finishing(s, w) \/ (k.s = s /\ k.w = w /\ k.kind = "finish")
                 /\ Closing(s, w)' => Closing(s, w)
           /\ \A r \in Session, k \in Job : PerformedAs(r, k) =>
                 /\ Finishing(s, w)' => Finishing(s, w) \/ (r = s /\ k.w = w /\ k.kind = "finish")
                 /\ Closing(s, w)' => Closing(s, w) \/ (r = s /\ k.w = w /\ BrowserCommand(k) = "close")
<1> DEFINE Joins(x, y, z) == /\ Arrive(s, WrittenOf(s, w), FinishesOf(s, w), x, y)
                            /\ Arrive(s, WrittenOf(s, w), ClosesOf(s, w), x, z)
<1>1. \A x, y, z : Joins(x, y, z) =>
         /\ Finishing(s, w)' => Finishing(s, w) \/ x \/ y
         /\ Closing(s, w)' => Closing(s, w) \/ z
  BY DEF Arrive, Finishing, Closing
<1>2. (fifo' = fifo /\ driver' = driver) \/ Leaves => Joins(FALSE, FALSE, FALSE)
  BY FifoArrivals
<1>3. ASSUME NEW r \in Session, Dismissed(r) \/ Ended(r) PROVE Joins(FALSE, FALSE, FALSE)
  <2>1. Destroy(r, "ownKeys") \notin WrittenOf(s, w) /\ Destroy(r, "allKeys") \notin WrittenOf(s, w)
    BY NewJobFit DEF WrittenOf, JobsOf
  <2>2. /\ Dismissed(r) => Joins(FALSE, FALSE, FALSE)
        /\ Ended(r) => Joins(Destroy(r, "ownKeys") \in WrittenOf(s, w) \/ Destroy(r, "allKeys") \in WrittenOf(s, w),
                            FALSE, FALSE)
    BY AnswerArrivals
  <2> QED
    BY <1>3, <2>1, <2>2 DEF Arrive
<1>4. ASSUME NEW k \in Job, GoesOn(k) \/ Begins(k) \/ \E r \in Session : Returns(r, k)
      PROVE  Joins(k \in WrittenOf(s, w), FALSE, FALSE)
  BY <1>4, FifoArrivals, AnswerArrivals
<1>5. ASSUME NEW k \in Job, Driven(k)
      PROVE  Joins(FALSE, k.s = s /\ k.w = w /\ k.kind = "finish", FALSE)
  <2>1. Handed(k) \in FinishesOf(s, w) => k.w = w /\ k.kind = "finish"
    BY HandedFacts DEF FinishesOf
  <2>2. Handed(k) \notin ClosesOf(s, w)
    BY HandedFacts DEF ClosesOf
  <2>3. Joins(FALSE, k.s = s /\ Handed(k) \in FinishesOf(s, w), k.s = s /\ Handed(k) \in ClosesOf(s, w))
    BY <1>5, DrivenArrives DEF Handed
  <2> QED
    BY <2>1, <2>2, <2>3 DEF Arrive
<1>6. ASSUME NEW r \in Session, NEW k \in Job, PerformedAs(r, k)
      PROVE  Joins(FALSE, r = s /\ k.w = w /\ k.kind = "finish",
                  r = s /\ k.w = w /\ BrowserCommand(k) = "close")
  <2> DEFINE b == [job |-> k, performed |-> TRUE]
  <2>1. b \in BrowserJob /\ b.job = k
    BY DEF BrowserJob
  <2>2. Joins(FALSE, r = s /\ b \in FinishesOf(s, w), r = s /\ b \in ClosesOf(s, w))
    BY <1>6, PerformedArrives
  <2> HIDE DEF b
  <2>3. /\ b \in FinishesOf(s, w) => k.w = w /\ k.kind = "finish"
        /\ b \in ClosesOf(s, w) => k.w = w /\ BrowserCommand(k) = "close"
    BY <2>1 DEF FinishesOf, ClosesOf
  <2> QED
    BY <2>2, <2>3 DEF Arrive
<1> HIDE DEF Joins
<1>7. (fifo' = fifo /\ driver' = driver) \/ Leaves =>
         (Finishing(s, w)' => Finishing(s, w)) /\ (Closing(s, w)' => Closing(s, w))
  BY <1>1, <1>2
<1>8. ASSUME NEW r \in Session, Dismissed(r) \/ Ended(r)
      PROVE  (Finishing(s, w)' => Finishing(s, w)) /\ (Closing(s, w)' => Closing(s, w))
  BY <1>1, <1>3, <1>8
<1>9. ASSUME NEW k \in Job, GoesOn(k) \/ Begins(k) \/ \E r \in Session : Returns(r, k)
      PROVE  /\ Finishing(s, w)' => Finishing(s, w) \/ k \in WrittenOf(s, w)
             /\ Closing(s, w)' => Closing(s, w)
  <2>1. Joins(k \in WrittenOf(s, w), FALSE, FALSE)
    BY <1>4, <1>9
  <2>2. CASE k \in WrittenOf(s, w)
    <3>1. Joins(TRUE, FALSE, FALSE)
      BY <2>1, <2>2 DEF Joins, Arrive
    <3> QED
      BY <1>1, <2>2, <3>1
  <2>3. CASE k \notin WrittenOf(s, w)
    <3>1. Joins(FALSE, FALSE, FALSE)
      BY <2>1, <2>3 DEF Joins, Arrive
    <3> QED
      BY <1>1, <3>1
  <2> QED
    BY <2>2, <2>3
<1>10. ASSUME NEW k \in Job, Driven(k)
       PROVE  /\ Finishing(s, w)' => Finishing(s, w) \/ (k.s = s /\ k.w = w /\ k.kind = "finish")
              /\ Closing(s, w)' => Closing(s, w)
  BY <1>1, <1>5, <1>10
<1>11. ASSUME NEW r \in Session, NEW k \in Job, PerformedAs(r, k)
       PROVE  /\ Finishing(s, w)' => Finishing(s, w) \/ (r = s /\ k.w = w /\ k.kind = "finish")
              /\ Closing(s, w)' => Closing(s, w) \/ (r = s /\ k.w = w /\ BrowserCommand(k) = "close")
  BY <1>1, <1>6, <1>11
<1> QED
  BY <1>7, <1>8, <1>9, <1>10, <1>11

\* Who finishes a window knows it
LEMMA FinishingIsPast ==
    ASSUME Inv, RoutesOK, NEW s \in Session, NEW w \in Win
    PROVE  Finishing(s, w) => Held(fifo, driver[s], Past(s, w))
<1>1. WrittenOf(s, w) \subseteq Past(s, w)
  BY DEF WrittenOf, Past, Written, Knows, Opening
<1>2. ASSUME Has(driver[s], FinishesOf(s, w)) PROVE Has(driver[s], On(Past(s, w)))
  <2>1. PICK i \in 1..Len(driver[s]) : driver[s][i] \in FinishesOf(s, w)
    BY <1>2 DEF Has
  <2> DEFINE b == driver[s][i]
  <2>2. b.job.s = s
    BY <2>1 DEF Inv, DriverOK, CommandsOK, CommandOK
  <2>3. FitCommand(b)
    BY <2>1 DEF RoutesOK, Has, MisfitCommand, FinishesOf
  <2>4. b \in BrowserJob /\ b.job \in Job /\ b.job.kind = "finish" /\ b.job.w = w
    BY <2>1 DEF FinishesOf, BrowserJob
  <2>5. b \in On(Past(s, w))
    BY <2>2, <2>3, <2>4 DEF On, Past, JobsOf, FitCommand, Opening
  <2> QED
    BY <2>5 DEF Has
<1> QED
  BY <1>1, <1>2 DEF Held, Has, Finishing

DoneCalm(s, w) ==
    /\ Finishing(s, w)' => Finishing(s, w) \/ ResultStored(s, w)'
    /\ Closing(s, w)' => Closing(s, w) \/ page'[s][w].st = "closed"
    /\ Told(s, w)' => Told(s, w) \/ (Finishing(s, w) /\ Closing(s, w))
    /\ ResultStored(s, w) => ResultStored(s, w)'
    /\ PageStays(s, w)

LEMMA CalmDone ==
    ASSUME NEW s \in Session, NEW w \in Win, DoneOK(s, w), DoneCalm(s, w)
    PROVE  DoneOK(s, w)'
<1>1. /\ Finishing(s, w) => ResultStored(s, w)
      /\ Closing(s, w) => page[s][w].st = "closed"
      /\ Told(s, w) => page[s][w].st = "closed" /\ ResultStored(s, w)
  BY DEF DoneOK, Finishing, Closing
<1>2. /\ Finishing(s, w)' => ResultStored(s, w)'
      /\ Closing(s, w)' => page'[s][w].st = "closed"
      /\ Told(s, w)' => page'[s][w].st = "closed" /\ ResultStored(s, w)'
  BY <1>1 DEF DoneCalm, PageStays
<1> QED
  BY <1>2 DEF DoneOK, Finishing, Closing

LEMMA ResultFacts ==
    ASSUME NEW s \in Session, NEW w \in Win, db' = db \/ RowsStay
    PROVE  ResultStored(s, w) => ResultStored(s, w)'
  BY DEF ResultStored, RowsStay

LEMMA SetWinResult ==
    ASSUME Inv, SessionsOK, RoutesOK, NoErrors, SetWin, NEW s \in Session, NEW w \in Win
    PROVE  ResultStored(s, w) \/ (Head(fifo).s = s /\ Head(fifo).w = w) => ResultStored(s, w)'
<1> DEFINE j == Head(fifo)
<1>1. /\ j.kind = "finish" /\ j.s \in Session /\ j.w \in Win /\ j.row \in Row /\ j.row.result
      /\ db' = PutRow(db, j.s, j.w, j.row) /\ db \in Database
  <2>1. fifo # <<>> /\ j \in Job /\ (j \in ErrorJobs => Has(fifo, ErrorJobs))
    BY AnswersFacts, QueuesTyped, TailHas DEF SetWin
  <2>2. j.kind # "error"
    BY <2>1 DEF NoErrors, ErrorJobs
  <2> QED
    BY <2>2, SetWinJob DEF Inv, TypeOK
<1> HIDE DEF j
<1>2. CASE ~ (j.s = s /\ j.w = w)
  BY <1>1, <1>2, PutRowParent DEF ResultStored, j
<1>3. CASE j.s = s /\ j.w = w
  <2>1. db.row \in [Session -> [Win -> Row]]
    BY <1>1 DEF Database
  <2>2. RowOf(db', s, w) = IF Exists(db, WinKey(s, w)) THEN Merge(RowOf(db, s, w), j.row) ELSE j.row
    BY <1>1, <1>3, <2>1 DEF PutRow, RowOf
  <2>3. Merge(RowOf(db, s, w), j.row).result
    BY <1>1 DEF Merge, Row
  <2> QED
    BY <1>1, <2>2, <2>3 DEF ResultStored
<1> QED
  BY <1>2, <1>3 DEF j

LEMMA DoneKept ==
    ASSUME Inv, SessionsOK, RoutesOK, NoErrors, MaxErrors = 0, [Next]_vars,
           NEW s \in Session, NEW w \in Win, WindowOK(s, w), DoneOK(s, w)
    PROVE  DoneOK(s, w)'
<1>0. fifo # <<>> => /\ Head(fifo) \in Job
                     /\ Head(fifo) \in WrittenOf(s, w) => Finishing(s, w)
                     /\ Head(fifo).kind # "error"
  <2>1. fifo # <<>> => /\ Head(fifo) \in Job
                       /\ Head(fifo) \in WrittenOf(s, w) => Has(fifo, WrittenOf(s, w))
                       /\ Head(fifo) \in ErrorJobs => Has(fifo, ErrorJobs)
    BY QueuesTyped, TailHas
  <2> QED
    BY <2>1 DEF Finishing, NoErrors, ErrorJobs
<1>1. CASE StillStep
  <2>1. UNCHANGED <<db, fifo, driver>> /\ PageStays(s, w) /\ sent' \subseteq sent
    BY <1>1 DEF StillStep, IdleStep, PagesCalm, PageCalm
  <2> QED
    BY <2>1, DoneMoves, ResultFacts, ToldFacts, CalmDone DEF DoneCalm
<1>2. ASSUME NEW r \in Session, NEW v \in Win, SendNewTest(r, v) \/ PageOpened(r, v) \/ PageFinished(r, v)
      PROVE  DoneOK(s, w)'
  <2>1. UNCHANGED <<db, fifo, driver>> /\ PageStays(s, w) /\ sent' \subseteq sent
    BY <1>2, AskFacts, OpenedFacts, FinishedFacts
  <2> QED
    BY <2>1, DoneMoves, ResultFacts, ToldFacts, CalmDone DEF DoneCalm
<1>3. CASE QuietStep
  <2>1. RowsStay /\ PageStays(s, w) /\ sent' = sent /\ JobMoves
    BY <1>3, SamePages DEF QuietStep, PagesCalm, PageCalm
  <2>2. (Finishing(s, w)' => Finishing(s, w)) /\ (Closing(s, w)' => Closing(s, w))
    <3>1. ASSUME NEW k \in Job, GoesOn(k), Follows(Head(fifo), k)
          PROVE  (Finishing(s, w)' => Finishing(s, w)) /\ (Closing(s, w)' => Closing(s, w))
      <4>1. k \in WrittenOf(s, w) => Head(fifo) \in WrittenOf(s, w)
        BY <1>0, <3>1 DEF GoesOn, Follows, WrittenOf, JobsOf
      <4> QED
        BY <1>0, <3>1, <4>1, DoneMoves DEF GoesOn
    <3>2. ASSUME NEW k \in Job, Driven(k), Follows(Head(fifo), k), k.kind = "finish" => Written(k)
          PROVE  (Finishing(s, w)' => Finishing(s, w)) /\ (Closing(s, w)' => Closing(s, w))
      <4>1. k.s = s /\ k.w = w /\ k.kind = "finish" => Head(fifo) \in WrittenOf(s, w)
        BY <1>0, <3>2 DEF Driven, Follows, WrittenOf, JobsOf
      <4> QED
        BY <1>0, <3>2, <4>1, DoneMoves DEF Driven
    <3> QED
      BY <2>1, <3>1, <3>2, DoneMoves DEF JobMoves
  <2> QED
    BY <2>1, <2>2, ResultFacts, ToldFacts, CalmDone DEF DoneCalm
<1>4. CASE AddWin /\ UNCHANGED runVars
  <2> DEFINE j == Head(fifo)
  <2>1. /\ Leaves /\ j.s \in Session /\ j.w \in Win
        /\ db' = PutRow(db, j.s, j.w, NewRow(j.p)) /\ NewRow(j.p) \in Row /\ db \in Database
        /\ sent' = sent \cup {Opened(j.s, j.p, j.w)} /\ PageStays(s, w)
    BY <1>4, AddWinJob, RowFacts DEF AddWin, Inv, TypeOK, PageStays, Appeared, runVars
  <2>2. /\ Finishing(s, w)' => Finishing(s, w)
        /\ Closing(s, w)' => Closing(s, w)
        /\ Told(s, w)' => Told(s, w)
    BY <2>1, DoneMoves, ToldFacts
  <2>3. j.s = s /\ j.w = w => Held(fifo, driver[s], OpeningsOf(s, w))
    BY <1>4, AddWinWindow
  <2> HIDE DEF j
  <2>4. CASE j.s = s /\ j.w = w
    <3>1. ~ Finishing(s, w) /\ ~ Told(s, w)
      BY <2>3, <2>4, FinishingIsPast DEF WindowOK
    <3> QED
      BY <2>1, <2>2, <3>1 DEF DoneOK, Finishing, Closing, PageStays
  <2>5. CASE ~ (j.s = s /\ j.w = w)
    <3>1. ResultStored(s, w) => ResultStored(s, w)'
      BY <2>1, <2>5, PutRowParent DEF ResultStored
    <3> QED
      BY <2>1, <2>2, <3>1, CalmDone DEF DoneCalm
  <2> QED
    BY <2>4, <2>5
<1>5. CASE GetWin /\ UNCHANGED runVars
  <2>1. /\ db' = db /\ sent' = sent /\ PageStays(s, w)
        /\ \/ fifo' = fifo /\ driver' = driver
           \/ \E k \in Job : GoesOn(k) /\ ~ Written(k)
    BY <1>5, GetWinJob DEF PageStays, Appeared, runVars
  <2>2. (Finishing(s, w)' => Finishing(s, w)) /\ (Closing(s, w)' => Closing(s, w))
    BY <2>1, DoneMoves DEF WrittenOf
  <2> QED
    BY <2>1, <2>2, ResultFacts, ToldFacts, CalmDone DEF DoneCalm
<1>6. CASE SetWin /\ UNCHANGED runVars
  <2> DEFINE j == Head(fifo)
  <2>1. /\ fifo # <<>> /\ j \in Job /\ j.kind = "finish" /\ j.s \in Session /\ j.w \in Win
        /\ j.row \in Row /\ j.row.result /\ db' = PutRow(db, j.s, j.w, j.row) /\ db \in Database
        /\ sent' = sent /\ PageStays(s, w)
        /\ Leaves \/ Driven(j) \/ \E k \in Job : GoesOn(k) /\ Alike(j, k)
    BY <1>0, <1>6, SetWinJob, AnswersFacts DEF SetWin, Inv, TypeOK, PageStays, Appeared, runVars
  <2>2. /\ Finishing(s, w)' => Finishing(s, w) \/ (j.s = s /\ j.w = w)
        /\ Closing(s, w)' => Closing(s, w)
    <3>1. \A k \in Job : Alike(j, k) /\ k \in WrittenOf(s, w) => j.s = s /\ j.w = w
      BY DEF Alike, WrittenOf, JobsOf
    <3> QED
      BY <2>1, <3>1, DoneMoves
  <2> HIDE DEF j
  <2>3. ResultStored(s, w) \/ (j.s = s /\ j.w = w) => ResultStored(s, w)'
    BY <1>6, SetWinResult DEF j
  <2> QED
    BY <2>1, <2>2, <2>3, ToldFacts, CalmDone DEF DoneCalm
<1>7. ASSUME NEW r \in Session,
             \/ BrowserReady(r) \/ MinuteOver(r) \/ PerformOpenAfterEnd(r)
             \/ (OpenAnswered(r) \/ EndAnswered(r)) /\ UNCHANGED runVars
             \/ \E v \in Win : Receive(r, v) /\ (NEW_TEST(r, v) \/ TEST_FINISH(r, v))
      PROVE  DoneOK(s, w)'
  <2>1. db' = db /\ page' = page
    BY <1>7, BrowserReadyJob, MinuteOverJob, PerformOpenAfterEndJob, OpenAnsweredJob, EndAnsweredJob,
       ReceivedJob DEF runVars, Receive
  <2>2. Told(s, w)' => Told(s, w)
    <3>1. CASE EndAnswered(r)
      BY <3>1, ToldFacts
    <3>2. CASE ~ EndAnswered(r)
      <4>1. sent' = sent
        BY <1>7, <3>2, BrowserReadyJob, MinuteOverJob, PerformOpenAfterEndJob, OpenAnsweredJob, ReceivedJob
      <4> QED
        BY <4>1, ToldFacts
    <3> QED
      BY <3>1, <3>2
  <2>3. (Finishing(s, w)' => Finishing(s, w)) /\ (Closing(s, w)' => Closing(s, w))
    <3>1. CASE PerformOpenAfterEnd(r) \/ EndAnswered(r)
      BY <3>1, PerformOpenAfterEndJob, EndAnsweredJob, DoneMoves
    <3>2. CASE OpenAnswered(r)
      <4>1. PICK k \in Job : Returns(r, k) /\ k.kind # "finish"
        BY <3>2, OpenAnsweredJob DEF Alike, Opening
      <4> QED
        BY <4>1, DoneMoves DEF WrittenOf, Written
    <3>3. CASE \/ BrowserReady(r) \/ MinuteOver(r)
               \/ \E v \in Win : Receive(r, v) /\ (NEW_TEST(r, v) \/ TEST_FINISH(r, v))
      <4>1. PICK k \in Job : Begins(k) /\ ~ Written(k)
        <5>1. ASSUME BrowserReady(r) PROVE \E k \in Job : Begins(k) /\ ~ Written(k)
          BY <5>1, BrowserReadyJob DEF Written
        <5>2. ASSUME MinuteOver(r) PROVE \E k \in Job : Begins(k) /\ ~ Written(k)
          BY <5>2, MinuteOverJob DEF Written
        <5>3. ASSUME NEW v \in Win, NEW_TEST(r, v) \/ TEST_FINISH(r, v)
              PROVE \E k \in Job : Begins(k) /\ ~ Written(k)
          BY <5>3, ReceivedJob DEF Written, Knows
        <5> QED
          BY <3>3, <5>1, <5>2, <5>3
      <4> QED
        BY <4>1, DoneMoves DEF WrittenOf
    <3> QED
      BY <1>7, <3>1, <3>2, <3>3
  <2>4. PageStays(s, w)
    BY <2>1 DEF PageStays, Appeared
  <2> QED
    BY <2>1, <2>2, <2>3, <2>4, ResultFacts, CalmDone DEF DoneCalm
<1>8. ASSUME NEW r \in Session, PerformOpen(r) PROVE DoneOK(s, w)'
  <2> DEFINE j == Head(driver[r]).job
  <2>1. PICK v \in Win : /\ Unopened(r, v) /\ PerformedAs(r, [j EXCEPT !.w = v])
                         /\ page' = [page EXCEPT ![r][v] = NewPage(v, j.p)]
    BY <1>8, PerformOpenJob
  <2>2. j \in Job /\ Opening(j) /\ UNCHANGED <<db, sent>>
    BY <1>8, PerformOpenJob
  <2> DEFINE k == [j EXCEPT !.w = v]
  <2>3. k \in Job /\ k.kind # "finish" /\ BrowserCommand(k) # "close" /\ PerformedAs(r, k)
    <3>1. k \in Job /\ k.kind \in {"newRoot", "newChild"}
      BY <2>2 DEF Job, Opening
    <3> HIDE DEF k
    <3> QED
      BY <2>1, <3>1 DEF BrowserCommand, k
  <2> HIDE DEF k
  <2>4. (Finishing(s, w)' => Finishing(s, w)) /\ (Closing(s, w)' => Closing(s, w))
    BY <2>3, DoneMoves
  <2>5. page'[s][w] = IF s = r /\ w = v THEN NewPage(v, j.p) ELSE page[s][w]
    BY <2>1 DEF Inv, TypeOK
  <2>6. PageStays(s, w)
    BY <2>1, <2>5 DEF PageStays, Appeared, Unopened
  <2> QED
    BY <2>2, <2>4, <2>6, ResultFacts, ToldFacts, CalmDone DEF DoneCalm
<1>9. ASSUME NEW r \in Session, PerformClose(r) \/ PerformEnd(r) PROVE DoneOK(s, w)'
  <2> DEFINE j == Head(driver[r]).job
  <2>1. /\ PerformedAs(r, j) /\ j \in Job /\ j.s = r /\ UNCHANGED <<db, sent>>
        /\ PageStays(s, w) /\ ~ Opening(j)
    BY <1>9, PerformCloseJob, PerformEndJob, ClosingPages DEF PagesCalm, PageCalm, Opening
  <2>2. /\ Head(driver[r]) \in BrowserJob /\ driver[r] \in Seq(BrowserJob) /\ driver[r] # <<>>
        /\ Head(driver[r]).job = j
    BY <2>1, FitHeads, QueuesTyped DEF PerformedAs
  <2>3. r = s /\ j.w = w /\ j.kind = "finish" => Finishing(s, w)
    <3>1. ASSUME r = s, j.w = w, j.kind = "finish" PROVE Head(driver[s]) \in FinishesOf(s, w)
      BY <2>2, <3>1 DEF FinishesOf
    <3>2. r = s /\ Head(driver[s]) \in FinishesOf(s, w) => Has(driver[s], FinishesOf(s, w))
      BY <2>2, TailHas
    <3> QED
      BY <3>1, <3>2 DEF Finishing
  <2> HIDE DEF j
  <2>4. r = s /\ j.w = w /\ BrowserCommand(j) = "close" => page'[s][w].st = "closed"
    <3> SUFFICES ASSUME r = s, j.w = w, BrowserCommand(j) = "close" PROVE page'[s][w].st = "closed"
      OBVIOUS
    <3>1. PerformClose(r)
      BY <1>9, PerformEndJob DEF j
    <3>2. j.kind = "finish" /\ page' = [page EXCEPT ![r][j.w] = Closed(@)]
      BY <3>1, PerformCloseJob DEF j
    <3>3. page[s][w] \in Page /\ page'[s][w] = Closed(page[s][w])
      BY <3>2 DEF Inv, TypeOK
    <3>4. Appeared(s, w)
      BY <2>3, <3>2, FinishingIsPast DEF WindowOK
    <3> QED
      BY <3>3, <3>4 DEF Closed, Appeared, Page
  <2>5. /\ Finishing(s, w)' => Finishing(s, w)
        /\ Closing(s, w)' => Closing(s, w) \/ page'[s][w].st = "closed"
    BY <2>1, <2>3, <2>4, DoneMoves
  <2> QED
    BY <2>1, <2>5, ResultFacts, ToldFacts, CalmDone DEF DoneCalm
<1>10. ASSUME NEW r \in Session, CloseAnswered(r), UNCHANGED runVars PROVE DoneOK(s, w)'
  <2> DEFINE b == Head(driver[r])
  <2>1. /\ Dismissed(r) /\ b \in BrowserJob /\ b.job.kind = "finish" /\ b.performed
        /\ BrowserCommand(b.job) = "close" /\ db' = db /\ PageStays(s, w)
        /\ driver[r] \in Seq(BrowserJob) /\ driver[r] # <<>>
    BY <1>10, CloseAnsweredJob, QueuesTyped DEF runVars, PageStays, Appeared, Dismissed
  <2>2. r = s /\ b.job.w = w => b \in FinishesOf(s, w) /\ b \in ClosesOf(s, w)
    BY <2>1 DEF FinishesOf, ClosesOf
  <2>3. r = s /\ b.job.w = w => Finishing(s, w) /\ Closing(s, w)
    BY <2>1, <2>2, TailHas DEF Finishing, Closing
  <2>4. Told(s, w)' => Told(s, w) \/ (Finishing(s, w) /\ Closing(s, w))
    BY <1>10, <2>3, ToldFacts
  <2> HIDE DEF b
  <2> QED
    BY <2>1, <2>4, DoneMoves, ResultFacts, CalmDone DEF DoneCalm
<1> QED
  BY <1>1, <1>2, <1>3, <1>4, <1>5, <1>6, <1>7, <1>8, <1>9, <1>10, PlayCases

-----------------------------------------------------------------------------
(***************************************************************************)
(* Every step keeps the order of the windows.                              *)
(***************************************************************************)
LEMMA ResultKept ==
    ASSUME Inv, SessionsOK, RoutesOK, NoErrors, MaxErrors = 0, [Next]_vars,
           NEW s \in Session, NEW w \in Win, ResultStored(s, w)
    PROVE  \/ ResultStored(s, w)'
           \/ AddWin /\ UNCHANGED runVars /\ Head(fifo).s = s /\ Head(fifo).w = w
<1>1. db' = db \/ RowsStay => ResultStored(s, w)'
  BY ResultFacts
<1>2. CASE AddWin /\ UNCHANGED runVars
  <2>1. /\ Head(fifo).s \in Session /\ Head(fifo).w \in Win /\ NewRow(Head(fifo).p) \in Row
        /\ db' = PutRow(db, Head(fifo).s, Head(fifo).w, NewRow(Head(fifo).p)) /\ db \in Database
    BY <1>2, AddWinJob, RowFacts DEF AddWin, Inv, TypeOK
  <2> QED
    BY <1>2, <2>1, PutRowParent DEF ResultStored
<1>3. CASE SetWin
  BY <1>3, SetWinResult
<1>4. CASE StillStep \/ QuietStep \/ GetWin
  BY <1>1, <1>4, GetWinJob DEF StillStep, IdleStep, QuietStep
<1>5. ASSUME NEW r \in Session,
             \/ BrowserReady(r) \/ MinuteOver(r)
             \/ PerformOpen(r) \/ PerformOpenAfterEnd(r) \/ PerformClose(r) \/ PerformEnd(r)
             \/ OpenAnswered(r) \/ CloseAnswered(r) \/ EndAnswered(r)
      PROVE  ResultStored(s, w)'
  BY <1>1, <1>5, BrowserReadyJob, MinuteOverJob, PerformOpenJob, PerformOpenAfterEndJob,
     PerformCloseJob, PerformEndJob, OpenAnsweredJob, CloseAnsweredJob, EndAnsweredJob
<1>6. ASSUME NEW r \in Session, NEW v \in Win,
             \/ SendNewTest(r, v) \/ PageOpened(r, v) \/ PageFinished(r, v)
             \/ NEW_TEST(r, v) \/ TEST_FINISH(r, v)
      PROVE  ResultStored(s, w)'
  BY <1>1, <1>6, AskFacts, OpenedFacts, FinishedFacts, ReceivedJob
<1> QED
  BY <1>2, <1>3, <1>4, <1>5, <1>6, PlayCases

LEMMA ConsolesGoOn ==
    ASSUME Inv, SessionsOK, RoutesOK, NoErrors, MaxErrors = 0, [Next]_vars, NEW s \in Session
    PROVE  console'[s] \in NotStarted => console[s] \in NotStarted
<1>1. CASE StillStep \/ QuietStep \/ ((AddWin \/ GetWin \/ SetWin) /\ UNCHANGED runVars)
  BY <1>1 DEF StillStep, IdleStep, QuietStep, runVars
<1>2. ASSUME NEW r \in Session, BrowserReady(r) PROVE console'[s] \in NotStarted => console[s] \in NotStarted
  BY <1>2, BrowserReadyJob
<1>3. ASSUME NEW r \in Session,
             \/ MinuteOver(r)
             \/ PerformOpen(r) \/ PerformOpenAfterEnd(r) \/ PerformClose(r) \/ PerformEnd(r)
             \/ (OpenAnswered(r) \/ CloseAnswered(r) \/ EndAnswered(r)) /\ UNCHANGED runVars
      PROVE  console' = console
  BY <1>3, MinuteOverJob, PerformOpenJob, PerformOpenAfterEndJob, PerformCloseJob, PerformEndJob DEF runVars
<1>4. ASSUME NEW r \in Session, NEW v \in Win,
             SendNewTest(r, v) \/ PageOpened(r, v) \/ PageFinished(r, v) \/ Receive(r, v)
      PROVE  console' = console
  BY <1>4, AskFacts, OpenedFacts, FinishedFacts DEF Receive
<1> QED
  BY <1>1, <1>2, <1>3, <1>4, PlayCases

Over(s, w) == page[s][w].st = "closed" /\ ResultStored(s, w)

OrderCalm(s) ==
    /\ \A w \in Win : PageStays(s, w) /\ (page'[s][w].st # "none" => Appeared(s, w))
    /\ \A p, w \in Win : page[s][w].parent = p =>
          /\ Current(s, p, w) => Current(s, p, w)' \/ Over(s, w)'
          /\ ResultStored(s, w) => ResultStored(s, w)' \/ Current(s, p, w)'
    /\ Stays(s, OpeningsBy(s, NoParent, 0))
    /\ console'[s] \in NotStarted => console[s] \in NotStarted

LEMMA CalmOrder ==
    ASSUME NEW s \in Session, OrderOK(s), OrderCalm(s)
    PROVE  OrderOK(s)'
<1>1. ASSUME NEW p \in Win, NEW w \in Win,
             page'[s][w].st # "none", page'[s][w].parent = p, ~ Current(s, p, w)'
      PROVE  Over(s, w)'
  <2>1. Appeared(s, w) /\ page[s][w].parent = p
    BY <1>1 DEF OrderCalm, PageStays
  <2>2. CASE Current(s, p, w)
    BY <1>1, <2>1, <2>2 DEF OrderCalm
  <2>3. CASE ~ Current(s, p, w)
    <3>1. page[s][w].st = "closed" /\ ResultStored(s, w)
      BY <2>1, <2>3 DEF OrderOK
    <3>2. ResultStored(s, w)' /\ page'[s][w].st = "closed"
      BY <1>1, <2>1, <3>1 DEF OrderCalm, PageStays
    <3> QED
      BY <3>2 DEF Over
  <2> QED
    BY <2>2, <2>3
<1>2. ASSUME console'[s] \in NotStarted \/ Held(fifo', driver'[s], OpeningsBy(s, NoParent, 0)),
             NEW w \in Win, page'[s][w].st # "none"
      PROVE  page'[s][w].parent # NoParent
  <2>1. console[s] \in NotStarted \/ Held(fifo, driver[s], OpeningsBy(s, NoParent, 0))
    BY <1>2 DEF OrderCalm, Stays
  <2>2. Appeared(s, w) /\ page'[s][w].parent = page[s][w].parent
    BY <1>2 DEF OrderCalm, PageStays
  <2> QED
    BY <2>1, <2>2 DEF OrderOK
<1> QED
  BY <1>1, <1>2 DEF OrderOK, Appeared, Over

\* A step that moves no page and no callback keeps what is current by a job
LEMMA CurrentKept ==
    ASSUME NEW s \in Session, NEW p \in Win, NEW w \in Win,
           Kept(s, OpeningsBy(s, p, w)), page'[s][p].child = page[s][p].child,
           \A cb \in OpenedTo(s, p) : cb \in sent'
    PROVE  Current(s, p, w) => Current(s, p, w)'
  BY DEF Kept, Current, OpenedTo

\* The only opening without an opener that has no window yet is the root's
LEMMA RootOpenings ==
    ASSUME Inv, RoutesOK, NEW s \in Session, Solitary(fifo, driver[s], RootJobs(s))
    PROVE  Solitary(fifo, driver[s], OpeningsBy(s, NoParent, 0))
<1> DEFINE S == OpeningsBy(s, NoParent, 0)
<1>1. \A j \in S : j \in Job /\ j \in JobsOf(s) /\ Opening(j) /\ j.p = NoParent
  BY DEF OpeningsBy, Openings, JobsOf
<1>2. \A j \in S : ThenOK(j) => j \in RootJobs(s)
  BY <1>1, WinFacts DEF ThenOK, Opening, RootJobs, NoParent
<1> HIDE DEF S
<1>3. ASSUME NEW i \in 1..Len(fifo), fifo[i] \in S PROVE fifo[i] \in RootJobs(s)
  <2>1. Fit(fifo[i])
    BY <1>1, <1>3 DEF RoutesOK, Has, Misfit
  <2> QED
    BY <1>2, <1>3, <2>1 DEF Fit
<1>4. ASSUME NEW i \in 1..Len(driver[s]), driver[s][i] \in On(S) PROVE driver[s][i] \in On(RootJobs(s))
  <2>1. FitCommand(driver[s][i])
    BY <1>4 DEF RoutesOK, Has, MisfitCommand, On
  <2> QED
    BY <1>2, <1>4, <2>1 DEF FitCommand, On
<1>5. One(fifo, S) /\ One(driver[s], On(S)) /\ ~ (Has(fifo, S) /\ Has(driver[s], On(S)))
  BY <1>3, <1>4 DEF Solitary, One, Has
<1> QED
  BY <1>5 DEF Solitary, S

\* What a new window needs: the request of its opener is the job that opens it
LEMMA OnlyRequest ==
    ASSUME Inv, RoutesOK, NEW s \in Session, NEW p \in Win, RequestOK(s, p),
           driver[s] # <<>>, Head(driver[s]).job \in OpeningsFor(s, p), Head(driver[s]).job.w = 0,
           NEW w \in Win
    PROVE  ~ Current(s, p, w)
<1> DEFINE S == OpeningsFor(s, p)
           T == OpeningsBy(s, p, w)
<1>1. T \subseteq S /\ \A j \in T : j.w = w /\ w # 0
  <2>1. T \subseteq S
    BY OpeningsWithin DEF AnyWin
  <2>2. \A j \in T : j.w = w
    BY OpeningMembers DEF OpeningsBy
  <2> QED
    BY <2>1, <2>2, WinFacts
<1>2. /\ driver[s] \in Seq(BrowserJob) /\ Head(driver[s]) \in BrowserJob
      /\ Head(driver[s]) \in On(S) /\ Head(driver[s]) \notin On(T)
  <2>1. driver[s] \in Seq(BrowserJob)
    BY QueuesTyped
  <2>2. Head(driver[s]) \in BrowserJob
    BY <2>1, TailHas
  <2> QED
    BY <1>1, <2>1, <2>2 DEF On
<1> HIDE DEF S, T
<1>3. /\ Has(driver[s], On(S))
      /\ One(driver[s], On(S)) => ~ Has(Tail(driver[s]), On(S))
      /\ Has(driver[s], On(T)) => Has(Tail(driver[s]), On(T))
  BY <1>2, TailHas
<1>4. Has(Tail(driver[s]), On(T)) => Has(Tail(driver[s]), On(S))
  BY <1>1 DEF Has, On
<1>5. Held(fifo, driver[s], S) /\ Solitary(fifo, driver[s], S)
  BY <1>3 DEF RequestOK, Held, S
<1>6. ~ Held(fifo, driver[s], T)
  BY <1>1, <1>3, <1>4, <1>5 DEF Held, Solitary, Has
<1>7. OpenedTo(s, p) = {} /\ page[s][p].child = 0
  BY <1>5 DEF RequestOK, S
<1> QED
  BY <1>6, <1>7, WinFacts DEF Current, T

LEMMA PerformOpenOrder ==
    ASSUME Inv, SessionsOK, RoutesOK, NEW r \in Session, PerformOpen(r),
           NEW s \in Session, \A p \in Win : RequestOK(s, p),
           Solitary(fifo, driver[s], RootJobs(s)), OrderOK(s)
    PROVE  OrderOK(s)'
<1> DEFINE j == Head(driver[r]).job
           O == OpeningsBy(s, NoParent, 0)
<1>1. PICK v \in Win : /\ Unopened(r, v) /\ PerformedAs(r, [j EXCEPT !.w = v])
                       /\ page' = [page EXCEPT ![r][v] = NewPage(v, j.p)]
  BY PerformOpenJob
<1> DEFINE k == [j EXCEPT !.w = v]
<1>2. /\ j \in Job /\ Opening(j) /\ j.s = r /\ j.w = 0 /\ j.p \in AnyWin
      /\ UNCHANGED <<db, sent, console>> /\ driver[r] # <<>>
  BY PerformOpenJob DEF AnyWin
<1>3. k \in Job /\ k.kind = j.kind /\ k.s = j.s /\ k.p = j.p /\ k.w = v /\ Opening(k)
  BY <1>2 DEF Job, Opening
<1> HIDE DEF k
<1>4. PerformedAs(r, k)
  BY <1>1 DEF k
<1>5. \A w \in Win : page'[s][w] = IF s = r /\ w = v THEN NewPage(v, j.p) ELSE page[s][w]
  BY <1>1 DEF Inv, TypeOK
<1>6. /\ NewPage(v, j.p).st = "loading" /\ NewPage(v, j.p).parent = j.p /\ NewPage(v, j.p).child = 0
  BY DEF NewPage, NoPage
<1>7. v # 0 /\ \A w \in Win : w # 0
  BY WinFacts
<1>8. \A p \in AnyWin, w \in AnyWin :
         Turn(s, OpeningsBy(s, p, w), j \in OpeningsBy(s, p, w), k \in OpeningsBy(s, p, w))
  BY <1>2, <1>3, <1>4, OpeningMembers, PerformedTurn DEF OpeningsBy
<1> HIDE DEF j
<1>9. \A p \in Win, w \in Win : Kept(s, OpeningsBy(s, p, w)) \/ k \in OpeningsBy(s, p, w)
  <2> TAKE p, w \in Win
  <2>1. j \notin OpeningsBy(s, p, w)
    BY <1>2, <1>7, OpeningMembers DEF OpeningsBy
  <2>2. Turn(s, OpeningsBy(s, p, w), j \in OpeningsBy(s, p, w), k \in OpeningsBy(s, p, w))
    BY <1>8 DEF AnyWin
  <2> QED
    BY <2>1, <2>2 DEF Turn, Kept, Stays
<1>10. \A p \in Win, w \in Win : k \in OpeningsBy(s, p, w) => Held(fifo', driver'[s], OpeningsBy(s, p, w))
  BY <1>8 DEF Turn, AnyWin
<1>11. \A p \in Win : page[s][p].st = "none" => page[s][p].child = 0
  BY DEF RequestOK
<1>12. \A p \in Win, w \in Win : Current(s, p, w) => Current(s, p, w)'
  <2> TAKE p, w \in Win
  <2>1. CASE k \in OpeningsBy(s, p, w)
    BY <1>10, <2>1 DEF Current
  <2>2. CASE Kept(s, OpeningsBy(s, p, w))
    <3>1. \A cb \in OpenedTo(s, p) : cb \in sent'
      BY <1>2 DEF OpenedTo
    <3>2. CASE ~ (s = r /\ p = v)
      BY <1>5, <2>2, <3>1, <3>2, CurrentKept
    <3>3. CASE s = r /\ p = v
      <4>1. page[s][p].child = 0 /\ page'[s][p].child = 0
        BY <1>1, <1>5, <1>6, <1>11, <3>3 DEF Unopened
      <4> QED
        BY <2>2, <3>1, <4>1, CurrentKept
    <3> QED
      BY <3>2, <3>3
  <2> QED
    BY <1>9, <2>1, <2>2
<1>13. Held(fifo', driver'[s], O) => Held(fifo, driver[s], O) /\ j \notin O
  <2>1. Turn(s, O, j \in O, k \in O)
    BY <1>8, Zenon DEF AnyWin, NoParent
  <2>2. k \notin O
    BY <1>3, <1>7, OpeningMembers DEF OpeningsBy
  <2>3. Solitary(fifo, driver[s], O)
    BY RootOpenings
  <2> HIDE DEF O
  <2> QED
    BY <2>1, <2>2, <2>3 DEF Turn
<1>14. ASSUME NEW p \in Win, NEW w \in Win,
              page'[s][w].st # "none", page'[s][w].parent = p, ~ Current(s, p, w)'
       PROVE  page'[s][w].st = "closed" /\ ResultStored(s, w)'
  <2>1. CASE s = r /\ w = v
    <3>1. j.p = p
      BY <1>5, <1>6, <1>14, <2>1
    <3>2. k \in OpeningsBy(s, p, w)
      BY <1>2, <1>3, <2>1, <3>1, OpeningMembers DEF OpeningsBy
    <3> QED
      BY <1>10, <1>14, <3>2 DEF Current
  <2>2. CASE ~ (s = r /\ w = v)
    <3>1. page'[s][w] = page[s][w] /\ ~ Current(s, p, w)
      BY <1>5, <1>12, <1>14, <2>2
    <3>2. page[s][w].st = "closed" /\ ResultStored(s, w)
      BY <1>14, <3>1 DEF OrderOK, Appeared
    <3> QED
      BY <1>2, <3>1, <3>2 DEF ResultStored
  <2> QED
    BY <2>1, <2>2
<1>15. ASSUME console'[s] \in NotStarted \/ Held(fifo', driver'[s], O),
              NEW w \in Win, page'[s][w].st # "none"
       PROVE  page'[s][w].parent # NoParent
  <2>1. CASE s = r /\ w = v
    <3>1. console[s] \notin NotStarted
      BY <1>2, <2>1 DEF SessionsOK, NotStartedUntouched, Untouched
    <3>2. j \notin O
      BY <1>2, <1>13, <1>15, <3>1
    <3>3. j.p # NoParent
      BY <1>2, <2>1, <3>2, OpeningMembers DEF OpeningsBy
    <3> QED
      BY <1>5, <1>6, <2>1, <3>3
  <2>2. CASE ~ (s = r /\ w = v)
    <3>1. page'[s][w] = page[s][w]
      BY <1>5, <2>2
    <3> QED
      BY <1>2, <1>13, <1>15, <3>1 DEF OrderOK, Appeared
  <2> QED
    BY <2>1, <2>2
<1> QED
  BY <1>14, <1>15 DEF OrderOK, Appeared

\* The steps that move neither the page's child nor a callback to it
LEMMA PlainOrder ==
    ASSUME NEW s \in Session,
           \A w \in Win : PageStays(s, w) /\ (page'[s][w].st # "none" => Appeared(s, w)),
           \A p \in Win : /\ page'[s][p].child = page[s][p].child
                          /\ \A cb \in OpenedTo(s, p) : cb \in sent',
           \A p, w \in Win : Kept(s, OpeningsBy(s, p, w)),
           \A w \in Win : ResultStored(s, w) => ResultStored(s, w)',
           Stays(s, OpeningsBy(s, NoParent, 0)),
           console'[s] \in NotStarted => console[s] \in NotStarted,
           OrderOK(s)
    PROVE  OrderOK(s)'
<1>1. \A p, w \in Win : Current(s, p, w) => Current(s, p, w)'
  BY CurrentKept
<1> QED
  BY <1>1, CalmOrder DEF OrderCalm

LEMMA OrderKept ==
    ASSUME Inv, SessionsOK, RoutesOK, NoErrors, MaxErrors = 0, [Next]_vars,
           NEW s \in Session, \A w \in Win : RequestOK(s, w) /\ WindowOK(s, w) /\ DoneOK(s, w),
           Solitary(fifo, driver[s], RootJobs(s)), OrderOK(s)
    PROVE  OrderOK(s)'
<1>0. /\ console'[s] \in NotStarted => console[s] \in NotStarted
      /\ \A w \in Win : ResultStored(s, w) =>
            \/ ResultStored(s, w)'
            \/ AddWin /\ UNCHANGED runVars /\ Head(fifo).s = s /\ Head(fifo).w = w
      /\ \A p, w \in AnyWin : /\ OpeningsBy(s, p, w) \in SUBSET JobsOf(s)
                              /\ \A k \in OpeningsBy(s, p, w) : k.s = s /\ k.p = p /\ k.w = w
      /\ \A w \in Win : w # 0
      /\ NoParent = 0
  <2>1. console'[s] \in NotStarted => console[s] \in NotStarted
    BY ConsolesGoOn
  <2>2. \A w \in Win : ResultStored(s, w) =>
            \/ ResultStored(s, w)'
            \/ AddWin /\ UNCHANGED runVars /\ Head(fifo).s = s /\ Head(fifo).w = w
    BY ResultKept
  <2>3. \A p, w \in AnyWin : /\ OpeningsBy(s, p, w) \in SUBSET JobsOf(s)
                             /\ \A k \in OpeningsBy(s, p, w) : k.s = s /\ k.p = p /\ k.w = w
    BY OpeningMembers DEF OpeningsBy
  <2> QED
    BY <2>1, <2>2, <2>3, WinFacts DEF NoParent
<1>1. CASE CalmStep /\ ~ (AddWin /\ UNCHANGED runVars)
  <2>1. \A p, w : Kept(s, OpeningsBy(s, p, w))
    BY <1>1 DEF CalmStep, OpeningsBy
  <2>2. \A w \in Win : PageCalm(s, w)
    BY <1>1 DEF CalmStep, PagesCalm
  <2>3. \A p \in Win : \A cb \in OpenedTo(s, p) : cb \in sent'
    BY <1>0, <1>1 DEF CalmStep, PagesTold, OpenedTo
  <2> QED
    BY <1>0, <1>1, <2>1, <2>2, <2>3, PlainOrder DEF PageCalm, Appeared, Kept
<1>2. ASSUME NEW r \in Session, NEW v \in Win, SendNewTest(r, v) PROVE OrderOK(s)'
  <2>1. UNCHANGED <<db, fifo, driver, sent>> /\ \A w \in Win : PageStays(s, w)
    BY <1>2, AskFacts
  <2>2. \A w \in Win : page'[s][w].child = page[s][w].child /\ page'[s][w].st = page[s][w].st
    <3> TAKE w \in Win
    <3>1. page[s][w] \in Page
      BY DEF Inv, TypeOK
    <3>2. page'[s][w] = page[s][w] \/ page'[s][w] = [page[s][w] EXCEPT !.asked = TRUE]
      BY ZenonT(60), <1>2, AskFacts
    <3> QED
      BY <3>1, <3>2 DEF Page
  <2>3. \A p, w : Kept(s, OpeningsBy(s, p, w))
    BY <2>1 DEF Kept, Stays
  <2>4. \A w \in Win : ResultStored(s, w) => ResultStored(s, w)'
    BY <2>1 DEF ResultStored
  <2>5. \A p \in Win : \A cb \in OpenedTo(s, p) : cb \in sent'
    BY <2>1 DEF OpenedTo
  <2> QED
    BY <1>0, <2>1, <2>2, <2>3, <2>4, <2>5, PlainOrder DEF Kept, Appeared
<1>3. ASSUME NEW r \in Session, NEW v \in Win, PageOpened(r, v) PROVE OrderOK(s)'
  <2>1. UNCHANGED <<db, fifo, driver>> /\ \A w \in Win : PageStays(s, w)
    BY <1>3, OpenedFacts
  <2>2. PICK c \in Win : /\ Opened(r, v, c) \in sent /\ sent' = sent \ {Opened(r, v, c)}
                         /\ page'[r][v] = [page[r][v] EXCEPT !.child = c]
    BY <1>3, OpenedFacts
  <2>3. \A w \in Win : /\ page'[s][w].st = page[s][w].st
                       /\ page'[s][w].child = IF r = s /\ v = w THEN c ELSE page[s][w].child
    <3> TAKE w \in Win
    <3>1. page[s][w] \in Page
      BY DEF Inv, TypeOK
    <3>2. ~ (r = s /\ v = w) => page'[s][w] = page[s][w]
      BY <1>3, OpenedFacts
    <3> QED
      BY <2>2, <3>1, <3>2 DEF Page
  <2>4. \A p, w : Kept(s, OpeningsBy(s, p, w))
    BY <2>1 DEF Kept, Stays
  <2>5. \A w \in Win : ResultStored(s, w) => ResultStored(s, w)'
    BY <2>1 DEF ResultStored
  <2>6. ASSUME NEW p \in Win, NEW w \in Win, Current(s, p, w) PROVE Current(s, p, w)'
    <3>1. CASE ~ (r = s /\ v = p)
      <4>1. \A cb \in OpenedTo(s, p) : cb \in sent'
        BY <2>2, <3>1 DEF OpenedTo, Opened
      <4> QED
        BY <2>3, <2>4, <2>6, <3>1, <4>1, CurrentKept
    <3>2. CASE r = s /\ v = p
      <4>1. Opened(r, v, c) \in OpenedTo(s, p) /\ Opened(r, v, c).w = c
        BY <2>2, <3>2, OpenedToFacts DEF Opened
      <4>2. ~ Held(fifo, driver[s], OpeningsFor(s, p)) /\ page[s][p].child = 0
            /\ \A cb \in OpenedTo(s, p) : cb = Opened(r, v, c)
        BY <4>1 DEF RequestOK
      <4>3. ~ Held(fifo, driver[s], OpeningsBy(s, p, w))
        <5>1. OpeningsBy(s, p, w) \subseteq OpeningsFor(s, p)
          BY OpeningsWithin DEF AnyWin
        <5> QED
          BY <4>2, <5>1, HeldWithin
      <4>4. w = c
        BY <1>0, <2>6, <4>1, <4>2, <4>3 DEF Current
      <4> QED
        BY <2>3, <3>2, <4>4 DEF Current
    <3> QED
      BY <3>1, <3>2
  <2> QED
    BY <1>0, <2>1, <2>3, <2>4, <2>5, <2>6, CalmOrder DEF OrderCalm, Kept, Appeared
<1>4. ASSUME NEW r \in Session, NEW v \in Win, PageFinished(r, v) PROVE OrderOK(s)'
  <2> DEFINE c == page[r][v].child
  <2>1. /\ UNCHANGED <<db, fifo, driver>> /\ (\A w \in Win : PageStays(s, w))
        /\ Finished(r, v, c) \in sent /\ sent' = sent \ {Finished(r, v, c)} /\ c \in Win
        /\ page'[r][v].child = 0 /\ page'[r][v].st = page[r][v].st
        /\ \A w \in Win : ~ (s = r /\ w = v) => page'[s][w] = page[s][w]
    <3>1. /\ Finished(r, v, c) \in sent /\ sent' = sent \ {Finished(r, v, c)} /\ c \in Win
          /\ page'[r][v].child = 0 /\ page'[r][v].st = page[r][v].st
      BY <1>4, FinishedFacts
    <3>2. UNCHANGED <<db, fifo, driver>> /\ \A w \in Win : PageStays(s, w)
      BY <1>4, FinishedFacts
    <3>3. \A a \in Session, b \in Win : ~ (a = r /\ b = v) => page'[a][b] = page[a][b]
      BY <1>4, FinishedFacts
    <3> QED
      BY <3>1, <3>2, <3>3
  <2>2. Finished(r, v, c).type = "finished" /\ Finished(r, v, c).s = r /\ Finished(r, v, c).w = c
    BY DEF Finished
  <2> HIDE DEF c
  <2>3. \A w \in Win : page'[s][w].st = page[s][w].st
    BY <2>1
  <2>4. \A p, w : Kept(s, OpeningsBy(s, p, w))
    BY <2>1 DEF Kept, Stays
  <2>5. \A w \in Win : ResultStored(s, w) => ResultStored(s, w)'
    BY <2>1 DEF ResultStored
  <2>6. \A p \in Win : \A cb \in OpenedTo(s, p) : cb \in sent'
    BY <2>1, <2>2 DEF OpenedTo
  <2>7. ASSUME NEW p \in Win, NEW w \in Win, Current(s, p, w) PROVE Current(s, p, w)' \/ Over(s, w)'
    <3>1. CASE ~ (s = r /\ p = v)
      BY <2>1, <2>4, <2>6, <2>7, <3>1, CurrentKept
    <3>2. CASE s = r /\ p = v /\ w # c
      <4>1. Held(fifo, driver[s], OpeningsBy(s, p, w)) \/ \E cb \in OpenedTo(s, p) : cb.w = w
        BY <2>7, <3>2 DEF Current, c
      <4> QED
        BY <2>4, <2>6, <4>1 DEF Current, Kept, OpenedTo
    <3>3. CASE s = r /\ p = v /\ w = c
      <4>1. Told(s, w)
        BY <2>1, <2>2, <3>3 DEF Told
      <4>2. page[s][w].st = "closed" /\ ResultStored(s, w)
        BY <4>1 DEF DoneOK
      <4> QED
        BY <2>1, <2>5, <4>2 DEF Over, PageStays
    <3> QED
      BY <3>1, <3>2, <3>3
  <2> QED
    BY <1>0, <2>1, <2>3, <2>4, <2>5, <2>7, CalmOrder DEF OrderCalm, Kept, Appeared
<1>5. CASE AddWin /\ UNCHANGED runVars
  <2> DEFINE j == Head(fifo)
  <2>1. /\ Leaves /\ j \in Job /\ Opening(j) /\ j.s \in Session /\ j.w \in Win /\ j.p \in AnyWin
        /\ UNCHANGED <<page, console>> /\ sent' = sent \cup {Opened(j.s, j.p, j.w)}
    BY <1>5, AddWinJob DEF AddWin, runVars, AnyWin
  <2>2. /\ Opened(j.s, j.p, j.w).type = "opened" /\ Opened(j.s, j.p, j.w).s = j.s
        /\ Opened(j.s, j.p, j.w).to = j.p /\ Opened(j.s, j.p, j.w).w = j.w
    BY DEF Opened
  <2>3. \A p, w \in AnyWin : Turn(s, OpeningsBy(s, p, w), j \in OpeningsBy(s, p, w), FALSE)
    BY <1>0, <2>1, JobsTurn
  <2>4. j.s = s => \A p \in AnyWin : j.p = p => j \in OpeningsBy(s, p, j.w)
    BY <2>1, OpeningMembers DEF OpeningsBy
  <2> HIDE DEF j
  <2>5. \A p \in Win, w \in Win : j.s = s /\ j.p = p /\ j.w = w => Current(s, p, w)'
    BY <2>1, <2>2 DEF Current, OpenedTo
  <2>6. ASSUME NEW p \in Win, NEW w \in Win, Current(s, p, w) PROVE Current(s, p, w)'
    <3>1. Turn(s, OpeningsBy(s, p, w), j \in OpeningsBy(s, p, w), FALSE)
      BY <2>3 DEF AnyWin
    <3>2. CASE j \in OpeningsBy(s, p, w)
      BY <1>0, <2>5, <3>2 DEF AnyWin
    <3>3. CASE j \notin OpeningsBy(s, p, w)
      <4>1. Kept(s, OpeningsBy(s, p, w))
        BY <3>1, <3>3 DEF Turn, Kept, Stays
      <4>2. \A cb \in OpenedTo(s, p) : cb \in sent'
        BY <2>1 DEF OpenedTo
      <4> QED
        BY <2>1, <2>6, <4>1, <4>2, CurrentKept
    <3> QED
      BY <3>2, <3>3
  <2>7. ASSUME NEW p \in Win, NEW w \in Win, page[s][w].parent = p, ResultStored(s, w), ~ ResultStored(s, w)'
        PROVE  Current(s, p, w)'
    <3>1. j.s = s /\ j.w = w
      BY <1>0, <2>7 DEF j
    <3>2. j \in OpeningsBy(s, j.p, w)
      BY <2>1, <2>4, <3>1
    <3>3. Held(fifo, driver[s], OpeningsBy(s, j.p, w))
      BY <2>1, <2>3, <3>2 DEF Turn, AnyWin
    <3>4. j.p = p
      BY <2>1, <2>7, <3>3 DEF WindowOK
    <3> QED
      BY <2>5, <3>1, <3>4
  <2>8. Stays(s, OpeningsBy(s, NoParent, 0))
    BY <1>0, <2>1, MovesStay DEF AnyWin
  <2> QED
    BY <1>0, <2>1, <2>6, <2>7, <2>8, CalmOrder DEF OrderCalm, PageStays, Appeared
<1>6. ASSUME NEW r \in Session, BrowserReady(r) PROVE OrderOK(s)'
  <2>1. PICK k \in Job : Begins(k) /\ k.s = r /\ k.w = 0
    BY <1>6, BrowserReadyJob
  <2>2. UNCHANGED <<db, page, sent>> /\ console[r] \in NotStarted
    BY <1>6, BrowserReadyJob
  <2>3. \A p, w \in Win : Kept(s, OpeningsBy(s, p, w))
    BY <1>0, <2>1, MovesKeep DEF AnyWin
  <2>4. CASE r = s
    <3>1. \A p, w \in Win : Current(s, p, w) => Current(s, p, w)'
      BY <2>2, <2>3, CurrentKept DEF OpenedTo
    <3>2. \A w \in Win : ResultStored(s, w)' <=> ResultStored(s, w)
      BY <2>2 DEF ResultStored
    <3> QED
      BY <2>2, <2>4, <3>1, <3>2 DEF OrderOK, Appeared
  <2>5. CASE r # s
    <3>1. Stays(s, OpeningsBy(s, NoParent, 0))
      BY <1>0, <2>1, <2>5, MovesStay DEF AnyWin
    <3>2. \A w \in Win : ResultStored(s, w) => ResultStored(s, w)'
      BY <2>2 DEF ResultStored
    <3> QED
      BY <1>0, <2>2, <2>3, <3>1, <3>2, PlainOrder DEF PageStays, Appeared, OpenedTo
  <2> QED
    BY <2>4, <2>5
<1>7. ASSUME NEW r \in Session, PerformOpen(r) PROVE OrderOK(s)'
  BY <1>7, PerformOpenOrder
<1>8. ASSUME NEW r \in Session, PerformOpenAfterEnd(r) PROVE OrderOK(s)'
  <2>1. Dismissed(r) /\ Head(driver[r]).job.w = 0 /\ UNCHANGED <<db, page, sent>>
    BY <1>8, PerformOpenAfterEndJob
  <2>2. \A p, w \in Win : Kept(s, OpeningsBy(s, p, w))
    BY <1>0, <2>1, MovesKeep DEF AnyWin
  <2>3. Stays(s, OpeningsBy(s, NoParent, 0))
    BY <1>0, <2>1, MovesStay DEF AnyWin
  <2>4. \A w \in Win : ResultStored(s, w) => ResultStored(s, w)'
    BY <2>1 DEF ResultStored
  <2> QED
    BY <1>0, <2>1, <2>2, <2>3, <2>4, PlainOrder DEF PageStays, Appeared, OpenedTo
<1>9. ASSUME NEW r \in Session, NEW v \in Win, Receive(r, v), NEW_TEST(r, v) PROVE OrderOK(s)'
  <2>1. PICK k \in Job : Begins(k) /\ k.p = v /\ k.w = 0
    BY <1>9, ReceivedJob
  <2>2. db' = db /\ page' = page /\ sent' = sent
    BY <1>9, ReceivedJob DEF Receive
  <2>3. \A p, w \in Win : Kept(s, OpeningsBy(s, p, w))
    BY <1>0, <2>1, MovesKeep DEF AnyWin
  <2>4. Stays(s, OpeningsBy(s, NoParent, 0))
    BY <1>0, <2>1, MovesStay DEF AnyWin
  <2>5. \A w \in Win : ResultStored(s, w) => ResultStored(s, w)'
    BY <2>2 DEF ResultStored
  <2> QED
    BY <1>0, <2>2, <2>3, <2>4, <2>5, PlainOrder DEF PageStays, Appeared, OpenedTo
<1> QED
  BY <1>1, <1>2, <1>3, <1>4, <1>5, <1>6, <1>7, <1>8, <1>9, RequestCases

LEMMA OpenInit == ASSUME Init PROVE OpenInv
<1>1. /\ fifo = <<>> /\ driver = [s \in Session |-> <<>>] /\ db = EmptyDatabase /\ sent = {}
      /\ page = [s \in Session |-> [w \in Win |-> NoPage]]
      /\ inbox = [s \in Session |-> [w \in Win |-> <<>>]]
  BY DEF Init, ServerInit
<1>2. \A S : ~ Has(fifo, S) /\ One(fifo, S)
  BY <1>1, NoneInEmpty
<1>3. \A S : \A s \in Session : /\ ~ Has(driver[s], S) /\ One(driver[s], S)
                                /\ \A w \in Win : ~ Has(inbox[s][w], S) /\ One(inbox[s][w], S)
  BY <1>1, NoneInEmpty
<1>4. \A s \in Session, w \in Win : page[s][w] = NoPage /\ ~ Exists(db, WinKey(s, w))
  BY <1>1 DEF EmptyDatabase, Exists
<1>5. NoPage.st = "none" /\ NoPage.asked = FALSE /\ NoPage.child = 0
  BY DEF NoPage
<1>6. NoErrors
  BY <1>2, <1>3 DEF NoErrors
<1>7. \A s \in Session : \A S : ~ Held(fifo, driver[s], S) /\ Solitary(fifo, driver[s], S)
  BY <1>2, <1>3 DEF Held, Solitary
<1>8. ASSUME NEW s \in Session, NEW w \in Win PROVE RequestOK(s, w)
  BY <1>1, <1>3, <1>4, <1>5, <1>7 DEF RequestOK, OpenedTo
<1>9. ASSUME NEW s \in Session, NEW w \in Win PROVE WindowOK(s, w) /\ DoneOK(s, w)
  BY <1>1, <1>2, <1>3, <1>4, <1>7 DEF WindowOK, DoneOK, Told
<1>10. ASSUME NEW s \in Session PROVE OrderOK(s)
  BY <1>4, <1>5 DEF OrderOK, Appeared
<1> QED
  BY <1>6, <1>8, <1>9, <1>10 DEF OpenInv

LEMMA OpenKept ==
    ASSUME RunInv, OpenInv, MaxErrors = 0, [Next]_vars
    PROVE  OpenInv'
<1>1. Inv /\ SessionsOK /\ RoutesOK /\ NoErrors /\ TimersOK
  BY DEF RunInv, IInv, OpenInv
<1>2. NoErrors'
  BY <1>1, NoErrorsKept
<1>3. ASSUME NEW s \in Session, NEW w \in Win PROVE RequestOK(s, w)' /\ WindowOK(s, w)' /\ DoneOK(s, w)'
  BY <1>1, RequestsKept, WindowsKept, DoneKept DEF OpenInv
<1>4. ASSUME NEW s \in Session PROVE OrderOK(s)'
  BY <1>1, OrderKept DEF OpenInv, TimersOK, TimerOK
<1> QED
  BY <1>2, <1>3, <1>4 DEF OpenInv

LEMMA OpenInvariance == ASSUME MaxErrors = 0 PROVE Spec => [](RunInv /\ OpenInv)
<1>1. Init => RunInv /\ OpenInv
  BY QueuesInit, InitIInv, OpenInit DEF RunInv
<1>2. RunInv /\ OpenInv /\ [Next]_vars => (RunInv /\ OpenInv)'
  BY NextIInv, RoutesKept, TimersKept, OpenKept DEF RunInv, IInv
<1> QED
  BY <1>1, <1>2, PTL DEF Spec

(***************************************************************************)
(* For every instance without script errors, a page is told that its child *)
(* has finished only when the child's window is closed and its result is   *)
(* in the database (socket.js, TEST_FINISH; test.js, finish).              *)
(***************************************************************************)
THEOREM ToldAfterClose == ASSUME MaxErrors = 0 PROVE Spec => []NotifiedAfterClose
<1>1. ASSUME RunInv, OpenInv PROVE NotifiedAfterClose
  <2> SUFFICES ASSUME NEW cb \in sent, cb.type = "finished"
               PROVE  page[cb.s][cb.w].st = "closed" /\ ResultStored(cb.s, cb.w)
    BY DEF NotifiedAfterClose
  <2>1. cb.s \in Session /\ cb.w \in Win
    BY <1>1 DEF RunInv, IInv, Inv, TypeOK, Callback, FinishedOK
  <2>2. Told(cb.s, cb.w)
    BY DEF Told
  <2> QED
    BY <1>1, <2>1, <2>2 DEF OpenInv, DoneOK
<1> QED
  BY <1>1, OpenInvariance, PTL

(***************************************************************************)
(* For every instance without script errors, a window opens only when the  *)
(* windows its opener opened before are closed and have their results      *)
(* stored (UITest.js, open; README.md: "multi-call of UT.open").           *)
(***************************************************************************)
THEOREM WindowsOpenInOrder == ASSUME MaxErrors = 0 PROVE Spec => OpensInOrder
<1> DEFINE Ordered(s, w, v) ==
              /\ page[s][w].st = "none" /\ page'[s][w].st = "loading"
              /\ v # w /\ Appeared(s, v) /\ page[s][v].parent = page'[s][w].parent
              => page[s][v].st = "closed" /\ ResultStored(s, v)
<1>1. ASSUME RunInv, OpenInv, [Next]_vars, NEW s \in Session, NEW w \in Win, NEW v \in Win
      PROVE  Ordered(s, w, v)
  <2>1. Inv /\ SessionsOK /\ RoutesOK /\ NoErrors /\ TimersOK /\ OrderOK(s) /\ \A p \in Win : RequestOK(s, p)
    BY <1>1 DEF RunInv, IInv, OpenInv
  <2>2. CASE page'[s][w].st # "none" => page[s][w].st # "none"
    BY <2>2
  <2>3. ASSUME NEW r \in Session, PerformOpen(r) PROVE Ordered(s, w, v)
    <3> DEFINE j == Head(driver[r]).job
    <3>1. /\ j \in Job /\ Opening(j) /\ j.s = r /\ j.w = 0 /\ j.p \in AnyWin /\ driver[r] # <<>>
      BY <2>1, <2>3, PerformOpenJob DEF AnyWin
    <3>2. PICK u \in Win : page' = [page EXCEPT ![r][u] = NewPage(u, j.p)]
      BY <2>1, <2>3, PerformOpenJob
    <3>3. page'[s][w] = IF s = r /\ w = u THEN NewPage(u, j.p) ELSE page[s][w]
      BY <2>1, <3>2 DEF Inv, TypeOK
    <3>4. NewPage(u, j.p).parent = j.p
      BY DEF NewPage, NoPage
    <3>5. \A p \in AnyWin : j.p = p => j \in OpeningsFor(r, p) /\ j \in OpeningsBy(r, p, 0)
      BY <3>1, OpeningMembers DEF OpeningsFor, OpeningsBy, AnyWin
    <3> SUFFICES ASSUME page[s][w].st = "none", page'[s][w].st = "loading", Appeared(s, v),
                        page[s][v].parent = page'[s][w].parent
                 PROVE  page[s][v].st = "closed" /\ ResultStored(s, v)
      OBVIOUS
    <3>6. s = r /\ page[s][v].parent = j.p
      BY <3>3, <3>4
    <3>7. CASE j.p \in Win
      <4>1. ~ Current(s, j.p, v)
        BY <2>1, <3>1, <3>5, <3>6, <3>7, OnlyRequest DEF AnyWin
      <4> QED
        BY <2>1, <3>6, <3>7, <4>1 DEF OrderOK
    <3>8. CASE j.p \notin Win
      <4>1. j.p = NoParent /\ j \in OpeningsBy(s, NoParent, 0)
        BY <3>1, <3>5, <3>6, <3>8 DEF AnyWin, NoParent
      <4>2. Has(driver[s], On(OpeningsBy(s, NoParent, 0)))
        <5>1. driver[s] \in Seq(BrowserJob) /\ driver[s] # <<>>
          BY <2>1, <3>1, <3>6, QueuesTyped
        <5>2. Head(driver[s]) \in On(OpeningsBy(s, NoParent, 0))
          BY <3>6, <4>1, <5>1, TailHas DEF On
        <5> QED
          BY <5>1, <5>2, TailHas
      <4> QED
        BY <2>1, <3>6, <4>1, <4>2 DEF OrderOK, Held
    <3> QED
      BY <3>7, <3>8
  <2>4. CASE CalmStep
    BY <2>2, <2>4 DEF CalmStep, PagesCalm, PageCalm
  <2>5. CASE AddWin /\ UNCHANGED runVars
    BY <2>2, <2>5 DEF runVars
  <2>6. ASSUME NEW r \in Session, NEW u \in Win, SendNewTest(r, u) \/ PageOpened(r, u) \/ PageFinished(r, u)
        PROVE  Ordered(s, w, v)
    <3>0. page[s][w] \in Page
      BY <2>1 DEF Inv, TypeOK
    <3>1. CASE SendNewTest(r, u)
      BY ZenonT(60), <2>1, <2>2, <3>0, <3>1, AskFacts DEF Appeared
    <3>2. CASE PageOpened(r, u)
      <4>1. ~ (r = s /\ u = w) => page'[s][w] = page[s][w]
        BY <2>1, <3>2, OpenedFacts
      <4>2. \E c \in Win : page'[r][u] = [page[r][u] EXCEPT !.child = c]
        BY <2>1, <3>2, OpenedFacts
      <4>3. page'[s][w].st = page[s][w].st
        BY <3>0, <4>1, <4>2 DEF Page
      <4> QED
        BY <2>2, <4>3
    <3>3. CASE PageFinished(r, u)
      <4>1. \A a \in Session, b \in Win : ~ (a = r /\ b = u) => page'[a][b] = page[a][b]
        BY <2>1, <3>3, FinishedFacts
      <4>2. page'[r][u].st = page[r][u].st
        BY <2>1, <3>3, FinishedFacts
      <4> QED
        BY <2>2, <4>1, <4>2
    <3> QED
      BY <2>6, <3>1, <3>2, <3>3
  <2>7. ASSUME NEW r \in Session,
               \/ BrowserReady(r) \/ PerformOpenAfterEnd(r)
               \/ \E u \in Win : Receive(r, u)
        PROVE  Ordered(s, w, v)
    <3>1. page' = page
      BY <2>1, <2>7, BrowserReadyJob, PerformOpenAfterEndJob DEF Receive
    <3> QED
      BY <2>2, <3>1
  <2> QED
    BY <1>1, <2>1, <2>3, <2>4, <2>5, <2>6, <2>7, RequestCases
<1>2. ASSUME RunInv, OpenInv, [Next]_vars
      PROVE  [\A s \in Session : \A w, v \in Win : Ordered(s, w, v)]_vars
  BY <1>1, <1>2
<1> QED
  BY <1>2, OpenInvariance, PTL DEF Spec, OpensInOrder
=============================================================================
