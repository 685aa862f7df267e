------------------------------ MODULE TestRun ------------------------------
(***************************************************************************)
(* Whole test runs: the server of TestServer with the web consoles that    *)
(* ask for sessions (public/javascripts/index.js), the browsers Selenium   *)
(* drives, and the pages under test with the UITest client in them         *)
(* (libs/client/js/UITest.js).                                             *)
(***************************************************************************)
EXTENDS TestServer

CONSTANTS
    Opens,      \* Opens[w]: the number of UT.open calls in the test of window w
    ExplicitDone,  \* the test also ends with UT.done, as README.md's sample does
    MaxErrors,  \* bound: script errors of a page
    LateErrors, \* script errors may also come after the page has sent its result
    Pace,       \* a page's test starts once its row is "stored", once somebody
                \* listens to its end ("heard"), or at "any" moment
    Timeouts,   \* when a session's minute may be over: "never", "quiet", "any"
    MayHang     \* a page may stop for ever (an endless loop, an alert box of its own)

ASSUME ParametersAssumption ==
    /\ Opens \in [Win -> Nat]
    /\ MaxErrors \in Nat
    /\ Timeouts \in {"never", "quiet", "any"}
    /\ Pace \in {"heard", "stored", "any"}
    /\ {ExplicitDone, LateErrors, MayHang} \subseteq BOOLEAN

VARIABLES
    console,    \* what the console knows of the session it asked for
    alive,      \* sessions whose browser runs
    page,       \* the windows of each session
    inbox       \* per page, its messages on the way to the server

runVars == <<console, alive, page, inbox>>
vars == <<fault, db, fifo, driver, clients, timers, waitTest, waitAll, sent,
          console, alive, page, inbox>>

(***************************************************************************)
(* The Do queue of a page, from its head: the UT.open calls of the test,   *)
(* then UT.done if the test calls it, then the done of jasmine's reporter. *)
(***************************************************************************)
Tasks(w) == [i \in 1..Opens[w] |-> "open"]
              \o (IF ExplicitDone THEN <<"done">> ELSE <<>>) \o <<"done">>

(***************************************************************************)
(*   st      "none", "loading" (the browser shows it, its test has not     *)
(*           started), "running", "alert" (the client's alert box with a   *)
(*           script error is on the screen), "hung" or "closed"            *)
(*   tasks   the Do queue                                                  *)
(*   child   the child window whose end the head of the queue waits for    *)
(*   asked   the head of the queue has sent its NEW_TEST                   *)
(*   errors  script errors caught                                          *)
(***************************************************************************)
PageState == {"none", "loading", "running", "alert", "hung", "closed"}
Page == {pg \in [st : PageState, parent : Win \cup {0}, tasks : Seq({"open", "done"}),
                 child : Win \cup {0}, asked : BOOLEAN, errors : 0..MaxErrors] :
            pg.st = "alert" => pg.errors > 0}
NoPage == [st |-> "none", parent |-> 0, tasks |-> <<>>, child |-> 0,
           asked |-> FALSE, errors |-> 0]
NewPage(w, p) == [NoPage EXCEPT !.st = "loading", !.parent = p, !.tasks = Tasks(w)]

Message == [type : {"NEW_TEST", "WAIT_TEST", "TEST_FINISH", "TEST_ERROR"}, w : Win \cup {0}]
Msg(t, w) == [type |-> t, w |-> w]

Init ==
    /\ ServerInit
    /\ console = [s \in Session |-> "idle"]
    /\ alive = {}
    /\ page = [s \in Session |-> [w \in Win |-> NoPage]]
    /\ inbox = [s \in Session |-> [w \in Win |-> <<>>]]

-----------------------------------------------------------------------------
(* The console: a click sends NEW_TEST; its answer makes it listen.        *)

Click(s) ==
    /\ console[s] = "idle"
    /\ console' = [console EXCEPT ![s] = "booting"]
    /\ UNCHANGED <<serverVars, alive, page, inbox>>

\* Selenium has started the browser of a new session and init calls back
BrowserReady(s) ==
    /\ console[s] = "booting"
    /\ NewSession(s)
    /\ console' = [console EXCEPT ![s] = "started"]
    /\ alive' = alive \cup {s}
    /\ UNCHANGED <<page, inbox>>

Deliver(cb) == cb \in sent /\ sent' = sent \ {cb}

ConsoleOpened(s) ==
    /\ \E w \in Win : Deliver(Opened(s, NoParent, w))
    /\ console' = [console EXCEPT ![s] = "subscribing"]
    /\ UNCHANGED <<fault, db, fifo, driver, clients, timers, waitTest, waitAll,
                   alive, page, inbox>>

ConsoleSubscribes(s) ==
    /\ console[s] = "subscribing"
    /\ WAIT_ALL_TEST(s)
    /\ console' = [console EXCEPT ![s] = "listening"]
    /\ UNCHANGED <<alive, page, inbox>>

ConsoleReported(s) ==
    /\ \E wins \in SUBSET Win : Deliver(Report(s, wins))
    /\ console' = [console EXCEPT ![s] = "reported"]
    /\ UNCHANGED <<fault, db, fifo, driver, clients, timers, waitTest, waitAll,
                   alive, page, inbox>>

-----------------------------------------------------------------------------
(* The browsers.  Each performs the commands of its session in order.      *)

Pending(s) == driver[s] # <<>> /\ ~ Head(driver[s]).performed

Performed(s, j) ==
    driver' = [driver EXCEPT ![s] = [@ EXCEPT ![1] = [job |-> j, performed |-> TRUE]]]

\* Windows get their handles in order
Unopened(s, w) == page[s][w].st = "none" /\ \A v \in Win : v < w => page[s][v].st # "none"

\* A window opens, or the first one loads the page; the client script is put in it
PerformOpen(s) ==
    LET j == Head(driver[s]).job IN
    /\ Pending(s)
    /\ s \in alive
    /\ BrowserCommand(j) = "open"
    /\ \E w \in Win :
          /\ Unopened(s, w)
          /\ Performed(s, [j EXCEPT !.w = w])
          /\ page' = [page EXCEPT ![s][w] = NewPage(w, j.p)]
    /\ UNCHANGED <<fault, db, fifo, clients, timers, waitTest, waitAll, sent,
                   console, alive, inbox>>

\* A browser that has ended never opens the window, and nobody is called back
PerformOpenAfterEnd(s) ==
    /\ Pending(s)
    /\ s \notin alive
    /\ BrowserCommand(Head(driver[s]).job) = "open"
    /\ driver' = [driver EXCEPT ![s] = Tail(@)]
    /\ UNCHANGED <<fault, db, fifo, clients, timers, waitTest, waitAll, sent, runVars>>

Closed(pg) == IF pg.st = "none" THEN pg ELSE [pg EXCEPT !.st = "closed"]

PerformClose(s) ==
    LET j == Head(driver[s]).job IN
    /\ Pending(s)
    /\ BrowserCommand(j) = "close"
    /\ Performed(s, j)
    /\ page' = [page EXCEPT ![s][j.w] = Closed(@)]
    /\ UNCHANGED <<fault, db, fifo, clients, timers, waitTest, waitAll, sent,
                   console, alive, inbox>>

PerformEnd(s) ==
    LET j == Head(driver[s]).job IN
    /\ Pending(s)
    /\ BrowserCommand(j) = "end"
    /\ Performed(s, j)
    /\ alive' = alive \ {s}
    /\ page' = [page EXCEPT ![s] = [w \in Win |-> Closed(@[w])]]
    /\ UNCHANGED <<fault, db, fifo, clients, timers, waitTest, waitAll, sent,
                   console, inbox>>

-----------------------------------------------------------------------------
(* The pages.                                                              *)

\* done of the active task, which is the first: it leaves the queue
Done(tasks) == SubSeq(tasks, 2, Len(tasks))

Send(s, w, m) == inbox' = [inbox EXCEPT ![s][w] = Append(@, m)]

\* The opener of a page listens to its end, or is stopped and does not get to it
Heard(s, w) ==
    LET p == page[s][w].parent IN
    IF p = NoParent THEN s \in waitAll
    ELSE waitTest[s][w] # 0 \/ page[s][p].st \in {"alert", "hung"}

StartTest(s, w) ==
    /\ page[s][w].st = "loading"
    /\ Pace # "any" => Exists(db, WinKey(s, w))
    /\ Pace = "heard" => Heard(s, w)
    /\ page' = [page EXCEPT ![s][w].st = "running"]
    /\ UNCHANGED <<serverVars, console, alive, inbox>>

Busy(s, w, task) ==
    /\ page[s][w].st = "running"
    /\ page[s][w].tasks # <<>>
    /\ Head(page[s][w].tasks) = task

\* The head of the Do queue is an open: it asks for the new window and waits
SendNewTest(s, w) ==
    /\ Busy(s, w, "open")
    /\ ~ page[s][w].asked
    /\ page' = [page EXCEPT ![s][w].asked = TRUE]
    /\ Send(s, w, Msg("NEW_TEST", 0))
    /\ UNCHANGED <<serverVars, console, alive>>

\* Mutant: UT.open calls done when the window is open, not when its test has finished
PageOpenedNoWait(s, w) ==
    /\ page[s][w].st = "running"
    /\ \E c \in Win :
          /\ Deliver(Opened(s, w, c))
          /\ Send(s, w, Msg("WAIT_TEST", c))
    /\ page' = [page EXCEPT ![s][w].tasks = Done(@), ![s][w].asked = FALSE]
    /\ UNCHANGED <<fault, db, fifo, driver, clients, timers, waitTest, waitAll,
                   console, alive>>

\* The new window's id comes back: the page listens to its end
PageOpened(s, w) ==
    /\ page[s][w].st = "running"
    /\ \E c \in Win :
          /\ Deliver(Opened(s, w, c))
          /\ page' = [page EXCEPT ![s][w].child = c]
          /\ Send(s, w, Msg("WAIT_TEST", c))
    /\ UNCHANGED <<fault, db, fifo, driver, clients, timers, waitTest, waitAll,
                   console, alive>>

\* The child has finished: done of the open task, the next one is run
PageFinished(s, w) ==
    /\ page[s][w].st = "running"
    /\ Deliver(Finished(s, w, page[s][w].child))
    /\ page' = [page EXCEPT ![s][w].tasks = Done(@), ![s][w].child = 0, ![s][w].asked = FALSE]
    /\ UNCHANGED <<fault, db, fifo, driver, clients, timers, waitTest, waitAll,
                   console, alive, inbox>>

\* The head of the Do queue is a done: it sends the result and leaves the queue
SendFinish(s, w) ==
    /\ Busy(s, w, "done")
    /\ page' = [page EXCEPT ![s][w].tasks = Done(@)]
    /\ Send(s, w, Msg("TEST_FINISH", 0))
    /\ UNCHANGED <<serverVars, console, alive>>

\* TraceKit caught a script error: _reportTestError shows it in an alert box first
ShowError(s, w) ==
    /\ page[s][w].st = "running"
    /\ page[s][w].errors < MaxErrors
    /\ LateErrors \/ page[s][w].tasks # <<>>
    /\ page' = [page EXCEPT ![s][w].st = "alert", ![s][w].errors = @ + 1]
    /\ UNCHANGED <<serverVars, console, alive, inbox>>

(***************************************************************************)
(* Somebody closes the alert box, a person or the browser's driver: the    *)
(* page sends the error and goes on.  Where a timeout comes only when the  *)
(* session is quiet, the box is closed within the minute or not at all.    *)
(***************************************************************************)
SendError(s, w) ==
    /\ page[s][w].st = "alert"
    /\ Timeouts = "quiet" => s \in timers
    /\ page' = [page EXCEPT ![s][w].st = "running"]
    /\ Send(s, w, Msg("TEST_ERROR", 0))
    /\ UNCHANGED <<serverVars, console, alive>>

Hang(s, w) ==
    /\ MayHang
    /\ page[s][w].st \in {"loading", "running"}
    /\ page' = [page EXCEPT ![s][w].st = "hung"]
    /\ UNCHANGED <<serverVars, console, alive, inbox>>

\* The server gets the oldest message of a page
Receive(s, w) ==
    LET m == Head(inbox[s][w]) IN
    /\ inbox[s][w] # <<>>
    /\ inbox' = [inbox EXCEPT ![s][w] = Tail(@)]
    /\ \/ m.type = "NEW_TEST" /\ NEW_TEST(s, w)
       \/ m.type = "WAIT_TEST" /\ WAIT_TEST(s, m.w, w)
       \/ m.type = "TEST_FINISH" /\ TEST_FINISH(s, w)
       \/ m.type = "TEST_ERROR" /\ TEST_ERROR(s, w)
    /\ UNCHANGED <<console, alive, page>>

\* The page does nothing more by itself: it is gone, stopped or waits for a child
Waiting(pg) ==
    \/ pg.st \in {"none", "alert", "hung", "closed"}
    \/ pg.st = "running" /\ (pg.tasks = <<>> \/ pg.asked)

(***************************************************************************)
(* Nothing of the session moves any more.  Requests take milliseconds and  *)
(* the timer a minute: a timeout comes after the session went quiet.       *)
(***************************************************************************)
Quiet(s) ==
    /\ driver[s] = <<>>
    /\ \A i \in 1..Len(fifo) : fifo[i].s # s
    /\ \A w \in Win : inbox[s][w] = <<>> /\ Waiting(page[s][w])
    /\ \A cb \in sent : cb.s = s => cb.to # 0 /\ page[s][cb.to].st # "running"
    /\ console[s] # "subscribing"

\* The minute is over
MinuteOver(s) ==
    /\ Timeouts # "never"
    /\ Timeouts = "quiet" => Quiet(s)
    /\ Timeout(s)
    /\ UNCHANGED runVars

-----------------------------------------------------------------------------
(***************************************************************************)
(* The steps, by who takes them.  A run is followed up to the end of the   *)
(* server process: what pages and browsers do after an uncaught exception  *)
(* is not.                                                                 *)
(***************************************************************************)
RedisStep == RedisAnswer /\ UNCHANGED runVars

AnswerStep(s) == (OpenAnswered(s) \/ CloseAnswered(s) \/ EndAnswered(s)) /\ UNCHANGED runVars

BrowserStep(s) ==
    /\ Running
    /\ PerformOpen(s) \/ PerformOpenAfterEnd(s) \/ PerformClose(s) \/ PerformEnd(s)

ConsoleStep(s) ==
    /\ Running
    /\ BrowserReady(s) \/ ConsoleOpened(s) \/ ConsoleSubscribes(s) \/ ConsoleReported(s)

PageStep(s, w) ==
    /\ Running
    /\ \/ StartTest(s, w) \/ SendNewTest(s, w) \/ PageOpened(s, w) \/ PageFinished(s, w)
       \/ SendFinish(s, w)

\* What the outside may do and need not
Chance(s) ==
    /\ Running
    /\ Click(s) \/ \E w \in Win : ShowError(s, w) \/ SendError(s, w) \/ Hang(s, w)

Next ==
    \/ RedisStep
    \/ \E s \in Session :
          \/ Chance(s) \/ ConsoleStep(s) \/ BrowserStep(s) \/ AnswerStep(s) \/ MinuteOver(s)
          \/ \E w \in Win : PageStep(s, w) \/ Receive(s, w)

Spec == Init /\ [][Next]_vars

(***************************************************************************)
(* Redis and the browsers answer, messages arrive, a page that does not    *)
(* hang goes on, a timer fires.  Nobody is obliged to click, to make an    *)
(* error, to close an alert box or to hang.                                *)
(***************************************************************************)
Fairness ==
    /\ WF_vars(RedisStep)
    /\ \A s \in Session :
          /\ WF_vars(ConsoleStep(s)) /\ WF_vars(BrowserStep(s))
          /\ WF_vars(AnswerStep(s)) /\ WF_vars(MinuteOver(s))
          /\ \A w \in Win : WF_vars(PageStep(s, w)) /\ WF_vars(Receive(s, w))

FairSpec == Spec /\ Fairness
=============================================================================
