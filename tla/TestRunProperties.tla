------------------------- MODULE TestRunProperties -------------------------
(***************************************************************************)
(* What the test runs of TestRun promise.                                  *)
(***************************************************************************)
EXTENDS TestRun

(***************************************************************************)
(* Every variable keeps its type; in particular every job and every        *)
(* browser command is of a known kind, and every window id is a window's.  *)
(***************************************************************************)
TypeOK ==
    /\ fault \in {"none", "noRow", "errorList", "noClient", "nullWin"}
    /\ db \in Database
    /\ fifo \in Seq(Job)
    /\ driver \in [Session -> Seq(BrowserJob)]
    /\ clients \subseteq Session
    /\ timers \subseteq Session
    /\ waitTest \in [Session -> [Win -> Win \cup {0}]]
    /\ waitAll \subseteq Session
    /\ sent \subseteq Callback
    /\ console \in [Session -> {"idle", "booting", "started", "subscribing",
                                "listening", "reported"}]
    /\ alive \subseteq Session
    /\ page \in [Session -> [Win -> Page]]
    /\ inbox \in [Session -> [Win -> Seq(Message)]]

Ending(s) == \E i \in 1..Len(driver[s]) : BrowserCommand(driver[s][i].job) = "end"
Appeared(s, w) == page[s][w].st # "none"
TestEnded(s, w) == Appeared(s, w) /\ page[s][w].tasks = <<>>
ResultStored(s, w) == Exists(db, WinKey(s, w)) => RowOf(db, s, w).result

(***************************************************************************)
(* The client kept in memory for a session is one whose browser runs and   *)
(* has not been told to end: a command through SessionClientList never     *)
(* goes to a session that is over (webdriver.js, getClient and the delete  *)
(* of finishSession that does not wait for end).                           *)
(***************************************************************************)
ClientAlive == \A s \in clients : s \in alive /\ ~ Ending(s)

(***************************************************************************)
(* Pages opened by one test are opened one after the other: two windows    *)
(* with the same opener are never shown together, and a window opens only  *)
(* when the earlier ones have their result stored and are closed           *)
(* (UITest.js, open; README.md: "multi-call of UT.open").                  *)
(***************************************************************************)
OpensInOrder ==
    [][\A s \in Session : \A w, v \in Win :
          /\ page[s][w].st = "none" /\ page'[s][w].st = "loading"
          /\ v # w /\ Appeared(s, v) /\ page[s][v].parent = page'[s][w].parent
          => page[s][v].st = "closed" /\ ResultStored(s, v)]_vars

(***************************************************************************)
(* A page is told that its child has finished only when the child's window *)
(* is closed and its result is in the database, so that the report made at *)
(* the end holds it (socket.js, TEST_FINISH; test.js, finish).             *)
(***************************************************************************)
NotifiedAfterClose ==
    \A cb \in sent : cb.type = "finished" =>
        page[cb.s][cb.w].st = "closed" /\ ResultStored(cb.s, cb.w)

(***************************************************************************)
(* Once the end of a session is answered its timer is off for good: a      *)
(* session that was reported cannot be timed out and reported again        *)
(* (socket.js, clearTimeout in TEST_FINISH against the timer of NEW_TEST). *)
(***************************************************************************)
NoTimerAfterEnd ==
    \A s \in timers : s \in alive \/ Ending(s)

(***************************************************************************)
(* The report a console gets holds the results of exactly the windows      *)
(* whose test has ended: of all of them if none hangs, and at a timeout    *)
(* every one that was finished before (test.js, getAllTestResult).         *)
(***************************************************************************)
ReportComplete ==
    \A cb \in sent : cb.type = "report" =>
        cb.wins = {w \in Win : TestEnded(cb.s, w)}

(***************************************************************************)
(* No handler throws, so the server goes on: rows, client data and error   *)
(* lists are there when a callback uses them (test.js and webdriver.js).   *)
(***************************************************************************)
NoFault == fault = "none"

(***************************************************************************)
(* finish and saveError read a row and write it back two answers of Redis  *)
(* later.  An error shown before the result is written never puts          *)
(* "running" back over "done": the two runs stay in step on the            *)
(* connection (test.js, finish and saveError).  It does not hold of an     *)
(* error that comes after the result (LateErrors).                         *)
(***************************************************************************)
DoneStays ==
    [][\A s \in Session : \A w \in Win :
          /\ Exists(db, WinKey(s, w)) /\ Exists(db', WinKey(s, w))
          /\ RowOf(db, s, w).stat = "done"
          => RowOf(db', s, w).stat = "done"]_vars

(***************************************************************************)
(* A console that asked for a test gets a report (socket.js, the two calls *)
(* of AllTestFinishCallback), and nothing that is still under way then,    *)
(* nor any message that comes later, makes a handler throw.                *)
(***************************************************************************)
TestsAreReported ==
    \A s \in Session :
        console[s] = "booting" ~> [](console[s] = "reported" /\ Running)

(***************************************************************************)
(* A console that listens while the browser runs gets a report, whatever   *)
(* the pages do (socket.js, WAIT_ALL_TEST, TEST_FINISH and the timeout).   *)
(***************************************************************************)
ListeningIsReported ==
    \A s \in Session : console[s] = "listening" /\ s \in alive ~> console[s] = "reported"

(***************************************************************************)
(* However the end of a session and its timeout meet, a console that       *)
(* listens while the browser runs gets a report or the server has thrown:  *)
(* when one of the two finds no window left, and getAllWins never calls    *)
(* back, the other one has reported (session.js, getAllWins; test.js,      *)
(* finish and timeout).                                                    *)
(***************************************************************************)
OneEndReports ==
    \A s \in Session :
        console[s] = "listening" /\ s \in alive ~> console[s] = "reported" \/ ~ Running

(***************************************************************************)
(* Once the browser of a session has ended and the server has nothing left *)
(* to do for it, no row and no client of it is in Redis, whatever arrived  *)
(* around the DEL: a late result that writes its row again finds a client  *)
(* and ends the session once more, or throws (test.js, the S.destroy of    *)
(* finish and timeout; webdriver.js, getClient; session.js, destroy).  The *)
(* globalData may be left: a late message or timeout that opens a          *)
(* TestSession writes it again, and only its expiry ends it.               *)
(***************************************************************************)
AtRest(s) ==
    /\ s \notin alive
    /\ driver[s] = <<>>
    /\ \A i \in 1..Len(fifo) : fifo[i].s # s

=============================================================================
