----------------------------- MODULE TestServer -----------------------------
(***************************************************************************)
(* The Node server of socketServer/: the Socket.IO handlers (socket.js),   *)
(* the test logic behind them (test.js) and its use of the browsers        *)
(* (webdriver.js) and of Redis (session.js).                               *)
(*                                                                         *)
(* The process has one thread and one Redis connection.  A handler runs to *)
(* its first asynchronous call, which leaves a job in a queue: the command *)
(* asked for and what its callback will need.  An action of this module    *)
(* takes the oldest job of a queue, performs the command and runs the      *)
(* callback up to the next asynchronous call.  Redis answers in order, so  *)
(* running a command and its callback in one step loses no behaviour.      *)
(*                                                                         *)
(* Pages, consoles and browsers are in TestRun, which extends this module. *)
(***************************************************************************)
EXTENDS SessionStore, Sequences

VARIABLES
    fault,      \* the uncaught exception that ended the process, or "none"
    db,         \* the Redis database
    fifo,       \* jobs whose Redis command is on the connection
    driver,     \* per session, the jobs whose command the browser has
    clients,    \* sessions in SessionClientList
    timers,     \* sessions whose timeout is armed in SessionTimeoutCallback
    waitTest,   \* TestFinishCallback: the windows somebody listens to
    waitAll,    \* AllTestFinishCallback: the sessions a console listens to
    sent        \* callbacks sent to pages and consoles, on their way

serverVars == <<fault, db, fifo, driver, clients, timers, waitTest, waitAll, sent>>

(***************************************************************************)
(* A job is one run of newTest, finish, timeout, saveError or destroy.     *)
(*   at    the Redis command that is queued                                *)
(*   then  what to do once the TestSession being opened is ready           *)
(*   w, p  the window the job is about and, for a new one, its parent      *)
(*   row   the hash that finish and saveError read                         *)
(*   keys  the keys read by KEYS, for the commands that follow             *)
(*   seen  the windows whose test result getAllTestResult collected        *)
(***************************************************************************)
JobKind == {"newRoot", "newChild", "finish", "timeout", "error", "destroy"}
Command == {"sessionExist", "initGlobalData", "expireKeys", "expire",
            "setClient", "addWin", "getWin", "setWin", "winKeys", "getWins",
            "getClient", "ownKeys", "allKeys", "del"}
Continuation == {"setClient", "runTest", "addWin", "getWin", "allResults",
                 "winKeys", "getClient", "none"}

Job == [kind : JobKind, s : Session, w : Win \cup {0}, p : Win \cup {0},
        at : Command, then : Continuation, row : Row, keys : SUBSET Key,
        seen : SUBSET Win]

NewJob(k, s, w, p) ==
    [kind |-> k, s |-> s, w |-> w, p |-> p, at |-> "sessionExist",
     then |-> "none", row |-> NoRow, keys |-> {}, seen |-> {}]

\* new TestSession( s, ... ): four round trips before the callback
Open(j, k) == [j EXCEPT !.at = "sessionExist", !.then = k]
Ask(j, c) == [j EXCEPT !.at = c]

\* Commands a browser gets; a finished child's window is closed, a root's session ended
BrowserCommand(j) ==
    CASE j.kind \in {"newRoot", "newChild"} -> "open"
      [] j.kind = "finish" /\ j.row.parent # NoParent -> "close"
      [] OTHER -> "end"

BrowserJob == [job : Job, performed : BOOLEAN]

(***************************************************************************)
(* What the server sends: callbacks of NEW_TEST, WAIT_TEST, WAIT_ALL_TEST. *)
(* The report of a session carries the rows read by getAllTestResult.      *)
(***************************************************************************)
Opened(s, p, w) == [type |-> "opened", s |-> s, to |-> p, w |-> w, wins |-> {}]
Finished(s, p, w) == [type |-> "finished", s |-> s, to |-> p, w |-> w, wins |-> {}]
Report(s, wins) == [type |-> "report", s |-> s, to |-> 0, w |-> 0, wins |-> wins]

Callback == [type : {"opened", "finished", "report"}, s : Session,
             to : Win \cup {0}, w : Win \cup {0}, wins : SUBSET Win]

-----------------------------------------------------------------------------
ServerInit ==
    /\ fault = "none"
    /\ db = EmptyDatabase
    /\ fifo = <<>>
    /\ driver = [s \in Session |-> <<>>]
    /\ clients = {}
    /\ timers = {}
    /\ waitTest = [s \in Session |-> [w \in Win |-> 0]]
    /\ waitAll = {}
    /\ sent = {}

Running == fault = "none"

(***************************************************************************)
(* Hand a job to the browser.  finishSession forgets the client as soon as *)
(* it has called end, without waiting for the answer.                      *)
(***************************************************************************)
Drive(j) ==
    driver' = [driver EXCEPT ![j.s] = Append(@, [job |-> j, performed |-> FALSE])]

\* Mutant: an ended client stays in memory
ClientsAfterKept(j) == clients

ClientsAfter(j) == IF BrowserCommand(j) = "end" THEN clients \ {j.s} ELSE clients

(***************************************************************************)
(* getClient for a known session: from memory at once, else after opening  *)
(* a TestSession and reading the client data.  rest is the connection's    *)
(* queue without the job.                                                  *)
(***************************************************************************)
WithClient(j, rest) ==
    \/ /\ j.s \in clients
       /\ Drive(j)
       /\ clients' = ClientsAfter(j)
       /\ fifo' = rest
    \/ /\ j.s \notin clients
       /\ fifo' = Append(rest, Open(j, "getClient"))
       /\ UNCHANGED <<driver, clients>>

Crash(reason) ==
    /\ fault' = reason
    /\ UNCHANGED <<db, fifo, driver, clients, timers, waitTest, waitAll, sent>>

-----------------------------------------------------------------------------
(***************************************************************************)
(* The Socket.IO handlers, up to their first asynchronous call.            *)
(***************************************************************************)
Queue(j) ==
    /\ fifo' = Append(fifo, j)
    /\ UNCHANGED <<fault, db, driver, clients, timers, waitTest, waitAll, sent>>

\* A page asks for a child window: its session exists already
NEW_TEST(s, p) == Running /\ Queue(Open(NewJob("newChild", s, 0, p), "runTest"))

\* The session a console asked for has its browser: init called back
NewSession(s) == Running /\ Queue(Open(NewJob("newRoot", s, 0, NoParent), "setClient"))

\* Mutant: finish uses a TestSession that is open already, four answers earlier
TEST_FINISH_Early(s, w) == Running /\ Queue(Ask(NewJob("finish", s, w, 0), "getWin"))

TEST_FINISH(s, w) == Running /\ Queue(Open(NewJob("finish", s, w, 0), "getWin"))

TEST_ERROR(s, w) == Running /\ Queue(Open(NewJob("error", s, w, 0), "getWin"))

\* p listens to the end of w; a later listener replaces an earlier one
WAIT_TEST(s, w, p) ==
    /\ Running
    /\ waitTest' = [waitTest EXCEPT ![s][w] = p]
    /\ UNCHANGED <<fault, db, fifo, driver, clients, timers, waitAll, sent>>

WAIT_ALL_TEST(s) ==
    /\ Running
    /\ waitAll' = waitAll \cup {s}
    /\ UNCHANGED <<fault, db, fifo, driver, clients, timers, waitTest, sent>>

\* The timer of a session fires
Timeout(s) ==
    /\ Running
    /\ s \in timers
    /\ timers' = timers \ {s}
    /\ fifo' = Append(fifo, Open(NewJob("timeout", s, 0, 0), "allResults"))
    /\ UNCHANGED <<fault, db, driver, clients, waitTest, waitAll, sent>>

-----------------------------------------------------------------------------
(***************************************************************************)
(* Redis answers.  Each action takes the job at the head of the connection.*)
(***************************************************************************)
Answers(command) == Running /\ fifo # <<>> /\ Head(fifo).at = command

\* The job goes on with its next command
GoOn(j) == fifo' = Append(Tail(fifo), j)

SessionExist ==
    LET j == Head(fifo) IN
    /\ Answers("sessionExist")
    /\ GoOn(Ask(j, IF SessionKeys(db, j.s) = {} THEN "initGlobalData" ELSE "expireKeys"))
    /\ UNCHANGED <<fault, db, driver, clients, timers, waitTest, waitAll, sent>>

InitGlobalData ==
    LET j == Head(fifo) IN
    /\ Answers("initGlobalData")
    /\ db' = Put(db, GlobalDataKey(j.s))
    /\ GoOn(Ask(j, "expireKeys"))
    /\ UNCHANGED <<fault, driver, clients, timers, waitTest, waitAll, sent>>

ExpireKeys ==
    /\ Answers("expireKeys")
    /\ GoOn(Ask(Head(fifo), "expire"))
    /\ UNCHANGED <<fault, db, driver, clients, timers, waitTest, waitAll, sent>>

(***************************************************************************)
(* The last EXPIRE is answered: the TestSession is ready.  The callback    *)
(* asks for its own command, opens the second TestSession of a timeout     *)
(* (getAllTestResult), or runs a child test in the session's browser.      *)
(***************************************************************************)
SessionReady ==
    LET j == Head(fifo) IN
    /\ Answers("expire")
    /\ \/ /\ j.then \in {"setClient", "addWin", "getWin", "winKeys", "getClient"}
          /\ GoOn(Ask(j, j.then))
          /\ UNCHANGED <<driver, clients>>
       \/ /\ j.then = "allResults"
          /\ GoOn(Open(j, "winKeys"))
          /\ UNCHANGED <<driver, clients>>
       \/ /\ j.then = "runTest"
          /\ WithClient(j, Tail(fifo))
    /\ UNCHANGED <<fault, db, timers, waitTest, waitAll, sent>>

\* The new session's client is stored, then kept in memory, then runs the test
SetClient ==
    LET j == Head(fifo) IN
    /\ Answers("setClient")
    /\ db' = Put(db, ClientKey(j.s))
    /\ clients' = clients \cup {j.s}
    /\ Drive(j)
    /\ fifo' = Tail(fifo)
    /\ UNCHANGED <<fault, timers, waitTest, waitAll, sent>>


(***************************************************************************)
(* A client that is not in memory is built again from its stored data; it  *)
(* is not put back in memory.  Without data getClient throws.              *)
(***************************************************************************)
GetClient ==
    LET j == Head(fifo) IN
    /\ Answers("getClient")
    /\ \/ /\ Exists(db, ClientKey(j.s))
          /\ Drive(j)
          /\ clients' = ClientsAfter(j)
          /\ fifo' = Tail(fifo)
          /\ UNCHANGED <<fault, db, timers, waitTest, waitAll, sent>>
       \/ /\ ~ Exists(db, ClientKey(j.s))
          /\ Crash("noClient")

\* Mutant: the timeout is set for child windows only
TimersAfterChild(j) == IF j.kind = "newRoot" THEN timers ELSE timers \cup {j.s}

\* ifNewSession
TimersAfter(j) == IF j.kind = "newRoot" THEN timers \cup {j.s} ELSE timers

(***************************************************************************)
(* The row of a new window is written: its opener learns the window id,    *)
(* and a new session gets its timeout.                                     *)
(***************************************************************************)
AddWin ==
    LET j == Head(fifo) IN
    /\ Answers("addWin")
    /\ db' = PutRow(db, j.s, j.w, NewRow(j.p))
    /\ sent' = sent \cup {Opened(j.s, j.p, j.w)}
    /\ timers' = TimersAfter(j)
    /\ fifo' = Tail(fifo)
    /\ UNCHANGED <<fault, driver, clients, waitTest, waitAll>>

(***************************************************************************)
(* finish and saveError read the whole hash and write it back changed.  A  *)
(* missing row is null: setting or reading a field of it throws.  A stored *)
(* errorList is a string: push throws.                                     *)
(***************************************************************************)
GetWin ==
    LET j == Head(fifo)
        row == RowOf(db, j.s, j.w)
        known == Exists(db, WinKey(j.s, j.w))
    IN
    /\ Answers("getWin")
    /\ \/ ~ known /\ Crash("noRow")
       \/ known /\ j.kind = "error" /\ row.errors /\ Crash("errorList")
       \/ /\ known
          /\ \/ /\ j.kind = "finish"
                /\ GoOn([Ask(j, "setWin") EXCEPT
                            !.row = [row EXCEPT !.stat = "done", !.result = TRUE]])
             \/ /\ j.kind = "error"
                /\ ~ row.errors
                /\ GoOn([Ask(j, "setWin") EXCEPT
                            !.row = [row EXCEPT !.errors = TRUE]])
          /\ UNCHANGED <<fault, db, driver, clients, timers, waitTest, waitAll, sent>>

SetWin ==
    LET j == Head(fifo) IN
    /\ Answers("setWin")
    /\ db' = PutRow(db, j.s, j.w, j.row)
    /\ \/ /\ j.kind = "error"
          /\ fifo' = Tail(fifo)
          /\ UNCHANGED <<driver, clients>>
       \/ /\ j.kind = "finish"
          /\ j.row.parent # NoParent
          /\ WithClient(j, Tail(fifo))
       \/ /\ j.kind = "finish"
          /\ j.row.parent = NoParent
          /\ GoOn(Open(j, "winKeys"))
          /\ UNCHANGED <<driver, clients>>
    /\ UNCHANGED <<fault, timers, waitTest, waitAll, sent>>

\* getAllWins never calls back when the session has no window key
WinKeys ==
    LET j == Head(fifo)
        keys == WindowKeys(db, j.s)
    IN
    /\ Answers("winKeys")
    /\ \/ keys = {} /\ fifo' = Tail(fifo)
       \/ keys # {} /\ GoOn([Ask(j, "getWins") EXCEPT !.keys = keys])
    /\ UNCHANGED <<fault, db, driver, clients, timers, waitTest, waitAll, sent>>

\* One HGETALL per key, one after the other on the connection; a key deleted meanwhile is null
GetWins ==
    LET j == Head(fifo)
        seen == {w \in Win : WinKey(j.s, w) \in j.keys /\ RowOf(db, j.s, w).result}
    IN
    /\ Answers("getWins")
    /\ \/ /\ j.keys \subseteq db.keys
          /\ WithClient([j EXCEPT !.seen = seen], Tail(fifo))
          /\ UNCHANGED <<fault, db, timers, waitTest, waitAll, sent>>
       \/ ~ (j.keys \subseteq db.keys) /\ Crash("nullWin")

\* destroy: KEYS s<id>* and KEYS *, each followed by a DEL of what it returned
DestroyKeys ==
    LET j == Head(fifo) IN
    /\ \/ Answers("ownKeys") /\ GoOn([Ask(j, "del") EXCEPT !.keys = SessionKeys(db, j.s)])
       \/ Answers("allKeys") /\ GoOn([Ask(j, "del") EXCEPT !.keys = AllKeys(db)])
    /\ UNCHANGED <<fault, db, driver, clients, timers, waitTest, waitAll, sent>>

Del ==
    /\ Answers("del")
    /\ db' = Delete(db, Head(fifo).keys)
    /\ fifo' = Tail(fifo)
    /\ UNCHANGED <<fault, driver, clients, timers, waitTest, waitAll, sent>>

RedisAnswer ==
    \/ SessionExist \/ InitGlobalData \/ ExpireKeys \/ SessionReady
    \/ SetClient \/ GetClient \/ AddWin \/ GetWin \/ SetWin
    \/ WinKeys \/ GetWins \/ DestroyKeys \/ Del

-----------------------------------------------------------------------------
\* Mutant: closeWindow calls back without waiting for the browser
BrowserAnswersEarly(s, command) ==
    /\ Running
    /\ driver[s] # <<>>
    /\ command = "close" \/ Head(driver[s]).performed
    /\ BrowserCommand(Head(driver[s]).job) = command
    /\ driver' = [driver EXCEPT ![s] = Tail(@)]

(***************************************************************************)
(* The browser has performed the oldest command of a session and answers.  *)
(***************************************************************************)
BrowserAnswers(s, command) ==
    /\ Running
    /\ driver[s] # <<>>
    /\ Head(driver[s]).performed
    /\ BrowserCommand(Head(driver[s]).job) = command
    /\ driver' = [driver EXCEPT ![s] = Tail(@)]

\* A new session opens its TestSession only now; a child's has been open since NEW_TEST
OpenAnswered(s) ==
    LET j == Head(driver[s]).job IN
    /\ BrowserAnswers(s, "open")
    /\ fifo' = Append(fifo, IF j.kind = "newRoot" THEN Open(j, "addWin") ELSE Ask(j, "addWin"))
    /\ UNCHANGED <<fault, db, clients, timers, waitTest, waitAll, sent>>

\* finish of a child: its listener is called and forgotten
CloseAnswered(s) ==
    LET w == Head(driver[s]).job.w IN
    /\ BrowserAnswers(s, "close")
    /\ sent' = IF waitTest[s][w] = 0 THEN sent
               ELSE sent \cup {Finished(s, waitTest[s][w], w)}
    /\ waitTest' = [waitTest EXCEPT ![s][w] = 0]
    /\ UNCHANGED <<fault, db, fifo, clients, timers, waitAll>>

Destroy(s, command) == Ask(NewJob("destroy", s, 0, 0), command)

EndAnsweredTimerOn(s) ==     \* mutant: clearTimeout is missing
    /\ BrowserAnswers(s, "end")
    /\ sent' = IF s \in waitAll THEN sent \cup {Report(s, Head(driver[s]).job.seen)} ELSE sent
    /\ fifo' = Append(Append(fifo, Destroy(s, "ownKeys")), Destroy(s, "allKeys"))
    /\ UNCHANGED <<fault, db, clients, timers, waitTest, waitAll>>

\* Mutant: finish leaves the report to the timeout when the timer has fired
EndAnsweredOnce(s) ==
    LET j == Head(driver[s]).job IN
    /\ BrowserAnswers(s, "end")
    /\ timers' = timers \ {s}
    /\ sent' = IF s \in waitAll /\ (j.kind = "timeout" \/ s \in timers)
               THEN sent \cup {Report(s, j.seen)} ELSE sent
    /\ fifo' = Append(Append(fifo, Destroy(s, "ownKeys")), Destroy(s, "allKeys"))
    /\ UNCHANGED <<fault, db, clients, waitTest, waitAll>>

(***************************************************************************)
(* finish of the root or timeout: the timer is cleared, the console gets   *)
(* its report (its callback stays registered), and the data is destroyed.  *)
(***************************************************************************)
EndAnswered(s) ==
    /\ BrowserAnswers(s, "end")
    /\ timers' = timers \ {s}
    /\ sent' = IF s \in waitAll THEN sent \cup {Report(s, Head(driver[s]).job.seen)} ELSE sent
    /\ fifo' = Append(Append(fifo, Destroy(s, "ownKeys")), Destroy(s, "allKeys"))
    /\ UNCHANGED <<fault, db, clients, waitTest, waitAll>>
=============================================================================
