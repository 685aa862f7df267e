-------------------------- MODULE RedisReplication --------------------------
(***************************************************************************)
(* Redis servers, each with its files (RedisPersistence), replicated by    *)
(* SYNC (replication.c): a slave connects, PINGs and asks for SYNC; the    *)
(* master forks a child to save dump.rdb, collects meanwhile, for every    *)
(* slave, the commands the snapshot does not have, sends the file and then *)
(* the commands.  The same child serves SAVE points, and the cron function *)
(* (redis.c, serverCron) reaps it.                                         *)
(*                                                                         *)
(* A connection is a record of conn: the two ends close it separately, and *)
(* the slave's end carries the event handler installed for it.             *)
(***************************************************************************)
EXTENDS RedisPersistence

CONSTANTS
  Servers,                   \* 1..n; 0 is no server
  Families,                  \* of each: configuration, commands given and faults
  MaxFds, MaxFaults, MaxCommands   \* bounds, with the writes of a family

ASSUME ReplicationAssumption == Servers \subseteq Nat \ {0} /\ MaxFds \in Nat \ {0}

VARIABLES
  family,
  server,      \* the servers
  conn,        \* the connections of slaves, by descriptor
  since,       \* the data sets of each server since the last reply to a client
  count        \* [write, fault, command]: how many so far
vars == <<family, server, conn, since, count>>

Conf == Families[family]
Fds == 1..MaxFds
Closed == [slave |-> 0, master |-> 0, ev |-> "none", writable |-> FALSE, db |-> 0, wire |-> <<>>,
           req |-> <<>>, role |-> "closed", seldb |-> 0, out |-> <<>>, bulk |-> <<>>]

\* The servers and connections, as one value that a handler changes.
World == [sv |-> server, cn |-> conn]
Server(w, s) == w.sv[s]
SlavesOf(w, s) == {f \in Fds : w.cn[f].master = s /\ w.cn[f].role \notin {"closed", "none"}}

\* An end is closed; the descriptor is free when both are.
Freed(c) == IF c.ev = "none" /\ c.role = "closed" THEN Closed ELSE c
CloseSlaveEnd(w, f) ==
  IF f = 0 THEN w ELSE [w EXCEPT !.cn[f] = Freed([@ EXCEPT !.ev = "none", !.writable = FALSE])]
CloseMasterEnds(w, fs) ==
  [w EXCEPT !.cn = [f \in Fds |-> IF f \in fs THEN Freed([@[f] EXCEPT !.role = "closed"]) ELSE @[f]]]

-----------------------------------------------------------------------------
(* The master.                                                              *)

\* Mutant: nothing is collected for the slaves that wait for a snapshot
FeedOnline(w, s, db, c) ==
  LET fed(k) == [k EXCEPT !.seldb = db,
                          !.out = @ \o IF k.seldb = db THEN <<c>> ELSE <<Select(db), c>>]
  IN  [w EXCEPT !.cn = [f \in Fds |-> IF f \in SlavesOf(w, s) /\ @[f].role = "online"
                                      THEN fed(@[f]) ELSE @[f]]]

replicationFeedSlaves(w, s, db, c) ==
  LET fed(k) == [k EXCEPT !.seldb = db,
                          !.out = @ \o IF k.seldb = db THEN <<c>> ELSE <<Select(db), c>>]
  IN  [w EXCEPT !.cn = [f \in Fds |-> IF f \in SlavesOf(w, s) /\ @[f].role # "start"
                                      THEN fed(@[f]) ELSE @[f]]]

\* A change of the data set: to the AOF and to the slaves.
propagate(w, s, db, c) ==
  replicationFeedSlaves([w EXCEPT !.sv[s] = feedAppendOnlyFile(@, db, c)], s, db, c)

disconnectSlaves(w, s) == CloseMasterEnds(w, SlavesOf(w, s))

\* A second slave can share the snapshot that another one waits for, and takes
\* a copy of what was collected for it.
syncCommand(w, s, f, forks) ==
  LET v == Server(w, s)
      waiting == {g \in SlavesOf(w, s) : w.cn[g].role = "end"}
      Role(r, out) == [w EXCEPT !.cn[f] = [@ EXCEPT !.role = r, !.out = out, !.seldb = 0]]
  IN  IF w.cn[f].role # "none" THEN w
      ELSE IF v.host # 0 /\ v.repl # "connected" THEN [w EXCEPT !.cn[f].wire = Append(@, <<"error">>)]
      ELSE IF Running(v.save)
      THEN IF waiting = {} THEN Role("start", <<>>) ELSE Role("end", w.cn[Min(waiting)].out)
      ELSE IF ~forks THEN [w EXCEPT !.cn[f].wire = Append(@, <<"error">>)]
      ELSE [Role("end", <<>>) EXCEPT !.sv[s] = rdbSaveBackground(@, TRUE)]

\* A child that was killed by a signal has exit code 0, and counts as one that
\* succeeded: dump.rdb is sent, whatever it holds.
updateSlavesWaitingBgsave(w, s, ok, forks) ==
  LET slaves == SlavesOf(w, s)
      next(c) == IF c.role = "start" THEN [c EXCEPT !.role = "end"]
                 ELSE IF c.role # "end" THEN c
                 ELSE IF ok /\ Server(w, s).rdb # <<>>
                 THEN [c EXCEPT !.role = "bulk", !.bulk = Server(w, s).rdb]
                 ELSE Freed([c EXCEPT !.role = "closed"])
      moved == [w EXCEPT !.cn = [f \in Fds |-> IF f \in slaves THEN next(@[f]) ELSE @[f]]]
  IN  IF \E f \in slaves : w.cn[f].role = "start"
      THEN [moved EXCEPT !.sv[s] = rdbSaveBackground(@, forks)] ELSE moved

backgroundSaveDoneHandler(w, s, forks) ==
  updateSlavesWaitingBgsave([w EXCEPT !.sv[s] = backgroundSaveDone(@)], s,
                            Server(w, s).save[1].exit \in {"ok", "killed"}, forks)

-----------------------------------------------------------------------------
(* The slave.                                                               *)

replicationAbortSyncTransfer(w, s) ==
  [CloseSlaveEnd(w, Server(w, s).fd) EXCEPT !.sv[s].repl = "connect"]
undoConnectWithMaster(w, s) ==
  [CloseSlaveEnd(w, Server(w, s).fd) EXCEPT !.sv[s].repl = "connect", !.sv[s].fd = 0]

\* Mutant: the slave does not connect again
FreeAndWait(w, s) ==
  IF Server(w, s).master = 0 THEN w
  ELSE [CloseSlaveEnd(w, Server(w, s).master) EXCEPT !.sv[s].master = 0, !.sv[s].repl = "none"]

\* The link with the master is lost: our own slaves have to start again.
FreeMaster(w, s) ==
  IF Server(w, s).master = 0 THEN w
  ELSE LET freed == [CloseSlaveEnd(w, Server(w, s).master) EXCEPT
                       !.sv[s].master = 0, !.sv[s].repl = "connect"]
       IN  IF Server(w, s).host # 0 THEN disconnectSlaves(freed, s) ELSE freed

\* The connection fails when there is no descriptor for it.
connectWithMaster(w, s) ==
  LET free == {f \in Fds : w.cn[f] = Closed}
      opened == [Closed EXCEPT !.slave = s, !.master = Server(w, s).host, !.ev = "sync", !.writable = TRUE,
                               !.role = IF Server(w, Server(w, s).host).up THEN "none" ELSE "closed"]
  IN  IF free = {} THEN w
      ELSE [w EXCEPT !.sv[s].fd = Min(free), !.sv[s].repl = "connecting", !.cn[Min(free)] = opened]

\* Mutant: a transfer that goes on is not stopped
SlaveofInTransfer(w, s, host) ==
  IF host = Server(w, s).host THEN w
  ELSE [FreeMaster([w EXCEPT !.sv[s].host = host], s) EXCEPT
          !.sv[s].repl = IF host = 0 THEN "none" ELSE IF @ = "transfer" THEN @ ELSE "connect"]

slaveofCommand(w, s, host) ==
  LET v == Server(w, s)
      moved == FreeMaster([w EXCEPT !.sv[s].host = host], s)
      stop(w1) == IF v.repl = "transfer" THEN replicationAbortSyncTransfer(w1, s)
                  ELSE IF v.repl \in {"connecting", "pong"} /\ host = 0 THEN undoConnectWithMaster(w1, s)
                  ELSE w1
  IN  IF host = v.host THEN w
      ELSE IF host = 0 THEN [stop(moved) EXCEPT !.sv[s].repl = "none"]
      ELSE [stop(disconnectSlaves(moved, s)) EXCEPT !.sv[s].repl = "connect"]

\* The steps of the connection: PING once it is open, SYNC once it is answered.
Failed(w, s, f) == [CloseSlaveEnd(w, f) EXCEPT !.sv[s].fd = 0, !.sv[s].repl = "connect"]
syncWithMaster(w, s, f) ==
  LET v == Server(w, s)
      c == w.cn[f]
      answered == [w EXCEPT !.cn[f].wire = Tail(@)]
      sync(w1) == [w1 EXCEPT !.cn[f] = [w1.cn[f] EXCEPT !.req = Append(@, "SYNC"), !.ev = "payload",
                                                         !.writable = FALSE],
                             !.sv[s].repl = "transfer"]
  IN  IF v.repl = "none" THEN CloseSlaveEnd(w, f)
      ELSE IF c.role = "closed" THEN Failed(w, s, f)
      ELSE IF v.repl = "connecting"
      THEN [w EXCEPT !.cn[f] = [@ EXCEPT !.writable = FALSE, !.req = <<"PING">>], !.sv[s].repl = "pong"]
      ELSE IF v.repl = "pong" THEN IF c.wire = <<>> THEN Failed(w, s, f) ELSE sync(answered)
      ELSE sync(w)

\* The snapshot: it becomes our dump.rdb, and our data; then the link is read
\* as a client's.  The AOF starts again from there.
readSyncBulkPayload(w, s, f, conf, forks) ==
  LET c == w.cn[f]
      fd == Server(w, s).fd
      aof(v) == IF v.aof = "off" THEN v ELSE startAppendOnly(stopAppendOnly(v, conf), forks)
  IN  IF c.wire = <<>> \/ Head(c.wire)[1] # "rdb" THEN replicationAbortSyncTransfer(w, s)
      ELSE [w EXCEPT !.cn[f].wire = Tail(@),
                     !.cn[fd].ev = "link", !.cn[fd].db = 0,
                     !.sv[s] = aof([@ EXCEPT !.rdb = <<Head(c.wire)[2]>>, !.data = Head(c.wire)[2],
                                             !.master = fd, !.repl = "connected"])]

replicationCron(w, s, t) ==
  LET late(w1) == IF Server(w1, s).host = 0 \/ ~t.late THEN w1
                  ELSE IF Server(w1, s).repl \in {"connecting", "pong"} THEN undoConnectWithMaster(w1, s)
                  ELSE IF Server(w1, s).repl = "transfer" THEN replicationAbortSyncTransfer(w1, s)
                  ELSE IF Server(w1, s).repl = "connected" THEN FreeMaster(w1, s)
                  ELSE w1
      connect(w1) == IF Server(w1, s).repl = "connect" THEN connectWithMaster(w1, s) ELSE w1
  IN  IF t.period THEN connect(late(w)) ELSE w

-----------------------------------------------------------------------------
(* Cron.                                                                    *)

\* One child at a time, except that SYNC and CONFIG SET do not wait.
StartScheduled(v, t) ==
  IF v.scheduled /\ ~Running(v.save) /\ ~Running(v.rewrite)
  THEN rewriteAppendOnlyFileBackground(v, t.forks) ELSE v
SaveOrRewrite(v, conf, t) ==
  LET saved == IF conf.saveparams /\ v.dirty > 0 /\ t.save THEN rdbSaveBackground(v, t.forks) ELSE v
  IN  IF ~Running(saved.save) /\ t.grown /\ v.file # <<>> THEN rewriteAppendOnlyFileBackground(saved, t.forks) ELSE saved
Reap(w, s, conf, t) ==
  LET v == Server(w, s)
  IN  IF Running(v.save) /\ v.save[1].exit # "none" THEN backgroundSaveDoneHandler(w, s, t.forks)
      ELSE IF Running(v.rewrite) /\ v.rewrite[1].exit # "none"
      THEN [w EXCEPT !.sv[s] = backgroundRewriteDoneHandler(@, conf)] ELSE w
serverCron(w, s, conf, t) ==
  LET started == [w EXCEPT !.sv[s] = StartScheduled(@, t)]
      children == Running(Server(started, s).save) \/ Running(Server(started, s).rewrite)
      Then(w1) == [w1 EXCEPT !.sv[s] = IF @.postponed THEN flushAppendOnlyFile(@, conf, t) ELSE @]
  IN  replicationCron(Then(IF children THEN Reap(started, s, conf, t)
                           ELSE [started EXCEPT !.sv[s] = SaveOrRewrite(@, conf, t)]), s, t)

-----------------------------------------------------------------------------
(* Actions.                                                                 *)

Init ==
  /\ family \in DOMAIN Families
  /\ server = [s \in Servers |-> [initServer(Conf, s) EXCEPT !.up = s \in Conf.servers]]
  /\ conn = [f \in Fds |-> Closed]
  /\ since = [s \in Servers |-> {EmptyData}]
  /\ count = [write |-> 0, fault |-> 0, command |-> 0]

Allowed(what) == what \in Conf.allowed
Counted(which, bound) == count[which] < bound /\ count' = [count EXCEPT ![which] = @ + 1]
Commit(w) ==
  /\ server' = w.sv /\ conn' = w.cn /\ UNCHANGED family
  /\ since' = [s \in Servers |-> IF Conf.appendonly THEN since[s] \cup {w.sv[s].data}
                                 ELSE {w.sv[s].data}]
Uncounted == UNCHANGED count

\* Clients write to a master, unless it cannot save.
CannotSave(v) == Conf.saveparams /\ ~v.saveok
Refused(v) == v.host # 0 \/ CannotSave(v)
WriteCommand(s, d) ==
  /\ d \in Conf.dbs /\ server[s].up /\ ~Refused(server[s]) /\ Counted("write", Conf.writes)
  /\ LET n == count.write + 1
     IN  Commit(propagate([World EXCEPT !.sv[s] = [server[s] EXCEPT !.data[d] = Append(@, n), !.dirty = @ + 1]],
                          s, d, Write(n)))
flushallCommand(s) ==
  /\ Allowed("flushall") /\ server[s].up /\ ~Refused(server[s]) /\ Counted("command", MaxCommands)
  /\ Commit(propagate([World EXCEPT !.sv[s] = emptyDb(@, Conf.saveparams)], s, 0, FlushAll))

\* What an administrator asks for.  forks: fork() succeeds.
Admin(s, what) == Allowed(what) /\ server[s].up /\ Counted("command", MaxCommands)
Forks == IF Allowed("forkfails") THEN BOOLEAN ELSE {TRUE}
Put(s, v) == Commit([World EXCEPT !.sv[s] = v])
saveCommand(s) == Admin(s, "save") /\ ~Running(server[s].save) /\ Put(s, rdbSave(server[s]))
bgsaveCommand(s) ==
  /\ Admin(s, "bgsave") /\ ~Running(server[s].save) /\ ~Running(server[s].rewrite)
  /\ \E forks \in Forks : Put(s, rdbSaveBackground(server[s], forks))
bgrewriteaofCommand(s) ==
  /\ Admin(s, "bgrewriteaof") /\ ~Running(server[s].rewrite)
  /\ IF Running(server[s].save) THEN Put(s, [server[s] EXCEPT !.scheduled = TRUE])
     ELSE \E forks \in Forks : Put(s, rewriteAppendOnlyFileBackground(server[s], forks))
configSetAppendonly(s) ==
  /\ Admin(s, "appendonly")
  /\ IF server[s].aof = "off" THEN \E forks \in Forks : Put(s, startAppendOnly(server[s], forks))
     ELSE Put(s, stopAppendOnly(server[s], Conf))
Slaveof(s, host) ==
  /\ Admin(s, "slaveof") /\ s \in Conf.told /\ s # host /\ host \in {0} \cup Conf.servers
  /\ Allowed("handshake") \/ host = 0 \/ server[s].repl \notin {"connecting", "pong"}
  /\ Commit(slaveofCommand(World, s, host))

\* A process stops: SHUTDOWN, when its files are written, and failures, which
\* leave the AOF as far as it was written, or as far as it was synced.
Gone(s, v) ==
  Commit([sv |-> [server EXCEPT ![s] = v],
          cn |-> [f \in Fds |-> LET c == conn[f] IN
                    Freed([c EXCEPT !.ev = IF c.slave = s THEN "none" ELSE @,
                                    !.role = IF c.master = s THEN "closed" ELSE @])]])
shutdownCommand(s) ==
  /\ Admin(s, "shutdown")
  /\ LET v == prepareForShutdown(server[s])
     IN  IF ~Conf.saveparams THEN Gone(s, Stopped(v, v.synced))
         ELSE Gone(s, Stopped(rdbSave(v), v.synced)) \/ Put(s, v)
Crash(s) ==
  /\ Allowed("crash") /\ server[s].up /\ Counted("fault", MaxFaults)
  /\ \E kept \in server[s].synced..Len(server[s].file) : Gone(s, Stopped(server[s], kept))
Kill(s) ==
  /\ Allowed("kill") /\ server[s].up /\ Counted("fault", MaxFaults)
  /\ Gone(s, Stopped(server[s], Len(server[s].file)))
Start(s) == s \in Conf.servers /\ ~server[s].up /\ Uncounted /\ Put(s, loadDataFromDisk(server[s], Conf, s))

\* The end of one round of the event loop: replies can be sent after it.
beforeSleep(s) ==
  /\ server[s].up /\ Conf.appendonly /\ Uncounted
  /\ \E t \in Conf.times :
       server' = [server EXCEPT ![s] = flushAppendOnlyFile(@, Conf, t)]
  /\ since' = [since EXCEPT ![s] = {server[s].data}]
  /\ UNCHANGED <<family, conn>>
CronStep(s, t) ==
  /\ server[s].up
  /\ Commit(serverCron(World, s, Conf, t))
Cron(s, t) == Uncounted /\ CronStep(s, t)
TimeOut(s) ==
  /\ server[s].host # 0 /\ Counted("fault", MaxFaults)
  /\ \E t \in Conf.times : t.late /\ CronStep(s, t)
SomeCron(s) == \E t \in Conf.times : ~t.late /\ Cron(s, t)

\* Children and the thread.
Exits(how) == how = "ok" \/ Allowed(how)
SaveChild(s, how) ==
  /\ Exits(how)
  /\ Running(server[s].save) /\ server[s].save[1].exit = "none" /\ Uncounted
  /\ Put(s, SaveExit(server[s], how))
RewriteChild(s, how) ==
  /\ Exits(how)
  /\ Running(server[s].rewrite) /\ server[s].rewrite[1].exit = "none" /\ Uncounted
  /\ Put(s, [server[s] EXCEPT !.rewrite = Exited(@, how)])
Bio(s) == server[s].bio # <<>> /\ Uncounted /\ Put(s, bioProcessBackgroundJobs(server[s]))

\* The slave's end of a connection has something to do: it is open, a reply is
\* there, or the other end is closed.
Readable(f) == conn[f].wire # <<>> \/ conn[f].role = "closed"
SyncWithMaster(f) ==
  /\ conn[f].ev = "sync" /\ (conn[f].writable \/ Readable(f)) /\ Uncounted
  /\ Commit(syncWithMaster(World, conn[f].slave, f))
ReadSyncBulkPayload(f) ==
  /\ conn[f].ev = "payload" /\ Readable(f) /\ Uncounted
  /\ \E forks \in Forks : Commit(readSyncBulkPayload(World, conn[f].slave, f, Conf, forks))

\* A command of the master: executed, and passed on, unless we cannot save.
ReadFromMaster(f) ==
  /\ conn[f].ev = "link" /\ Readable(f) /\ Uncounted
  /\ LET c == conn[f]
         s == c.slave
         cmd == Head(c.wire)
         read == [World EXCEPT !.cn[f].wire = Tail(@)]
         v == server[s]
         done == IF cmd[1] = "write" THEN [v EXCEPT !.data[c.db] = Append(@, cmd[2]), !.dirty = @ + 1]
                 ELSE emptyDb(v, Conf.saveparams)
     IN  IF c.wire = <<>> THEN Commit(FreeMaster(World, s))
         ELSE IF cmd[1] = "select" THEN Commit([read EXCEPT !.cn[f].db = cmd[2]])
         ELSE IF CannotSave(v) THEN Commit(read)
         ELSE Commit(propagate([read EXCEPT !.sv[s] = done], s, c.db, cmd))

\* The master's end.
Request(f) ==
  /\ conn[f].req # <<>> /\ conn[f].role # "closed" /\ Uncounted
  /\ LET w == [World EXCEPT !.cn[f].req = Tail(@)]
     IN  IF Head(conn[f].req) = "PING" THEN Commit([w EXCEPT !.cn[f].wire = Append(@, <<"pong">>)])
         ELSE \E forks \in Forks : Commit(syncCommand(w, conn[f].master, f, forks))
sendBulkToSlave(f) ==
  /\ conn[f].role = "bulk" /\ Uncounted
  /\ Commit([World EXCEPT !.cn[f] = [conn[f] EXCEPT !.wire = Append(@, <<"rdb", conn[f].bulk[1]>>),
                                                    !.bulk = <<>>, !.role = "online"]])
sendReplyToClient(f) ==
  /\ conn[f].role = "online" /\ conn[f].out # <<>> /\ Uncounted
  /\ Commit([World EXCEPT !.cn[f] = [conn[f] EXCEPT !.wire = @ \o conn[f].out, !.out = <<>>]])
SlaveGone(f) ==
  /\ conn[f].ev = "none" /\ conn[f].role # "closed" /\ Uncounted
  /\ Commit(CloseMasterEnds(World, {f}))

\* A slave that is too slow, or out of reach, is dropped.
DropSlave(f) ==
  /\ Allowed("drop") /\ conn[f].role # "closed" /\ Counted("fault", MaxFaults)
  /\ Commit(CloseMasterEnds(World, {f}))

Next ==
  \/ \E s \in Servers :
       \/ flushallCommand(s) \/ saveCommand(s) \/ bgsaveCommand(s) \/ bgrewriteaofCommand(s)
       \/ configSetAppendonly(s) \/ shutdownCommand(s) \/ Crash(s) \/ Kill(s) \/ Start(s)
       \/ beforeSleep(s) \/ SomeCron(s) \/ Bio(s) \/ TimeOut(s)
       \/ \E d \in Dbs : WriteCommand(s, d)
       \/ \E host \in {0} \cup Servers : Slaveof(s, host)
       \/ \E how \in {"ok", "error", "killed"} : SaveChild(s, how) \/ RewriteChild(s, how)
  \/ \E f \in Fds : \/ SyncWithMaster(f) \/ ReadSyncBulkPayload(f) \/ ReadFromMaster(f)
                    \/ Request(f) \/ sendBulkToSlave(f) \/ sendReplyToClient(f)
                    \/ SlaveGone(f) \/ DropSlave(f)

\* Handlers run, children end, and cron runs in time; strong fairness, for a
\* connection that cron makes fails while no descriptor is free.
InTime == [save |-> FALSE, grown |-> FALSE, forks |-> TRUE, late |-> FALSE, period |-> TRUE,
           force |-> FALSE, two_seconds |-> TRUE, second |-> TRUE]
Fairness ==
  /\ \A s \in Servers : /\ SF_vars(Cron(s, InTime)) /\ WF_vars(SaveChild(s, "ok"))
                        /\ WF_vars(RewriteChild(s, "ok")) /\ WF_vars(Start(s))
  /\ \A f \in Fds : /\ WF_vars(SyncWithMaster(f)) /\ WF_vars(ReadSyncBulkPayload(f))
                    /\ WF_vars(ReadFromMaster(f)) /\ WF_vars(Request(f))
                    /\ WF_vars(sendBulkToSlave(f)) /\ WF_vars(sendReplyToClient(f))
                    /\ WF_vars(SlaveGone(f))

Spec == Init /\ [][Next]_vars /\ Fairness

-----------------------------------------------------------------------------
(* Properties.                                                              *)

\* Replication: what a slave has, and what is still on its way to it, give its
\* master's data, all of it, once, in order and in the right database.
StreamComplete ==
  \A f \in Fds :
    LET c == conn[f] IN
    /\ c.ev = "link" /\ c.role = "online" =>
         Replay(server[c.slave].data, c.db, c.wire \o c.out).data = server[c.master].data
    /\ c.ev = "payload" /\ c.role \in {"end", "bulk", "online"} =>
         LET sent == IF c.role = "end" THEN server[c.master].save[1].data
                     ELSE IF c.role = "bulk" THEN c.bulk[1] ELSE Head(c.wire)[2]
             rest == IF c.role = "online" THEN Tail(c.wire) \o c.out ELSE c.out
         IN  Replay(sent, 0, rest).data = server[c.master].data

\* A slave that is up and connected follows the host it was told to.
FollowsHost ==
  \A s \in Servers : server[s].up /\ server[s].repl = "connected" =>
    conn[server[s].master].master = server[s].host

\* The AOF: the file and the buffer give the data; while it is rewritten, so do
\* the child's data and the differences.
AofRebuilds ==
  \A s \in Servers : LET v == server[s] IN
    /\ v.up /\ v.aof = "on" => Rebuilt(v.file \o v.buf) = v.data
    /\ Running(v.rewrite) /\ v.aof # "off" => Replay(v.rewrite[1].data, 0, v.diff).data = v.data

\* What was written before the last reply to a client survives: a power failure
\* when every write is synced, the end of the process when no write is postponed.
Recoverable ==
  \A s \in Servers : LET v == server[s] IN
    v.up /\ v.aof = "on" =>
      /\ Conf.fsync = "always" => Rebuilt(SubSeq(v.file, 1, v.synced)) \in since[s]
      /\ ~v.postponed => Rebuilt(v.file) \in since[s]

\* dump.rdb is not older than the count of changes says.
DirtyCounts ==
  \A s \in Servers : LET v == server[s] IN
    ~Conf.appendonly /\ v.up /\ v.host = 0 /\ v.dirty = 0 /\ ~Running(v.save) =>
      v.data = IF v.rdb = <<>> THEN EmptyData ELSE v.rdb[1]

\* The files of every server hold what its commands did: the append only file by
\* itself and through a rewrite, on disk what clients were promised, and a
\* snapshot what is not counted as changed.
FilesSound == AofRebuilds /\ Recoverable /\ DirtyCounts

\* When the faults are over, every slave has its master's data in the end.
Synced ==
  \A s \in Conf.servers : server[s].host # 0 =>
    server[s].repl = "connected" /\ server[s].data = server[server[s].host].data
Resync == <>[]Synced
=============================================================================
