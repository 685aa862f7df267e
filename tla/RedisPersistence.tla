-------------------------- MODULE RedisPersistence --------------------------
(***************************************************************************)
(* What one Redis server keeps on disk: dump.rdb, written by SAVE, by a    *)
(* child process and at shutdown (rdb.c), and the append only file, with   *)
(* its buffer, its rewrite by a child and its fsync (aof.c, bio.c).        *)
(*                                                                         *)
(* The data set is, for every database, the sequence of the writes applied *)
(* to it, each with its own number: a write that is lost, applied twice,   *)
(* out of order or to another database shows.  Files are sequences of      *)
(* commands; a rewritten file starts with one that stands for all those    *)
(* that rebuild a data set.  These are operators on the record of one      *)
(* server; RedisReplication has the actions.                               *)
(***************************************************************************)
EXTENDS Integers, Sequences, FiniteSets, SequencesExt

CONSTANT Dbs              \* the databases, 0..n

ASSUME PersistenceAssumption == Dbs \subseteq Nat /\ 0 \in Dbs /\ IsFiniteSet(Dbs)

EmptyData == [d \in Dbs |-> <<>>]
Select(d) == <<"select", d>>
Write(n) == <<"write", n>>
FlushAll == <<"flushall">>
Base(data) == <<"base", data>>

\* A command, in the context of a client with a selected database.
Execute(st, c) ==
  CASE c[1] = "select" -> [st EXCEPT !.db = c[2]]
    [] c[1] = "write" -> [st EXCEPT !.data[st.db] = Append(@, c[2])]
    [] c[1] = "flushall" -> [st EXCEPT !.data = EmptyData]
    [] c[1] = "base" -> [st EXCEPT !.data = c[2]]
    [] OTHER -> st
Replay(data, db, cmds) == FoldLeft(Execute, [data |-> data, db |-> db], cmds)
Rebuilt(cmds) == Replay(EmptyData, 0, cmds).data
Keys(data) == Cardinality(UNION {{d} \X DOMAIN data[d] : d \in Dbs})

\* A child process: what it has forked with, and how it has ended.
Child(data) == <<[data |-> data, exit |-> "none"]>>
Running(child) == child # <<>>

\* conf.slaveof is what redis.conf says: SLAVEOF and CONFIG SET do not change it.
initServer(conf, s) ==
  [up |-> TRUE, data |-> EmptyData, dirty |-> 0, before |-> 0, saveok |-> TRUE,
   rdb |-> <<>>, save |-> <<>>,
   aof |-> IF conf.appendonly THEN "on" ELSE "off", file |-> <<>>, synced |-> 0, buf |-> <<>>,
   seldb |-> -1, rewrite |-> <<>>, diff |-> <<>>, scheduled |-> FALSE, postponed |-> FALSE,
   bio |-> <<>>, host |-> conf.slaveof[s],
   repl |-> IF conf.slaveof[s] = 0 THEN "none" ELSE "connect", fd |-> 0, master |-> 0]

-----------------------------------------------------------------------------
(* dump.rdb                                                                 *)

rdbSave(v) == [v EXCEPT !.rdb = <<v.data>>, !.dirty = 0, !.saveok = TRUE]

\* fork() may fail.
rdbSaveBackground(v, forks) ==
  IF Running(v.save) THEN v
  ELSE [v EXCEPT !.before = v.dirty, !.save = IF forks THEN Child(v.data) ELSE <<>>]

\* The child replaces dump.rdb when it succeeds, before the parent knows.
Exited(child, how) == <<[child[1] EXCEPT !.exit = how]>>
SaveExit(v, how) ==
  [v EXCEPT !.rdb = IF how = "ok" THEN <<v.save[1].data>> ELSE @, !.save = Exited(@, how)]
Killed(child) ==
  IF Running(child) /\ child[1].exit = "none" THEN Exited(child, "killed") ELSE child

backgroundSaveDone(v) ==
  [v EXCEPT !.dirty = IF v.save[1].exit = "ok" THEN @ - v.before ELSE @,
            !.saveok = v.save[1].exit = "ok", !.save = <<>>]

\* FLUSHALL empties dump.rdb too, and counts as a change.
emptyDb(v, saveparams) ==
  LET killed == [v EXCEPT !.data = EmptyData, !.save = Killed(@), !.dirty = @ + Keys(v.data)]
      saved  == IF saveparams THEN rdbSave(killed) ELSE killed
  IN  [saved EXCEPT !.dirty = killed.dirty + 1]

-----------------------------------------------------------------------------
(* The append only file.  buf has what is not written yet, diff what the    *)
(* child of a rewrite has not seen; synced commands of file are on disk.    *)

feedAppendOnlyFile(v, db, c) ==
  LET cmds == IF db = v.seldb THEN <<c>> ELSE <<Select(db), c>>
  IN  IF v.aof = "off" THEN v
      ELSE [v EXCEPT !.seldb = db,
                     !.buf = IF v.aof = "on" THEN @ \o cmds ELSE @,
                     !.diff = IF Running(v.rewrite) THEN @ \o cmds ELSE @]

\* Mutant: the file is written and never synced
FlushUnsynced(v, conf, t) == [v EXCEPT !.file = @ \o v.buf, !.buf = <<>>, !.postponed = FALSE]

\* everysec leaves the fsync to a thread, and the write too while the thread
\* is busy, unless that takes too long.
flushAppendOnlyFile(v, conf, t) ==
  LET busy == conf.fsync = "everysec" /\ v.bio # <<>>
      quiet == conf.no_fsync_on_rewrite /\ (Running(v.rewrite) \/ Running(v.save))
      written == [v EXCEPT !.file = @ \o v.buf, !.buf = <<>>, !.postponed = FALSE]
  IN  IF v.buf = <<>> THEN v
      ELSE IF busy /\ ~t.force /\ (~v.postponed \/ ~t.two_seconds) THEN [v EXCEPT !.postponed = TRUE]
      ELSE IF quiet THEN written
      ELSE IF conf.fsync = "always" THEN [written EXCEPT !.synced = Len(written.file)]
      ELSE IF conf.fsync = "everysec" /\ t.second /\ ~busy THEN [written EXCEPT !.bio = Append(@, TRUE)]
      ELSE written

\* The thread: what was written to the file before is on disk.  A job for a
\* file that was replaced since changes nothing.
bioProcessBackgroundJobs(v) ==
  [v EXCEPT !.bio = Tail(@), !.synced = IF Head(v.bio) THEN Len(v.file) ELSE @]

rewriteAppendOnlyFileBackground(v, forks) ==
  IF Running(v.rewrite) \/ ~forks THEN v
  ELSE [v EXCEPT !.rewrite = Child(v.data), !.scheduled = FALSE, !.seldb = -1]

\* The new file: what the child wrote, then the differences.
backgroundRewriteDoneHandler(v, conf) ==
  LET file == <<Base(v.rewrite[1].data)>> \o v.diff
      over == [v EXCEPT !.diff = <<>>, !.rewrite = <<>>]
      renamed == [over EXCEPT !.file = file, !.synced = 1, !.bio = [j \in DOMAIN @ |-> FALSE]]
      opened == [renamed EXCEPT
                   !.synced = IF conf.fsync = "always" THEN Len(file) ELSE 1,
                   !.bio = IF conf.fsync = "everysec" THEN Append(@, TRUE) ELSE @,
                   !.seldb = -1, !.buf = <<>>, !.aof = "on"]
  IN  IF v.rewrite[1].exit # "ok" THEN [over EXCEPT !.scheduled = @ \/ v.aof = "wait"]
      ELSE IF v.aof = "off" THEN renamed ELSE opened

stopAppendOnly(v, conf) ==
  LET flushed == flushAppendOnlyFile(v, conf, [force |-> TRUE, two_seconds |-> FALSE, second |-> FALSE])
  IN  [flushed EXCEPT !.aof = "off", !.seldb = -1, !.synced = Len(flushed.file),
                      !.rewrite = <<>>, !.diff = IF Running(v.rewrite) THEN <<>> ELSE @]

\* Nothing is appended until the first rewrite is over.
startAppendOnly(v, forks) ==
  IF Running(v.rewrite) \/ ~forks THEN v
  ELSE [rewriteAppendOnlyFileBackground(v, TRUE) EXCEPT !.aof = "wait"]

-----------------------------------------------------------------------------
(* Start and stop.                                                          *)

\* The children are killed, the AOF is synced (but not flushed) and dump.rdb
\* written: when that fails the server goes on.
prepareForShutdown(v) ==
  [v EXCEPT !.save = Killed(@), !.rewrite = IF v.aof # "off" THEN Killed(@) ELSE @,
            !.synced = IF v.aof # "off" THEN Len(v.file) ELSE @]

\* What memory held is lost; after a power failure, so is any part of the AOF
\* that was not synced.
Stopped(v, kept) ==
  [v EXCEPT !.up = FALSE, !.save = <<>>, !.rewrite = <<>>, !.buf = <<>>, !.diff = <<>>, !.bio = <<>>,
            !.file = SubSeq(@, 1, kept), !.synced = kept, !.data = EmptyData]

\* The commands of the AOF are executed, and count as changes.
loadDataFromDisk(v, conf, s) ==
  LET data == IF conf.appendonly THEN Rebuilt(v.file) ELSE IF v.rdb = <<>> THEN EmptyData ELSE v.rdb[1]
  IN  [initServer(conf, s) EXCEPT !.data = data, !.rdb = v.rdb, !.file = v.file, !.synced = v.synced,
                                  !.dirty = IF conf.appendonly THEN Keys(data) ELSE 0]
=============================================================================
