------------------------- MODULE MCRedisReplication -------------------------
(***************************************************************************)
(* One server and its files; a master with one or two slaves; a chain of   *)
(* three.                                                                  *)
(***************************************************************************)
EXTENDS RedisReplication

Masters == [s \in Servers |-> 0]
Star == [s \in Servers |-> IF s = 1 THEN 0 ELSE 1]
Chain == [s \in Servers |-> s - 1]
Late == [InTime EXCEPT !.late = TRUE]
Early == [InTime EXCEPT !.period = FALSE, !.second = FALSE, !.two_seconds = FALSE]

Plain == [servers |-> {1, 2}, slaveof |-> Star, dbs |-> {0}, appendonly |-> FALSE, fsync |-> "no",
          writes |-> 2, told |-> {},
          saveparams |-> FALSE, no_fsync_on_rewrite |-> FALSE, allowed |-> {}, times |-> {InTime}]
Alone == [Plain EXCEPT !.servers = {1}, !.slaveof = Masters, !.dbs = {0, 1}]

\* One slave, that loses the connection and times out.
heals == [Plain EXCEPT !.allowed = {"drop"}, !.times = {InTime, Late}]
\* Two slaves that share a snapshot, or just miss one that BGSAVE started.
shares == [Plain EXCEPT !.servers = {1, 2, 3}]
\* A slave of a slave.
chain == [Plain EXCEPT !.servers = {1, 2, 3}, !.slaveof = Chain, !.allowed = {"drop"}, !.writes = 1]
\* Databases.
databases == [Plain EXCEPT !.dbs = {0, 1}, !.allowed = {"flushall", "bgsave"}]
\* Slaves that are told to follow another server, or none.
switches == [Plain EXCEPT !.servers = {1, 2, 3}, !.slaveof = [Masters EXCEPT ![3] = 1], 
              !.allowed = {"slaveof"}, !.told = {3}, !.writes = 1]
\* A slave with an AOF.
appends == [Plain EXCEPT !.appendonly = TRUE, !.fsync = "always", !.writes = 1, !.allowed = {"bgrewriteaof"}]
\* Files.
always == [Alone EXCEPT !.appendonly = TRUE, !.fsync = "always",
             !.allowed = {"crash", "bgrewriteaof", "appendonly", "flushall", "error"}]
everysec == [Alone EXCEPT !.appendonly = TRUE, !.fsync = "everysec", !.no_fsync_on_rewrite = TRUE,
               !.allowed = {"kill", "bgrewriteaof", "bgsave", "appendonly"}, !.times = {InTime, Early}]
snapshots == [Alone EXCEPT !.saveparams = TRUE,
                !.allowed = {"flushall", "save", "bgsave", "shutdown", "error", "forkfails", "kill"},
                !.times = {InTime, [InTime EXCEPT !.save = TRUE], [InTime EXCEPT !.save = TRUE, !.forks = FALSE]}]

MCFamilies == [heals |-> heals, shares |-> shares, chain |-> chain, databases |-> databases,
               switches |-> switches, appends |-> appends, always |-> always, everysec |-> everysec,
               snapshots |-> snapshots]

MCServers == 1..3
MCDbs == {0, 1}
=============================================================================
