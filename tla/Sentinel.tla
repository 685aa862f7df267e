------------------------------ MODULE Sentinel ------------------------------
(***************************************************************************)
(* Redis Sentinel, sentinel.c: processes that watch a master and its       *)
(* slaves, agree that the master is down, and replace it by a slave.       *)
(*                                                                         *)
(* Each sentinel acts on its own view of the group: in its timer handler,  *)
(* ten times a second, and when a reply comes in.  Clocks are not modelled *)
(* but what they decide is: the timer handler is given, as a record t of   *)
(* Conf.times, which instances have not answered for down_after_period,    *)
(* which votes are too old, and which waits are over.  Any of them may be, *)
(* since a reply can always be late.                                       *)
(*                                                                         *)
(* Redis instances are external: what SLAVEOF, a restart and a lost link   *)
(* do to them is all that INFO reports.                                    *)
(***************************************************************************)
EXTENDS Integers, Sequences, FiniteSets, SequencesExt

CONSTANTS
  MaxSentinels,     \* sentinels are 1..n, in the order of their runids
  Nodes,            \* 1..m, the instances; 1 is the master at first
  Priority,         \* slave_priority of each node
  ScriptMaxQueue, ScriptMaxRunning, ScriptMaxRetry,
  Families,         \* of each family: the sentinels and instances there are, the
                    \* quorum and the other options of the master, the faults that happen, and times
  MaxWire, MaxBoots \* bounds: commands on one link, starts of a process

ASSUME SentinelAssumption ==
  /\ MaxSentinels \in Nat \ {0} /\ Nodes \subseteq Nat \ {0} /\ 1 \in Nodes /\ IsFiniteSet(Nodes)
  /\ {ScriptMaxQueue, ScriptMaxRunning} \subseteq Nat
  /\ \A f \in DOMAIN Families : /\ Families[f].sentinels \subseteq 1..MaxSentinels
                               /\ Families[f].nodes \subseteq Nodes
                               /\ Families[f].quorum \in Nat \ {0}
                               /\ Families[f].parallel \in Int

VARIABLES
  family,
  node,        \* the instances: [up, of, link, boot]; of = 0 for a master
  wire,        \* SLAVEOF commands sent and not received, per link
  view         \* what each sentinel knows
vars == <<family, node, wire, view>>

Conf == Families[family]
Sentinels == 1..MaxSentinels
Live == Conf.sentinels   \* those that run
None == 0
\* The runid of a process: another one each time it starts.
RunId(id, boot) == id + boot * 10
Unknown == -1        \* "?", the answer of a sentinel that votes for nobody

createInstance == [runid |-> None, flags |-> {}, of |-> None, link |-> FALSE]
createSentinel(runid, can) == [runid |-> runid, down |-> FALSE, leader |-> None, can |-> can]
initSentinel(boot) ==
  [boot |-> boot, addr |-> 1, runid |-> None, flags |-> {}, state |-> "none",
   promoted |-> None, slaves |-> <<>>, sentinels |-> <<>>, tilt |-> FALSE,
   jobs |-> <<>>, running |-> 0, out |-> <<>>]

Flag(v, f) == f \in v.flags
SlaveFlag(v, n, f) == f \in v.slaves[n].flags
State(v, st) == [v EXCEPT !.state = st]
Send(v, ns, of) ==
  LET to == SetToSeq(ns) IN [v EXCEPT !.out = @ \o [i \in DOMAIN to |-> <<to[i], of>>]]

-----------------------------------------------------------------------------
(* Scripts: a queue of jobs, of which a few run.  wait is set when a job is *)
(* to be retried later.                                                     *)

\* Above the limit the oldest job that does not run is dropped.
sentinelScheduleScriptExecution(v) ==
  LET jobs == Append(v.jobs, [run |-> FALSE, retry |-> 0, wait |-> FALSE])
      idle == {i \in DOMAIN jobs : ~jobs[i].run}
  IN  [v EXCEPT !.jobs = IF Len(jobs) > ScriptMaxQueue THEN RemoveAt(jobs, Min(idle)) ELSE jobs]

sentinelCallClientReconfScript(v) ==
  IF Conf.script THEN sentinelScheduleScriptExecution(v) ELSE v

\* The oldest jobs that do not run, and need not wait any longer: n of them.
Started(v, t, n) ==
  LET ready == {i \in DOMAIN v.jobs : ~v.jobs[i].run /\ (v.jobs[i].wait => "retry" \in t.over)}
      start == {i \in ready : Cardinality({j \in ready : j < i}) < n}
  IN  [v EXCEPT !.running = @ + Cardinality(start),
                !.jobs = [i \in DOMAIN @ |->
                  IF i \in start THEN [run |-> TRUE, retry |-> @[i].retry + 1, wait |-> FALSE]
                  ELSE @[i]]]

sentinelRunPendingScripts(v, t) == Started(v, t, ScriptMaxRunning - v.running)

\* t.exit is how the scripts that run end, if they do: a signal or the exit
\* code 1 asks for a retry.
sentinelCollectTerminatedScripts(v, t) ==
  LET over(j) == j.run /\ ~(t.exit = "retry" /\ j.retry # ScriptMaxRetry)
      ended == {i \in DOMAIN v.jobs : over(v.jobs[i])}
      left  == DOMAIN v.jobs \ ended
      job(k) == v.jobs[CHOOSE i \in left : Cardinality({j \in left : j < i}) = k - 1]
  IN  IF t.exit = "none" THEN v
      ELSE [v EXCEPT !.running = @ - Cardinality(ended),
                     !.jobs = [k \in 1..Cardinality(left) |->
                                 [run |-> FALSE, retry |-> job(k).retry,
                                  wait |-> job(k).run \/ job(k).wait]]]

-----------------------------------------------------------------------------
(* Tables of instances.                                                     *)

sentinelResetMaster(v) ==
  [v EXCEPT !.runid = None, !.flags = {}, !.state = "none", !.promoted = None,
            !.slaves = <<>>, !.sentinels = <<>>]
sentinelResetMasterAndChangeAddress(v, addr) == [sentinelResetMaster(v) EXCEPT !.addr = addr]

sentinelAddFlagsToDictOfRedisInstances(v, flag) ==
  [v EXCEPT !.slaves = [n \in DOMAIN v.slaves |-> [v.slaves[n] EXCEPT !.flags = @ \cup {flag}]]]
sentinelDelFlagsToDictOfRedisInstances(v, flags) ==
  [v EXCEPT !.slaves = [n \in DOMAIN v.slaves |-> [v.slaves[n] EXCEPT !.flags = @ \ flags]]]

\* A failover is given up: the leader sends the slaves it has touched back to
\* the old master.
sentinelAbortFailover(v, t) ==
  LET touched == {n \in DOMAIN v.slaves :
                    /\ Flag(v, "LEADER") /\ n \notin t.off
                    /\ v.slaves[n].flags
                         \cap {"PROMOTED", "RECONF_SENT", "RECONF_INPROG", "RECONF_DONE"} # {}}
      cleared == [sentinelDelFlagsToDictOfRedisInstances(
                    Send(v, touched, v.addr), {"RECONF_SENT", "RECONF_INPROG", "RECONF_DONE"})
                    EXCEPT !.flags = @ \ {"FAILOVER", "LEADER", "FORCE"}, !.state = "none"]
  IN  IF v.promoted = None THEN cleared
      ELSE [sentinelCallClientReconfScript(cleared)
              EXCEPT !.slaves[v.promoted].flags = @ \ {"PROMOTED"}, !.promoted = None]

-----------------------------------------------------------------------------
(* Votes.                                                                   *)

\* The least runid of those that can perform the failover, as s sees them:
\* quiet ones do not count.
sentinelGetSubjectiveLeader(s, v, quiet) ==
  LET able == (IF s \in Conf.can THEN {RunId(s, v.boot)} ELSE {})
              \cup {v.sentinels[o].runid :
                      o \in {p \in DOMAIN v.sentinels \ quiet : v.sentinels[p].can}}
  IN  IF able = {} THEN None ELSE Min(able)

\* The votes: mine, and those of the sentinels that see the master down, or of
\* all of them when a failover goes on.  "?" is a vote like any other.
Votes(s, v, quiet) ==
  LET mine   == sentinelGetSubjectiveLeader(s, v, quiet)
      counts(o) == /\ v.sentinels[o].leader # None
                   /\ Flag(v, "FAILOVER") \/ v.sentinels[o].down
  IN  (IF mine = None THEN {} ELSE {<<s, mine>>})
        \cup {<<o, v.sentinels[o].leader>> : o \in {p \in DOMAIN v.sentinels : counts(p)}}

\* The winner needs the majority of the votes, and the quorum.
sentinelGetObjectiveLeader(s, v, quiet) ==
  LET votes == Votes(s, v, quiet)
      count(id) == Cardinality({b \in votes : b[2] = id})
      wins == {id \in {b[2] : b \in votes} :
                 count(id) >= Cardinality(votes) \div 2 + 1 /\ count(id) >= Conf.quorum}
  IN  IF wins = {} THEN None ELSE CHOOSE id \in wins : TRUE

\* The slave to promote: the lowest priority, then the least runid.
sentinelSelectSlave(v, t) ==
  LET good == {n \in DOMAIN v.slaves \ t.off :
                 /\ ~SlaveFlag(v, n, "S_DOWN") /\ v.slaves[n].runid # None
                 /\ Priority[n] # 0}
      before(n, m) == Priority[n] < Priority[m] \/ (Priority[n] = Priority[m] /\ n <= m)
      best == {n \in good : \A m \in good : before(n, m)}
  IN  IF best = {} THEN None ELSE CHOOSE n \in best : TRUE

-----------------------------------------------------------------------------
(* The timer handler.                                                       *)

\* Votes that are too old are forgotten.  (The others are asked again, and
\* answer in sentinelReceiveIsMasterDownReply.)
sentinelAskMasterStateToOtherSentinels(v, t) ==
  [v EXCEPT !.sentinels = [o \in DOMAIN @ |->
     IF o \in t.old THEN [@[o] EXCEPT !.down = FALSE, !.leader = None] ELSE @[o]]]

Marked(flags, down) == IF down THEN flags \cup {"S_DOWN"} ELSE flags \ {"S_DOWN"}
sentinelCheckSubjectivelyDown(v, t) ==
  [v EXCEPT !.flags = Marked(@, v.addr \in t.down)]
CheckSlaves(v, t) ==
  [v EXCEPT !.slaves = [n \in DOMAIN v.slaves |->
     [v.slaves[n] EXCEPT !.flags = Marked(@, n \in t.down)]]]

sentinelCheckObjectivelyDown(v) ==
  LET agree == 1 + Cardinality({o \in DOMAIN v.sentinels : v.sentinels[o].down})
  IN  [v EXCEPT !.flags = IF Flag(v, "S_DOWN") /\ agree >= Conf.quorum
                          THEN @ \cup {"O_DOWN"} ELSE @ \ {"O_DOWN"}]

sentinelStartFailover(v, st) ==
  [State(v, st) EXCEPT !.flags = @ \cup {"FAILOVER", "LEADER"}]

\* Mutant: whoever sees the master down starts a failover
StartUnelected(s, v, t) ==
  IF s \notin Conf.can \/ v.flags \cap {"O_DOWN", "FAILOVER"} = {} THEN v
  ELSE IF Flag(v, "FAILOVER") \/ sentinelSelectSlave(v, t) = None THEN v
  ELSE sentinelStartFailover(v, "wait_start")

\* A new failover, or one whose leader is lost and that lags.
sentinelStartFailoverIfNeeded(s, v, t) ==
  IF \/ s \notin Conf.can \/ v.flags \cap {"O_DOWN", "FAILOVER"} = {}
     \/ sentinelGetObjectiveLeader(s, v, t.quiet) # RunId(s, v.boot)
  THEN v
  ELSE IF ~Flag(v, "FAILOVER")
  THEN IF sentinelSelectSlave(v, t) = None THEN v ELSE sentinelStartFailover(v, "wait_start")
  ELSE IF Flag(v, "LEADER") \/ "quarter" \notin t.over THEN v
  ELSE sentinelDelFlagsToDictOfRedisInstances(sentinelStartFailover(v, "reconf_slaves"),
                                              {"RECONF_SENT"})

sentinelFailoverWaitStart(v, t) ==
  IF v.flags \cap {"S_DOWN", "O_DOWN", "FORCE"} = {} THEN sentinelAbortFailover(v, t)
  ELSE IF "start" \in t.over THEN State(v, "select_slave") ELSE v

sentinelFailoverSelectSlave(v, t) ==
  LET n == sentinelSelectSlave(v, t)
  IN  IF n = None THEN sentinelAbortFailover(v, t)
      ELSE [State(v, "send_slaveof_noone") EXCEPT
              !.slaves[n].flags = @ \cup {"PROMOTED"}, !.promoted = n]

sentinelFailoverSendSlaveOfNoOne(v, t) ==
  IF v.promoted \in t.off THEN v ELSE State(Send(v, {v.promoted}, None), "wait_promotion")

\* Mutant: the slave that was not promoted in time is not forgotten
PromotionKept(v, t) ==
  IF "promotion" \notin t.over THEN v
  ELSE [State(v, "select_slave") EXCEPT !.slaves[v.promoted].flags = @ \ {"PROMOTED"}]

sentinelFailoverWaitPromotion(v, t) ==
  IF "promotion" \notin t.over THEN v
  ELSE [State(v, "select_slave") EXCEPT !.slaves[v.promoted].flags = @ \ {"PROMOTED"},
                                        !.promoted = None]

\* When the time for it is over the failover ends, and the leader sends a last
\* SLAVEOF to every slave that is not known to be reconfigured or under way.
LastSlaveOf(v, t) ==
  LET left == {n \in DOMAIN v.slaves \ t.off :
                 v.slaves[n].flags \cap {"RECONF_DONE", "RECONF_SENT"} = {}}
  IN  [Send(v, left, v.promoted) EXCEPT
         !.slaves = [n \in DOMAIN v.slaves |->
           [v.slaves[n] EXCEPT !.flags = IF n \in left THEN @ \cup {"RECONF_SENT"} ELSE @]]]
sentinelFailoverDetectEnd(v, t) ==
  LET not_reconfigured == {n \in DOMAIN v.slaves :
                             v.slaves[n].flags \cap {"PROMOTED", "RECONF_DONE", "S_DOWN"} = {}}
      timeout == "failover" \in t.over
      end == sentinelCallClientReconfScript(State(v, "update_config"))
  IN  IF v.promoted = None \/ SlaveFlag(v, v.promoted, "S_DOWN") THEN v
      ELSE IF timeout /\ Flag(v, "LEADER") THEN LastSlaveOf(end, t)
      ELSE IF timeout \/ not_reconfigured = {} THEN end
      ELSE v

\* Mutant: a slave that was sent SLAVEOF is not counted until it answers
Answering(v) == Cardinality({n \in DOMAIN v.slaves : SlaveFlag(v, n, "RECONF_INPROG")})

\* The slaves that are off line, or will be.
InProgress(v) ==
  Cardinality({n \in DOMAIN v.slaves :
                 v.slaves[n].flags \cap {"RECONF_SENT", "RECONF_INPROG"} # {}})

\* SLAVEOF to the next slaves, as many at a time as parallel_syncs allows: the
\* slaves are visited until that many are under way.  Those under way are
\* counted before those that take too long are given up.
ReconfNext(v, t) ==
  LET todo == {n \in DOMAIN v.slaves : v.slaves[n].flags \cap {"PROMOTED", "RECONF_DONE"} = {}}
      lost == {n \in todo : SlaveFlag(v, n, "RECONF_SENT") /\ "reconf" \in t.over}
      free == {n \in todo \ t.off : /\ ~SlaveFlag(v, n, "RECONF_INPROG")
                                   /\ SlaveFlag(v, n, "RECONF_SENT") => n \in lost}
      visited == {n \in todo : InProgress(v) + Cardinality({m \in free : m < n}) < Conf.parallel}
      told == visited \cap free
  IN  [Send(v, told, v.promoted) EXCEPT
         !.slaves = [n \in DOMAIN v.slaves |->
           [v.slaves[n] EXCEPT !.flags = IF n \in told THEN @ \cup {"RECONF_SENT"}
                                         ELSE IF n \in visited \cap lost THEN @ \ {"RECONF_SENT"}
                                         ELSE @]]]
sentinelFailoverReconfNextSlave(v, t) == sentinelFailoverDetectEnd(ReconfNext(v, t), t)

sentinelFailoverStateMachine(v, t) ==
  CASE v.state = "wait_start" -> sentinelFailoverWaitStart(v, t)
    [] v.state = "select_slave" -> sentinelFailoverSelectSlave(v, t)
    [] v.state = "send_slaveof_noone" -> sentinelFailoverSendSlaveOfNoOne(v, t)
    [] v.state = "wait_promotion" -> sentinelFailoverWaitPromotion(v, t)
    [] v.state = "reconf_slaves" -> sentinelFailoverReconfNextSlave(v, t)
    [] v.state = "detect_end" -> sentinelFailoverDetectEnd(v, t)
    [] OTHER -> v

sentinelAbortFailoverIfNeeded(v, t) ==
  IF /\ Flag(v, "FAILOVER") /\ v.promoted # None
     /\ SlaveFlag(v, v.promoted, "S_DOWN") /\ "xdown" \in t.over
  THEN sentinelAbortFailover(v, t) ELSE v

\* Mutant: the old address is kept
SwitchToOld(v) ==
  IF v.state # "update_config" THEN v ELSE sentinelResetMasterAndChangeAddress(v, v.addr)

sentinelFailoverSwitchToPromotedSlave(v) ==
  IF v.state # "update_config" THEN v
  ELSE sentinelResetMasterAndChangeAddress(v, IF v.promoted = None THEN v.addr ELSE v.promoted)

\* The clock jumped, or the process was stopped: nothing is done for a while.
sentinelCheckTiltCondition(v, t) ==
  [v EXCEPT !.tilt = t.odd \/ (@ /\ "tilt" \notin t.over)]

\* The master, its slaves, then the change of master.  In tilt mode votes are
\* still collected, but nothing is decided.  after(f, x) is f(x), where x is a
\* value by then.
after(f(_), x) == CHOOSE y \in {f(z) : z \in {x}} : TRUE
sentinelHandleRedisInstance(s, v, t) ==
  LET Abort(v1)  == sentinelAbortFailoverIfNeeded(v1, t)
      Move(v1)   == after(Abort, sentinelFailoverStateMachine(v1, t))
      Start(v1)  == after(Move, sentinelStartFailoverIfNeeded(s, v1, t))
      Mark(v1)   == after(Start, sentinelCheckObjectivelyDown(sentinelCheckSubjectivelyDown(v1, t)))
      Slaves(v1) == sentinelFailoverSwitchToPromotedSlave(CheckSlaves(v1, t))
      Decide(v1) == after(Slaves, Mark(v1))
      asked      == sentinelAskMasterStateToOtherSentinels(v, t)
  IN  IF v.tilt THEN asked ELSE after(Decide, asked)

-----------------------------------------------------------------------------
(* Replies.                                                                 *)

\* INFO of the master: its slaves are learnt; a master that is new to us and
\* is a slave is not the one to watch.
MasterInfo(v, n) ==
  LET new == v.runid # RunId(n, node[n].boot)
      found == {m \in Nodes : node[m].up /\ node[m].of = n /\ node[m].link} \ DOMAIN v.slaves
      v1 == [v EXCEPT !.runid = RunId(n, node[n].boot),
                      !.slaves = [m \in DOMAIN v.slaves \cup found |->
                        IF m \in found THEN createInstance ELSE v.slaves[m]]]
  IN  IF ~v.tilt /\ node[n].of # None /\ new
      THEN sentinelResetMasterAndChangeAddress(v1, node[n].of) ELSE v1

\* A slave that follows the promoted one, and one that has its data.
Reconfigured(v, n) ==
  LET fl == v.slaves[n].flags
      inprog == IF "RECONF_SENT" \in fl /\ v.slaves[n].of = v.promoted
                THEN (fl \ {"RECONF_SENT"}) \cup {"RECONF_INPROG"} ELSE fl
      done == IF "RECONF_INPROG" \in inprog /\ v.slaves[n].link
              THEN (inprog \ {"RECONF_INPROG"}) \cup {"RECONF_DONE"} ELSE inprog
  IN  [v EXCEPT !.slaves[n].flags = done]

\* A slave that is a master now: the one we promoted, the sign of somebody
\* else's failover, or a reboot with another configuration.
TurnedMaster(v, n, new, t) ==
  IF ~Flag(v, "FAILOVER") /\ new
  THEN [v EXCEPT !.slaves = [m \in DOMAIN v.slaves \ {n} |-> v.slaves[m]]]
  ELSE IF SlaveFlag(v, n, "PROMOTED")
  THEN IF Flag(v, "FAILOVER") /\ Flag(v, "LEADER") /\ v.state = "wait_promotion"
       THEN sentinelCallClientReconfScript(State(v, "reconf_slaves")) ELSE v
  ELSE IF ~Flag(v, "FAILOVER") \/ (Flag(v, "LEADER") /\ v.state = "wait_start")
  THEN LET v1 == IF Flag(v, "FAILOVER") THEN sentinelAbortFailover(v, t) ELSE v
           v2 == [State(v1, "detect_end") EXCEPT
                    !.flags = @ \cup {"FAILOVER"},
                    !.slaves[n].flags = @ \cup {"PROMOTED"}, !.promoted = n]
       IN  sentinelAddFlagsToDictOfRedisInstances(sentinelCallClientReconfScript(v2),
                                                  "RECONF_SENT")
  ELSE v

SlaveInfo(v, n, t) ==
  LET new == v.slaves[n].runid # RunId(n, node[n].boot)
      v1 == IF node[n].of = None THEN [v EXCEPT !.slaves[n].runid = RunId(n, node[n].boot)]
            ELSE [v EXCEPT !.slaves[n].runid = RunId(n, node[n].boot),
                           !.slaves[n].of = node[n].of, !.slaves[n].link = node[n].link]
  IN  IF v.tilt THEN v1
      ELSE IF node[n].of = None THEN TurnedMaster(v1, n, new, t)
      ELSE Reconfigured(v1, n)

sentinelRefreshInstanceInfo(v, n, t) ==
  IF n = v.addr THEN MasterInfo(v, n) ELSE SlaveInfo(v, n, t)

-----------------------------------------------------------------------------
(* Actions.                                                                 *)

\* A sentinel that has heard of all the others, as it has after a while.
Acquainted(s) ==
  [initSentinel(0) EXCEPT
     !.runid = RunId(1, 0),
     !.slaves = [n \in Conf.nodes \ {1} |-> [runid |-> RunId(n, 0), flags |-> {}, of |-> 1, link |-> TRUE]],
     !.sentinels = [o \in Live \ {s} |-> createSentinel(RunId(o, 0), o \in Conf.can)]]

Init ==
  /\ family \in DOMAIN Families
  /\ node = [n \in Nodes |->
               LET slave == n \in Conf.nodes \ {1}
               IN  [up |-> n \in Conf.nodes, of |-> IF slave THEN 1 ELSE None, link |-> slave, boot |-> 0]]
  /\ wire = [l \in Sentinels \X Nodes |-> <<>>]
  /\ view = [s \in Sentinels |-> IF Conf.informed /\ s \in Live THEN Acquainted(s) ELSE initSentinel(0)]

\* The sentinel has done something: its commands are on their way.
Commit(s, v) ==
  /\ view' = [view EXCEPT ![s] = [v EXCEPT !.out = <<>>]]
  /\ wire' = [l \in DOMAIN wire |->
       IF l[1] = s THEN wire[l] \o LET mine == SelectSeq(v.out, LAMBDA c : c[1] = l[2])
                                   IN  [i \in DOMAIN mine |-> mine[i][2]]
       ELSE wire[l]]
  /\ \A l \in DOMAIN wire : Len(wire'[l]) <= MaxWire
  /\ UNCHANGED <<family, node>>

\* What time does: t.down and t.off always hold the instances that are down,
\* which in a family without false suspicions are the only ones.
Times == {[t EXCEPT !.down = @ \cup {n \in Nodes : ~node[n].up},
                    !.off = @ \cup {n \in Nodes : ~node[n].up}] : t \in Conf.times}

sentinelTimer(s) ==
  s \in Live /\ \E t \in Times : \E v \in {sentinelCheckTiltCondition(view[s], t)} :
    \E handled \in {sentinelHandleRedisInstance(s, v, t)} :
      \E run \in {sentinelRunPendingScripts(handled, t)} :
        \E v1 \in {sentinelCollectTerminatedScripts(run, t)} : Commit(s, v1)

sentinelInfoReplyCallback(s, n) ==
  /\ s \in Live /\ node[n].up /\ n \in {view[s].addr} \cup DOMAIN view[s].slaves
  /\ \E t \in Times : Commit(s, sentinelRefreshInstanceInfo(view[s], n, t))

\* The hello message of o, which the master they share publishes: it is added,
\* replaced when it has started again, or its configuration is noted.
sentinelReceiveHelloMessages(s, o) ==
  /\ {s, o} \subseteq Live /\ s # o /\ view[o].addr = view[s].addr /\ node[view[s].addr].up
  /\ LET runid == RunId(o, view[o].boot)
         known == o \in DOMAIN view[s].sentinels /\ view[s].sentinels[o].runid = runid
     IN  ~known /\ Commit(s, [view[s] EXCEPT
           !.sentinels = [p \in DOMAIN @ \cup {o} |->
                            IF p = o THEN createSentinel(runid, o \in Conf.can) ELSE @[p]]])

\* The answer of o to SENTINEL is-master-down-by-addr, about the address that
\* s watches, which o may not know as a master.
sentinelReceiveIsMasterDownReply(s, o, quiet) ==
  /\ o \in DOMAIN view[s].sentinels /\ view[s].flags \cap {"S_DOWN", "FAILOVER"} # {}
  /\ LET same  == view[o].addr = view[s].addr
         isdown == same /\ ~view[o].tilt /\ Flag(view[o], "S_DOWN")
         voted == IF same THEN sentinelGetSubjectiveLeader(o, view[o], quiet) ELSE None
     IN  Commit(s, [view[s] EXCEPT !.sentinels[o].down = isdown,
                                   !.sentinels[o].leader = IF voted = None THEN Unknown
                                                           ELSE voted])

\* SENTINEL FAILOVER and SENTINEL RESET, given by an administrator.
ForceFailover(s) ==
  /\ "force" \in Conf.faults /\ ~Flag(view[s], "FAILOVER")
  /\ \E t \in Times :
       /\ sentinelSelectSlave(view[s], t) # None
       /\ Commit(s, [sentinelStartFailover(view[s], "wait_start")
                       EXCEPT !.flags = @ \cup {"FORCE"}])
Reset(s) == s \in Live /\ "reset" \in Conf.faults /\ Commit(s, sentinelResetMaster(view[s]))

\* A sentinel starts again from its configuration file, which is never
\* rewritten; a link breaks, with the commands on it.
RestartSentinel(s) ==
  /\ s \in Live /\ "sentinel" \in Conf.faults /\ view[s].boot < MaxBoots
  /\ view' = [view EXCEPT ![s] = initSentinel(@.boot + 1)]
  /\ wire' = [l \in DOMAIN wire |-> IF l[1] = s THEN <<>> ELSE wire[l]]
  /\ UNCHANGED <<family, node>>
LoseCommands(s, n) ==
  /\ "loss" \in Conf.faults /\ wire[<<s, n>>] # <<>>
  /\ wire' = [wire EXCEPT ![<<s, n>>] = <<>>]
  /\ UNCHANGED <<family, node, view>>

\* The instances: SLAVEOF arrives, a slave has its master's data, a process
\* stops, and starts again as redis.conf says.
SlaveOf(s, n) ==
  /\ wire[<<s, n>>] # <<>> /\ node[n].up
  /\ wire' = [wire EXCEPT ![<<s, n>>] = Tail(@)]
  /\ node' = [node EXCEPT ![n] = IF @.of = Head(wire[<<s, n>>]) THEN @
                                 ELSE [@ EXCEPT !.of = Head(wire[<<s, n>>]), !.link = FALSE]]
  /\ UNCHANGED <<family, view>>
Synchronize(n) ==
  /\ node[n].up /\ ~node[n].link /\ node[n].of \notin {None, n} /\ node[node[n].of].up
  /\ node[node[n].of].of = None \/ node[node[n].of].link
  /\ node' = [node EXCEPT ![n].link = TRUE]
  /\ UNCHANGED <<family, wire, view>>
Crash(n) ==
  /\ "crash" \in Conf.faults /\ node[n].up /\ n \in Conf.crash
  /\ node' = [m \in Nodes |-> IF m = n THEN [node[m] EXCEPT !.up = FALSE, !.link = FALSE]
                              ELSE IF node[m].of = n THEN [node[m] EXCEPT !.link = FALSE]
                              ELSE node[m]]
  /\ wire' = [l \in DOMAIN wire |-> IF l[2] = n THEN <<>> ELSE wire[l]]
  /\ UNCHANGED <<family, view>>
Restart(n) ==
  /\ "restart" \in Conf.faults /\ n \in Conf.nodes /\ ~node[n].up /\ node[n].boot < MaxBoots
  /\ node' = [node EXCEPT ![n] = [up |-> TRUE, of |-> IF n = 1 THEN None ELSE 1,
                                  link |-> FALSE, boot |-> @.boot + 1]]
  /\ UNCHANGED <<family, wire, view>>

Quiet == {{}} \cup IF "quiet" \in Conf.faults THEN {{o} : o \in Sentinels} ELSE {}

Next ==
  \/ \E s \in Sentinels : \/ sentinelTimer(s) \/ ForceFailover(s) \/ Reset(s) \/ RestartSentinel(s)
                          \/ \E n \in Nodes : \/ sentinelInfoReplyCallback(s, n)
                                              \/ SlaveOf(s, n) \/ LoseCommands(s, n)
                          \/ \E o \in Sentinels : \/ sentinelReceiveHelloMessages(s, o)
                                                  \/ \E quiet \in Quiet :
                                                       sentinelReceiveIsMasterDownReply(s, o, quiet)
  \/ \E n \in Nodes : Synchronize(n) \/ Crash(n) \/ Restart(n)

\* The timer runs, INFO, hello and the votes are asked for again and again,
\* and an instance that is up serves its clients.
Fairness ==
  /\ \A s \in Sentinels :
       /\ WF_vars(sentinelTimer(s))
       /\ \A n \in Nodes : WF_vars(sentinelInfoReplyCallback(s, n)) /\ WF_vars(SlaveOf(s, n))
       /\ \A o \in Sentinels : /\ WF_vars(sentinelReceiveHelloMessages(s, o))
                              /\ WF_vars(sentinelReceiveIsMasterDownReply(s, o, {}))
  /\ \A n \in Nodes : WF_vars(Synchronize(n))

Spec == Init /\ [][Next]_vars /\ Fairness

-----------------------------------------------------------------------------
(* Properties.                                                              *)

\* The pointers of a failover: its flags, its state and the promoted slave
\* agree, and whoever follows promoted_slave without a check (the failover
\* states, and the INFO of a slave that is being reconfigured) finds it.
FailoverConsistent ==
  \A s \in Live : LET v == view[s] IN
    /\ (v.state # "none") <=> Flag(v, "FAILOVER")
    /\ Flag(v, "LEADER") => Flag(v, "FAILOVER")
    /\ {n \in DOMAIN v.slaves : SlaveFlag(v, n, "PROMOTED")} = {v.promoted} \ {None}
    /\ v.promoted # None => Flag(v, "FAILOVER")
    /\ v.state \in {"send_slaveof_noone", "wait_promotion", "reconf_slaves", "detect_end"}
         => v.promoted # None
    /\ \A n \in DOMAIN v.slaves :
         v.slaves[n].flags \cap {"RECONF_SENT", "RECONF_INPROG"} # {} => v.promoted # None
    /\ v.addr \notin DOMAIN v.slaves

\* The scripts: never more at once than is allowed, and a queue that is bounded
\* whatever their exit codes are.
ScriptsBounded ==
  \A s \in Live :
    LET jobs == view[s].jobs
    IN  Len(jobs) <= ScriptMaxQueue /\ Cardinality({i \in DOMAIN jobs : jobs[i].run}) <= ScriptMaxRunning

\* Where every vote is needed, and none is lost, one sentinel leads at a time.
OneLeader ==
  family = "reliable" =>
    \A s, o \in Live : Flag(view[s], "LEADER") /\ Flag(view[o], "LEADER") => s = o

UnderWay(v) ==
  {n \in DOMAIN v.slaves : v.slaves[n].flags \cap {"RECONF_SENT", "RECONF_INPROG"} # {}}

\* parallel-syncs: a leader that sends SLAVEOF, while the failover goes on,
\* never has more slaves off line than that, as far as it knows.
SyncsBounded ==
  \A s \in Live :
    /\ view[s].state = "reconf_slaves" /\ view'[s].state = "reconf_slaves"
    /\ UnderWay(view'[s]) \ UnderWay(view[s]) # {}
    => Cardinality(UnderWay(view'[s])) <= Conf.parallel

\* No step exceeds the limits: on scripts, and on slaves that synchronize.
LimitsKept == [][ScriptsBounded' /\ SyncsBounded]_vars

\* A sentinel that knows the whole group.
Informed(s) ==
  /\ {n \in DOMAIN view[s].slaves : view[s].slaves[n].runid # None} = Conf.nodes \ {1}
  /\ DOMAIN view[s].sentinels = Live \ {s}
\* All follow one instance that is up, and all sentinels watch it.
Converged ==
  \E m \in Nodes : /\ node[m].up /\ node[m].of = None
                   /\ \A n \in Nodes \ {m} : node[n].up => node[n].of = m /\ node[n].link
                   /\ \A s \in Live : view[s].addr = m

\* The master crashes when all sentinels know the group: the failover is
\* carried through to its end.
FailoverCompletes ==
  (family = "reliable" /\ ~node[1].up /\ \A s \in Live : Informed(s)) ~> Converged
=============================================================================
