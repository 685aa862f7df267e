--------------------------- MODULE SentinelProofs ---------------------------
(***************************************************************************)
(* Proofs about a Sentinel, for any number of Sentinels, instances and     *)
(* scripts and whatever the clock decides.                                 *)
(***************************************************************************)
EXTENDS Sentinel, FiniteSetTheorems, WellFoundedInduction, TLAPS

(***************************************************************************)
(* The inductive invariant.  A view and its slaves are records, whatever   *)
(* most of their fields hold.                                              *)
(***************************************************************************)
Record(r, fields) == r = [f \in DOMAIN r |-> r[f]] /\ fields \subseteq DOMAIN r
ViewFields == {"boot", "addr", "runid", "flags", "state", "promoted", "slaves", "sentinels",
               "tilt", "jobs", "running", "out"}
SlaveFields == {"runid", "flags", "of", "link"}
Shape(v) ==
  /\ Record(v, ViewFields)
  /\ Record(v.slaves, {}) /\ DOMAIN v.slaves \subseteq Nodes
  /\ \A n \in DOMAIN v.slaves : Record(v.slaves[n], SlaveFields)

(***************************************************************************)
(* Before a slave is selected nobody is promoted; from then on somebody    *)
(* is.  Only the leader selects, and slaves are being reconfigured only    *)
(* once the promoted one is a master.                                      *)
(***************************************************************************)
Early == {"wait_start", "select_slave"}
Promoting == {"send_slaveof_noone", "wait_promotion"}
Late == {"reconf_slaves", "detect_end", "update_config"}

StateOK(v) ==
  /\ v.state \in {"none"} \cup Early \cup Promoting \cup Late
  /\ v.state # "none" <=> Flag(v, "FAILOVER")
  /\ Flag(v, "LEADER") => Flag(v, "FAILOVER")
  /\ v.state \in Early \cup Promoting => Flag(v, "LEADER")

PromotedOK(v) ==
  /\ v.promoted # None <=> v.state \in Promoting \cup Late
  /\ v.promoted # None => v.promoted \in DOMAIN v.slaves
  /\ \A n \in DOMAIN v.slaves : SlaveFlag(v, n, "PROMOTED") <=> n = v.promoted

SlavesOK(v) ==
  /\ None \notin DOMAIN v.slaves
  /\ v.addr \notin DOMAIN v.slaves
  /\ \A n \in DOMAIN v.slaves :
       SlaveFlag(v, n, "RECONF_SENT") \/ SlaveFlag(v, n, "RECONF_INPROG") => v.state \in Late

Good(v) == Shape(v) /\ StateOK(v) /\ PromotedOK(v) /\ SlavesOK(v)

\* Between two steps nobody is about to switch to the promoted slave.
Settled(v) == Good(v) /\ v.state # "update_config"

\* A slave with its master's data does not follow itself.
NodeOK ==
  /\ Record(node, Nodes) /\ \A n \in Nodes : Record(node[n], {"up", "of", "link", "boot"})
  /\ \A n \in Nodes : node[n].link => node[n].of # n

IInv == /\ Record(view, Sentinels)
        /\ \A s \in Sentinels : Settled(view[s])
        /\ NodeOK
        /\ family \in DOMAIN Families

-----------------------------------------------------------------------------
\* What the failover is about is the same in two views.
Same(v, w) ==
  /\ Shape(w)
  /\ w.addr = v.addr /\ w.flags = v.flags /\ w.state = v.state
  /\ w.promoted = v.promoted /\ w.slaves = v.slaves

LEMMA SameKeeps ==
  ASSUME NEW v, NEW w, Same(v, w)
  PROVE  (Good(v) => Good(w)) /\ (Settled(v) => Settled(w))
  BY DEF Same, Settled, Good, StateOK, PromotedOK, SlavesOK, Flag, SlaveFlag

LEMMA SetsOther ==
  ASSUME NEW v, Shape(v), NEW x
  PROVE  /\ Same(v, [v EXCEPT !.out = x]) /\ Same(v, [v EXCEPT !.jobs = x])
         /\ Same(v, [v EXCEPT !.sentinels = x]) /\ Same(v, [v EXCEPT !.runid = x])
         /\ Same(v, [v EXCEPT !.running = x]) /\ Same(v, [v EXCEPT !.tilt = x])
  BY DEF Same, Shape, Record

LEMMA SendSame ==
  ASSUME NEW v, Shape(v), NEW ns, NEW of
  PROVE  Same(v, Send(v, ns, of))
  BY SetsOther DEF Send

LEMMA ScriptSame ==
  ASSUME NEW v, Shape(v)
  PROVE  Same(v, sentinelCallClientReconfScript(v))
<1>1. sentinelCallClientReconfScript(v) = v => Same(v, sentinelCallClientReconfScript(v))
  BY DEF Same
<1>2. Same(v, sentinelScheduleScriptExecution(v))
  BY SetsOther DEF sentinelScheduleScriptExecution
<1> QED
  BY <1>1, <1>2 DEF sentinelCallClientReconfScript

\* Fields that a view has, and its slaves
LEMMA Fields ==
  ASSUME NEW v, Shape(v)
  PROVE  /\ {"addr", "flags", "state", "promoted", "slaves"} \subseteq DOMAIN v
         /\ \A n \in DOMAIN v.slaves : "flags" \in DOMAIN v.slaves[n]
  BY DEF Shape, Record, ViewFields, SlaveFields

LEMMA ResetKeeps ==
  ASSUME NEW v, Shape(v), NEW addr
  PROVE  Settled(sentinelResetMaster(v)) /\ Settled(sentinelResetMasterAndChangeAddress(v, addr))
<1> DEFINE w == sentinelResetMaster(v)
           x == sentinelResetMasterAndChangeAddress(v, addr)
           Blank(y) == /\ Record(y, ViewFields) /\ y.flags = {} /\ y.state = "none"
                       /\ y.promoted = None /\ y.slaves = <<>>
<1>1. DOMAIN <<>> = {} /\ <<>> = [n \in DOMAIN <<>> |-> <<>>[n]]
  <2>1. <<>> \in [1..0 -> {}]
    OBVIOUS
  <2> QED
    BY <2>1
<1>2. Blank(w)
  BY Fields DEF Shape, Record, sentinelResetMaster
<1>3. Blank(x)
  <2>1. "addr" \in DOMAIN w
    BY <1>2 DEF Record, ViewFields
  <2> HIDE DEF w
  <2> QED
    BY <1>2, <2>1 DEF Record, sentinelResetMasterAndChangeAddress, w
<1> HIDE DEF w, x
<1>4. ASSUME NEW y, Blank(y)
      PROVE  Settled(y)
  <2>1. DOMAIN y.slaves = {} /\ y.slaves = [n \in DOMAIN y.slaves |-> y.slaves[n]]
    BY <1>1, <1>4
  <2>2. Shape(y)
    BY <1>4, <2>1 DEF Shape, Record
  <2> QED
    BY <1>4, <2>1, <2>2
       DEF Settled, Good, StateOK, PromotedOK, SlavesOK, Flag, Early, Promoting, Late
<1> QED
  BY <1>2, <1>3, <1>4 DEF w, x

\* The flags of the slaves change, and nothing else does.
Relabels(v, w) ==
  /\ Shape(w)
  /\ w.addr = v.addr /\ w.flags = v.flags /\ w.state = v.state /\ w.promoted = v.promoted
  /\ DOMAIN w.slaves = DOMAIN v.slaves

LEMMA DelFlags ==
  ASSUME NEW v, Shape(v), NEW F
  PROVE  /\ Relabels(v, sentinelDelFlagsToDictOfRedisInstances(v, F))
         /\ \A n \in DOMAIN v.slaves :
              sentinelDelFlagsToDictOfRedisInstances(v, F).slaves[n].flags = v.slaves[n].flags \ F
  BY Fields DEF Shape, Record, Relabels, sentinelDelFlagsToDictOfRedisInstances

LEMMA AddFlag ==
  ASSUME NEW v, Shape(v), NEW f
  PROVE  /\ Relabels(v, sentinelAddFlagsToDictOfRedisInstances(v, f))
         /\ \A n \in DOMAIN v.slaves :
              sentinelAddFlagsToDictOfRedisInstances(v, f).slaves[n].flags = v.slaves[n].flags \cup {f}
  BY Fields DEF Shape, Record, Relabels, sentinelAddFlagsToDictOfRedisInstances

LEMMA StateSet ==
  ASSUME NEW v, Shape(v), NEW st
  PROVE  /\ Shape(State(v, st)) /\ State(v, st).state = st
         /\ State(v, st).addr = v.addr /\ State(v, st).flags = v.flags
         /\ State(v, st).promoted = v.promoted /\ State(v, st).slaves = v.slaves
  BY Fields DEF Shape, Record, State

LEMMA FlagsSet ==
  ASSUME NEW v, Shape(v), NEW F, NEW w, w = [v EXCEPT !.flags = F]
  PROVE  /\ Shape(w) /\ w.flags = F
         /\ w.addr = v.addr /\ w.state = v.state /\ w.promoted = v.promoted /\ w.slaves = v.slaves
  BY Fields DEF Shape, Record

WithSlaves(v, m, q) == [v EXCEPT !.slaves = m, !.promoted = q]
LEMMA SlavesSet ==
  ASSUME NEW v, Shape(v), NEW m, Record(m, {}), \A n \in DOMAIN m : Record(m[n], SlaveFields),
         DOMAIN m \subseteq Nodes, NEW q, NEW w, w = WithSlaves(v, m, q)
  PROVE  /\ Shape(w) /\ w.promoted = q /\ w.slaves = m
         /\ w.addr = v.addr /\ w.state = v.state /\ w.flags = v.flags
<1>1. /\ DOMAIN w = DOMAIN v /\ w.promoted = q /\ w.slaves = m
      /\ w.addr = v.addr /\ w.state = v.state /\ w.flags = v.flags
  BY Fields DEF WithSlaves
<1>2. Record(w, ViewFields)
  <2>1. w = [f \in DOMAIN w |-> w[f]]
    BY DEF WithSlaves
  <2> QED
    BY <1>1, <2>1 DEF Shape, Record
<1> QED
  BY <1>1, <1>2 DEF Shape

\* One slave's flags change, and the slave that is promoted.
Promote(v, p, F, q) == [v EXCEPT !.slaves[p].flags = F, !.promoted = q]
LEMMA PromotedSet ==
  ASSUME NEW v, Shape(v), NEW p \in DOMAIN v.slaves, NEW F, NEW q
  PROVE  LET w == Promote(v, p, F, q)
         IN  /\ Shape(w) /\ w.promoted = q
             /\ w.addr = v.addr /\ w.state = v.state /\ w.flags = v.flags
             /\ DOMAIN w.slaves = DOMAIN v.slaves
             /\ w.slaves[p].flags = F
             /\ \A n \in DOMAIN v.slaves \ {p} : w.slaves[n] = v.slaves[n]
<1> DEFINE m == [v.slaves EXCEPT ![p].flags = F]
<1>1. /\ Record(m, {}) /\ DOMAIN m = DOMAIN v.slaves /\ DOMAIN m \subseteq Nodes
      /\ \A n \in DOMAIN m : Record(m[n], SlaveFields)
      /\ m[p].flags = F
      /\ \A n \in DOMAIN v.slaves \ {p} : m[n] = v.slaves[n]
  BY Fields DEF Shape, Record
<1>2. Promote(v, p, F, q) = WithSlaves(v, m, q)
  BY DEF Promote, WithSlaves
<1> HIDE DEF m
<1>3. LET w == Promote(v, p, F, q)
      IN  /\ Shape(w) /\ w.promoted = q /\ w.slaves = m
          /\ w.addr = v.addr /\ w.state = v.state /\ w.flags = v.flags
  BY <1>1, <1>2, SlavesSet
<1> QED
  BY <1>1, <1>3

LEMMA AbortKeeps ==
  ASSUME NEW v, Good(v), NEW t
  PROVE  Settled(sentinelAbortFailover(v, t)) /\ sentinelAbortFailover(v, t).state = "none"
         /\ DOMAIN sentinelAbortFailover(v, t).slaves = DOMAIN v.slaves
<1> DEFINE R == {"RECONF_SENT", "RECONF_INPROG", "RECONF_DONE"}
           touched == {n \in DOMAIN v.slaves :
                         /\ Flag(v, "LEADER") /\ n \notin t.off
                         /\ v.slaves[n].flags
                              \cap {"PROMOTED", "RECONF_SENT", "RECONF_INPROG", "RECONF_DONE"} # {}}
           a == Send(v, touched, v.addr)
           b == sentinelDelFlagsToDictOfRedisInstances(a, R)
           c == [b EXCEPT !.flags = @ \ {"FAILOVER", "LEADER", "FORCE"}, !.state = "none"]
           d == sentinelCallClientReconfScript(c)
           e == [d EXCEPT !.slaves[v.promoted].flags = @ \ {"PROMOTED"}, !.promoted = None]
<1>0. sentinelAbortFailover(v, t) = IF v.promoted = None THEN c ELSE e
  BY DEF sentinelAbortFailover
<1>1. Same(v, a)
  BY SendSame DEF Good
<1> HIDE DEF a, R
<1>2. Relabels(a, b) /\ \A n \in DOMAIN a.slaves : b.slaves[n].flags = a.slaves[n].flags \ R
  BY <1>1, DelFlags DEF Same
<1> HIDE DEF b
<1>3. /\ Shape(c) /\ c.addr = v.addr /\ c.state = "none" /\ c.promoted = v.promoted
      /\ ~Flag(c, "FAILOVER") /\ ~Flag(c, "LEADER") /\ c.slaves = b.slaves
  <2> DEFINE fl == b.flags \ {"FAILOVER", "LEADER", "FORCE"}
  <2>1. Shape(b) /\ c = [b EXCEPT !.flags = fl, !.state = "none"]
    BY <1>2 DEF Relabels
  <2> HIDE DEF fl, c
  <2>2. /\ Shape(c) /\ c.flags = fl /\ c.state = "none"
        /\ c.addr = b.addr /\ c.promoted = b.promoted /\ c.slaves = b.slaves
    BY <2>1, Fields DEF Shape, Record
  <2> QED
    BY <1>1, <1>2, <2>2 DEF Relabels, Same, Flag, fl
<1>4. /\ DOMAIN c.slaves = DOMAIN v.slaves
      /\ \A n \in DOMAIN v.slaves : c.slaves[n].flags = v.slaves[n].flags \ R
  BY <1>1, <1>2, <1>3 DEF Relabels, Same
<1> HIDE DEF c
<1>5. CASE v.promoted = None
  BY <1>0, <1>3, <1>4, <1>5
     DEF Settled, Good, StateOK, PromotedOK, SlavesOK, Flag, SlaveFlag, Early, Promoting, Late, R
<1>6. CASE v.promoted # None
  <2> DEFINE p == v.promoted
             fl == d.slaves[p].flags \ {"PROMOTED"}
  <2>1. p \in DOMAIN v.slaves
    BY <1>6 DEF Good, PromotedOK
  <2>2. Same(c, d)
    BY <1>3, ScriptSame
  <2> HIDE DEF d, fl, p
  <2>3. e = Promote(d, p, fl, None)
    BY DEF e, fl, p, Promote
  <2> HIDE DEF e
  <2>4. /\ Shape(d) /\ p \in DOMAIN d.slaves /\ DOMAIN d.slaves = DOMAIN v.slaves
        /\ \A n \in DOMAIN v.slaves : d.slaves[n].flags = v.slaves[n].flags \ R
    BY <1>4, <2>1, <2>2 DEF Same
  <2>5. /\ Shape(e) /\ e.addr = v.addr /\ e.state = "none" /\ e.promoted = None
        /\ ~Flag(e, "FAILOVER") /\ ~Flag(e, "LEADER") /\ DOMAIN e.slaves = DOMAIN v.slaves
        /\ e.slaves[p].flags = fl
        /\ \A n \in DOMAIN v.slaves \ {p} : e.slaves[n] = d.slaves[n]
    BY <1>3, <2>2, <2>3, <2>4, PromotedSet DEF Same, Flag
  <2> QED
    BY <1>0, <1>6, <2>1, <2>4, <2>5
       DEF Settled, Good, StateOK, PromotedOK, SlavesOK, Flag, SlaveFlag, Early, Promoting, Late, R,
           fl, p
<1> QED
  BY <1>5, <1>6

\* What the timer handler does first changes no flag of a failover.
Notes(v, w) ==
  /\ Shape(w)
  /\ w.addr = v.addr /\ w.state = v.state /\ w.promoted = v.promoted /\ w.slaves = v.slaves
  /\ Flag(w, "FAILOVER") <=> Flag(v, "FAILOVER")
  /\ Flag(w, "LEADER") <=> Flag(v, "LEADER")

LEMMA NotesKeeps ==
  ASSUME NEW v, NEW w, Notes(v, w), Settled(v)
  PROVE  Settled(w)
  BY DEF Notes, Settled, Good, StateOK, PromotedOK, SlavesOK, SlaveFlag

LEMMA Marks ==
  ASSUME NEW v, Settled(v), NEW t
  PROVE  /\ Settled(sentinelAskMasterStateToOtherSentinels(v, t))
         /\ Settled(sentinelCheckSubjectivelyDown(v, t))
         /\ Settled(sentinelCheckObjectivelyDown(v))
<1>1. Same(v, sentinelAskMasterStateToOtherSentinels(v, t))
  BY SetsOther DEF sentinelAskMasterStateToOtherSentinels, Settled, Good
<1>2. Notes(v, sentinelCheckSubjectivelyDown(v, t))
  <2> DEFINE F == Marked(v.flags, v.addr \in t.down)
             w == sentinelCheckSubjectivelyDown(v, t)
  <2>1. w = [v EXCEPT !.flags = F]
    BY DEF sentinelCheckSubjectivelyDown
  <2>2. \A f \in {"FAILOVER", "LEADER"} : f \in F <=> f \in v.flags
    BY DEF Marked
  <2> HIDE DEF F, w
  <2> QED
    BY <2>1, <2>2, FlagsSet DEF w, Notes, Flag, Settled, Good
<1>3. Notes(v, sentinelCheckObjectivelyDown(v))
  BY FlagsSet DEF sentinelCheckObjectivelyDown, Notes, Flag, Settled, Good
<1> QED
  BY <1>1, <1>2, <1>3, SameKeeps, NotesKeeps

\* Marking the slaves that are down touches no flag of a failover either.
LEMMA CheckSlavesKeeps ==
  ASSUME NEW v, Good(v), NEW t
  PROVE  Good(CheckSlaves(v, t))
<1>1. /\ Relabels(v, CheckSlaves(v, t))
      /\ \A n \in DOMAIN v.slaves :
           CheckSlaves(v, t).slaves[n].flags = Marked(v.slaves[n].flags, n \in t.down)
  BY Fields DEF Good, Shape, Record, Relabels, CheckSlaves
<1>2. ASSUME NEW n \in DOMAIN v.slaves, NEW f \in {"PROMOTED", "RECONF_SENT", "RECONF_INPROG"}
      PROVE  SlaveFlag(CheckSlaves(v, t), n, f) <=> SlaveFlag(v, n, f)
  BY <1>1, <1>2 DEF SlaveFlag, Marked
<1> QED
  BY <1>1, <1>2 DEF Good, Relabels, StateOK, PromotedOK, SlavesOK, Flag

LEMMA SwitchKeeps ==
  ASSUME NEW v, Good(v)
  PROVE  Settled(sentinelFailoverSwitchToPromotedSlave(v))
  BY ResetKeeps DEF sentinelFailoverSwitchToPromotedSlave, Settled, Good

\* A failover starts with nobody promoted and no slave reconfigured, or takes
\* over from a leader that had got as far as reconfiguring the slaves.
LEMMA StartKeeps ==
  ASSUME NEW v, Settled(v), NEW st, st \in {"wait_start", "reconf_slaves"},
         st = "wait_start" => ~Flag(v, "FAILOVER"),
         st = "reconf_slaves" => Flag(v, "FAILOVER") /\ ~Flag(v, "LEADER")
  PROVE  Settled(sentinelStartFailover(v, st))
<1> DEFINE a == State(v, st)
           F == a.flags \cup {"FAILOVER", "LEADER"}
           w == [a EXCEPT !.flags = F]
<1>1. Shape(a) /\ a.state = st /\ a.addr = v.addr /\ a.flags = v.flags /\ a.promoted = v.promoted
      /\ a.slaves = v.slaves
  BY StateSet DEF Settled, Good
<1> HIDE DEF a
<1>2. /\ Shape(w) /\ w.flags = F
      /\ w.addr = a.addr /\ w.state = a.state /\ w.promoted = a.promoted /\ w.slaves = a.slaves
  BY <1>1, FlagsSet
<1>3. w = sentinelStartFailover(v, st)
  BY DEF sentinelStartFailover, a
<1> HIDE DEF w
<1> QED
  BY <1>1, <1>2, <1>3
     DEF Settled, Good, StateOK, PromotedOK, SlavesOK, Flag, SlaveFlag, Early, Promoting, Late

LEMMA StartIfNeededKeeps ==
  ASSUME NEW v, Settled(v), NEW s, NEW t
  PROVE  Settled(sentinelStartFailoverIfNeeded(s, v, t))
<1> DEFINE r == sentinelStartFailoverIfNeeded(s, v, t)
           w == sentinelStartFailover(v, "reconf_slaves")
           d == sentinelDelFlagsToDictOfRedisInstances(w, {"RECONF_SENT"})
<1>1. CASE r = v
  BY <1>1
<1>2. CASE ~Flag(v, "FAILOVER") /\ r = sentinelStartFailover(v, "wait_start")
  BY <1>2, StartKeeps
<1>3. CASE Flag(v, "FAILOVER") /\ ~Flag(v, "LEADER") /\ r = d
  <2>1. Settled(w)
    BY <1>3, StartKeeps
  <2> HIDE DEF w
  <2>2. Relabels(w, d) /\ \A n \in DOMAIN w.slaves : d.slaves[n].flags = w.slaves[n].flags \ {"RECONF_SENT"}
    BY <2>1, DelFlags DEF Settled, Good
  <2> HIDE DEF d
  <2>3. Settled(d)
    BY <2>1, <2>2 DEF Relabels, Settled, Good, StateOK, PromotedOK, SlavesOK, Flag, SlaveFlag
  <2> QED
    BY <1>3, <2>3
<1> QED
  BY <1>1, <1>2, <1>3 DEF sentinelStartFailoverIfNeeded

-----------------------------------------------------------------------------
(* The states of a failover.                                                *)

\* The state moves on, and nothing else changes.
LEMMA Moves ==
  ASSUME NEW v, Good(v), v.state # "none", NEW st, st \in Early \cup Promoting \cup Late,
         v.promoted # None <=> st \in Promoting \cup Late,
         v.state \in Late => st \in Late
  PROVE  Good(State(v, st))
  BY StateSet DEF Good, StateOK, PromotedOK, SlavesOK, Flag, SlaveFlag, Early, Promoting, Late

LEMMA WaitStartKeeps ==
  ASSUME NEW v, Good(v), v.state = "wait_start", NEW t
  PROVE  Good(sentinelFailoverWaitStart(v, t))
<1>1. Good(State(v, "select_slave"))
  BY Moves DEF Good, StateOK, PromotedOK, Early, Promoting, Late
<1> QED
  BY <1>1, AbortKeeps DEF Settled, sentinelFailoverWaitStart

LEMMA SelectSlaveKeeps ==
  ASSUME NEW v, Good(v), v.state = "select_slave", NEW t
  PROVE  Good(sentinelFailoverSelectSlave(v, t))
<1> DEFINE n == sentinelSelectSlave(v, t)
           a == State(v, "send_slaveof_noone")
           F == a.slaves[n].flags \cup {"PROMOTED"}
           e == Promote(a, n, F, n)
<1>1. CASE n = None
  BY <1>1, AbortKeeps DEF Settled, sentinelFailoverSelectSlave
<1>2. CASE n # None
  <2>1. n \in DOMAIN v.slaves
    <3> DEFINE good == {m \in DOMAIN v.slaves \ t.off :
                          /\ ~SlaveFlag(v, m, "S_DOWN") /\ v.slaves[m].runid # None
                          /\ Priority[m] # 0}
               before(m, k) == Priority[m] < Priority[k] \/ (Priority[m] = Priority[k] /\ m <= k)
           best == {m \in good : \A k \in good : before(m, k)}
    <3>1. best # {} /\ n = CHOOSE m \in best : TRUE
      BY <1>2 DEF sentinelSelectSlave
    <3>2. best \subseteq DOMAIN v.slaves
      OBVIOUS
    <3> HIDE DEF best
    <3> QED
      BY <3>1, <3>2
  <2>2. Shape(a) /\ a.state = "send_slaveof_noone"
        /\ a.addr = v.addr /\ a.flags = v.flags /\ a.promoted = v.promoted /\ a.slaves = v.slaves
    BY StateSet DEF Good
  <2>3. e = sentinelFailoverSelectSlave(v, t)
    BY <1>2 DEF Promote, sentinelFailoverSelectSlave
  <2> HIDE DEF a, n, F
  <2>4. /\ Shape(e) /\ e.promoted = n
        /\ e.addr = a.addr /\ e.state = a.state /\ e.flags = a.flags
        /\ DOMAIN e.slaves = DOMAIN a.slaves
        /\ e.slaves[n].flags = F
        /\ \A m \in DOMAIN a.slaves \ {n} : e.slaves[m] = a.slaves[m]
    BY <2>1, <2>2, PromotedSet
  <2> HIDE DEF e
  <2>5. Good(e)
    BY <1>2, <2>1, <2>2, <2>4
       DEF Good, StateOK, PromotedOK, SlavesOK, Flag, SlaveFlag, Early, Promoting, Late, F
  <2> QED
    BY <2>3, <2>5
<1> QED
  BY <1>1, <1>2

LEMMA SendSlaveOfNoOneKeeps ==
  ASSUME NEW v, Good(v), v.state = "send_slaveof_noone", NEW t
  PROVE  Good(sentinelFailoverSendSlaveOfNoOne(v, t))
<1> DEFINE a == Send(v, {v.promoted}, None)
<1>1. Same(v, a)
  BY SendSame DEF Good
<1>2. Good(a)
  BY <1>1, SameKeeps
<1> HIDE DEF a
<1>3. Good(State(a, "wait_promotion"))
  BY <1>1, <1>2, Moves DEF Same, Good, StateOK, PromotedOK, Early, Promoting, Late
<1> QED
  BY <1>3 DEF sentinelFailoverSendSlaveOfNoOne, a

LEMMA WaitPromotionKeeps ==
  ASSUME NEW v, Good(v), v.state = "wait_promotion", NEW t
  PROVE  Good(sentinelFailoverWaitPromotion(v, t))
<1> DEFINE n == v.promoted
           a == State(v, "select_slave")
           F == a.slaves[n].flags \ {"PROMOTED"}
           e == Promote(a, n, F, None)
<1>1. CASE "promotion" \notin t.over
  BY <1>1 DEF sentinelFailoverWaitPromotion
<1>2. CASE "promotion" \in t.over
  <2>1. n \in DOMAIN v.slaves
    BY DEF Good, PromotedOK, Promoting
  <2>2. Shape(a) /\ a.state = "select_slave"
        /\ a.addr = v.addr /\ a.flags = v.flags /\ a.promoted = v.promoted /\ a.slaves = v.slaves
    BY StateSet DEF Good
  <2>3. e = sentinelFailoverWaitPromotion(v, t)
    BY <1>2 DEF Promote, sentinelFailoverWaitPromotion
  <2> HIDE DEF a, n, F
  <2>4. /\ Shape(e) /\ e.promoted = None
        /\ e.addr = a.addr /\ e.state = a.state /\ e.flags = a.flags
        /\ DOMAIN e.slaves = DOMAIN a.slaves
        /\ e.slaves[n].flags = F
        /\ \A m \in DOMAIN a.slaves \ {n} : e.slaves[m] = a.slaves[m]
    BY <2>1, <2>2, PromotedSet
  <2> HIDE DEF e
  <2>5. Good(e)
    BY <2>1, <2>2, <2>4
       DEF Good, StateOK, PromotedOK, SlavesOK, Flag, SlaveFlag, Early, Promoting, Late, F, n
  <2> QED
    BY <2>3, <2>5
<1> QED
  BY <1>1, <1>2

\* While the slaves are reconfigured they may have any flag but PROMOTED.
LEMMA Reconfiguring ==
  ASSUME NEW v, Good(v), v.state \in Late, NEW w, Relabels(v, w),
         \A n \in DOMAIN v.slaves : SlaveFlag(w, n, "PROMOTED") <=> SlaveFlag(v, n, "PROMOTED")
  PROVE  Good(w) /\ w.state = v.state
  BY DEF Relabels, Good, StateOK, PromotedOK, SlavesOK, Flag

\* SLAVEOF is sent to some slaves, whose flags change: New[n] are the new ones.
Tell(v, ns, New) ==
  [Send(v, ns, v.promoted) EXCEPT
     !.slaves = [n \in DOMAIN v.slaves |-> [v.slaves[n] EXCEPT !.flags = New[n]]]]
LEMMA Telling ==
  ASSUME NEW v, Good(v), v.state \in Late, NEW ns, NEW New,
         \A n \in DOMAIN v.slaves : "PROMOTED" \in New[n] <=> SlaveFlag(v, n, "PROMOTED")
  PROVE  Good(Tell(v, ns, New)) /\ Tell(v, ns, New).state = v.state
<1> DEFINE a == Send(v, ns, v.promoted)
           m == [n \in DOMAIN v.slaves |-> [v.slaves[n] EXCEPT !.flags = New[n]]]
           w == Tell(v, ns, New)
<1>1. Same(v, a)
  BY SendSame DEF Good
<1>2. /\ Record(m, {}) /\ DOMAIN m = DOMAIN v.slaves /\ DOMAIN m \subseteq Nodes
      /\ \A n \in DOMAIN m : Record(m[n], SlaveFields) /\ m[n].flags = New[n]
  BY Fields DEF Good, Shape, Record
<1>3. w = [a EXCEPT !.slaves = m]
  BY DEF Tell
<1> HIDE DEF a, m, w
<1>4. w = WithSlaves(a, m, a.promoted)
  BY <1>1, <1>3 DEF WithSlaves, Same, Shape, Record
<1>5. /\ Shape(w) /\ w.slaves = m
      /\ w.addr = a.addr /\ w.state = a.state /\ w.flags = a.flags /\ w.promoted = a.promoted
  BY <1>1, <1>2, <1>4, SlavesSet DEF Same
<1>6. Relabels(v, w) /\ \A n \in DOMAIN v.slaves : w.slaves[n].flags = New[n]
  BY <1>1, <1>2, <1>5 DEF Relabels, Same
<1> QED
  BY <1>6, Reconfiguring DEF SlaveFlag, w

LEMMA LastSlaveOfKeeps ==
  ASSUME NEW v, Good(v), v.state \in Late, NEW t
  PROVE  Good(LastSlaveOf(v, t))
<1> DEFINE left == {n \in DOMAIN v.slaves \ t.off :
                      v.slaves[n].flags \cap {"RECONF_DONE", "RECONF_SENT"} = {}}
           New == [n \in DOMAIN v.slaves |->
                     IF n \in left THEN v.slaves[n].flags \cup {"RECONF_SENT"} ELSE v.slaves[n].flags]
<1>1. LastSlaveOf(v, t) = Tell(v, left, New)
  BY DEF LastSlaveOf, Tell
<1>2. \A n \in DOMAIN v.slaves : "PROMOTED" \in New[n] <=> SlaveFlag(v, n, "PROMOTED")
  BY DEF SlaveFlag
<1> HIDE DEF left, New
<1> QED
  BY <1>1, <1>2, Telling

LEMMA DetectEndKeeps ==
  ASSUME NEW v, Good(v), v.state \in Late, NEW t
  PROVE  Good(sentinelFailoverDetectEnd(v, t))
<1> DEFINE a == State(v, "update_config")
           end == sentinelCallClientReconfScript(a)
<1>1. Good(a) /\ a.state = "update_config"
  BY Moves, StateSet DEF Good, PromotedOK, StateOK, Early, Promoting, Late
<1> HIDE DEF a
<1>2. Same(a, end)
  BY <1>1, ScriptSame DEF Good
<1> HIDE DEF end
<1>3. Good(end) /\ end.state \in Late
  BY <1>1, <1>2, SameKeeps DEF Same, Late
<1>4. Good(LastSlaveOf(end, t))
  BY <1>3, LastSlaveOfKeeps
<1> QED
  BY <1>3, <1>4 DEF sentinelFailoverDetectEnd, end, a

LEMMA ReconfNextKeeps ==
  ASSUME NEW v, Good(v), v.state \in Late, NEW t
  PROVE  Good(ReconfNext(v, t)) /\ ReconfNext(v, t).state = v.state
<1> DEFINE todo == {n \in DOMAIN v.slaves : v.slaves[n].flags \cap {"PROMOTED", "RECONF_DONE"} = {}}
           lost == {n \in todo : SlaveFlag(v, n, "RECONF_SENT") /\ "reconf" \in t.over}
           free == {n \in todo \ t.off : /\ ~SlaveFlag(v, n, "RECONF_INPROG")
                                        /\ SlaveFlag(v, n, "RECONF_SENT") => n \in lost}
           visited == {n \in todo :
                         InProgress(v) + Cardinality({m \in free : m < n}) < Conf.parallel}
           told == visited \cap free
           New == [n \in DOMAIN v.slaves |->
                     IF n \in told THEN v.slaves[n].flags \cup {"RECONF_SENT"}
                     ELSE IF n \in visited \cap lost THEN v.slaves[n].flags \ {"RECONF_SENT"}
                     ELSE v.slaves[n].flags]
<1>1. ReconfNext(v, t) = Tell(v, told, New)
  BY DEF ReconfNext, Tell
<1>2. \A n \in DOMAIN v.slaves : "PROMOTED" \in New[n] <=> SlaveFlag(v, n, "PROMOTED")
  <2> HIDE DEF told, visited, lost
  <2> QED
    BY DEF SlaveFlag
<1> HIDE DEF told, New
<1> QED
  BY <1>1, <1>2, Telling

LEMMA StateMachineKeeps ==
  ASSUME NEW v, Settled(v), NEW t
  PROVE  Good(sentinelFailoverStateMachine(v, t))
<1> DEFINE r == sentinelFailoverStateMachine(v, t)
<1>1. CASE v.state = "wait_start"
  BY <1>1, WaitStartKeeps DEF sentinelFailoverStateMachine, Settled
<1>2. CASE v.state = "select_slave"
  BY <1>2, SelectSlaveKeeps DEF sentinelFailoverStateMachine, Settled
<1>3. CASE v.state = "send_slaveof_noone"
  BY <1>3, SendSlaveOfNoOneKeeps DEF sentinelFailoverStateMachine, Settled
<1>4. CASE v.state = "wait_promotion"
  BY <1>4, WaitPromotionKeeps DEF sentinelFailoverStateMachine, Settled
<1>5. CASE v.state = "reconf_slaves"
  BY <1>5, ReconfNextKeeps, DetectEndKeeps
     DEF sentinelFailoverStateMachine, sentinelFailoverReconfNextSlave, Settled, Late
<1>6. CASE v.state = "detect_end"
  BY <1>6, DetectEndKeeps DEF sentinelFailoverStateMachine, Settled, Late
<1>7. CASE v.state = "none"
  BY <1>7 DEF sentinelFailoverStateMachine, Settled
<1> QED
  BY <1>1, <1>2, <1>3, <1>4, <1>5, <1>6, <1>7
     DEF Settled, Good, StateOK, Early, Promoting, Late

LEMMA AbortIfNeededKeeps ==
  ASSUME NEW v, Good(v), NEW t
  PROVE  Good(sentinelAbortFailoverIfNeeded(v, t))
  BY AbortKeeps DEF sentinelAbortFailoverIfNeeded, Settled

LEMMA HandleKeeps ==
  ASSUME NEW v, Settled(v), NEW s, NEW t
  PROVE  Settled(sentinelHandleRedisInstance(s, v, t))
<1>0. ASSUME NEW y
      PROVE  (CHOOSE z \in {y} : TRUE) = y
  OBVIOUS
<1> DEFINE Abort(v1)  == sentinelAbortFailoverIfNeeded(v1, t)
           Move(v1)   == after(Abort, sentinelFailoverStateMachine(v1, t))
           Start(v1)  == after(Move, sentinelStartFailoverIfNeeded(s, v1, t))
           Mark(v1)   == after(Start, sentinelCheckObjectivelyDown(sentinelCheckSubjectivelyDown(v1, t)))
           Slaves(v1) == sentinelFailoverSwitchToPromotedSlave(CheckSlaves(v1, t))
           Decide(v1) == after(Slaves, Mark(v1))
           asked      == sentinelAskMasterStateToOtherSentinels(v, t)
<1>1. Settled(asked)
  BY Marks
<1>2. ASSUME NEW w, Settled(w)
      PROVE  Good(Move(w))
  <2> DEFINE x == sentinelFailoverStateMachine(w, t)
  <2>1. Good(x)
    BY <1>2, StateMachineKeeps
  <2>2. Move(w) = Abort(x)
    BY <1>0 DEF after
  <2> QED
    BY <2>1, <2>2, AbortIfNeededKeeps
<1> HIDE DEF Move
<1>3. ASSUME NEW w, Settled(w)
      PROVE  Good(Start(w))
  <2> DEFINE x == sentinelStartFailoverIfNeeded(s, w, t)
  <2>1. Settled(x)
    BY <1>3, StartIfNeededKeeps
  <2>2. Start(w) = Move(x)
    BY <1>0 DEF after
  <2> QED
    BY <1>2, <2>1, <2>2
<1> HIDE DEF Start
<1>4. ASSUME NEW w, Settled(w)
      PROVE  Good(Mark(w))
  <2> DEFINE x == sentinelCheckObjectivelyDown(sentinelCheckSubjectivelyDown(w, t))
  <2>1. Settled(x)
    BY <1>4, Marks
  <2>2. Mark(w) = Start(x)
    BY <1>0 DEF after
  <2> QED
    BY <1>3, <2>1, <2>2
<1> HIDE DEF Mark
<1>5. ASSUME NEW w, Settled(w)
      PROVE  Settled(Decide(w))
  <2>1. Settled(Slaves(Mark(w)))
    BY <1>4, <1>5, CheckSlavesKeeps, SwitchKeeps
  <2>2. Decide(w) = Slaves(Mark(w))
    BY <1>0 DEF after
  <2> QED
    BY <2>1, <2>2
<1> HIDE DEF Decide
<1>6. sentinelHandleRedisInstance(s, v, t) = IF v.tilt THEN asked ELSE Decide(asked)
  BY <1>0 DEF sentinelHandleRedisInstance, after, Decide, Mark, Start, Move
<1> QED
  BY <1>1, <1>5, <1>6

-----------------------------------------------------------------------------
(* INFO.                                                                    *)

LEMMA OnlySlaves ==
  ASSUME NEW v, Shape(v), NEW m
  PROVE  [v EXCEPT !.slaves = m] = WithSlaves(v, m, v.promoted)
  BY DEF WithSlaves, Shape, Record

LEMMA MasterInfoKeeps ==
  ASSUME NEW v, Settled(v), NodeOK
  PROVE  Settled(MasterInfo(v, v.addr))
<1> DEFINE n == v.addr
           id == RunId(n, node[n].boot)
           found == {m \in Nodes : node[m].up /\ node[m].of = n /\ node[m].link} \ DOMAIN v.slaves
           M == [m \in DOMAIN v.slaves \cup found |->
                   IF m \in found THEN createInstance ELSE v.slaves[m]]
           a == [v EXCEPT !.runid = id]
           b == WithSlaves(a, M, v.promoted)
<1>0. Shape(v)
  BY DEF Settled, Good
<1>1. Same(v, a)
  BY <1>0, SetsOther
<1>2. [v EXCEPT !.runid = id, !.slaves = M] = b
  <2> HIDE DEF M, id
  <2>1. [a EXCEPT !.slaves = M] = WithSlaves(a, M, a.promoted)
    BY <1>1, OnlySlaves DEF Same
  <2> QED
    BY <1>1, <2>1 DEF Same
<1>3. n \notin found /\ None \notin found
  BY SentinelAssumption DEF NodeOK, None
<1>4. /\ Record(M, {}) /\ DOMAIN M = DOMAIN v.slaves \cup found /\ DOMAIN M \subseteq Nodes
      /\ \A m \in DOMAIN M : Record(M[m], SlaveFields)
      /\ \A m \in DOMAIN v.slaves : M[m] = v.slaves[m]
      /\ \A m \in found : M[m].flags = {}
  <2> HIDE DEF found
  <2>1. Record(createInstance, SlaveFields) /\ createInstance.flags = {}
    BY DEF createInstance, Record, SlaveFields
  <2>2. DOMAIN v.slaves \cap found = {} /\ found \subseteq Nodes
    BY DEF found
  <2> QED
    BY <1>0, <2>1, <2>2 DEF Shape, Record
<1> HIDE DEF found, M, id, a, n
<1>5. /\ Shape(b) /\ b.promoted = v.promoted /\ b.slaves = M
      /\ b.addr = v.addr /\ b.state = v.state /\ b.flags = v.flags
  BY <1>1, <1>4, SlavesSet DEF Same
<1> HIDE DEF b
<1>6. Settled(b)
  BY <1>3, <1>4, <1>5 DEF Settled, Good, StateOK, PromotedOK, SlavesOK, Flag, SlaveFlag, n
<1>7. \A x : Settled(sentinelResetMasterAndChangeAddress(b, x))
  BY <1>5, ResetKeeps
<1> QED
  BY <1>2, <1>6, <1>7 DEF MasterInfo, n, id, found, M

LEMMA ReconfiguredKeeps ==
  ASSUME NEW v, Settled(v), NEW n \in DOMAIN v.slaves
  PROVE  Settled(Reconfigured(v, n))
<1> DEFINE fl == v.slaves[n].flags
           inprog == IF "RECONF_SENT" \in fl /\ v.slaves[n].of = v.promoted
                     THEN (fl \ {"RECONF_SENT"}) \cup {"RECONF_INPROG"} ELSE fl
           done == IF "RECONF_INPROG" \in inprog /\ v.slaves[n].link
                   THEN (inprog \ {"RECONF_INPROG"}) \cup {"RECONF_DONE"} ELSE inprog
           M == [v.slaves EXCEPT ![n].flags = done]
           w == WithSlaves(v, M, v.promoted)
<1>0. Shape(v)
  BY DEF Settled, Good
<1>1. /\ "PROMOTED" \in done <=> "PROMOTED" \in fl
      /\ done \cap {"RECONF_SENT", "RECONF_INPROG"} # {}
           => fl \cap {"RECONF_SENT", "RECONF_INPROG"} # {}
  OBVIOUS
<1>2. Reconfigured(v, n) = w
  <2>1. Reconfigured(v, n) = [v EXCEPT !.slaves = M]
    BY DEF Reconfigured
  <2> HIDE DEF M
  <2> QED
    BY <1>0, <2>1, OnlySlaves
<1> HIDE DEF done, fl
<1>3. /\ Record(M, {}) /\ DOMAIN M = DOMAIN v.slaves /\ DOMAIN M \subseteq Nodes
      /\ \A m \in DOMAIN M : Record(M[m], SlaveFields)
      /\ M[n].flags = done
      /\ \A m \in DOMAIN v.slaves \ {n} : M[m] = v.slaves[m]
  BY <1>0, Fields DEF Shape, Record
<1> HIDE DEF M
<1>4. /\ Shape(w) /\ w.promoted = v.promoted /\ w.slaves = M
      /\ w.addr = v.addr /\ w.state = v.state /\ w.flags = v.flags
  BY <1>0, <1>3, SlavesSet
<1> HIDE DEF w
<1>5. Good(w)
  <2>1. \A m \in DOMAIN v.slaves : SlaveFlag(w, m, "PROMOTED") <=> SlaveFlag(v, m, "PROMOTED")
    BY <1>1, <1>3, <1>4 DEF SlaveFlag, fl
  <2>2. \A m \in DOMAIN v.slaves :
          SlaveFlag(w, m, "RECONF_SENT") \/ SlaveFlag(w, m, "RECONF_INPROG")
            => SlaveFlag(v, m, "RECONF_SENT") \/ SlaveFlag(v, m, "RECONF_INPROG")
    BY <1>1, <1>3, <1>4 DEF SlaveFlag, fl
  <2> QED
    BY <1>3, <1>4, <2>1, <2>2 DEF Settled, Good, StateOK, PromotedOK, SlavesOK, Flag
<1> QED
  BY <1>2, <1>4, <1>5 DEF Settled

\* The failover of another sentinel is seen from the slave that it has promoted.
LEMMA DetectedKeeps ==
  ASSUME NEW v, Settled(v), v.state = "none", NEW n \in DOMAIN v.slaves,
         NEW w, w = [State(v, "detect_end") EXCEPT
                       !.flags = @ \cup {"FAILOVER"},
                       !.slaves[n].flags = @ \cup {"PROMOTED"}, !.promoted = n]
  PROVE  Settled(sentinelAddFlagsToDictOfRedisInstances(sentinelCallClientReconfScript(w),
                                                        "RECONF_SENT"))
<1> DEFINE a == State(v, "detect_end")
           F == a.flags \cup {"FAILOVER"}
           b == [a EXCEPT !.flags = F]
           G == b.slaves[n].flags \cup {"PROMOTED"}
           c == Promote(b, n, G, n)
           d == sentinelCallClientReconfScript(c)
           e == sentinelAddFlagsToDictOfRedisInstances(d, "RECONF_SENT")
<1>1. Shape(a) /\ a.state = "detect_end" /\ a.addr = v.addr /\ a.flags = v.flags
      /\ a.promoted = v.promoted /\ a.slaves = v.slaves
  BY StateSet DEF Settled, Good
<1>2. c = w
  BY DEF Promote
<1> HIDE DEF a, F
<1>3. /\ Shape(b) /\ b.flags = F
      /\ b.addr = a.addr /\ b.state = a.state /\ b.promoted = a.promoted /\ b.slaves = a.slaves
  BY <1>1, FlagsSet
<1> HIDE DEF b, G
<1>4. /\ Shape(c) /\ c.promoted = n
      /\ c.addr = b.addr /\ c.state = b.state /\ c.flags = b.flags
      /\ DOMAIN c.slaves = DOMAIN b.slaves
      /\ c.slaves[n].flags = G
      /\ \A m \in DOMAIN b.slaves \ {n} : c.slaves[m] = b.slaves[m]
  BY <1>1, <1>3, PromotedSet
<1> HIDE DEF c
<1>5. Same(c, d)
  BY <1>4, ScriptSame
<1> HIDE DEF d
<1>6. /\ Relabels(d, e)
      /\ \A m \in DOMAIN d.slaves : e.slaves[m].flags = d.slaves[m].flags \cup {"RECONF_SENT"}
  BY <1>5, AddFlag DEF Same
<1> HIDE DEF e
<1>7. /\ Shape(e) /\ e.addr = v.addr /\ e.state = "detect_end" /\ e.promoted = n
      /\ Flag(e, "FAILOVER") /\ DOMAIN e.slaves = DOMAIN v.slaves
      /\ \A m \in DOMAIN e.slaves : SlaveFlag(e, m, "PROMOTED") <=> m = n
  <2>1. \A m \in DOMAIN v.slaves : ~SlaveFlag(v, m, "PROMOTED")
    BY SentinelAssumption DEF Settled, Good, PromotedOK, SlavesOK, None, Promoting, Late
  <2> QED
    BY <1>1, <1>3, <1>4, <1>5, <1>6, <2>1 DEF Relabels, Same, Flag, SlaveFlag, F, G
<1>8. Settled(e)
  BY <1>7 DEF Settled, Good, StateOK, PromotedOK, SlavesOK, Early, Promoting, Late
<1> QED
  BY <1>2, <1>8 DEF d, e

LEMMA TurnedMasterKeeps ==
  ASSUME NEW v, Settled(v), NEW n \in DOMAIN v.slaves, NEW new, NEW t
  PROVE  Settled(TurnedMaster(v, n, new, t))
<1>0. Shape(v) /\ Good(v)
  BY DEF Settled, Good
<1>1. CASE ~Flag(v, "FAILOVER") /\ new
  <2> DEFINE M == [m \in DOMAIN v.slaves \ {n} |-> v.slaves[m]]
             w == WithSlaves(v, M, v.promoted)
  <2>1. TurnedMaster(v, n, new, t) = [v EXCEPT !.slaves = M]
    BY <1>1 DEF TurnedMaster
  <2>2. /\ Record(M, {}) /\ DOMAIN M = DOMAIN v.slaves \ {n} /\ DOMAIN M \subseteq Nodes
        /\ \A m \in DOMAIN M : Record(M[m], SlaveFields) /\ M[m] = v.slaves[m]
    BY <1>0 DEF Shape, Record
  <2> HIDE DEF M
  <2>3. /\ Shape(w) /\ w.promoted = v.promoted /\ w.slaves = M
        /\ w.addr = v.addr /\ w.state = v.state /\ w.flags = v.flags
    BY <1>0, <2>2, SlavesSet
  <2>4. TurnedMaster(v, n, new, t) = w
    BY <1>0, <2>1, OnlySlaves
  <2> HIDE DEF w
  <2> QED
    BY ZenonT(60), <1>1, <2>2, <2>3, <2>4
       DEF Settled, Good, StateOK, PromotedOK, SlavesOK, Flag, SlaveFlag, Promoting, Late
<1>2. CASE ~(~Flag(v, "FAILOVER") /\ new) /\ SlaveFlag(v, n, "PROMOTED")
  <2> DEFINE a == State(v, "reconf_slaves")
             w == sentinelCallClientReconfScript(a)
  <2>1. ASSUME v.state = "wait_promotion"
        PROVE  Settled(w)
    <3>1. Good(a) /\ a.state = "reconf_slaves"
      BY <1>0, <2>1, Moves, StateSet DEF Good, PromotedOK, StateOK, Early, Promoting, Late
    <3> HIDE DEF a
    <3>2. Same(a, w) /\ Settled(a)
      BY <3>1, ScriptSame DEF Good, Settled
    <3> QED
      BY <3>2, SameKeeps
  <2> QED
    BY <1>2, <2>1 DEF TurnedMaster
<1>3. CASE ~(~Flag(v, "FAILOVER") /\ new) /\ ~SlaveFlag(v, n, "PROMOTED")
  <2> DEFINE v1 == IF Flag(v, "FAILOVER") THEN sentinelAbortFailover(v, t) ELSE v
             w == [State(v1, "detect_end") EXCEPT
                     !.flags = @ \cup {"FAILOVER"},
                     !.slaves[n].flags = @ \cup {"PROMOTED"}, !.promoted = n]
             r == sentinelAddFlagsToDictOfRedisInstances(sentinelCallClientReconfScript(w),
                                                         "RECONF_SENT")
  <2>1. Settled(v1) /\ v1.state = "none" /\ n \in DOMAIN v1.slaves
    BY <1>0, AbortKeeps DEF Good, StateOK
  <2>2. TurnedMaster(v, n, new, t) \in {v, r}
    BY <1>3 DEF TurnedMaster
  <2> HIDE DEF v1
  <2>3. Settled(r)
    BY <2>1, DetectedKeeps
  <2> QED
    BY <2>2, <2>3
<1> QED
  BY <1>1, <1>2, <1>3

LEMMA SlaveInfoKeeps ==
  ASSUME NEW v, Settled(v), NEW n \in DOMAIN v.slaves, NEW t
  PROVE  Settled(SlaveInfo(v, n, t))
<1> DEFINE id == RunId(n, node[n].boot)
           of == node[n].of
           lk == node[n].link
           M == IF node[n].of = None THEN [v.slaves EXCEPT ![n].runid = id]
                ELSE [v.slaves EXCEPT ![n].runid = id, ![n].of = of, ![n].link = lk]
           v1 == IF node[n].of = None THEN [v EXCEPT !.slaves[n].runid = id]
                 ELSE [v EXCEPT !.slaves[n].runid = id, !.slaves[n].of = of, !.slaves[n].link = lk]
<1>0. Shape(v)
  BY DEF Settled, Good
<1>1. /\ Record(M, {}) /\ DOMAIN M = DOMAIN v.slaves /\ DOMAIN M \subseteq Nodes
      /\ \A m \in DOMAIN M : Record(M[m], SlaveFields)
      /\ \A m \in DOMAIN v.slaves : M[m].flags = v.slaves[m].flags
  <2> DEFINE a == [v.slaves[n] EXCEPT !.runid = id]
             b == [v.slaves[n] EXCEPT !.runid = id, !.of = of, !.link = lk]
             x == IF node[n].of = None THEN a ELSE b
  <2> HIDE DEF id, of, lk
  <2>1. /\ Record(a, SlaveFields) /\ a.flags = v.slaves[n].flags
        /\ Record(b, SlaveFields) /\ b.flags = v.slaves[n].flags
    BY <1>0, Fields DEF Shape, Record
  <2>2. M = [v.slaves EXCEPT ![n] = x]
    OBVIOUS
  <2> HIDE DEF a, b, M
  <2>3. Record(x, SlaveFields) /\ x.flags = v.slaves[n].flags
    BY <2>1
  <2> HIDE DEF x
  <2> QED
    BY <1>0, <2>2, <2>3 DEF Shape, Record
<1>2. v1 = WithSlaves(v, M, v.promoted)
  <2>1. v1 = [v EXCEPT !.slaves = M]
    <3> HIDE DEF id, of, lk
    <3> QED
      OBVIOUS
  <2> HIDE DEF M, v1
  <2> QED
    BY <1>0, <2>1, OnlySlaves
<1> HIDE DEF M, v1
<1>3. /\ Shape(v1) /\ v1.promoted = v.promoted /\ v1.slaves = M
      /\ v1.addr = v.addr /\ v1.state = v.state /\ v1.flags = v.flags
  BY <1>0, <1>1, <1>2, SlavesSet
<1>4. Settled(v1) /\ n \in DOMAIN v1.slaves
  BY <1>1, <1>3 DEF Settled, Good, StateOK, PromotedOK, SlavesOK, Flag, SlaveFlag
<1>5. Settled(Reconfigured(v1, n)) /\ \A new : Settled(TurnedMaster(v1, n, new, t))
  BY <1>4, ReconfiguredKeeps, TurnedMasterKeeps
<1> QED
  BY <1>4, <1>5 DEF SlaveInfo, v1, id, of, lk

-----------------------------------------------------------------------------
(* The actions.                                                             *)

LEMMA CommitKeeps ==
  ASSUME IInv, NEW s \in Sentinels, NEW v, Settled(v), Commit(s, v)
  PROVE  IInv'
<1> DEFINE w == [v EXCEPT !.out = <<>>]
<1>1. Settled(w)
  BY SetsOther, SameKeeps DEF Settled, Good
<1> HIDE DEF w
<1>2. view' = [view EXCEPT ![s] = w] /\ node' = node /\ family' = family
  BY DEF Commit, w
<1>3. Record(view', Sentinels) /\ \A o \in Sentinels : Settled(view'[o])
  BY <1>1, <1>2 DEF IInv, Record
<1> QED
  BY <1>2, <1>3 DEF IInv, NodeOK

LEMMA TimerKeeps ==
  ASSUME IInv, NEW s \in Sentinels, sentinelTimer(s)
  PROVE  IInv'
<1>1. ASSUME NEW v, Settled(v), NEW t, NEW k
      PROVE  Settled(Started(v, t, k))
  <2> DEFINE ready == {i \in DOMAIN v.jobs : ~v.jobs[i].run /\ (v.jobs[i].wait => "retry" \in t.over)}
             start == {i \in ready : Cardinality({j \in ready : j < i}) < k}
             x == v.running + Cardinality(start)
             y == [i \in DOMAIN v.jobs |->
                     IF i \in start THEN [run |-> TRUE, retry |-> v.jobs[i].retry + 1, wait |-> FALSE]
                     ELSE v.jobs[i]]
             a == [v EXCEPT !.running = x]
  <2> HIDE DEF x, y, start, ready
  <2>1. Same(v, a)
    BY <1>1, SetsOther DEF Settled, Good
  <2>2. Same(a, [a EXCEPT !.jobs = y])
    BY ZenonT(60), <2>1, SetsOther DEF Same
  <2>3. Started(v, t, k) = [a EXCEPT !.jobs = y]
    BY DEF Started, x, y, start, ready
  <2> HIDE DEF a
  <2> QED
    BY <1>1, <2>1, <2>2, <2>3, SameKeeps
<1>2. ASSUME NEW v, Settled(v), NEW t
      PROVE  Settled(sentinelCollectTerminatedScripts(v, t))
  <2>1. PICK x, y : sentinelCollectTerminatedScripts(v, t)
                      \in {v, [v EXCEPT !.running = x, !.jobs = y]}
    BY Zenon DEF sentinelCollectTerminatedScripts
  <2> DEFINE a == [v EXCEPT !.running = x]
  <2>2. Same(v, a)
    BY <1>2, SetsOther DEF Settled, Good
  <2>3. Same(a, [a EXCEPT !.jobs = y])
    BY ZenonT(60), <2>2, SetsOther DEF Same
  <2>4. [v EXCEPT !.running = x, !.jobs = y] = [a EXCEPT !.jobs = y]
    OBVIOUS
  <2> HIDE DEF a
  <2> QED
    BY <1>2, <2>1, <2>2, <2>3, <2>4, SameKeeps
<1>3. ASSUME NEW v, Settled(v), NEW t
      PROVE  Settled(sentinelCheckTiltCondition(v, t))
  <2> DEFINE x == t.odd \/ (v.tilt /\ "tilt" \notin t.over)
  <2>1. sentinelCheckTiltCondition(v, t) = [v EXCEPT !.tilt = x]
    BY Zenon DEF sentinelCheckTiltCondition
  <2> HIDE DEF x
  <2> QED
    BY <1>3, <2>1, SetsOther, SameKeeps DEF Settled, Good
<1>4. PICK t \in Times :
        Commit(s, sentinelCollectTerminatedScripts(sentinelRunPendingScripts(
                    sentinelHandleRedisInstance(s, sentinelCheckTiltCondition(view[s], t), t), t), t))
  BY DEF sentinelTimer
<1>5. Settled(view[s])
  BY DEF IInv
<1>6. Settled(sentinelCollectTerminatedScripts(sentinelRunPendingScripts(
                sentinelHandleRedisInstance(s, sentinelCheckTiltCondition(view[s], t), t), t), t))
  BY <1>1, <1>2, <1>3, <1>5, HandleKeeps DEF sentinelRunPendingScripts
<1> QED
  BY <1>4, <1>6, CommitKeeps

LEMMA InfoKeeps ==
  ASSUME IInv, NEW s \in Sentinels, NEW n \in Nodes, sentinelInfoReplyCallback(s, n)
  PROVE  IInv'
<1>1. PICK t \in Times : Commit(s, sentinelRefreshInstanceInfo(view[s], n, t))
  BY DEF sentinelInfoReplyCallback
<1>2. Settled(view[s]) /\ NodeOK
  BY DEF IInv
<1>3. n = view[s].addr \/ n \in DOMAIN view[s].slaves
  BY DEF sentinelInfoReplyCallback
<1>4. Settled(sentinelRefreshInstanceInfo(view[s], n, t))
  BY <1>2, <1>3, MasterInfoKeeps, SlaveInfoKeeps DEF sentinelRefreshInstanceInfo
<1> QED
  BY <1>1, <1>4, CommitKeeps

LEMMA HelloKeeps ==
  ASSUME IInv, NEW s \in Sentinels, NEW o \in Sentinels, sentinelReceiveHelloMessages(s, o)
  PROVE  IInv'
<1>1. PICK x : Commit(s, [view[s] EXCEPT !.sentinels = x])
  BY DEF sentinelReceiveHelloMessages
<1>2. Settled(view[s])
  BY DEF IInv
<1>3. Settled([view[s] EXCEPT !.sentinels = x])
  BY <1>2, SetsOther, SameKeeps DEF Settled, Good
<1> QED
  BY <1>1, <1>3, CommitKeeps

LEMMA ReplyKeeps ==
  ASSUME IInv, NEW s \in Sentinels, NEW o \in Sentinels, NEW quiet,
         sentinelReceiveIsMasterDownReply(s, o, quiet)
  PROVE  IInv'
<1>1. PICK a, b : Commit(s, [view[s] EXCEPT !.sentinels[o].down = a, !.sentinels[o].leader = b])
  BY DEF sentinelReceiveIsMasterDownReply
<1> DEFINE x == [view[s].sentinels EXCEPT ![o].down = a, ![o].leader = b]
<1>2. Settled(view[s])
  BY DEF IInv
<1>3. [view[s] EXCEPT !.sentinels[o].down = a, !.sentinels[o].leader = b]
        = [view[s] EXCEPT !.sentinels = x]
  OBVIOUS
<1> HIDE DEF x
<1>4. Settled([view[s] EXCEPT !.sentinels = x])
  BY <1>2, SetsOther, SameKeeps DEF Settled, Good
<1> QED
  BY <1>1, <1>3, <1>4, CommitKeeps

LEMMA ForceKeeps ==
  ASSUME IInv, NEW s \in Sentinels, ForceFailover(s)
  PROVE  IInv'
<1> DEFINE a == sentinelStartFailover(view[s], "wait_start")
           F == a.flags \cup {"FORCE"}
           w == [a EXCEPT !.flags = F]
<1>1. Commit(s, w)
  BY DEF ForceFailover
<1>2. Settled(a)
  BY StartKeeps DEF IInv, ForceFailover
<1> HIDE DEF a, F
<1>3. /\ Shape(w) /\ w.flags = F
      /\ w.addr = a.addr /\ w.state = a.state /\ w.promoted = a.promoted /\ w.slaves = a.slaves
  BY <1>2, FlagsSet DEF Settled, Good
<1>4. Settled(w)
  <2> HIDE DEF w
  <2> QED
    BY <1>2, <1>3, NotesKeeps DEF Notes, Flag, F
<1> QED
  BY <1>1, <1>4, CommitKeeps

LEMMA ResetStepKeeps ==
  ASSUME IInv, NEW s \in Sentinels, Reset(s)
  PROVE  IInv'
  BY ResetKeeps, CommitKeeps DEF Reset, IInv, Settled, Good

\* A sentinel that starts watches a group of which it knows the master alone.
LEMMA InitSentinel ==
  ASSUME NEW b
  PROVE  Settled(initSentinel(b))
<1>1. DOMAIN <<>> = {} /\ <<>> = [n \in DOMAIN <<>> |-> <<>>[n]]
  <2>1. <<>> \in [1..0 -> {}]
    OBVIOUS
  <2> QED
    BY <2>1
<1> DEFINE v == initSentinel(b)
<1>2. /\ Record(v, ViewFields) /\ v.addr = 1 /\ v.flags = {} /\ v.state = "none"
      /\ v.promoted = None /\ v.slaves = <<>>
  BY DEF initSentinel, Record, ViewFields
<1> HIDE DEF v
<1>3. Shape(v)
  BY <1>1, <1>2 DEF Shape, Record
<1> QED
  BY <1>1, <1>2, <1>3
     DEF v, Settled, Good, StateOK, PromotedOK, SlavesOK, Flag, Early, Promoting, Late

LEMMA RestartKeeps ==
  ASSUME IInv, NEW s \in Sentinels, RestartSentinel(s)
  PROVE  IInv'
<1> DEFINE w == initSentinel(view[s].boot + 1)
<1>1. Settled(w)
  BY InitSentinel
<1>2. view' = [view EXCEPT ![s] = w] /\ node' = node /\ family' = family
  BY DEF RestartSentinel
<1> HIDE DEF w
<1> QED
  BY <1>1, <1>2 DEF IInv, Record, NodeOK

LEMMA NodesKeep ==
  ASSUME IInv, NEW n \in Nodes,
         (\E s \in Sentinels : SlaveOf(s, n)) \/ Synchronize(n) \/ Crash(n) \/ Restart(n)
  PROVE  IInv'
<1> DEFINE NodeFields == {"up", "of", "link", "boot"}
<1>1. view' = view /\ family' = family
  BY DEF SlaveOf, Synchronize, Crash, Restart
<1>2. Record(node, Nodes) /\ \A m \in Nodes : Record(node[m], NodeFields) /\ (node[m].link => node[m].of # m)
  BY DEF IInv, NodeOK
<1>3. NodeOK'
  <2>1. CASE \E s \in Sentinels : SlaveOf(s, n)
    <3> PICK s \in Sentinels : SlaveOf(s, n)
      BY <2>1
    <3> DEFINE of == Head(wire[<<s, n>>])
               x == IF node[n].of = of THEN node[n]
                    ELSE [node[n] EXCEPT !.of = of, !.link = FALSE]
    <3>1. node' = [node EXCEPT ![n] = x]
      BY DEF SlaveOf
    <3> HIDE DEF of
    <3>2. Record(x, NodeFields) /\ (x.link => x.of # n)
      BY <1>2 DEF Record
    <3> HIDE DEF x
    <3> QED
      BY <1>2, <3>1, <3>2 DEF NodeOK, Record
  <2>2. CASE Synchronize(n)
    BY <1>2, <2>2 DEF Synchronize, NodeOK, Record
  <2>3. CASE Crash(n)
    <3> DEFINE x(m) == IF m = n THEN [node[m] EXCEPT !.up = FALSE, !.link = FALSE]
                       ELSE IF node[m].of = n THEN [node[m] EXCEPT !.link = FALSE]
                       ELSE node[m]
    <3>1. node' = [m \in Nodes |-> x(m)]
      BY <2>3 DEF Crash
    <3>2. ASSUME NEW m \in Nodes
          PROVE  Record(x(m), NodeFields) /\ (x(m).link => x(m).of # m)
      BY <1>2 DEF Record
    <3> HIDE DEF x
    <3> QED
      BY <3>1, <3>2 DEF NodeOK, Record
  <2>4. CASE Restart(n)
    <3> DEFINE x == [up |-> TRUE, of |-> IF n = 1 THEN None ELSE 1,
                     link |-> FALSE, boot |-> node[n].boot + 1]
    <3>1. node' = [node EXCEPT ![n] = x]
      BY <2>4 DEF Restart
    <3>2. Record(x, NodeFields) /\ x.link = FALSE
      BY DEF Record
    <3> HIDE DEF x
    <3> QED
      BY <1>2, <3>1, <3>2 DEF NodeOK, Record
  <2> QED
    BY <2>1, <2>2, <2>3, <2>4
<1> QED
  BY <1>1, <1>3 DEF IInv

LEMMA StepKeeps ==
  ASSUME IInv, [Next]_vars
  PROVE  IInv'
<1>1. CASE Next
  <2>1. CASE \E s \in Sentinels : sentinelTimer(s) \/ ForceFailover(s) \/ Reset(s) \/ RestartSentinel(s)
    BY <2>1, TimerKeeps, ForceKeeps, ResetStepKeeps, RestartKeeps
  <2>2. CASE \E s \in Sentinels, n \in Nodes :
               sentinelInfoReplyCallback(s, n) \/ SlaveOf(s, n)
    BY <2>2, InfoKeeps, NodesKeep
  <2>3. CASE \E s \in Sentinels, n \in Nodes : LoseCommands(s, n)
    BY <2>3 DEF LoseCommands, IInv, NodeOK
  <2>4. CASE \E s \in Sentinels, o \in Sentinels :
               \/ sentinelReceiveHelloMessages(s, o)
               \/ \E quiet \in Quiet : sentinelReceiveIsMasterDownReply(s, o, quiet)
    BY <2>4, HelloKeeps, ReplyKeeps
  <2>5. CASE \E n \in Nodes : Synchronize(n) \/ Crash(n) \/ Restart(n)
    BY <2>5, NodesKeep
  <2> QED
    BY <1>1, <2>1, <2>2, <2>3, <2>4, <2>5 DEF Next
<1>2. CASE UNCHANGED vars
  BY <1>2 DEF vars, IInv, NodeOK
<1> QED
  BY <1>1, <1>2

LEMMA Starts ==
  ASSUME Init
  PROVE  IInv
<1>1. NodeOK
  BY SentinelAssumption DEF Init, NodeOK, Record, None
<1>2. ASSUME NEW s \in Live
      PROVE  Settled(Acquainted(s))
  <2> DEFINE v == Acquainted(s)
             a == initSentinel(0)
             M == [n \in Conf.nodes \ {1} |->
                     [runid |-> RunId(n, 0), flags |-> {}, of |-> 1, link |-> TRUE]]
             id == RunId(1, 0)
             T == [o \in Live \ {s} |-> createSentinel(RunId(o, 0), o \in Conf.can)]
             b == [a EXCEPT !.runid = id]
             c == WithSlaves(b, M, b.promoted)
             d == [c EXCEPT !.sentinels = T]
  <2>1. Settled(a) /\ a.addr = 1 /\ a.state = "none" /\ a.promoted = None /\ a.flags = {}
    BY InitSentinel DEF initSentinel
  <2>2. v = [a EXCEPT !.runid = id, !.slaves = M, !.sentinels = T]
    BY DEF Acquainted
  <2>3. /\ Record(M, {}) /\ DOMAIN M = Conf.nodes \ {1}
        /\ \A n \in DOMAIN M : Record(M[n], SlaveFields) /\ M[n].flags = {}
    BY DEF Record, SlaveFields
  <2>4. None \notin DOMAIN M /\ 1 \notin DOMAIN M /\ DOMAIN M \subseteq Nodes
    BY <2>3, SentinelAssumption DEF Init, Conf, None
  <2> HIDE DEF v, a, M, id, T
  <2>5. Same(a, b)
    BY <2>1, SetsOther DEF Settled, Good
  <2>6. v = [[b EXCEPT !.slaves = M] EXCEPT !.sentinels = T]
    BY <2>2
  <2>7. [b EXCEPT !.slaves = M] = c
    BY <2>5, OnlySlaves DEF Same
  <2> HIDE DEF b
  <2>8. /\ Shape(c) /\ c.promoted = b.promoted /\ c.slaves = M
        /\ c.addr = b.addr /\ c.state = b.state /\ c.flags = b.flags
    BY <2>3, <2>4, <2>5, SlavesSet DEF Same
  <2> HIDE DEF c
  <2>9. Settled(c)
    BY <2>1, <2>3, <2>4, <2>5, <2>8
       DEF Same, Settled, Good, StateOK, PromotedOK, SlavesOK, Flag, SlaveFlag, Early, Promoting, Late
  <2>10. Same(c, d)
    BY <2>8, SetsOther
  <2> QED
    BY <2>6, <2>7, <2>9, <2>10, SameKeeps DEF v
<1>3. /\ view = [s \in Sentinels |-> IF Conf.informed /\ s \in Live THEN Acquainted(s)
                                     ELSE initSentinel(0)]
  BY DEF Init
<1>4. Record(view, Sentinels) /\ \A s \in Sentinels : Settled(view[s])
  BY <1>2, <1>3, InitSentinel DEF Record
<1> QED
  BY <1>1, <1>4 DEF IInv, Init

\* Whatever the clocks decide, and whichever instances, sentinels and links
\* fail, the flags, the state and the promoted slave of a failover agree, and
\* promoted_slave is set wherever sentinel.c follows it without a check.
THEOREM FailoverStaysConsistent == Spec => []FailoverConsistent
<1>1. IInv => FailoverConsistent
  <2> SUFFICES ASSUME IInv, NEW s \in Live
               PROVE  LET v == view[s] IN
                        /\ (v.state # "none") <=> Flag(v, "FAILOVER")
                        /\ Flag(v, "LEADER") => Flag(v, "FAILOVER")
                        /\ {n \in DOMAIN v.slaves : SlaveFlag(v, n, "PROMOTED")} = {v.promoted} \ {None}
                        /\ v.promoted # None => Flag(v, "FAILOVER")
                        /\ v.state \in {"send_slaveof_noone", "wait_promotion", "reconf_slaves",
                                        "detect_end"} => v.promoted # None
                        /\ \A n \in DOMAIN v.slaves :
                             v.slaves[n].flags \cap {"RECONF_SENT", "RECONF_INPROG"} # {}
                               => v.promoted # None
                        /\ v.addr \notin DOMAIN v.slaves
    BY DEF FailoverConsistent
  <2> DEFINE v == view[s]
  <2>1. Settled(v)
    BY SentinelAssumption DEF IInv, Conf, Live, Sentinels
  <2> HIDE DEF v
  <2>2. {n \in DOMAIN v.slaves : SlaveFlag(v, n, "PROMOTED")} = {v.promoted} \ {None}
    BY <2>1 DEF Settled, Good, PromotedOK, SlavesOK
  <2>3. /\ (v.state # "none") <=> Flag(v, "FAILOVER")
        /\ Flag(v, "LEADER") => Flag(v, "FAILOVER")
        /\ v.promoted # None => Flag(v, "FAILOVER")
        /\ v.state \in {"send_slaveof_noone", "wait_promotion", "reconf_slaves", "detect_end"}
             => v.promoted # None
        /\ v.addr \notin DOMAIN v.slaves
    BY <2>1 DEF Settled, Good, StateOK, PromotedOK, SlavesOK, Early, Promoting, Late
  <2>4. \A n \in DOMAIN v.slaves :
          v.slaves[n].flags \cap {"RECONF_SENT", "RECONF_INPROG"} # {} => v.promoted # None
    BY <2>1 DEF Settled, Good, PromotedOK, SlavesOK, SlaveFlag
  <2> QED
    BY <2>2, <2>3, <2>4 DEF v
<1>2. Init => IInv
  BY Starts
<1>3. IInv /\ [Next]_vars => IInv'
  BY StepKeeps
<1> QED
  BY <1>1, <1>2, <1>3, PTL DEF Spec

-----------------------------------------------------------------------------
(***************************************************************************)
(* Numbers: the least of a set, and the first n.                           *)
(***************************************************************************)
LEMMA LeastNumber ==
  ASSUME NEW S, S \subseteq Nat, S # {}
  PROVE  \E x \in S : \A y \in S : x <= y
<1>1. PICK x \in S : \A y \in S : ~(<<y, x>> \in OpToRel(<, Nat))
  BY NatLessThanWellFounded, WFMin
<1>2. \A y \in S : x <= y
  <2>1. ASSUME NEW y \in S, y < x
        PROVE  FALSE
    BY <1>1, <2>1 DEF OpToRel
  <2> QED
    BY <2>1
<1> QED
  BY <1>2

FirstOf(S, n) == {i \in S : Cardinality({j \in S : j < i}) < n}

LEMMA FirstAreFew ==
  ASSUME NEW S, S \subseteq Nat, IsFiniteSet(S), NEW n \in Nat
  PROVE  IsFiniteSet(FirstOf(S, n)) /\ Cardinality(FirstOf(S, n)) <= n
<1> DEFINE below(i) == {j \in S : j < i}
           T == FirstOf(S, n)
           f == [i \in T |-> Cardinality(below(i))]
<1>1. ASSUME NEW i \in S
      PROVE  IsFiniteSet(below(i)) /\ Cardinality(below(i)) \in Nat
  <2>1. below(i) \subseteq S
    OBVIOUS
  <2> HIDE DEF below
  <2> QED
    BY <2>1, FS_Subset, FS_CardinalityType
<1>2. ASSUME NEW i \in S, NEW k \in S, i < k
      PROVE  Cardinality(below(i)) < Cardinality(below(k))
  <2>1. below(i) \cup {i} \subseteq below(k) /\ i \notin below(i)
    <3>1. i \in Nat /\ k \in Nat /\ ~(i < i)
      OBVIOUS
    <3>2. \A j \in S : j < i => j < k
      BY <1>2, <3>1
    <3> QED
      BY <1>2, <3>1, <3>2
  <2> HIDE DEF below
  <2>2. Cardinality(below(i) \cup {i}) = Cardinality(below(i)) + 1
    BY <1>1, <2>1, FS_AddElement
  <2>3. Cardinality(below(i) \cup {i}) <= Cardinality(below(k))
    BY <1>1, <2>1, FS_Subset
  <2> QED
    BY <1>1, <2>2, <2>3
<1>3. T \subseteq S /\ \A i \in T : Cardinality(below(i)) < n
  BY DEF FirstOf
<1>4. f \in [T -> 0..(n - 1)]
  <2>1. \A i \in T : Cardinality(below(i)) \in 0..(n - 1)
    <3> HIDE DEF below, T
    <3> QED
      BY <1>1, <1>3
  <2> QED
    BY <2>1
<1>5. f \in Injection(T, 0..(n - 1))
  <2>1. ASSUME NEW i \in T, NEW k \in T, f[i] = f[k]
        PROVE  i = k
    <3>1. Cardinality(below(i)) = Cardinality(below(k)) /\ i \in Nat /\ k \in Nat
      BY <1>3, <2>1
    <3> HIDE DEF below, f, T
    <3> QED
      BY <1>1, <1>2, <1>3, <3>1
  <2> QED
    BY <1>4, <2>1 DEF Injection, IsInjective
<1>6. IsFiniteSet(T)
  BY <1>3, FS_Subset
<1>7. IsFiniteSet(0..(n - 1)) /\ Cardinality(0..(n - 1)) = n
  BY FS_Interval
<1> HIDE DEF T, f
<1>8. Cardinality(T) <= Cardinality(0..(n - 1))
  BY <1>5, <1>7, FS_Injection
<1> QED
  BY <1>6, <1>7, <1>8 DEF T

-----------------------------------------------------------------------------
(***************************************************************************)
(* The scripts: the queue is no longer than is allowed, and not more jobs  *)
(* run than are counted, which are not more than are allowed.              *)
(***************************************************************************)
Running(jobs) == {i \in DOMAIN jobs : jobs[i].run}
QueueOK(v) ==
  /\ \E S : v.jobs \in Seq(S)
  /\ Len(v.jobs) <= ScriptMaxQueue
  /\ v.running \in 0..ScriptMaxRunning
  /\ Cardinality(Running(v.jobs)) <= v.running

LEMMA RunningFinite ==
  ASSUME NEW S, NEW jobs \in Seq(S)
  PROVE  /\ IsFiniteSet(DOMAIN jobs) /\ DOMAIN jobs \subseteq Nat
         /\ \A I \in SUBSET DOMAIN jobs : IsFiniteSet(I) /\ Cardinality(I) \in Nat
         /\ Running(jobs) \subseteq DOMAIN jobs
<1>1. DOMAIN jobs = 1..Len(jobs) /\ Len(jobs) \in Nat
  OBVIOUS
<1>2. IsFiniteSet(1..Len(jobs))
  BY <1>1, FS_Interval
<1> QED
  BY <1>1, <1>2, FS_Subset, FS_CardinalityType DEF Running

\* One job that does not run is taken away.
LEMMA RemoveIdle ==
  ASSUME NEW S, NEW jobs \in Seq(S), NEW m \in DOMAIN jobs \ Running(jobs)
  PROVE  /\ RemoveAt(jobs, m) \in Seq(S) /\ Len(RemoveAt(jobs, m)) = Len(jobs) - 1
         /\ Cardinality(Running(RemoveAt(jobs, m))) <= Cardinality(Running(jobs))
<1> DEFINE left == RemoveAt(jobs, m)
           f == [i \in Running(left) |-> IF i < m THEN i ELSE i + 1]
<1>1. DOMAIN jobs = 1..Len(jobs) /\ Len(jobs) \in Nat /\ m \in 1..Len(jobs)
  OBVIOUS
<1>2. left \in Seq(S) /\ Len(left) = Len(jobs) - 1
  BY <1>1 DEF RemoveAt
<1>3. ASSUME NEW i \in DOMAIN left
      PROVE  left[i] = jobs[IF i < m THEN i ELSE i + 1]
  <2>1. m - 1 \in 0..Len(jobs) /\ m + 1 \in 1..(Len(jobs) + 1)
    BY <1>1
  <2>2. /\ SubSeq(jobs, 1, m - 1) \in Seq(S) /\ Len(SubSeq(jobs, 1, m - 1)) = m - 1
        /\ SubSeq(jobs, m + 1, Len(jobs)) \in Seq(S)
        /\ Len(SubSeq(jobs, m + 1, Len(jobs))) = Len(jobs) - m
    BY <1>1, <2>1
  <2>3. i \in 1..(Len(jobs) - 1)
    BY <1>2, <1>3, <1>1
  <2>4. CASE i < m
    BY <1>1, <2>2, <2>3, <2>4 DEF RemoveAt
  <2>5. CASE ~(i < m)
    BY SMTT(30), <1>1, <2>2, <2>3, <2>5 DEF RemoveAt
  <2> QED
    BY <2>4, <2>5
<1> HIDE DEF left
<1>4. \A i \in Running(left) : i \in 1..Len(left) /\ f[i] \in Running(jobs)
  BY <1>1, <1>2, <1>3 DEF Running
<1>5. f \in Injection(Running(left), Running(jobs))
  BY <1>4 DEF Injection, IsInjective
<1>6. Cardinality(Running(left)) <= Cardinality(Running(jobs))
  BY <1>5, RunningFinite, FS_Injection
<1> QED
  BY <1>2, <1>6 DEF left

LEMMA ScheduleQueue ==
  ASSUME NEW v, {"jobs", "running"} \subseteq DOMAIN v, QueueOK(v)
  PROVE  QueueOK(sentinelScheduleScriptExecution(v))
<1> DEFINE job == [run |-> FALSE, retry |-> 0, wait |-> FALSE]
           jobs == Append(v.jobs, job)
           idle == {i \in DOMAIN jobs : ~jobs[i].run}
           w == sentinelScheduleScriptExecution(v)
<1>1. PICK S : v.jobs \in Seq(S)
  BY DEF QueueOK
<1>2. jobs \in Seq(S \cup {job}) /\ Len(jobs) = Len(v.jobs) + 1 /\ Len(v.jobs) \in Nat
  <2> HIDE DEF job
  <2>1. v.jobs \in Seq(S \cup {job})
    BY <1>1
  <2> QED
    BY <2>1
<1>3. ~job.run
  OBVIOUS
<1>4. Running(jobs) = Running(v.jobs) /\ Len(jobs) \in idle
  <2> HIDE DEF job
  <2> QED
    BY <1>1, <1>2, <1>3 DEF Running
<1>5. w.running = v.running /\ w.jobs = IF Len(jobs) > ScriptMaxQueue THEN RemoveAt(jobs, Min(idle)) ELSE jobs
  BY DEF sentinelScheduleScriptExecution
<1> HIDE DEF jobs, w, job
<1> SUFFICES QueueOK(w)
  BY DEF w
<1>6. Min(idle) \in DOMAIN jobs \ Running(jobs)
  <2>1. idle = DOMAIN jobs \ Running(jobs)
    BY DEF Running
  <2>2. idle \subseteq Nat /\ idle # {}
    BY <1>2, <1>4
  <2> HIDE DEF idle
  <2>3. \E x \in idle : \A y \in idle : x <= y
    BY <2>2, LeastNumber
  <2> QED
    BY <2>1, <2>3 DEF Min
<1> HIDE DEF idle
<1>7. ASSUME Len(jobs) > ScriptMaxQueue
      PROVE  QueueOK(w)
  <2>1. /\ RemoveAt(jobs, Min(idle)) \in Seq(S \cup {job}) /\ Len(RemoveAt(jobs, Min(idle))) = Len(jobs) - 1
        /\ Cardinality(Running(RemoveAt(jobs, Min(idle)))) <= Cardinality(Running(jobs))
    BY <1>2, <1>6, RemoveIdle
  <2>2. Cardinality(Running(RemoveAt(jobs, Min(idle)))) \in Nat /\ Cardinality(Running(jobs)) \in Nat
    BY <1>2, <2>1, RunningFinite
  <2>3. w.jobs = RemoveAt(jobs, Min(idle))
    BY <1>5, <1>7
  <2>4. Len(w.jobs) <= ScriptMaxQueue /\ Cardinality(Running(w.jobs)) <= w.running
    BY <1>2, <1>4, <1>5, <2>1, <2>2, <2>3, SentinelAssumption DEF QueueOK
  <2> QED
    BY <1>5, <2>1, <2>3, <2>4 DEF QueueOK
<1>8. ASSUME ~(Len(jobs) > ScriptMaxQueue)
      PROVE  QueueOK(w)
  BY <1>2, <1>4, <1>5, <1>8, SentinelAssumption DEF QueueOK
<1> QED
  BY <1>7, <1>8

\* Jobs are started: as many more as are allowed.
LEMMA StartQueue ==
  ASSUME NEW v, {"jobs", "running"} \subseteq DOMAIN v, QueueOK(v), NEW t
  PROVE  QueueOK(sentinelRunPendingScripts(v, t))
<1> DEFINE w == sentinelRunPendingScripts(v, t)
           ready == {i \in DOMAIN v.jobs : ~v.jobs[i].run /\ (v.jobs[i].wait => "retry" \in t.over)}
           n == ScriptMaxRunning - v.running
           start == FirstOf(ready, n)
           jobs == [i \in DOMAIN v.jobs |->
                      IF i \in start THEN [run |-> TRUE, retry |-> v.jobs[i].retry + 1, wait |-> FALSE]
                      ELSE v.jobs[i]]
<1>1. PICK S : v.jobs \in Seq(S)
  BY DEF QueueOK
<1>2. n \in Nat /\ v.running \in Nat /\ v.running + n = ScriptMaxRunning
  BY SentinelAssumption DEF QueueOK
<1>3. w.running = v.running + Cardinality(start) /\ w.jobs = jobs
  BY DEF sentinelRunPendingScripts, Started, FirstOf
<1>4. jobs \in Seq({jobs[i] : i \in DOMAIN jobs}) /\ Len(jobs) = Len(v.jobs)
  BY <1>1
<1>5. Running(jobs) \subseteq Running(v.jobs) \cup start /\ DOMAIN jobs = DOMAIN v.jobs
  BY DEF Running
<1> SUFFICES QueueOK(w)
  BY DEF w
<1> HIDE DEF n, jobs, w
<1>6. IsFiniteSet(start) /\ Cardinality(start) <= n /\ Cardinality(start) \in Nat
  <2>1. ready \subseteq Nat /\ IsFiniteSet(ready)
    BY <1>1, RunningFinite
  <2> HIDE DEF ready
  <2> QED
    BY <1>2, <2>1, FirstAreFew, FS_CardinalityType
<1> HIDE DEF start
<1>7. /\ IsFiniteSet(Running(v.jobs)) /\ Cardinality(Running(v.jobs)) \in Nat
      /\ Cardinality(Running(v.jobs)) <= v.running
  BY <1>1, RunningFinite DEF QueueOK
<1>8. Cardinality(Running(jobs)) <= v.running + Cardinality(start)
  <2> DEFINE R == Running(v.jobs)
  <2>1. /\ IsFiniteSet(R \cup start)
        /\ Cardinality(R \cup start) = Cardinality(R) + Cardinality(start) - Cardinality(R \cap start)
    BY <1>6, <1>7, FS_Union
  <2>2. Cardinality(R \cap start) \in Nat
    BY <1>6, FS_Subset, FS_CardinalityType
  <2>3. Cardinality(Running(jobs)) <= Cardinality(R \cup start) /\ Cardinality(Running(jobs)) \in Nat
    BY <1>5, <2>1, FS_Subset, FS_CardinalityType
  <2> HIDE DEF R
  <2> QED
    BY <1>2, <1>6, <1>7, <2>1, <2>2, <2>3 DEF R
<1>9. w.running \in 0..ScriptMaxRunning
  BY <1>2, <1>3, <1>6, SentinelAssumption
<1> QED
  BY <1>3, <1>4, <1>8, <1>9 DEF QueueOK

\* The jobs that ended are taken away, and none runs for now.
LEMMA CollectQueue ==
  ASSUME NEW v, {"jobs", "running"} \subseteq DOMAIN v, QueueOK(v), NEW t
  PROVE  QueueOK(sentinelCollectTerminatedScripts(v, t))
<1> DEFINE w == sentinelCollectTerminatedScripts(v, t)
           over(j) == j.run /\ ~(t.exit = "retry" /\ j.retry # ScriptMaxRetry)
           ended == {i \in DOMAIN v.jobs : over(v.jobs[i])}
           left  == DOMAIN v.jobs \ ended
           job(k) == v.jobs[CHOOSE i \in left : Cardinality({j \in left : j < i}) = k - 1]
           jobs == [k \in 1..Cardinality(left) |->
                      [run |-> FALSE, retry |-> job(k).retry, wait |-> job(k).run \/ job(k).wait]]
<1> SUFFICES ASSUME t.exit # "none" PROVE QueueOK(w)
  BY DEF sentinelCollectTerminatedScripts
<1>1. PICK S : v.jobs \in Seq(S)
  BY DEF QueueOK
<1>2. w.running = v.running - Cardinality(ended) /\ w.jobs = jobs
  BY DEF sentinelCollectTerminatedScripts
<1>3. ended \subseteq Running(v.jobs)
  BY DEF Running
<1>4. Cardinality(left) \in Nat /\ Cardinality(left) <= Len(v.jobs)
  <2>1. left \subseteq DOMAIN v.jobs /\ DOMAIN v.jobs = 1..Len(v.jobs) /\ Len(v.jobs) \in Nat
    BY <1>1
  <2> HIDE DEF left
  <2>2. IsFiniteSet(1..Len(v.jobs)) /\ Cardinality(1..Len(v.jobs)) = Len(v.jobs)
    BY <2>1, FS_Interval
  <2> QED
    BY <2>1, <2>2, FS_Subset, FS_CardinalityType
<1> HIDE DEF w, ended, left, job
<1>5. \A k \in DOMAIN jobs : ~jobs[k].run
  OBVIOUS
<1>6. jobs \in Seq({jobs[k] : k \in DOMAIN jobs}) /\ Len(jobs) = Cardinality(left)
  BY <1>4
<1> HIDE DEF jobs
<1>7. Running(jobs) = {} /\ Cardinality(Running(jobs)) = 0
  BY <1>5, FS_EmptySet DEF Running
<1>8. Cardinality(ended) \in Nat /\ Cardinality(ended) <= v.running /\ v.running \in 0..ScriptMaxRunning
  BY <1>1, <1>3, RunningFinite, FS_Subset, FS_CardinalityType, SentinelAssumption DEF QueueOK
<1>9. Len(jobs) <= ScriptMaxQueue
  BY <1>1, <1>4, <1>6, SentinelAssumption DEF QueueOK
<1> QED
  BY <1>2, <1>6, <1>7, <1>8, <1>9, SentinelAssumption DEF QueueOK
-----------------------------------------------------------------------------
(***************************************************************************)
(* What a Sentinel does, but for starting a failover, makes it no leader   *)
(* and no other Sentinel known to it, and keeps the limits of its scripts. *)
(***************************************************************************)
Tame(u, v) ==
  /\ Record(v, ViewFields)
  /\ v.boot = u.boot
  /\ v.sentinels \in {u.sentinels, <<>>}
  /\ Flag(v, "LEADER") => Flag(u, "LEADER")
  /\ QueueOK(u) => QueueOK(v)

\* The limits are about two fields.
LEMMA QueueSame ==
  ASSUME NEW v, NEW w, w.jobs = v.jobs, w.running = v.running
  PROVE  QueueOK(w) <=> QueueOK(v)
  BY DEF QueueOK

LEMMA TameSets ==
  ASSUME NEW u, NEW v, Tame(u, v), NEW x
  PROVE  /\ Tame(u, [v EXCEPT !.addr = x]) /\ Tame(u, [v EXCEPT !.runid = x])
         /\ Tame(u, [v EXCEPT !.state = x]) /\ Tame(u, [v EXCEPT !.promoted = x])
         /\ Tame(u, [v EXCEPT !.slaves = x]) /\ Tame(u, [v EXCEPT !.tilt = x])
         /\ Tame(u, [v EXCEPT !.out = x])
         /\ ("LEADER" \in x => Flag(v, "LEADER")) => Tame(u, [v EXCEPT !.flags = x])
  BY QueueSame DEF Tame, Record, ViewFields, Flag

\* The scripts change within their limits.
LEMMA TameScripts ==
  ASSUME NEW u, NEW v, Tame(u, v), NEW x, NEW y, NEW w, w = [v EXCEPT !.running = x, !.jobs = y],
         QueueOK(v) => QueueOK(w)
  PROVE  Tame(u, w)
  BY DEF Tame, Record, ViewFields, Flag

LEMMA ResetTame ==
  ASSUME NEW u, NEW v, Tame(u, v), NEW addr
  PROVE  Tame(u, sentinelResetMaster(v)) /\ Tame(u, sentinelResetMasterAndChangeAddress(v, addr))
<1>1. Tame(u, sentinelResetMaster(v))
  BY QueueSame DEF sentinelResetMaster, Tame, Record, ViewFields, Flag
<1> QED
  BY <1>1, TameSets DEF sentinelResetMasterAndChangeAddress

LEMMA HelpersTame ==
  ASSUME NEW u, NEW v, Tame(u, v), NEW a, NEW b
  PROVE  /\ Tame(u, State(v, a)) /\ Tame(u, Send(v, a, b))
         /\ Tame(u, sentinelCallClientReconfScript(v))
         /\ Tame(u, sentinelAddFlagsToDictOfRedisInstances(v, a))
         /\ Tame(u, sentinelDelFlagsToDictOfRedisInstances(v, a))
         /\ Tame(u, CheckSlaves(v, a))
<1>1. Tame(u, sentinelScheduleScriptExecution(v))
  <2>1. PICK y : sentinelScheduleScriptExecution(v) = [v EXCEPT !.jobs = y]
    BY Zenon DEF sentinelScheduleScriptExecution
  <2> DEFINE w == [v EXCEPT !.running = v.running]
  <2>2. w = v /\ [v EXCEPT !.running = v.running, !.jobs = y] = [w EXCEPT !.jobs = y]
    BY DEF Tame, Record, ViewFields
  <2> HIDE DEF w
  <2>3. sentinelScheduleScriptExecution(v) = [v EXCEPT !.running = v.running, !.jobs = y]
    BY <2>1, <2>2
  <2>4. QueueOK(v) => QueueOK(sentinelScheduleScriptExecution(v))
    BY ScheduleQueue DEF Tame, Record, ViewFields
  <2> QED
    BY <2>3, <2>4, TameScripts
<1> QED
  BY <1>1, TameSets DEF State, Send, sentinelCallClientReconfScript, CheckSlaves,
     sentinelAddFlagsToDictOfRedisInstances, sentinelDelFlagsToDictOfRedisInstances

LEMMA ScriptsTame ==
  ASSUME NEW u, NEW v, Tame(u, v), NEW t
  PROVE  /\ Tame(u, sentinelRunPendingScripts(v, t))
         /\ Tame(u, sentinelCollectTerminatedScripts(v, t))
<1>1. {"jobs", "running"} \subseteq DOMAIN v
  BY DEF Tame, Record, ViewFields
<1>2. Tame(u, sentinelRunPendingScripts(v, t))
  <2>1. PICK x, y : sentinelRunPendingScripts(v, t) = [v EXCEPT !.running = x, !.jobs = y]
    BY Zenon DEF sentinelRunPendingScripts, Started
  <2> QED
    BY <1>1, <2>1, StartQueue, TameScripts
<1>3. Tame(u, sentinelCollectTerminatedScripts(v, t))
  <2>1. PICK x, y : sentinelCollectTerminatedScripts(v, t)
                      \in {v, [v EXCEPT !.running = x, !.jobs = y]}
    BY Zenon DEF sentinelCollectTerminatedScripts
  <2> QED
    BY <1>1, <2>1, CollectQueue, TameScripts
<1> QED
  BY <1>2, <1>3

LEMMA PromoteTame ==
  ASSUME NEW u, NEW v, Tame(u, v), NEW n, NEW flags, NEW x
  PROVE  Tame(u, Promote(v, n, flags, x))
  BY TameSets DEF Promote

LEMMA AbortTame ==
  ASSUME NEW u, NEW v, Tame(u, v), NEW t
  PROVE  Tame(u, sentinelAbortFailover(v, t)) /\ Tame(u, sentinelAbortFailoverIfNeeded(v, t))
<1> DEFINE touched == {n \in DOMAIN v.slaves :
                         /\ Flag(v, "LEADER") /\ n \notin t.off
                         /\ v.slaves[n].flags
                              \cap {"PROMOTED", "RECONF_SENT", "RECONF_INPROG", "RECONF_DONE"} # {}}
           sent == Send(v, touched, v.addr)
           deled == sentinelDelFlagsToDictOfRedisInstances(sent, {"RECONF_SENT", "RECONF_INPROG", "RECONF_DONE"})
           F == deled.flags \ {"FAILOVER", "LEADER", "FORCE"}
           quiet == [deled EXCEPT !.flags = F]
           cleared == [deled EXCEPT !.flags = F, !.state = "none"]
           told == sentinelCallClientReconfScript(cleared)
           S == [told.slaves EXCEPT ![v.promoted].flags = @ \ {"PROMOTED"}]
           unmarked == [told EXCEPT !.slaves = S]
<1>1. Tame(u, sent)
  BY HelpersTame
<1>2. sentinelAbortFailover(v, t) = IF v.promoted = None THEN cleared
                                    ELSE [told EXCEPT !.slaves[v.promoted].flags = @ \ {"PROMOTED"},
                                                      !.promoted = None]
  BY Zenon DEF sentinelAbortFailover
<1>3. [told EXCEPT !.slaves[v.promoted].flags = @ \ {"PROMOTED"}, !.promoted = None]
        = [unmarked EXCEPT !.promoted = None]
  OBVIOUS
<1> HIDE DEF sent
<1>4. Tame(u, deled)
  BY <1>1, HelpersTame
<1> HIDE DEF deled, S
<1>5. Tame(u, quiet)
  BY <1>4, TameSets
<1>6. cleared = [quiet EXCEPT !.state = "none"]
  OBVIOUS
<1> HIDE DEF quiet
<1>7. Tame(u, cleared)
  BY <1>5, <1>6, TameSets
<1> HIDE DEF cleared
<1>8. Tame(u, told)
  BY <1>7, HelpersTame
<1> HIDE DEF told
<1>9. Tame(u, unmarked)
  BY <1>8, TameSets
<1> HIDE DEF unmarked
<1>10. Tame(u, [unmarked EXCEPT !.promoted = None])
  BY <1>9, TameSets
<1>11. Tame(u, sentinelAbortFailover(v, t))
  BY <1>2, <1>3, <1>7, <1>10
<1> QED
  BY <1>11 DEF sentinelAbortFailoverIfNeeded

LEMMA NextSlaveTame ==
  ASSUME NEW u, NEW v, Tame(u, v), NEW t
  PROVE  Tame(u, ReconfNext(v, t)) /\ Tame(u, LastSlaveOf(v, t))
<1>1. ASSUME NEW ns, NEW x
      PROVE  Tame(u, [Send(v, ns, v.promoted) EXCEPT !.slaves = x])
  <2> DEFINE sent == Send(v, ns, v.promoted)
  <2>1. Tame(u, sent)
    BY HelpersTame
  <2> HIDE DEF sent
  <2>2. Tame(u, [sent EXCEPT !.slaves = x])
    BY <2>1, TameSets
  <2> QED
    BY <2>2 DEF sent
<1>2. \E ns, x : ReconfNext(v, t) = [Send(v, ns, v.promoted) EXCEPT !.slaves = x]
  BY Zenon DEF ReconfNext
<1>3. \E ns, x : LastSlaveOf(v, t) = [Send(v, ns, v.promoted) EXCEPT !.slaves = x]
  BY Zenon DEF LastSlaveOf
<1> QED
  BY <1>1, <1>2, <1>3

LEMMA DetectEndTame ==
  ASSUME NEW u, NEW v, Tame(u, v), NEW t
  PROVE  Tame(u, sentinelFailoverDetectEnd(v, t))
<1> DEFINE end == sentinelCallClientReconfScript(State(v, "update_config"))
<1>1. sentinelFailoverDetectEnd(v, t) \in {v, end, LastSlaveOf(end, t)}
  BY Zenon DEF sentinelFailoverDetectEnd
<1>2. Tame(u, State(v, "update_config"))
  BY HelpersTame
<1>3. Tame(u, end)
  BY <1>2, HelpersTame
<1> HIDE DEF end
<1> QED
  BY <1>1, <1>3, NextSlaveTame

LEMMA StateMachineTame ==
  ASSUME NEW u, NEW v, Tame(u, v), NEW t
  PROVE  Tame(u, sentinelFailoverStateMachine(v, t))
<1>1. Tame(u, sentinelFailoverWaitStart(v, t))
  BY AbortTame, HelpersTame DEF sentinelFailoverWaitStart
<1>2. Tame(u, sentinelFailoverSelectSlave(v, t))
  <2> DEFINE n == sentinelSelectSlave(v, t)
             a == State(v, "send_slaveof_noone")
             F == a.slaves[n].flags \cup {"PROMOTED"}
  <2>1. n # None => sentinelFailoverSelectSlave(v, t) = Promote(a, n, F, n)
    BY DEF Promote, sentinelFailoverSelectSlave
  <2>2. n = None => sentinelFailoverSelectSlave(v, t) = sentinelAbortFailover(v, t)
    BY DEF sentinelFailoverSelectSlave
  <2>3. Tame(u, a)
    BY HelpersTame
  <2> HIDE DEF a, n, F
  <2>4. Tame(u, Promote(a, n, F, n))
    BY <2>3, PromoteTame
  <2> QED
    BY <2>1, <2>2, <2>4, AbortTame
<1>3. Tame(u, sentinelFailoverSendSlaveOfNoOne(v, t))
  <2>1. Tame(u, Send(v, {v.promoted}, None))
    BY HelpersTame
  <2> QED
    BY <2>1, HelpersTame DEF sentinelFailoverSendSlaveOfNoOne
<1>4. Tame(u, sentinelFailoverWaitPromotion(v, t))
  <2> DEFINE a == State(v, "select_slave")
             F == a.slaves[v.promoted].flags \ {"PROMOTED"}
  <2>1. "promotion" \in t.over =>
          sentinelFailoverWaitPromotion(v, t) = Promote(a, v.promoted, F, None)
    BY DEF Promote, sentinelFailoverWaitPromotion
  <2>2. "promotion" \notin t.over => sentinelFailoverWaitPromotion(v, t) = v
    BY DEF sentinelFailoverWaitPromotion
  <2>3. Tame(u, a)
    BY HelpersTame
  <2> HIDE DEF a, F
  <2>4. Tame(u, Promote(a, v.promoted, F, None))
    BY <2>3, PromoteTame
  <2> QED
    BY <2>1, <2>2, <2>4
<1>5. Tame(u, sentinelFailoverReconfNextSlave(v, t))
  BY NextSlaveTame, DetectEndTame DEF sentinelFailoverReconfNextSlave
<1> QED
  BY <1>1, <1>2, <1>3, <1>4, <1>5, DetectEndTame DEF sentinelFailoverStateMachine

-----------------------------------------------------------------------------
(***************************************************************************)
(* Votes.  Where no Sentinel starts again, those that are known to a       *)
(* Sentinel are others that run, by the runids they have; and the first of *)
(* those that can perform a failover votes for itself or for nobody.       *)
(***************************************************************************)
First(m) == m \in Live \cap Conf.can /\ \A o \in Live \cap Conf.can : m <= o

KnownOK(s, v) ==
  /\ v.boot = 0
  /\ DOMAIN v.sentinels \subseteq Live \ {s}
  /\ \A o \in DOMAIN v.sentinels :
       /\ {"runid", "down", "leader", "can"} \subseteq DOMAIN v.sentinels[o]
       /\ v.sentinels[o].runid = RunId(o, 0)
       /\ v.sentinels[o].can <=> o \in Conf.can
       /\ First(o) => v.sentinels[o].leader \in {None, Unknown, RunId(o, 0)}

LEMMA LiveFacts ==
  ASSUME family \in DOMAIN Families
  PROVE  /\ Live \subseteq Nat \ {0} /\ IsFiniteSet(Live)
         /\ Live \subseteq Sentinels
         /\ \A o \in Live : RunId(o, 0) = o /\ o \notin {None, Unknown}
<1>1. Live \subseteq 1..MaxSentinels /\ MaxSentinels \in Nat
  BY SentinelAssumption DEF Live, Conf
<1>2. IsFiniteSet(1..MaxSentinels)
  BY <1>1, FS_Interval
<1>3. IsFiniteSet(Live)
  BY <1>1, <1>2, FS_Subset
<1>4. \A o \in Live : RunId(o, 0) = o /\ o \notin {None, Unknown}
  BY <1>1 DEF RunId, None, Unknown
<1> QED
  BY <1>1, <1>3, <1>4 DEF Sentinels

LEMMA FirstExists ==
  ASSUME family \in DOMAIN Families, Live \cap Conf.can # {}
  PROVE  \E m \in Live : First(m)
<1> DEFINE S == Live \cap Conf.can
<1>1. S \subseteq Nat
  BY LiveFacts
<1>2. \E x \in S : \A y \in S : x <= y
  BY <1>1, LeastNumber
<1> QED
  BY <1>2 DEF First

LEMMA FirstChoice ==
  ASSUME family \in DOMAIN Families, NEW s \in Live, NEW v, KnownOK(s, v), First(s), NEW quiet
  PROVE  sentinelGetSubjectiveLeader(s, v, quiet) = RunId(s, 0)
<1> DEFINE others == {v.sentinels[o].runid : o \in {p \in DOMAIN v.sentinels \ quiet : v.sentinels[p].can}}
           able == {RunId(s, v.boot)} \cup others
<1>1. s \in Conf.can /\ v.boot = 0 /\ RunId(s, 0) = s
  BY LiveFacts DEF First, KnownOK
<1>2. \A id \in others : id \in Live \cap Conf.can
  BY LiveFacts DEF KnownOK
<1>3. sentinelGetSubjectiveLeader(s, v, quiet) = Min(able)
  BY <1>1 DEF sentinelGetSubjectiveLeader
<1> HIDE DEF others
<1>4. s \in able /\ \A id \in able : id \in Nat /\ s <= id
  BY <1>1, <1>2, LiveFacts DEF First
<1> HIDE DEF able
<1>5. \A x \in able : (\A y \in able : x <= y) => x = s
  BY <1>4
<1>6. (CHOOSE x \in able : \A y \in able : x <= y) = s
  BY <1>4, <1>5
<1> QED
  BY <1>1, <1>3, <1>6 DEF Min

\* With a quorum of all that run, the first alone is ever elected.
LEMMA Elected ==
  ASSUME family \in DOMAIN Families, Conf.quorum >= Cardinality(Live),
         NEW s \in Live \cap Conf.can, NEW v, KnownOK(s, v), NEW quiet,
         sentinelGetObjectiveLeader(s, v, quiet) = RunId(s, v.boot)
  PROVE  First(s)
<1>1. PICK m \in Live : First(m)
  BY FirstExists
<1> SUFFICES ASSUME s # m PROVE FALSE
  BY <1>1
<1> DEFINE votes == Votes(s, v, quiet)
           B == {b \in votes : b[2] = s}
           f == [b \in B |-> b[1]]
<1>2. RunId(s, v.boot) = s /\ s # None
  BY LiveFacts DEF KnownOK
<1>3. Cardinality(B) >= Conf.quorum
  <2> DEFINE count(id) == Cardinality({b \in votes : b[2] = id})
             wins == {id \in {b[2] : b \in votes} :
                        count(id) >= Cardinality(votes) \div 2 + 1 /\ count(id) >= Conf.quorum}
  <2>1. sentinelGetObjectiveLeader(s, v, quiet) = IF wins = {} THEN None ELSE CHOOSE id \in wins : TRUE
    BY DEF sentinelGetObjectiveLeader
  <2>2. \A id \in wins : count(id) >= Conf.quorum
    OBVIOUS
  <2> HIDE DEF wins, count
  <2>3. s \in wins
    BY <1>2, <2>1
  <2> QED
    BY <2>2, <2>3 DEF count
<1>4. \A b \in B : b = <<b[1], s>> /\ b[1] \in Live \ {m}
  <2> SUFFICES ASSUME NEW b \in B PROVE b = <<b[1], s>> /\ b[1] \in Live \ {m}
    OBVIOUS
  <2>1. b[2] = s /\ b \in votes
    OBVIOUS
  <2>2. \/ \E x : b = <<s, x>>
        \/ \E o \in DOMAIN v.sentinels : b = <<o, v.sentinels[o].leader>> /\ v.sentinels[o].leader # None
    BY <2>1 DEF Votes
  <2>3. \A o \in DOMAIN v.sentinels : o \in Live /\ (o = m => v.sentinels[o].leader \in {None, Unknown, m})
    BY <1>1, LiveFacts DEF KnownOK
  <2>4. s # Unknown
    BY LiveFacts
  <2> HIDE DEF B, votes
  <2> QED
    BY <2>1, <2>2, <2>3, <2>4
<1> HIDE DEF B, votes
<1>5. f \in Injection(B, Live \ {m})
  BY <1>4 DEF Injection, IsInjective
<1>6. /\ IsFiniteSet(Live) /\ IsFiniteSet(Live \ {m})
      /\ Cardinality(Live \ {m}) = Cardinality(Live) - 1 /\ Cardinality(Live) \in Nat
  BY LiveFacts, FS_RemoveElement, FS_CardinalityType
<1>7. Cardinality(B) <= Cardinality(Live \ {m}) /\ IsFiniteSet(B)
  BY <1>5, <1>6, FS_Injection
<1>8. Cardinality(B) \in Nat /\ Conf.quorum \in Nat
  BY <1>7, FS_CardinalityType, SentinelAssumption DEF Conf
<1> QED
  BY <1>3, <1>6, <1>7, <1>8

-----------------------------------------------------------------------------
(***************************************************************************)
(* A step of a Sentinel leads only if it is the first of those that can.   *)
(***************************************************************************)
Obeys(s, v) == Record(v, ViewFields) /\ KnownOK(s, v) /\ (Flag(v, "LEADER") => First(s))

QuorumOfAll == family \in DOMAIN Families /\ Conf.quorum >= Cardinality(Live)

LEMMA TameObeys ==
  ASSUME NEW s, NEW u, Obeys(s, u), NEW v, Tame(u, v)
  PROVE  Obeys(s, v)
<1>1. DOMAIN <<>> = {}
  OBVIOUS
<1> QED
  BY <1>1 DEF Obeys, Tame, KnownOK

LEMMA ObeysTame ==
  ASSUME NEW s, NEW v, Obeys(s, v)
  PROVE  Tame(v, v)
  BY DEF Obeys, Tame

LEMMA StartObeys ==
  ASSUME QuorumOfAll, NEW s \in Live, NEW v, Obeys(s, v), NEW t
  PROVE  Obeys(s, sentinelStartFailoverIfNeeded(s, v, t))
<1> DEFINE r == sentinelStartFailoverIfNeeded(s, v, t)
<1>1. CASE r = v
  BY <1>1
<1>2. CASE First(s)
  <2>1. ASSUME NEW st PROVE Obeys(s, sentinelStartFailover(v, st))
    <3> DEFINE a == State(v, st)
               F == a.flags \cup {"FAILOVER", "LEADER"}
    <3>1. Obeys(s, a)
      BY ObeysTame, HelpersTame, TameObeys
    <3>2. sentinelStartFailover(v, st) = [a EXCEPT !.flags = F]
      BY DEF sentinelStartFailover
    <3> HIDE DEF a, F
    <3> QED
      BY <1>2, <3>1, <3>2 DEF Obeys, KnownOK, Record, ViewFields
  <2>2. \A st : Obeys(s, sentinelDelFlagsToDictOfRedisInstances(sentinelStartFailover(v, st), {"RECONF_SENT"}))
    BY <2>1, ObeysTame, HelpersTame, TameObeys
  <2> QED
    BY <2>1, <2>2, <1>1 DEF sentinelStartFailoverIfNeeded
<1>3. r # v => s \in Conf.can /\ sentinelGetObjectiveLeader(s, v, t.quiet) = RunId(s, v.boot)
  BY DEF sentinelStartFailoverIfNeeded
<1> QED
  BY <1>1, <1>2, <1>3, Elected DEF QuorumOfAll, Obeys

LEMMA MarkObeys ==
  ASSUME NEW s, NEW v, Obeys(s, v), NEW t
  PROVE  /\ Obeys(s, sentinelCheckObjectivelyDown(sentinelCheckSubjectivelyDown(v, t)))
         /\ Obeys(s, sentinelAskMasterStateToOtherSentinels(v, t))
<1>1. Tame(v, sentinelCheckSubjectivelyDown(v, t))
  <2> DEFINE F == Marked(v.flags, v.addr \in t.down)
  <2>1. sentinelCheckSubjectivelyDown(v, t) = [v EXCEPT !.flags = F]
    BY DEF sentinelCheckSubjectivelyDown
  <2>2. "LEADER" \in F => Flag(v, "LEADER")
    BY DEF Marked, Flag
  <2>3. Tame(v, v)
    BY ObeysTame
  <2> HIDE DEF F
  <2>4. Tame(v, [v EXCEPT !.flags = F])
    BY <2>2, <2>3, TameSets
  <2> QED
    BY <2>1, <2>4
<1>2. ASSUME NEW w, Tame(v, w) PROVE Tame(v, sentinelCheckObjectivelyDown(w))
  BY <1>2, TameSets DEF sentinelCheckObjectivelyDown, Flag
<1>3. Obeys(s, sentinelAskMasterStateToOtherSentinels(v, t))
  <2> DEFINE T == [o \in DOMAIN v.sentinels |->
                     IF o \in t.old THEN [v.sentinels[o] EXCEPT !.down = FALSE, !.leader = None]
                     ELSE v.sentinels[o]]
             w == [v EXCEPT !.sentinels = T]
  <2>1. sentinelAskMasterStateToOtherSentinels(v, t) = w
    BY DEF sentinelAskMasterStateToOtherSentinels
  <2>2. /\ Record(w, ViewFields) /\ w.boot = v.boot /\ w.flags = v.flags /\ w.sentinels = T
    BY DEF Obeys, Record, ViewFields
  <2> HIDE DEF w
  <2>3. DOMAIN T = DOMAIN v.sentinels
    OBVIOUS
  <2>4. ASSUME NEW o \in DOMAIN v.sentinels
        PROVE  /\ {"runid", "down", "leader", "can"} \subseteq DOMAIN T[o]
               /\ T[o].runid = v.sentinels[o].runid /\ T[o].can = v.sentinels[o].can
               /\ T[o].leader \in {None, v.sentinels[o].leader}
    BY DEF Obeys, KnownOK
  <2> HIDE DEF T
  <2> QED
    BY <2>1, <2>2, <2>3, <2>4 DEF Obeys, KnownOK, Flag
<1> QED
  BY <1>1, <1>2, <1>3, TameObeys

LEMMA HandleObeys ==
  ASSUME QuorumOfAll, NEW s \in Live, NEW v, Obeys(s, v), NEW t
  PROVE  Obeys(s, sentinelHandleRedisInstance(s, v, t))
<1>0. ASSUME NEW y
      PROVE  (CHOOSE z \in {y} : TRUE) = y
  OBVIOUS
<1> DEFINE Abort(v1)  == sentinelAbortFailoverIfNeeded(v1, t)
           Move(v1)   == after(Abort, sentinelFailoverStateMachine(v1, t))
           Start(v1)  == after(Move, sentinelStartFailoverIfNeeded(s, v1, t))
           Mark(v1)   == after(Start, sentinelCheckObjectivelyDown(sentinelCheckSubjectivelyDown(v1, t)))
           Slaves(v1) == sentinelFailoverSwitchToPromotedSlave(CheckSlaves(v1, t))
           Decide(v1) == after(Slaves, Mark(v1))
           asked      == sentinelAskMasterStateToOtherSentinels(v, t)
<1>1. Obeys(s, asked)
  BY MarkObeys
<1>2. ASSUME NEW w, Obeys(s, w)
      PROVE  Obeys(s, Move(w))
  <2> DEFINE x == sentinelFailoverStateMachine(w, t)
  <2>1. Tame(w, x)
    BY <1>2, ObeysTame, StateMachineTame
  <2>2. Move(w) = Abort(x)
    BY <1>0 DEF after
  <2> QED
    BY <1>2, <2>1, <2>2, AbortTame, TameObeys
<1> HIDE DEF Move
<1>3. ASSUME NEW w, Obeys(s, w)
      PROVE  Obeys(s, Start(w))
  <2> DEFINE x == sentinelStartFailoverIfNeeded(s, w, t)
  <2>1. Obeys(s, x)
    BY <1>3, StartObeys
  <2>2. Start(w) = Move(x)
    BY <1>0 DEF after
  <2> QED
    BY <1>2, <2>1, <2>2
<1> HIDE DEF Start
<1>4. ASSUME NEW w, Obeys(s, w)
      PROVE  Obeys(s, Mark(w))
  <2> DEFINE x == sentinelCheckObjectivelyDown(sentinelCheckSubjectivelyDown(w, t))
  <2>1. Obeys(s, x)
    BY <1>4, MarkObeys
  <2>2. Mark(w) = Start(x)
    BY <1>0 DEF after
  <2> QED
    BY <1>3, <2>1, <2>2
<1> HIDE DEF Mark
<1>5. ASSUME NEW w, Obeys(s, w)
      PROVE  Obeys(s, Decide(w))
  <2> DEFINE x == CheckSlaves(Mark(w), t)
  <2>1. Tame(Mark(w), x)
    BY <1>4, <1>5, ObeysTame, HelpersTame
  <2> HIDE DEF x
  <2>2. Tame(Mark(w), sentinelFailoverSwitchToPromotedSlave(x))
    BY <2>1, ResetTame DEF sentinelFailoverSwitchToPromotedSlave
  <2>3. Decide(w) = Slaves(Mark(w))
    BY <1>0 DEF after
  <2> QED
    BY <1>4, <1>5, <2>2, <2>3, TameObeys DEF x
<1> HIDE DEF Decide
<1>6. sentinelHandleRedisInstance(s, v, t) = IF v.tilt THEN asked ELSE Decide(asked)
  BY <1>0 DEF sentinelHandleRedisInstance, after, Decide, Mark, Start, Move
<1> QED
  BY <1>1, <1>5, <1>6

LEMMA InfoTame ==
  ASSUME NEW u, NEW v, Tame(u, v), NEW n, NEW t
  PROVE  Tame(u, sentinelRefreshInstanceInfo(v, n, t))
<1>1. Tame(u, MasterInfo(v, n))
  <2> DEFINE id == RunId(n, node[n].boot)
             found == {m \in Nodes : node[m].up /\ node[m].of = n /\ node[m].link} \ DOMAIN v.slaves
             S == [m \in DOMAIN v.slaves \cup found |->
                     IF m \in found THEN createInstance ELSE v.slaves[m]]
             a == [v EXCEPT !.runid = id]
             b == [a EXCEPT !.slaves = S]
  <2>1. MasterInfo(v, n) \in {b, sentinelResetMasterAndChangeAddress(b, node[n].of)}
    BY DEF MasterInfo
  <2>2. Tame(u, a)
    BY TameSets
  <2> HIDE DEF a, S
  <2>3. Tame(u, b)
    BY <2>2, TameSets
  <2> HIDE DEF b
  <2> QED
    BY <2>1, <2>3, ResetTame
<1>2. ASSUME NEW w, Tame(u, w) PROVE Tame(u, Reconfigured(w, n))
  <2>1. PICK x : Reconfigured(w, n) = [w EXCEPT !.slaves = x]
    BY DEF Reconfigured
  <2>2. Tame(u, [w EXCEPT !.slaves = x])
    BY <1>2, TameSets
  <2> QED
    BY <2>1, <2>2
<1>3. ASSUME NEW w, Tame(u, w), NEW new PROVE Tame(u, TurnedMaster(w, n, new, t))
  <2> DEFINE forgotten == [w EXCEPT !.slaves = [m \in DOMAIN w.slaves \ {n} |-> w.slaves[m]]]
             promoted == sentinelCallClientReconfScript(State(w, "reconf_slaves"))
             a == IF Flag(w, "FAILOVER") THEN sentinelAbortFailover(w, t) ELSE w
             b == State(a, "detect_end")
             F == b.flags \cup {"FAILOVER"}
             c == [b EXCEPT !.flags = F]
             G == c.slaves[n].flags \cup {"PROMOTED"}
             d == Promote(c, n, G, n)
             e == sentinelCallClientReconfScript(d)
             f == sentinelAddFlagsToDictOfRedisInstances(e, "RECONF_SENT")
  <2>1. d = [State(a, "detect_end") EXCEPT
               !.flags = @ \cup {"FAILOVER"}, !.slaves[n].flags = @ \cup {"PROMOTED"}, !.promoted = n]
    BY DEF Promote
  <2>2. TurnedMaster(w, n, new, t) \in {forgotten, promoted, w, f}
    BY <2>1, Zenon DEF TurnedMaster
  <2>3. Tame(u, forgotten)
    BY <1>3, TameSets
  <2>4. Tame(u, State(w, "reconf_slaves"))
    BY <1>3, HelpersTame
  <2>5. Tame(u, promoted)
    BY <2>4, HelpersTame
  <2>6. Tame(u, a)
    BY <1>3, AbortTame
  <2> HIDE DEF forgotten, promoted, a
  <2>7. Tame(u, b)
    BY <2>6, HelpersTame
  <2> HIDE DEF b
  <2>8. "LEADER" \in F => Flag(b, "LEADER")
    BY DEF Flag
  <2>9. Tame(u, c)
    BY <2>7, <2>8, TameSets
  <2> HIDE DEF c, G
  <2>10. Tame(u, d)
    BY <2>9, PromoteTame
  <2> HIDE DEF d
  <2>11. Tame(u, e)
    BY <2>10, HelpersTame
  <2> HIDE DEF e
  <2>12. Tame(u, f)
    BY <2>11, HelpersTame
  <2> HIDE DEF f
  <2> QED
    BY <1>3, <2>2, <2>3, <2>5, <2>12
<1>4. Tame(u, SlaveInfo(v, n, t))
  <2>1. PICK new, x : SlaveInfo(v, n, t) \in {[v EXCEPT !.slaves = x],
                                             TurnedMaster([v EXCEPT !.slaves = x], n, new, t),
                                             Reconfigured([v EXCEPT !.slaves = x], n)}
    <3> DEFINE new == v.slaves[n].runid # RunId(n, node[n].boot)
               x == [v.slaves EXCEPT ![n].runid = RunId(n, node[n].boot)]
               y == [x EXCEPT ![n].of = node[n].of]
               z == [y EXCEPT ![n].link = node[n].link]
               a == [v EXCEPT !.slaves[n].runid = RunId(n, node[n].boot)]
               b == [v EXCEPT !.slaves[n].runid = RunId(n, node[n].boot),
                              !.slaves[n].of = node[n].of, !.slaves[n].link = node[n].link]
    <3>1. a = [v EXCEPT !.slaves = x]
      OBVIOUS
    <3>2. b = [v EXCEPT !.slaves = z]
      BY DEF Tame, Record, ViewFields
    <3>3. SlaveInfo(v, n, t) \in {a, b, TurnedMaster(a, n, new, t), Reconfigured(b, n)}
      BY Zenon DEF SlaveInfo
    <3> HIDE DEF a, b, new, x, z
    <3> QED
      BY <3>1, <3>2, <3>3
  <2>2. Tame(u, [v EXCEPT !.slaves = x])
    BY TameSets
  <2> QED
    BY <1>2, <1>3, <2>1, <2>2
<1> QED
  BY <1>1, <1>4 DEF sentinelRefreshInstanceInfo

-----------------------------------------------------------------------------
(***************************************************************************)
(* The Sentinels of the family whose detection makes no mistake.           *)
(***************************************************************************)
Reliable(f) ==
  /\ f.faults \cap {"sentinel", "force"} = {}
  /\ f.quorum >= Cardinality(f.sentinels)

ReliableInv ==
  family = "reliable" => QuorumOfAll /\ \A s \in Live : Obeys(s, view[s])

LEMMA CommitObeys ==
  ASSUME IInv, ReliableInv, NEW s \in Sentinels, NEW v, Commit(s, v),
         family = "reliable" /\ s \in Live => Obeys(s, v)
  PROVE  ReliableInv'
<1> SUFFICES ASSUME family' = "reliable" PROVE ReliableInv'
  BY DEF ReliableInv
<1> DEFINE w == [v EXCEPT !.out = <<>>]
<1>1. family' = family /\ view' = [view EXCEPT ![s] = w] /\ Live' = Live
  BY DEF Commit, Live, Conf
<1>2. s \in Live => Obeys(s, w)
  BY <1>1, ObeysTame, TameSets, TameObeys
<1> HIDE DEF w
<1>3. QuorumOfAll /\ \A o \in Live : Obeys(o, view[o])
  BY <1>1 DEF ReliableInv
<1>4. \A o \in Live : Obeys(o, view'[o])
  BY <1>1, <1>2, <1>3, LiveFacts DEF IInv, Record, QuorumOfAll
<1>5. \A o, x : Obeys(o, x) => Obeys(o, x)'
  BY <1>1 DEF Obeys, KnownOK, First, Conf, Live
<1> QED
  BY <1>1, <1>3, <1>4, <1>5 DEF ReliableInv, QuorumOfAll, Conf

LEMMA TimerObeys ==
  ASSUME IInv, ReliableInv, NEW s \in Sentinels, sentinelTimer(s)
  PROVE  ReliableInv'
<1>1. ASSUME NEW u, NEW v, Tame(u, v), NEW t
      PROVE  Tame(u, sentinelRunPendingScripts(v, t))
  BY <1>1, ScriptsTame
<1>2. ASSUME NEW u, NEW v, Tame(u, v), NEW t
      PROVE  Tame(u, sentinelCollectTerminatedScripts(v, t))
  BY <1>2, ScriptsTame
<1>3. PICK t \in Times :
        Commit(s, sentinelCollectTerminatedScripts(sentinelRunPendingScripts(
                    sentinelHandleRedisInstance(s, sentinelCheckTiltCondition(view[s], t), t), t), t))
  BY DEF sentinelTimer
<1> DEFINE a == sentinelCheckTiltCondition(view[s], t)
           b == sentinelHandleRedisInstance(s, a, t)
           c == sentinelRunPendingScripts(b, t)
           d == sentinelCollectTerminatedScripts(c, t)
<1>4. ASSUME family = "reliable", s \in Live
      PROVE  Obeys(s, d)
  <2>1. QuorumOfAll /\ Obeys(s, view[s])
    BY <1>4 DEF ReliableInv
  <2>2. Obeys(s, a)
    <3> DEFINE x == t.odd \/ (view[s].tilt /\ "tilt" \notin t.over)
    <3>1. a = [view[s] EXCEPT !.tilt = x]
      BY Zenon DEF sentinelCheckTiltCondition
    <3> HIDE DEF a, x
    <3>2. Tame(view[s], [view[s] EXCEPT !.tilt = x])
      BY <2>1, ObeysTame, TameSets
    <3> QED
      BY <2>1, <3>1, <3>2, TameObeys
  <2> HIDE DEF a
  <2>3. Obeys(s, b)
    BY <1>4, <2>1, <2>2, HandleObeys
  <2> HIDE DEF b
  <2>4. Tame(b, c)
    BY <1>1, <2>3, ObeysTame
  <2> HIDE DEF c
  <2>5. Tame(b, d)
    BY <1>2, <2>4
  <2> QED
    BY <2>3, <2>5, TameObeys
<1>5. Commit(s, d)
  BY <1>3
<1> HIDE DEF d
<1> QED
  BY <1>4, <1>5, CommitObeys

LEMMA InfoObeys ==
  ASSUME IInv, ReliableInv, NEW s \in Sentinels, NEW n \in Nodes, sentinelInfoReplyCallback(s, n)
  PROVE  ReliableInv'
<1>1. PICK t \in Times : Commit(s, sentinelRefreshInstanceInfo(view[s], n, t))
  BY DEF sentinelInfoReplyCallback
<1>2. ASSUME family = "reliable", s \in Live
      PROVE  Obeys(s, sentinelRefreshInstanceInfo(view[s], n, t))
  BY <1>2, ObeysTame, InfoTame, TameObeys DEF ReliableInv
<1> QED
  BY <1>1, <1>2, CommitObeys

\* What a Sentinel knows of one other changes.
LEMMA KnowsObeys ==
  ASSUME NEW s, NEW v, Obeys(s, v), NEW T, DOMAIN T \subseteq Live \ {s},
         \A o \in DOMAIN T :
           /\ {"runid", "down", "leader", "can"} \subseteq DOMAIN T[o]
           /\ T[o].runid = RunId(o, 0)
           /\ T[o].can <=> o \in Conf.can
           /\ First(o) => T[o].leader \in {None, Unknown, RunId(o, 0)}
  PROVE  Obeys(s, [v EXCEPT !.sentinels = T])
<1> DEFINE w == [v EXCEPT !.sentinels = T]
<1>1. Record(w, ViewFields) /\ w.boot = v.boot /\ w.flags = v.flags /\ w.sentinels = T
  BY DEF Obeys, Record, ViewFields
<1> HIDE DEF w
<1>2. Obeys(s, w)
  BY <1>1 DEF Obeys, KnownOK, Flag
<1> QED
  BY <1>2 DEF w

LEMMA HelloObeys ==
  ASSUME IInv, ReliableInv, NEW s \in Sentinels, NEW o \in Sentinels, sentinelReceiveHelloMessages(s, o)
  PROVE  ReliableInv'
<1> DEFINE new == createSentinel(RunId(o, view[o].boot), o \in Conf.can)
           T == [p \in DOMAIN view[s].sentinels \cup {o} |-> IF p = o THEN new ELSE view[s].sentinels[p]]
<1>1. Commit(s, [view[s] EXCEPT !.sentinels = T]) /\ s \in Live /\ o \in Live /\ s # o
  BY DEF sentinelReceiveHelloMessages
<1>2. ASSUME family = "reliable"
      PROVE  Obeys(s, [view[s] EXCEPT !.sentinels = T])
  <2>1. Obeys(s, view[s]) /\ view[o].boot = 0
    BY <1>1, <1>2 DEF ReliableInv, Obeys, KnownOK
  <2>2. /\ {"runid", "down", "leader", "can"} \subseteq DOMAIN new
        /\ new.runid = RunId(o, 0) /\ (new.can <=> o \in Conf.can) /\ new.leader = None
    BY <2>1 DEF createSentinel
  <2> HIDE DEF new
  <2>3. DOMAIN T \subseteq Live \ {s}
    BY <1>1, <2>1 DEF Obeys, KnownOK
  <2>4. ASSUME NEW p \in DOMAIN T
        PROVE  /\ {"runid", "down", "leader", "can"} \subseteq DOMAIN T[p]
               /\ T[p].runid = RunId(p, 0)
               /\ T[p].can <=> p \in Conf.can
               /\ First(p) => T[p].leader \in {None, Unknown, RunId(p, 0)}
    BY <2>1, <2>2 DEF Obeys, KnownOK
  <2> HIDE DEF T
  <2> QED
    BY <2>1, <2>3, <2>4, KnowsObeys
<1> HIDE DEF T
<1> QED
  BY <1>1, <1>2, CommitObeys

LEMMA ReplyObeys ==
  ASSUME IInv, ReliableInv, NEW s \in Sentinels, NEW o \in Sentinels, NEW quiet,
         sentinelReceiveIsMasterDownReply(s, o, quiet)
  PROVE  ReliableInv'
<1> DEFINE voted == IF view[o].addr = view[s].addr
                    THEN sentinelGetSubjectiveLeader(o, view[o], quiet) ELSE None
           b == IF voted = None THEN Unknown ELSE voted
<1>1. PICK a : Commit(s, [view[s] EXCEPT !.sentinels[o].down = a, !.sentinels[o].leader = b])
  BY Zenon DEF sentinelReceiveIsMasterDownReply
<1> DEFINE T == [view[s].sentinels EXCEPT ![o].down = a, ![o].leader = b]
<1>2. [view[s] EXCEPT !.sentinels[o].down = a, !.sentinels[o].leader = b]
        = [view[s] EXCEPT !.sentinels = T]
  OBVIOUS
<1>3. ASSUME family = "reliable", s \in Live
      PROVE  Obeys(s, [view[s] EXCEPT !.sentinels = T])
  <2>1. Obeys(s, view[s]) /\ o \in DOMAIN view[s].sentinels
    BY <1>3 DEF ReliableInv, sentinelReceiveIsMasterDownReply
  <2>2. o \in Live /\ Obeys(o, view[o]) /\ family \in DOMAIN Families
    BY <1>3, <2>1 DEF Obeys, KnownOK, ReliableInv, QuorumOfAll
  <2>3. First(o) => b \in {Unknown, RunId(o, 0)}
    BY <2>2, FirstChoice DEF Obeys
  <2> HIDE DEF b
  <2>4. DOMAIN T = DOMAIN view[s].sentinels
    OBVIOUS
  <2>5. ASSUME NEW p \in DOMAIN T
        PROVE  /\ {"runid", "down", "leader", "can"} \subseteq DOMAIN T[p]
               /\ T[p].runid = RunId(p, 0)
               /\ T[p].can <=> p \in Conf.can
               /\ First(p) => T[p].leader \in {None, Unknown, RunId(p, 0)}
    BY <2>1, <2>3 DEF Obeys, KnownOK
  <2> HIDE DEF T
  <2> QED
    BY <2>1, <2>4, <2>5, KnowsObeys DEF Obeys, KnownOK
<1> HIDE DEF T, b
<1> QED
  BY <1>1, <1>2, <1>3, CommitObeys

LEMMA ReliableSteps ==
  ASSUME "reliable" \in DOMAIN Families => Reliable(Families["reliable"]),
         IInv, ReliableInv, [Next]_vars
  PROVE  ReliableInv'
<1>0. ASSUME view' = view, family' = family
      PROVE  ReliableInv'
  BY <1>0 DEF ReliableInv, QuorumOfAll, Obeys, KnownOK, First, Conf, Live
<1>1. ASSUME NEW s \in Sentinels, ForceFailover(s) \/ RestartSentinel(s)
      PROVE  ReliableInv'
  <2>1. family \in DOMAIN Families /\ Conf.faults \cap {"sentinel", "force"} # {} /\ family' = family
    BY <1>1 DEF IInv, ForceFailover, RestartSentinel, Commit
  <2> QED
    BY <2>1 DEF ReliableInv, Reliable, Conf
<1>2. ASSUME NEW s \in Sentinels, Reset(s)
      PROVE  ReliableInv'
  <2>1. family = "reliable" /\ s \in Live => Obeys(s, sentinelResetMaster(view[s]))
    BY ObeysTame, ResetTame, TameObeys DEF ReliableInv
  <2> QED
    BY <1>2, <2>1, CommitObeys DEF Reset
<1>3. CASE Next
  <2>1. CASE \E s \in Sentinels : sentinelTimer(s) \/ ForceFailover(s) \/ Reset(s) \/ RestartSentinel(s)
    BY <1>1, <1>2, <2>1, TimerObeys
  <2>2. CASE \E s \in Sentinels, n \in Nodes :
               sentinelInfoReplyCallback(s, n) \/ SlaveOf(s, n) \/ LoseCommands(s, n)
    BY <1>0, <2>2, InfoObeys DEF SlaveOf, LoseCommands
  <2>3. CASE \E s \in Sentinels, o \in Sentinels :
               \/ sentinelReceiveHelloMessages(s, o)
               \/ \E quiet \in Quiet : sentinelReceiveIsMasterDownReply(s, o, quiet)
    BY <2>3, HelloObeys, ReplyObeys
  <2>4. CASE \E n \in Nodes : Synchronize(n) \/ Crash(n) \/ Restart(n)
    BY <1>0, <2>4 DEF Synchronize, Crash, Restart
  <2> QED
    BY <1>3, <2>1, <2>2, <2>3, <2>4 DEF Next
<1> QED
  BY <1>0, <1>3 DEF vars

LEMMA ReliableStarts ==
  ASSUME "reliable" \in DOMAIN Families => Reliable(Families["reliable"]), Init
  PROVE  ReliableInv
<1> SUFFICES ASSUME family = "reliable" PROVE ReliableInv
  BY DEF ReliableInv
<1>1. QuorumOfAll
  BY DEF Init, QuorumOfAll, Reliable, Conf, Live
<1>2. ASSUME NEW s \in Live PROVE Obeys(s, initSentinel(0))
  <2>1. DOMAIN <<>> = {}
    OBVIOUS
  <2> QED
    BY <2>1 DEF initSentinel, Obeys, KnownOK, Record, ViewFields, Flag
<1>3. ASSUME NEW s \in Live PROVE Obeys(s, Acquainted(s))
  <2> DEFINE a == initSentinel(0)
             b == [a EXCEPT !.runid = RunId(1, 0)]
             S == [n \in Conf.nodes \ {1} |->
                     [runid |-> RunId(n, 0), flags |-> {}, of |-> 1, link |-> TRUE]]
             T == [o \in Live \ {s} |-> createSentinel(RunId(o, 0), o \in Conf.can)]
             c == [b EXCEPT !.slaves = S]
  <2>1. Obeys(s, a)
    BY <1>2
  <2>2. Acquainted(s) = [c EXCEPT !.sentinels = T]
    BY DEF Acquainted
  <2>3. Tame(a, b)
    BY <2>1, ObeysTame, TameSets
  <2> HIDE DEF b, S
  <2>4. Tame(a, c)
    BY <2>3, TameSets
  <2>5. Obeys(s, c)
    BY <2>1, <2>4, TameObeys
  <2> HIDE DEF c
  <2>6. Obeys(s, [c EXCEPT !.sentinels = T])
    <3>1. DOMAIN T = Live \ {s}
      OBVIOUS
    <3>2. ASSUME NEW o \in DOMAIN T
          PROVE  /\ {"runid", "down", "leader", "can"} \subseteq DOMAIN T[o]
                 /\ T[o].runid = RunId(o, 0)
                 /\ T[o].can <=> o \in Conf.can
                 /\ First(o) => T[o].leader \in {None, Unknown, RunId(o, 0)}
      BY DEF createSentinel
    <3> HIDE DEF T
    <3> QED
      BY <2>5, <3>1, <3>2, KnowsObeys
  <2> QED
    BY <2>2, <2>6
<1> QED
  BY <1>1, <1>2, <1>3, LiveFacts DEF Init, ReliableInv, QuorumOfAll

(***************************************************************************)
(* Where every Sentinel's vote is needed, none starts again and no         *)
(* failover is forced, no two Sentinels lead at a time, for any number of  *)
(* them, whatever they know of one another and however old the votes are.  *)
(***************************************************************************)
THEOREM OneSentinelLeads ==
  ASSUME "reliable" \in DOMAIN Families => Reliable(Families["reliable"])
  PROVE  Spec => []OneLeader
<1>1. IInv /\ ReliableInv => OneLeader
  <2> SUFFICES ASSUME IInv, ReliableInv, family = "reliable", NEW s \in Live, NEW o \in Live,
                      Flag(view[s], "LEADER"), Flag(view[o], "LEADER")
               PROVE  s = o
    BY DEF OneLeader
  <2>1. First(s) /\ First(o)
    BY DEF ReliableInv, Obeys
  <2> QED
    BY <2>1, LiveFacts DEF First, IInv
<1>2. Init => IInv /\ ReliableInv
  BY Starts, ReliableStarts
<1>3. IInv /\ ReliableInv /\ [Next]_vars => IInv' /\ ReliableInv'
  BY StepKeeps, ReliableSteps
<1> QED
  BY <1>1, <1>2, <1>3, PTL DEF Spec

-----------------------------------------------------------------------------
(***************************************************************************)
(* The limits.  While slaves are being reconfigured, and go on to be, a    *)
(* step adds to those under way only up to the limit.                      *)
(***************************************************************************)
Limited(u, v) ==
  v.state = "reconf_slaves" =>
    UnderWay(v) \subseteq UnderWay(u) \/ Cardinality(UnderWay(v)) <= Conf.parallel

LEMMA UnderWayFinite ==
  ASSUME NEW v, Shape(v)
  PROVE  /\ UnderWay(v) \subseteq DOMAIN v.slaves /\ DOMAIN v.slaves \subseteq Nat
         /\ \A S \in SUBSET DOMAIN v.slaves : IsFiniteSet(S) /\ Cardinality(S) \in Nat
  BY SentinelAssumption, FS_Subset, FS_CardinalityType DEF Shape, UnderWay

\* parallel-syncs: the slaves that are told are as many as may be.
LEMMA ReconfNextLimited ==
  ASSUME NEW v, Good(v), v.state = "reconf_slaves", NEW t, Conf.parallel \in Int
  PROVE  Limited(v, ReconfNext(v, t))
<1> DEFINE todo == {n \in DOMAIN v.slaves : v.slaves[n].flags \cap {"PROMOTED", "RECONF_DONE"} = {}}
           lost == {n \in todo : SlaveFlag(v, n, "RECONF_SENT") /\ "reconf" \in t.over}
           free == {n \in todo \ t.off : /\ ~SlaveFlag(v, n, "RECONF_INPROG")
                                        /\ SlaveFlag(v, n, "RECONF_SENT") => n \in lost}
           visited == {n \in todo : InProgress(v) + Cardinality({m \in free : m < n}) < Conf.parallel}
           told == visited \cap free
           r == ReconfNext(v, t)
           room == Conf.parallel - InProgress(v)
<1>1. UnderWay(r) \subseteq UnderWay(v) \cup told
  <2> DEFINE a == Send(v, told, v.promoted)
             M == [n \in DOMAIN v.slaves |->
                     [v.slaves[n] EXCEPT !.flags = IF n \in told THEN @ \cup {"RECONF_SENT"}
                                                   ELSE IF n \in visited \cap lost THEN @ \ {"RECONF_SENT"}
                                                   ELSE @]]
  <2>1. r = [a EXCEPT !.slaves = M]
    BY DEF ReconfNext
  <2>2. DOMAIN M = DOMAIN v.slaves
    OBVIOUS
  <2>3. ASSUME NEW n \in DOMAIN v.slaves, n \notin told
        PROVE  M[n].flags \subseteq v.slaves[n].flags
    <3> HIDE DEF visited, lost, told
    <3> QED
      BY <2>3, Fields DEF Good
  <2>4. Same(v, a)
    BY SendSame DEF Good
  <2> HIDE DEF a, M, r, told
  <2>5. r.slaves = M
    BY <2>1, <2>4 DEF Same, Shape, Record, ViewFields
  <2> QED
    BY <2>2, <2>3, <2>5 DEF UnderWay
<1>2. Shape(v) /\ InProgress(v) = Cardinality(UnderWay(v)) /\ InProgress(v) \in Nat
  BY UnderWayFinite DEF Good, InProgress, UnderWay
<1>3. free \subseteq DOMAIN v.slaves
  OBVIOUS
<1>4. \A n \in told : n \in free /\ Cardinality({m \in free : m < n}) < room
  <2> SUFFICES ASSUME NEW n \in told
               PROVE  Cardinality({m \in free : m < n}) < room
    OBVIOUS
  <2>1. InProgress(v) + Cardinality({m \in free : m < n}) < Conf.parallel
    OBVIOUS
  <2>2. Cardinality({m \in free : m < n}) \in Nat
    <3>1. {m \in free : m < n} \subseteq DOMAIN v.slaves
      BY <1>3
    <3> HIDE DEF free
    <3> QED
      BY <1>2, <3>1, UnderWayFinite
  <2> HIDE DEF free
  <2> QED
    BY <1>2, <2>1, <2>2
<1>5. told \subseteq FirstOf(free, room)
  BY <1>4 DEF FirstOf
<1> HIDE DEF told, free, r
<1>6. ASSUME NEW n \in told
      PROVE  Cardinality(UnderWay(r)) <= Conf.parallel
  <2>1. room \in Nat
    <3>1. Cardinality({m \in free : m < n}) \in Nat /\ Cardinality({m \in free : m < n}) < room
      <4>1. {m \in free : m < n} \subseteq DOMAIN v.slaves
        BY <1>3
      <4> QED
        BY <1>2, <1>4, <4>1, UnderWayFinite
    <3> QED
      BY <1>2, <3>1
  <2>2. IsFiniteSet(FirstOf(free, room)) /\ Cardinality(FirstOf(free, room)) <= room
    <3>1. free \subseteq Nat /\ IsFiniteSet(free)
      BY <1>2, <1>3, UnderWayFinite
    <3> HIDE DEF room
    <3> QED
      BY <2>1, <3>1, FirstAreFew
  <2>3. /\ IsFiniteSet(told) /\ Cardinality(told) <= Cardinality(FirstOf(free, room))
        /\ Cardinality(told) \in Nat /\ Cardinality(FirstOf(free, room)) \in Nat
    BY <1>5, <2>2, FS_Subset, FS_CardinalityType
  <2> DEFINE U == UnderWay(v)
  <2>4. IsFiniteSet(U) /\ Cardinality(U) = InProgress(v)
    BY <1>2, UnderWayFinite
  <2>5. /\ IsFiniteSet(U \cup told)
        /\ Cardinality(U \cup told) = Cardinality(U) + Cardinality(told) - Cardinality(U \cap told)
        /\ Cardinality(U \cap told) \in Nat
    BY <2>3, <2>4, FS_Union, FS_Subset, FS_CardinalityType
  <2>6. Cardinality(UnderWay(r)) <= Cardinality(U \cup told) /\ Cardinality(UnderWay(r)) \in Nat
    BY <1>1, <2>5, FS_Subset, FS_CardinalityType
  <2> HIDE DEF U
  <2> QED
    BY <1>2, <2>1, <2>2, <2>3, <2>4, <2>5, <2>6
<1> QED
  BY <1>1, <1>6 DEF Limited, r

\* A view that has, of the failover, what another has.
LEMMA SameLimited ==
  ASSUME NEW u, NEW v, Limited(u, v), NEW w, w.state = v.state, w.slaves = v.slaves
  PROVE  Limited(u, w)
  BY DEF Limited, UnderWay

LEMMA StartLimited ==
  ASSUME NEW v, Settled(v), v.state = "reconf_slaves", NEW s, NEW t
  PROVE  LET w == sentinelStartFailoverIfNeeded(s, v, t)
         IN  w.state = "reconf_slaves" /\ UnderWay(w) \subseteq UnderWay(v)
<1> DEFINE a == sentinelStartFailover(v, "reconf_slaves")
           b == sentinelDelFlagsToDictOfRedisInstances(a, {"RECONF_SENT"})
<1>1. Shape(v) /\ Flag(v, "FAILOVER")
  BY DEF Settled, Good, StateOK
<1>2. sentinelStartFailoverIfNeeded(s, v, t) \in {v, b}
  BY <1>1, Zenon DEF sentinelStartFailoverIfNeeded
<1>3. Shape(a) /\ a.state = "reconf_slaves" /\ a.slaves = v.slaves
  <2> DEFINE c == State(v, "reconf_slaves")
  <2>1. Shape(c) /\ c.state = "reconf_slaves" /\ c.slaves = v.slaves
    BY <1>1, StateSet
  <2>2. a = [c EXCEPT !.flags = c.flags \cup {"FAILOVER", "LEADER"}]
    BY DEF sentinelStartFailover
  <2> HIDE DEF a, c
  <2> QED
    BY <2>1, <2>2, FlagsSet
<1> HIDE DEF a
<1>4. b.state = "reconf_slaves" /\ UnderWay(b) \subseteq UnderWay(v)
  <2>1. /\ Relabels(a, b)
        /\ \A n \in DOMAIN a.slaves : b.slaves[n].flags = a.slaves[n].flags \ {"RECONF_SENT"}
    BY <1>3, DelFlags
  <2> HIDE DEF b
  <2> QED
    BY <1>3, <2>1 DEF Relabels, UnderWay
<1> HIDE DEF b
<1> QED
  BY <1>2, <1>4

LEMMA ReconfLimited ==
  ASSUME NEW v, Good(v), v.state = "reconf_slaves", NEW t, Conf.parallel \in Int
  PROVE  Limited(v, sentinelFailoverStateMachine(v, t))
<1> DEFINE r == ReconfNext(v, t)
           end == sentinelCallClientReconfScript(State(r, "update_config"))
<1>1. sentinelFailoverStateMachine(v, t) = sentinelFailoverDetectEnd(r, t)
  BY DEF sentinelFailoverStateMachine, sentinelFailoverReconfNextSlave
<1>2. sentinelFailoverDetectEnd(r, t) \in {r, end, LastSlaveOf(end, t)}
  BY Zenon DEF sentinelFailoverDetectEnd
<1>3. Limited(v, r)
  BY ReconfNextLimited
<1>4. Good(r)
  BY ReconfNextKeeps DEF Late
<1> HIDE DEF r
<1>5. Shape(end) /\ end.state = "update_config"
  <2>1. Shape(State(r, "update_config")) /\ State(r, "update_config").state = "update_config"
    BY <1>4, StateSet DEF Good
  <2> QED
    BY <2>1, ScriptSame DEF Same
<1> HIDE DEF end
<1>6. LastSlaveOf(end, t).state = "update_config"
  <2>1. PICK ns, M : LastSlaveOf(end, t) = [Send(end, ns, end.promoted) EXCEPT !.slaves = M]
    BY Zenon DEF LastSlaveOf
  <2>2. Same(end, Send(end, ns, end.promoted))
    BY <1>5, SendSame
  <2> QED
    BY <1>5, <2>1, <2>2 DEF Same, Shape, Record, ViewFields
<1> QED
  BY <1>1, <1>2, <1>3, <1>5, <1>6 DEF Limited

LEMMA AbortLimited ==
  ASSUME NEW u, NEW v, Good(v), Limited(u, v), NEW t
  PROVE  Limited(u, sentinelAbortFailoverIfNeeded(v, t))
<1>1. sentinelAbortFailoverIfNeeded(v, t) # v => sentinelAbortFailover(v, t).state = "none"
  BY AbortKeeps DEF sentinelAbortFailoverIfNeeded
<1> QED
  BY <1>1 DEF sentinelAbortFailoverIfNeeded, Limited

LEMMA ResetState ==
  ASSUME NEW v, Shape(v), NEW addr
  PROVE  /\ sentinelResetMaster(v).state = "none"
         /\ sentinelResetMasterAndChangeAddress(v, addr).state = "none"
  BY DEF sentinelResetMaster, sentinelResetMasterAndChangeAddress, Shape, Record, ViewFields

LEMMA EndLimited ==
  ASSUME NEW u, NEW v, Good(v), Limited(u, v), NEW t
  PROVE  Limited(u, sentinelFailoverSwitchToPromotedSlave(CheckSlaves(v, t)))
<1> DEFINE w == CheckSlaves(v, t)
<1>0. Shape(w)
  BY CheckSlavesKeeps DEF Good
<1>1. w.state = v.state /\ DOMAIN w.slaves = DOMAIN v.slaves
  BY DEF CheckSlaves, Good, Shape, Record, ViewFields
<1>2. ASSUME NEW n \in DOMAIN v.slaves
      PROVE  w.slaves[n].flags \cap {"RECONF_SENT", "RECONF_INPROG"}
               = v.slaves[n].flags \cap {"RECONF_SENT", "RECONF_INPROG"}
  <2>1. w.slaves[n].flags = Marked(v.slaves[n].flags, n \in t.down)
    BY Fields DEF CheckSlaves, Good, Shape, Record, ViewFields
  <2> QED
    BY <2>1 DEF Marked
<1>3. UnderWay(w) = UnderWay(v)
  BY <1>1, <1>2 DEF UnderWay
<1> HIDE DEF w
<1>4. Limited(u, w)
  BY <1>1, <1>3 DEF Limited
<1>5. \A addr : sentinelResetMasterAndChangeAddress(w, addr).state = "none"
  BY <1>0, ResetState
<1>6. Limited(u, sentinelFailoverSwitchToPromotedSlave(w))
  BY <1>4, <1>5 DEF sentinelFailoverSwitchToPromotedSlave, Limited
<1> QED
  BY <1>6 DEF w

LEMMA MarksOther ==
  ASSUME NEW v, Settled(v), NEW t, NEW w,
         w \in {sentinelAskMasterStateToOtherSentinels(v, t), sentinelCheckSubjectivelyDown(v, t),
                sentinelCheckObjectivelyDown(v)}
  PROVE  w.state = v.state /\ w.slaves = v.slaves
<1>1. Record(v, ViewFields)
  BY DEF Settled, Good, Shape
<1> QED
  BY <1>1 DEF sentinelAskMasterStateToOtherSentinels, sentinelCheckSubjectivelyDown,
              sentinelCheckObjectivelyDown, Record, ViewFields

\* The handler of the timer.
LEMMA HandleLimited ==
  ASSUME NEW v, Settled(v), v.state = "reconf_slaves", NEW s, NEW t, Conf.parallel \in Int
  PROVE  Limited(v, sentinelHandleRedisInstance(s, v, t))
<1>0. ASSUME NEW y
      PROVE  (CHOOSE z \in {y} : TRUE) = y
  OBVIOUS
<1> DEFINE Abort(v1)  == sentinelAbortFailoverIfNeeded(v1, t)
           Move(v1)   == after(Abort, sentinelFailoverStateMachine(v1, t))
           Start(v1)  == after(Move, sentinelStartFailoverIfNeeded(s, v1, t))
           Mark(v1)   == after(Start, sentinelCheckObjectivelyDown(sentinelCheckSubjectivelyDown(v1, t)))
           Slaves(v1) == sentinelFailoverSwitchToPromotedSlave(CheckSlaves(v1, t))
           Decide(v1) == after(Slaves, Mark(v1))
           asked      == sentinelAskMasterStateToOtherSentinels(v, t)
           marked     == sentinelCheckObjectivelyDown(sentinelCheckSubjectivelyDown(asked, t))
           started    == sentinelStartFailoverIfNeeded(s, marked, t)
           moved      == sentinelFailoverStateMachine(started, t)
<1>1. sentinelHandleRedisInstance(s, v, t) = IF v.tilt THEN asked ELSE Slaves(Abort(moved))
  BY <1>0 DEF sentinelHandleRedisInstance, after
<1>2. Settled(asked) /\ asked.state = v.state /\ asked.slaves = v.slaves
  BY Marks, MarksOther
<1> HIDE DEF asked
<1>3. Settled(marked) /\ marked.state = v.state /\ marked.slaves = v.slaves
  <2> DEFINE w == sentinelCheckSubjectivelyDown(asked, t)
  <2>1. Settled(w) /\ w.state = v.state /\ w.slaves = v.slaves
    BY <1>2, Marks, MarksOther
  <2> HIDE DEF w
  <2>2. LET x == sentinelCheckObjectivelyDown(w)
        IN  Settled(x) /\ x.state = v.state /\ x.slaves = v.slaves
    BY <2>1, Marks, MarksOther
  <2> QED
    BY <2>2 DEF w
<1> HIDE DEF marked
<1>4. Settled(started) /\ started.state = "reconf_slaves" /\ UnderWay(started) \subseteq UnderWay(v)
  BY <1>3, StartIfNeededKeeps, StartLimited DEF UnderWay
<1> HIDE DEF started
<1>5. Good(moved) /\ Limited(v, moved)
  <2>1. Good(started)
    BY <1>4 DEF Settled
  <2>2. Good(moved) /\ Limited(started, moved)
    BY <1>4, <2>1, StateMachineKeeps, ReconfLimited
  <2> HIDE DEF moved
  <2> QED
    BY <1>4, <2>2 DEF Limited
<1> HIDE DEF moved
<1>6. Limited(v, Slaves(Abort(moved)))
  BY <1>5, AbortIfNeededKeeps, AbortLimited, EndLimited
<1>7. Limited(v, asked)
  BY <1>2 DEF Limited, UnderWay
<1> QED
  BY <1>1, <1>6, <1>7

\* It starts a failover or not, and otherwise is tame.
LEMMA HandleQueue ==
  ASSUME NEW v, Record(v, ViewFields), QueueOK(v), NEW s, NEW t
  PROVE  LET w == sentinelHandleRedisInstance(s, v, t) IN Record(w, ViewFields) /\ QueueOK(w)
<1>0. ASSUME NEW y
      PROVE  (CHOOSE z \in {y} : TRUE) = y
  OBVIOUS
<1> DEFINE Abort(v1)  == sentinelAbortFailoverIfNeeded(v1, t)
           Move(v1)   == after(Abort, sentinelFailoverStateMachine(v1, t))
           Start(v1)  == after(Move, sentinelStartFailoverIfNeeded(s, v1, t))
           Mark(v1)   == after(Start, sentinelCheckObjectivelyDown(sentinelCheckSubjectivelyDown(v1, t)))
           Slaves(v1) == sentinelFailoverSwitchToPromotedSlave(CheckSlaves(v1, t))
           Decide(v1) == after(Slaves, Mark(v1))
           asked      == sentinelAskMasterStateToOtherSentinels(v, t)
           sdown      == sentinelCheckSubjectivelyDown(asked, t)
           marked     == sentinelCheckObjectivelyDown(sdown)
           started    == sentinelStartFailoverIfNeeded(s, marked, t)
           moved      == sentinelFailoverStateMachine(started, t)
           Fine(w)    == Record(w, ViewFields) /\ QueueOK(w)
<1>1. sentinelHandleRedisInstance(s, v, t) = IF v.tilt THEN asked ELSE Slaves(Abort(moved))
  BY <1>0 DEF sentinelHandleRedisInstance, after
<1>2. ASSUME NEW w, Fine(w), NEW x
      PROVE  /\ Fine([w EXCEPT !.sentinels = x]) /\ Fine([w EXCEPT !.flags = x])
             /\ Fine([w EXCEPT !.state = x])
  BY <1>2, QueueSame DEF Record, ViewFields
<1>3. ASSUME NEW w, Fine(w)
      PROVE  Tame(w, w)
  BY <1>3 DEF Tame
<1>4. ASSUME NEW w, Fine(w), NEW x, Tame(w, x)
      PROVE  Fine(x)
  BY <1>4 DEF Tame
<1> HIDE DEF Fine
<1>5. Fine(v)
  BY DEF Fine
<1>6. Fine(asked)
  BY <1>2, <1>5 DEF sentinelAskMasterStateToOtherSentinels
<1> HIDE DEF asked
<1>7. Fine(sdown)
  BY <1>2, <1>6 DEF sentinelCheckSubjectivelyDown
<1> HIDE DEF sdown
<1>8. Fine(marked)
  BY <1>2, <1>7 DEF sentinelCheckObjectivelyDown
<1> HIDE DEF marked
<1>9. Fine(started)
  <2>1. ASSUME NEW st
        PROVE  Fine(sentinelStartFailover(marked, st))
    <3> DEFINE a == State(marked, st)
    <3>1. Fine(a)
      BY <1>2, <1>8 DEF State
    <3> HIDE DEF a
    <3>2. Fine([a EXCEPT !.flags = a.flags \cup {"FAILOVER", "LEADER"}])
      BY <1>2, <3>1
    <3> QED
      BY <3>2 DEF sentinelStartFailover, a
  <2>2. ASSUME NEW st
        PROVE  Fine(sentinelDelFlagsToDictOfRedisInstances(sentinelStartFailover(marked, st), {"RECONF_SENT"}))
    BY <1>3, <1>4, <2>1, HelpersTame
  <2>3. started \in {marked, sentinelStartFailover(marked, "wait_start"),
                     sentinelDelFlagsToDictOfRedisInstances(sentinelStartFailover(marked, "reconf_slaves"),
                                                            {"RECONF_SENT"})}
    BY Zenon DEF sentinelStartFailoverIfNeeded
  <2> QED
    BY <1>8, <2>1, <2>2, <2>3
<1> HIDE DEF started
<1>10. Fine(moved)
  BY <1>3, <1>4, <1>9, StateMachineTame
<1> HIDE DEF moved
<1>11. Fine(Abort(moved))
  BY <1>3, <1>4, <1>10, AbortTame
<1> HIDE DEF Abort
<1>12. Fine(Slaves(Abort(moved)))
  <2> DEFINE a == Abort(moved)
             c == CheckSlaves(a, t)
  <2>1. Tame(a, c)
    BY <1>3, <1>11, HelpersTame
  <2> HIDE DEF c, a
  <2>2. Tame(a, sentinelFailoverSwitchToPromotedSlave(c))
    BY <2>1, ResetTame DEF sentinelFailoverSwitchToPromotedSlave
  <2> QED
    BY <1>4, <1>11, <2>2 DEF a, c
<1> QED
  BY <1>1, <1>6, <1>12 DEF Fine

\* INFO adds no slave that is under way, and turns no slave that was not.
LEMMA InfoLimited ==
  ASSUME NEW v, Settled(v), v.state = "reconf_slaves", NEW n \in {v.addr} \cup DOMAIN v.slaves, NEW t
  PROVE  Limited(v, sentinelRefreshInstanceInfo(v, n, t))
<1>0. Shape(v) /\ Record(v, ViewFields) /\ Flag(v, "FAILOVER")
  BY DEF Settled, Good, Shape, StateOK
<1>1. Limited(v, MasterInfo(v, n))
  <2> DEFINE id == RunId(n, node[n].boot)
             found == {m \in Nodes : node[m].up /\ node[m].of = n /\ node[m].link} \ DOMAIN v.slaves
             M == [m \in DOMAIN v.slaves \cup found |->
                     IF m \in found THEN createInstance ELSE v.slaves[m]]
             w == [v EXCEPT !.runid = id, !.slaves = M]
  <2>1. MasterInfo(v, n) \in {w, sentinelResetMasterAndChangeAddress(w, node[n].of)}
    BY Zenon DEF MasterInfo
  <2>2. \A m \in found : M[m].flags = {}
    BY DEF createInstance
  <2>3. DOMAIN M = DOMAIN v.slaves \cup found /\ \A m \in DOMAIN v.slaves : M[m] = v.slaves[m]
    OBVIOUS
  <2> HIDE DEF id, M
  <2>4. Record(w, ViewFields) /\ w.slaves = M
    BY <1>0 DEF Record, ViewFields
  <2> HIDE DEF w, found
  <2>5. UnderWay(w) \subseteq UnderWay(v)
    BY <2>2, <2>3, <2>4 DEF UnderWay
  <2>6. sentinelResetMasterAndChangeAddress(w, node[n].of).state = "none"
    BY <2>4 DEF sentinelResetMaster, sentinelResetMasterAndChangeAddress, Record, ViewFields
  <2> QED
    BY <2>1, <2>5, <2>6 DEF Limited
<1>2. ASSUME n \in DOMAIN v.slaves
      PROVE  Limited(v, SlaveInfo(v, n, t))
  <2> DEFINE new == v.slaves[n].runid # RunId(n, node[n].boot)
             a == [v EXCEPT !.slaves[n].runid = RunId(n, node[n].boot)]
             b == [v EXCEPT !.slaves[n].runid = RunId(n, node[n].boot),
                            !.slaves[n].of = node[n].of, !.slaves[n].link = node[n].link]
  <2>1. SlaveInfo(v, n, t) \in {a, b, TurnedMaster(a, n, new, t), Reconfigured(b, n)}
    BY Zenon DEF SlaveInfo
  <2>2. ASSUME NEW w \in {a, b}
        PROVE  /\ Record(w, ViewFields) /\ w.state = v.state /\ w.flags = v.flags
               /\ DOMAIN w.slaves = DOMAIN v.slaves
               /\ \A m \in DOMAIN v.slaves : w.slaves[m].flags = v.slaves[m].flags
    <3> DEFINE x == v.slaves[n]
               id == RunId(n, node[n].boot)
               y == [x EXCEPT !.runid = id]
               z == [x EXCEPT !.runid = id, !.of = node[n].of, !.link = node[n].link]
    <3>1. y.flags = x.flags /\ z.flags = x.flags
      BY <1>0, <1>2, Fields
    <3> DEFINE of == node[n].of
               lk == node[n].link
               B == [[[v.slaves EXCEPT ![n].runid = id] EXCEPT ![n].of = of] EXCEPT ![n].link = lk]
    <3>2. a = [v EXCEPT !.slaves = [v.slaves EXCEPT ![n] = y]]
      <4>1. a = [v EXCEPT !.slaves = [v.slaves EXCEPT ![n].runid = id]]
        OBVIOUS
      <4>2. [v.slaves EXCEPT ![n].runid = id] = [v.slaves EXCEPT ![n] = y]
        <5> HIDE DEF id
        <5> QED
          OBVIOUS
      <4> HIDE DEF a, id, y
      <4> QED
        BY <4>1, <4>2
    <3>9. b = [v EXCEPT !.slaves = B]
      <4> DEFINE b1 == [v EXCEPT !.slaves[n].runid = id]
                 b2 == [b1 EXCEPT !.slaves[n].of = of]
      <4>1. b = [b2 EXCEPT !.slaves[n].link = lk]
        OBVIOUS
      <4> HIDE DEF id, of, lk
      <4>2. b1 = [v EXCEPT !.slaves = [v.slaves EXCEPT ![n].runid = id]]
        OBVIOUS
      <4> DEFINE X == [v.slaves EXCEPT ![n].runid = id]
                 Y == [X EXCEPT ![n].of = of]
                 Z == [Y EXCEPT ![n].link = lk]
      <4> HIDE DEF b, b1, X
      <4>3. b2 = [v EXCEPT !.slaves = Y]
        <5>1. b1 = [v EXCEPT !.slaves = X]
          BY <4>2 DEF X
        <5> QED
          BY <1>0, <5>1 DEF Record, ViewFields
      <4> HIDE DEF b2, Y
      <4>4. b = [v EXCEPT !.slaves = Z]
        BY <1>0, <4>1, <4>3 DEF Record, ViewFields
      <4> QED
        BY <4>4 DEF Y, X
    <3>3. B = [v.slaves EXCEPT ![n] = z]
      <4> HIDE DEF id
      <4> QED
        BY <1>0, <1>2 DEF Shape, Record, SlaveFields
    <3> HIDE DEF a, b, y, z, id, B
    <3>4. PICK u \in {y, z} : w = [v EXCEPT !.slaves = [v.slaves EXCEPT ![n] = u]]
      BY <2>2, <3>2, <3>3, <3>9
    <3>5. u.flags = v.slaves[n].flags
      BY <3>1
    <3> DEFINE M == [v.slaves EXCEPT ![n] = u]
    <3>6. DOMAIN M = DOMAIN v.slaves /\ \A m \in DOMAIN v.slaves : M[m].flags = v.slaves[m].flags
      BY <1>2, <3>5
    <3> HIDE DEF M
    <3>7. Record(w, ViewFields) /\ w.state = v.state /\ w.flags = v.flags /\ w.slaves = M
      BY <1>0, <3>4 DEF Record, ViewFields, M
    <3> QED
      BY <3>6, <3>7
  <2>3. ASSUME NEW w \in {a, b}
        PROVE  UnderWay(w) = UnderWay(v)
    BY <2>2, <2>3 DEF UnderWay
  <2>4. TurnedMaster(a, n, new, t) = a
    <3>1. a.state = "reconf_slaves" /\ Flag(a, "FAILOVER")
      BY <1>0, <2>2 DEF Flag
    <3> HIDE DEF a, new
    <3> QED
      BY <3>1 DEF TurnedMaster
  <2>5. UnderWay(Reconfigured(b, n)) \subseteq UnderWay(b)
    <3>1. Record(b, ViewFields) /\ n \in DOMAIN b.slaves
      BY <1>2, <2>2
    <3> HIDE DEF b
    <3> DEFINE fl == b.slaves[n].flags
               inprog == IF "RECONF_SENT" \in fl /\ b.slaves[n].of = b.promoted
                         THEN (fl \ {"RECONF_SENT"}) \cup {"RECONF_INPROG"} ELSE fl
               done == IF "RECONF_INPROG" \in inprog /\ b.slaves[n].link
                       THEN (inprog \ {"RECONF_INPROG"}) \cup {"RECONF_DONE"} ELSE inprog
               M == [b.slaves EXCEPT ![n].flags = done]
    <3>2. done \cap {"RECONF_SENT", "RECONF_INPROG"} # {} => fl \cap {"RECONF_SENT", "RECONF_INPROG"} # {}
      OBVIOUS
    <3>3. Reconfigured(b, n) = [b EXCEPT !.slaves = M]
      BY DEF Reconfigured
    <3> HIDE DEF done
    <3>4. /\ DOMAIN M = DOMAIN b.slaves
          /\ \A m \in DOMAIN b.slaves \ {n} : M[m] = b.slaves[m]
          /\ M[n].flags \in {done, fl}
      BY <3>1
    <3> HIDE DEF M
    <3>5. Reconfigured(b, n).slaves = M
      BY <3>1, <3>3 DEF Record, ViewFields
    <3> QED
      BY <3>2, <3>4, <3>5 DEF UnderWay
  <2> QED
    BY <2>1, <2>3, <2>4, <2>5 DEF Limited
<1> QED
  BY <1>1, <1>2 DEF sentinelRefreshInstanceInfo

QueueInv == \A s \in Sentinels : QueueOK(view[s])

LEMMA CommitLimits ==
  ASSUME IInv, QueueInv, NEW s \in Sentinels, NEW v, Commit(s, v), Record(v, ViewFields), QueueOK(v),
         view[s].state = "reconf_slaves" => Limited(view[s], v)
  PROVE  QueueInv' /\ SyncsBounded
<1> DEFINE w == [v EXCEPT !.out = <<>>]
<1>1. view' = [view EXCEPT ![s] = w] /\ family' = family
  BY DEF Commit
<1>2. w.jobs = v.jobs /\ w.running = v.running /\ w.state = v.state /\ w.slaves = v.slaves
  BY DEF Record, ViewFields
<1> HIDE DEF w
<1>3. QueueOK(w)
  BY <1>2, QueueSame
<1>4. /\ view'[s] = w
      /\ \A o \in Sentinels \ {s} : view'[o] = view[o]
  BY <1>1 DEF IInv, Record
<1>5. QueueInv'
  BY <1>3, <1>4 DEF QueueInv, QueueOK, Running
<1>6. SyncsBounded
  <2> SUFFICES ASSUME NEW o \in Live, view[o].state = "reconf_slaves", view'[o].state = "reconf_slaves",
                      ~(UnderWay(view'[o]) \subseteq UnderWay(view[o]))
               PROVE  Cardinality(UnderWay(view'[o])) <= Conf.parallel
    BY DEF SyncsBounded
  <2>1. o = s
    BY <1>4, LiveFacts DEF IInv, Sentinels
  <2> QED
    BY <1>2, <1>4, <2>1, SameLimited DEF Limited
<1> QED
  BY <1>5, <1>6

\* A handler that is tame, and that leaves the state or the slaves alone.
LEMMA TimerLimits ==
  ASSUME IInv, QueueInv, NEW s \in Sentinels, sentinelTimer(s)
  PROVE  QueueInv' /\ SyncsBounded
<1>1. PICK t \in Times :
        Commit(s, sentinelCollectTerminatedScripts(sentinelRunPendingScripts(
                    sentinelHandleRedisInstance(s, sentinelCheckTiltCondition(view[s], t), t), t), t))
  BY DEF sentinelTimer
<1> DEFINE v == view[s]
           a == sentinelCheckTiltCondition(v, t)
           b == sentinelHandleRedisInstance(s, a, t)
           c == sentinelRunPendingScripts(b, t)
           d == sentinelCollectTerminatedScripts(c, t)
<1>2. Settled(v) /\ Record(v, ViewFields) /\ QueueOK(v) /\ Conf.parallel \in Int
  BY SentinelAssumption DEF IInv, QueueInv, Settled, Good, Shape, Conf
<1>3. Settled(a) /\ Record(a, ViewFields) /\ QueueOK(a) /\ a.state = v.state /\ a.slaves = v.slaves
  <2> DEFINE x == t.odd \/ (v.tilt /\ "tilt" \notin t.over)
  <2>1. a = [v EXCEPT !.tilt = x]
    BY Zenon DEF sentinelCheckTiltCondition
  <2> HIDE DEF a, v, x
  <2>2. /\ Same(v, a) /\ Record(a, ViewFields)
        /\ a.jobs = v.jobs /\ a.running = v.running
    BY <1>2, <2>1, SetsOther DEF Settled, Good, Record, ViewFields
  <2> QED
    BY <1>2, <2>2, QueueSame, SameKeeps DEF Same
<1> HIDE DEF a
<1>4. Record(b, ViewFields) /\ QueueOK(b)
  BY <1>3, HandleQueue
<1>5. a.state = "reconf_slaves" => Limited(a, b)
  BY <1>2, <1>3, HandleLimited
<1> HIDE DEF b
<1>6. Record(d, ViewFields) /\ QueueOK(d) /\ d.state = b.state /\ d.slaves = b.slaves
  <2>1. Tame(b, c)
    BY <1>4, ScriptsTame DEF Tame
  <2>2. c.state = b.state /\ c.slaves = b.slaves
    BY <1>4 DEF sentinelRunPendingScripts, Started, Record, ViewFields
  <2> HIDE DEF c
  <2>3. Tame(b, d)
    BY <2>1, ScriptsTame
  <2>4. d.state = c.state /\ d.slaves = c.slaves
    BY <2>1 DEF sentinelCollectTerminatedScripts, Tame, Record, ViewFields
  <2> HIDE DEF d
  <2> QED
    BY <1>4, <2>2, <2>3, <2>4 DEF Tame
<1>7. Commit(s, d)
  BY <1>1 DEF a, b
<1> HIDE DEF d
<1>8. v.state = "reconf_slaves" => Limited(v, d)
  BY <1>3, <1>5, <1>6, SameLimited DEF Limited, UnderWay
<1> QED
  BY <1>6, <1>7, <1>8, CommitLimits

LEMMA InfoLimits ==
  ASSUME IInv, QueueInv, NEW s \in Sentinels, NEW n \in Nodes, sentinelInfoReplyCallback(s, n)
  PROVE  QueueInv' /\ SyncsBounded
<1>1. PICK t \in Times : Commit(s, sentinelRefreshInstanceInfo(view[s], n, t))
  BY DEF sentinelInfoReplyCallback
<1> DEFINE w == sentinelRefreshInstanceInfo(view[s], n, t)
<1>2. Settled(view[s]) /\ Record(view[s], ViewFields) /\ QueueOK(view[s])
  BY DEF IInv, QueueInv, Settled, Good, Shape
<1>3. Tame(view[s], view[s])
  BY <1>2 DEF Tame
<1>4. Tame(view[s], w)
  BY <1>3, InfoTame
<1>5. view[s].state = "reconf_slaves" => Limited(view[s], w)
  BY <1>2, InfoLimited DEF sentinelInfoReplyCallback
<1> HIDE DEF w
<1>6. Commit(s, w) /\ Record(w, ViewFields) /\ QueueOK(w)
  BY <1>1, <1>2, <1>4 DEF Tame, w
<1> QED
  BY <1>5, <1>6, CommitLimits

\* What a Sentinel hears from others changes what it knows of them alone.
LEMMA OthersLimits ==
  ASSUME IInv, QueueInv, NEW s \in Sentinels, NEW x, Commit(s, [view[s] EXCEPT !.sentinels = x])
  PROVE  QueueInv' /\ SyncsBounded
<1> DEFINE v == view[s]
           w == [v EXCEPT !.sentinels = x]
<1>1. Record(v, ViewFields) /\ QueueOK(v)
  BY DEF IInv, QueueInv, Settled, Good, Shape
<1> HIDE DEF v
<1>2. /\ Record(w, ViewFields) /\ w.state = v.state /\ w.slaves = v.slaves
      /\ w.jobs = v.jobs /\ w.running = v.running
  BY <1>1 DEF Record, ViewFields
<1>3. Commit(s, w)
  BY DEF v
<1> HIDE DEF w
<1>4. QueueOK(w) /\ Limited(v, w)
  BY <1>1, <1>2, QueueSame DEF Limited, UnderWay
<1> QED
  BY <1>2, <1>3, <1>4, CommitLimits DEF v

LEMMA HelloLimits ==
  ASSUME IInv, QueueInv, NEW s \in Sentinels, NEW o \in Sentinels,
         \/ sentinelReceiveHelloMessages(s, o)
         \/ \E quiet \in Quiet : sentinelReceiveIsMasterDownReply(s, o, quiet)
  PROVE  QueueInv' /\ SyncsBounded
<1>1. CASE sentinelReceiveHelloMessages(s, o)
  BY <1>1, OthersLimits DEF sentinelReceiveHelloMessages
<1>2. ASSUME NEW quiet, sentinelReceiveIsMasterDownReply(s, o, quiet)
      PROVE  \E x : Commit(s, [view[s] EXCEPT !.sentinels = x])
  <2>1. PICK a, b : Commit(s, [view[s] EXCEPT !.sentinels[o].down = a, !.sentinels[o].leader = b])
    BY <1>2 DEF sentinelReceiveIsMasterDownReply
  <2> DEFINE x == [view[s].sentinels EXCEPT ![o].down = a, ![o].leader = b]
  <2>2. [view[s] EXCEPT !.sentinels[o].down = a, !.sentinels[o].leader = b]
          = [view[s] EXCEPT !.sentinels = x]
    OBVIOUS
  <2> HIDE DEF x
  <2> QED
    BY <2>1, <2>2
<1> QED
  BY <1>1, <1>2, OthersLimits

LEMMA OrdersLimits ==
  ASSUME IInv, QueueInv, NEW s \in Sentinels, ForceFailover(s) \/ Reset(s)
  PROVE  QueueInv' /\ SyncsBounded
<1> DEFINE v == view[s]
           a == State(v, "wait_start")
           F == a.flags \cup {"FAILOVER", "LEADER"}
           b == [a EXCEPT !.flags = F]
           G == b.flags \cup {"FORCE"}
           w == [b EXCEPT !.flags = G]
           r == sentinelResetMaster(v)
<1>1. Shape(v) /\ Record(v, ViewFields) /\ QueueOK(v)
  BY DEF IInv, QueueInv, Settled, Good, Shape
<1>2. ForceFailover(s) => Commit(s, w)
  BY DEF ForceFailover, sentinelStartFailover
<1>3. Reset(s) => Commit(s, r)
  BY DEF Reset
<1> HIDE DEF v
<1>4. Record(w, ViewFields) /\ QueueOK(w) /\ w.state = "wait_start"
  <2>1. Record(a, ViewFields) /\ QueueOK(a) /\ a.state = "wait_start"
    BY <1>1, QueueSame DEF State, Record, ViewFields
  <2> HIDE DEF a, F
  <2>2. Record(b, ViewFields) /\ QueueOK(b) /\ b.state = "wait_start"
    BY <2>1, QueueSame DEF Record, ViewFields
  <2> HIDE DEF b, G
  <2> QED
    BY <2>2, QueueSame DEF Record, ViewFields
<1> HIDE DEF w
<1>5. Record(r, ViewFields) /\ QueueOK(r) /\ r.state = "none"
  <2>1. Tame(v, v)
    BY <1>1 DEF Tame
  <2>2. Tame(v, r) /\ r.state = "none"
    BY <1>1, <2>1, ResetTame, ResetState
  <2> QED
    BY <1>1, <2>2 DEF Tame
<1> HIDE DEF r
<1> QED
  BY <1>2, <1>3, <1>4, <1>5, CommitLimits DEF Limited

LEMMA InitQueue ==
  ASSUME NEW v, v.jobs = <<>>, v.running = 0
  PROVE  QueueOK(v)
<1>1. <<>> \in Seq({}) /\ Len(<<>>) = 0 /\ DOMAIN <<>> = {}
  OBVIOUS
<1>2. Cardinality(Running(<<>>)) = 0
  BY <1>1, FS_EmptySet DEF Running
<1> QED
  BY <1>1, <1>2, SentinelAssumption DEF QueueOK

LEMMA RestartLimits ==
  ASSUME IInv, QueueInv, NEW s \in Sentinels, RestartSentinel(s)
  PROVE  QueueInv' /\ SyncsBounded
<1> DEFINE w == initSentinel(view[s].boot + 1)
<1>1. QueueOK(w) /\ w.state = "none"
  BY InitQueue DEF initSentinel
<1>2. view' = [view EXCEPT ![s] = w]
  BY DEF RestartSentinel
<1> HIDE DEF w
<1>3. view'[s] = w /\ \A o \in Sentinels \ {s} : view'[o] = view[o]
  BY <1>2 DEF IInv, Record
<1>4. QueueInv'
  BY <1>1, <1>3 DEF QueueInv, QueueOK, Running
<1>5. Live \subseteq Sentinels
  BY LiveFacts DEF IInv, Sentinels
<1> QED
  BY <1>1, <1>3, <1>4, <1>5 DEF SyncsBounded

LEMMA StepLimits ==
  ASSUME IInv, QueueInv, [Next]_vars
  PROVE  QueueInv' /\ SyncsBounded
<1>1. ASSUME view' = view
      PROVE  QueueInv' /\ SyncsBounded
  BY <1>1 DEF QueueInv, QueueOK, Running, SyncsBounded
<1>2. CASE Next
  <2>1. CASE \E s \in Sentinels : sentinelTimer(s) \/ ForceFailover(s) \/ Reset(s) \/ RestartSentinel(s)
    BY <2>1, TimerLimits, OrdersLimits, RestartLimits
  <2>2. CASE \E s \in Sentinels, n \in Nodes : sentinelInfoReplyCallback(s, n)
    BY <2>2, InfoLimits
  <2>3. CASE \E s \in Sentinels, n \in Nodes : SlaveOf(s, n) \/ LoseCommands(s, n)
    BY <1>1, <2>3 DEF SlaveOf, LoseCommands
  <2>4. CASE \E s \in Sentinels, o \in Sentinels :
               \/ sentinelReceiveHelloMessages(s, o)
               \/ \E quiet \in Quiet : sentinelReceiveIsMasterDownReply(s, o, quiet)
    BY <2>4, HelloLimits
  <2>5. CASE \E n \in Nodes : Synchronize(n) \/ Crash(n) \/ Restart(n)
    BY <1>1, <2>5 DEF Synchronize, Crash, Restart
  <2> QED
    BY <1>2, <2>1, <2>2, <2>3, <2>4, <2>5 DEF Next
<1>3. CASE UNCHANGED vars
  BY <1>1, <1>3 DEF vars
<1> QED
  BY <1>2, <1>3

(***************************************************************************)
(* No Sentinel queues or runs more scripts than is allowed, or tells one   *)
(* slave more to follow the new master than may be off line at a time,     *)
(* whatever the scripts do and the slaves answer.                          *)
(***************************************************************************)
THEOREM LimitsAreKept == Spec => LimitsKept
<1>1. Init => IInv /\ QueueInv
  <2> SUFFICES ASSUME Init PROVE QueueInv
    BY Starts
  <2>1. ASSUME NEW s \in Sentinels
        PROVE  view[s].jobs = <<>> /\ view[s].running = 0
    <3> DEFINE i == initSentinel(0)
    <3>1. view[s] \in {Acquainted(s), i}
      BY DEF Init
    <3>2. i.jobs = <<>> /\ i.running = 0
      BY DEF initSentinel
    <3> HIDE DEF i
    <3>3. \E x, y, z : Acquainted(s) = [i EXCEPT !.runid = x, !.slaves = y, !.sentinels = z]
      BY Zenon DEF Acquainted, i
    <3>4. Acquainted(s).jobs = <<>> /\ Acquainted(s).running = 0
      BY <3>2, <3>3
    <3> QED
      BY <3>1, <3>2, <3>4
  <2> QED
    BY <2>1, InitQueue DEF QueueInv
<1>2. IInv /\ QueueInv /\ [Next]_vars => (IInv /\ QueueInv)' /\ SyncsBounded
  BY StepKeeps, StepLimits
<1>3. IInv /\ QueueInv => ScriptsBounded
  <2> SUFFICES ASSUME IInv, QueueInv, NEW s \in Live
               PROVE  /\ Len(view[s].jobs) <= ScriptMaxQueue
                      /\ Cardinality(Running(view[s].jobs)) <= ScriptMaxRunning
    BY DEF ScriptsBounded, Running
  <2>1. QueueOK(view[s])
    BY LiveFacts DEF IInv, QueueInv, Sentinels
  <2>2. PICK S : view[s].jobs \in Seq(S)
    BY <2>1 DEF QueueOK
  <2>3. Cardinality(Running(view[s].jobs)) \in Nat
    BY <2>2, RunningFinite
  <2> QED
    BY <2>1, <2>3, SentinelAssumption DEF QueueOK
<1>4. (IInv /\ QueueInv)' => ScriptsBounded'
  BY <1>3, PTL
<1>5. IInv /\ QueueInv /\ [Next]_vars => [ScriptsBounded' /\ SyncsBounded]_vars
  BY <1>2, <1>4
<1> QED
  BY <1>1, <1>2, <1>5, PTL DEF Spec, LimitsKept
=============================================================================
