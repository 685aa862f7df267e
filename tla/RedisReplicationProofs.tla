----------------------- MODULE RedisReplicationProofs -----------------------
(***************************************************************************)
(* Proofs about RedisReplication, for any number of servers, connections   *)
(* and databases and for any families of behaviours.                       *)
(***************************************************************************)
EXTENDS RedisReplication, WellFoundedInduction, SequenceTheorems, FiniteSetTheorems, TLAPS

-----------------------------------------------------------------------------
(***************************************************************************)
(* The values are the records that the model makes them.  Nothing is said  *)
(* of what most fields hold.                                               *)
(***************************************************************************)
ServerFields == {"up", "data", "dirty", "before", "saveok", "rdb", "save", "aof", "file", "synced",
                 "buf", "seldb", "rewrite", "diff", "scheduled", "postponed", "bio",
                 "host", "repl", "fd", "master"}
ConnFields == {"slave", "master", "ev", "writable", "db", "wire", "req", "role", "seldb", "out", "bulk"}

IsServer(v) == v = [x \in ServerFields |-> v[x]]
IsConn(c) == c = [x \in ConnFields |-> c[x]]
IsWorld(w) ==
    /\ w = [sv |-> w.sv, cn |-> w.cn]
    /\ w.sv = [s \in Servers |-> w.sv[s]] /\ \A s \in Servers : IsServer(w.sv[s])
    /\ w.cn = [f \in Fds |-> w.cn[f]] /\ \A f \in Fds : IsConn(w.cn[f])

(***************************************************************************)
(* What a server does of its own, and what the master's end of a           *)
(* connection does, leaves the slave's end as it is.                       *)
(***************************************************************************)
SameLink(v, u) ==
    IsServer(u) /\ u.up = v.up /\ u.host = v.host /\ u.repl = v.repl /\ u.fd = v.fd /\ u.master = v.master

SameEnd(c, d) ==
    IsConn(d) /\ d.ev = c.ev /\ (c.ev # "none" => d.slave = c.slave /\ d.master = c.master)

LEMMA SnapshotsLink ==
    ASSUME NEW v, IsServer(v)
    PROVE  /\ SameLink(v, rdbSave(v))
           /\ \A forks : SameLink(v, rdbSaveBackground(v, forks))
           /\ \A how : SameLink(v, SaveExit(v, how))
           /\ SameLink(v, backgroundSaveDone(v))
           /\ \A saveparams : SameLink(v, emptyDb(v, saveparams))
<1>1. \A u : IsServer(u) => SameLink(u, rdbSave(u))
  BY ZenonT(60) DEF rdbSave, SameLink, IsServer, ServerFields
<1>2. \A forks : SameLink(v, rdbSaveBackground(v, forks))
  BY DEF rdbSaveBackground, SameLink, IsServer, ServerFields
<1>3. \A how : SameLink(v, SaveExit(v, how))
  BY ZenonT(60) DEF SaveExit, SameLink, IsServer, ServerFields
<1>4. SameLink(v, backgroundSaveDone(v))
  BY DEF backgroundSaveDone, SameLink, IsServer, ServerFields
<1>5. ASSUME NEW saveparams PROVE SameLink(v, emptyDb(v, saveparams))
  <2> DEFINE killed == [v EXCEPT !.data = EmptyData, !.save = Killed(@), !.dirty = @ + Keys(v.data)]
             saved == IF saveparams THEN rdbSave(killed) ELSE killed
  <2>1. SameLink(v, killed)
    BY DEF SameLink, IsServer, ServerFields
  <2>2. SameLink(v, saved)
    BY <1>1, <2>1 DEF SameLink
  <2>3. emptyDb(v, saveparams) = [saved EXCEPT !.dirty = killed.dirty + 1]
    BY DEF emptyDb
  <2> HIDE DEF saved, killed
  <2> QED
    BY <2>2, <2>3 DEF SameLink, IsServer, ServerFields
<1> QED
  BY <1>1, <1>2, <1>3, <1>4, <1>5

LEMMA AppendsLink ==
    ASSUME NEW v, IsServer(v)
    PROVE  /\ \A db, c : SameLink(v, feedAppendOnlyFile(v, db, c))
           /\ \A conf, t : SameLink(v, flushAppendOnlyFile(v, conf, t))
           /\ SameLink(v, bioProcessBackgroundJobs(v))
           /\ \A forks : SameLink(v, rewriteAppendOnlyFileBackground(v, forks))
           /\ \A conf : SameLink(v, backgroundRewriteDoneHandler(v, conf))
           /\ \A conf : SameLink(v, stopAppendOnly(v, conf))
           /\ \A forks : SameLink(v, startAppendOnly(v, forks))
<1>1. ASSUME NEW db, NEW c PROVE SameLink(v, feedAppendOnlyFile(v, db, c))
  <2>1. PICK buf, diff : feedAppendOnlyFile(v, db, c) \in
                            {v, [v EXCEPT !.seldb = db, !.buf = buf, !.diff = diff]}
    BY Zenon DEF feedAppendOnlyFile
  <2> QED
    BY <2>1 DEF SameLink, IsServer, ServerFields
<1>2. ASSUME NEW conf, NEW t PROVE SameLink(v, flushAppendOnlyFile(v, conf, t))
  <2> DEFINE written == [v EXCEPT !.file = @ \o v.buf, !.buf = <<>>, !.postponed = FALSE]
  <2>1. \/ flushAppendOnlyFile(v, conf, t) \in {v, [v EXCEPT !.postponed = TRUE], written}
        \/ flushAppendOnlyFile(v, conf, t) = [written EXCEPT !.synced = Len(written.file)]
        \/ flushAppendOnlyFile(v, conf, t) = [written EXCEPT !.bio = Append(@, TRUE)]
    BY DEF flushAppendOnlyFile
  <2>2. SameLink(v, written)
    BY DEF SameLink, IsServer, ServerFields
  <2>3. SameLink(v, v) /\ SameLink(v, [v EXCEPT !.postponed = TRUE])
    BY DEF SameLink, IsServer, ServerFields
  <2> HIDE DEF written
  <2>4. SameLink(v, [written EXCEPT !.synced = Len(written.file)])
    BY <2>2 DEF SameLink, IsServer, ServerFields
  <2>5. SameLink(v, [written EXCEPT !.bio = Append(@, TRUE)])
    BY <2>2 DEF SameLink, IsServer, ServerFields
  <2> QED
    BY <2>1, <2>2, <2>3, <2>4, <2>5
<1>3. SameLink(v, bioProcessBackgroundJobs(v))
  BY DEF bioProcessBackgroundJobs, SameLink, IsServer, ServerFields
<1>4. \A forks : SameLink(v, rewriteAppendOnlyFileBackground(v, forks))
  BY DEF rewriteAppendOnlyFileBackground, SameLink, IsServer, ServerFields
<1>5. ASSUME NEW conf PROVE SameLink(v, backgroundRewriteDoneHandler(v, conf))
  <2> DEFINE over == [v EXCEPT !.diff = <<>>, !.rewrite = <<>>]
             Renamed(f, b) == [over EXCEPT !.file = f, !.synced = 1, !.bio = b]
             Opened(u, n, b) == [u EXCEPT !.synced = n, !.bio = b, !.seldb = -1, !.buf = <<>>, !.aof = "on"]
  <2>1. \/ \E b : backgroundRewriteDoneHandler(v, conf) = [over EXCEPT !.scheduled = b]
        \/ \E f, b : backgroundRewriteDoneHandler(v, conf) = Renamed(f, b)
        \/ \E f, b, n, b1 : backgroundRewriteDoneHandler(v, conf) = Opened(Renamed(f, b), n, b1)
    BY Zenon DEF backgroundRewriteDoneHandler
  <2>2. SameLink(v, over)
    BY DEF SameLink, IsServer, ServerFields
  <2> HIDE DEF over
  <2>3. \A b : SameLink(v, [over EXCEPT !.scheduled = b])
    BY <2>2 DEF SameLink, IsServer, ServerFields
  <2>4. ASSUME NEW f, NEW b PROVE SameLink(v, Renamed(f, b))
    BY <2>2 DEF SameLink, IsServer, ServerFields
  <2> HIDE DEF Renamed
  <2>5. ASSUME NEW u, SameLink(v, u), NEW n, NEW b PROVE SameLink(v, Opened(u, n, b))
    BY <2>5 DEF SameLink, IsServer, ServerFields
  <2> HIDE DEF Opened
  <2>6. \A f, b, n, b1 : SameLink(v, Opened(Renamed(f, b), n, b1))
    BY <2>4, <2>5
  <2>7. CASE \E b : backgroundRewriteDoneHandler(v, conf) = [over EXCEPT !.scheduled = b]
    BY <2>3, <2>7
  <2>8. CASE \E f, b : backgroundRewriteDoneHandler(v, conf) = Renamed(f, b)
    BY <2>4, <2>8
  <2>9. CASE \E f, b, n, b1 : backgroundRewriteDoneHandler(v, conf) = Opened(Renamed(f, b), n, b1)
    BY <2>6, <2>9
  <2> QED
    BY <2>1, <2>7, <2>8, <2>9
<1>6. ASSUME NEW conf PROVE SameLink(v, stopAppendOnly(v, conf))
  <2> DEFINE flushed == flushAppendOnlyFile(v, conf, [force |-> TRUE, two_seconds |-> FALSE, second |-> FALSE])
  <2>1. SameLink(v, flushed)
    BY <1>2
  <2>2. stopAppendOnly(v, conf) =
           [flushed EXCEPT !.aof = "off", !.seldb = -1, !.synced = Len(flushed.file),
                           !.rewrite = <<>>, !.diff = IF Running(v.rewrite) THEN <<>> ELSE @]
    BY DEF stopAppendOnly
  <2> HIDE DEF flushed
  <2> QED
    BY <2>1, <2>2 DEF SameLink, IsServer, ServerFields
<1>7. ASSUME NEW forks PROVE SameLink(v, startAppendOnly(v, forks))
  <2>1. SameLink(v, rewriteAppendOnlyFileBackground(v, TRUE))
    BY <1>4
  <2>2. startAppendOnly(v, forks) \in {v, [rewriteAppendOnlyFileBackground(v, TRUE) EXCEPT !.aof = "wait"]}
    BY DEF startAppendOnly
  <2> QED
    BY <2>1, <2>2 DEF SameLink, IsServer, ServerFields
<1> QED
  BY <1>1, <1>2, <1>3, <1>4, <1>5, <1>6, <1>7

-----------------------------------------------------------------------------
(***************************************************************************)
(* The link of a slave.  A slave that is up and replicates, in whatever    *)
(* stage, has one connection of its own, with the handler for that stage;  *)
(* an end with a handler belongs to such a slave, and is a connection to   *)
(* the slave's host.                                                       *)
(***************************************************************************)
Active == {"connecting", "pong", "transfer", "connected"}
Working(repl, ev) ==
    \/ repl \in {"connecting", "pong"} /\ ev = "sync"
    \/ repl = "transfer" /\ ev = "payload"
    \/ repl = "connected" /\ ev = "link"
Used(v) == IF v.repl = "connected" THEN v.master ELSE v.fd

ServerOK(w, s) ==
    LET v == w.sv[s] IN
    v.up => /\ v.repl \in Active => /\ Used(v) \in Fds /\ w.cn[Used(v)].slave = s
                                    /\ Working(v.repl, w.cn[Used(v)].ev)
            /\ v.master # 0 => v.repl = "connected"
            /\ v.host = 0 => v.repl = "none"
ConnOK(w, f) ==
    LET c == w.cn[f]
        v == w.sv[c.slave]
    IN  c.ev # "none" => /\ c.slave \in Servers /\ v.up /\ Used(v) = f
                         /\ Working(v.repl, c.ev) /\ c.master = v.host
Linked(w) == /\ \A s \in Servers : ServerOK(w, s)
             /\ \A f \in Fds : ConnOK(w, f)

(***************************************************************************)
(* A handler leaves every link alone; or it only closes ends of one slave, *)
(* and changes that slave.                                                 *)
(***************************************************************************)
Calm(w, u) ==
    /\ IsWorld(u)
    /\ \A s \in Servers : SameLink(w.sv[s], u.sv[s])
    /\ \A f \in Fds : SameEnd(w.cn[f], u.cn[f])
Near(w, u, s) ==
    /\ IsWorld(u)
    /\ \A r \in Servers \ {s} : SameLink(w.sv[r], u.sv[r])
    /\ \A f \in Fds : SameEnd(w.cn[f], u.cn[f]) \/ (w.cn[f].slave = s /\ u.cn[f].ev = "none")
Loose(w, s) == \A f \in Fds : w.cn[f].ev # "none" => w.cn[f].slave # s

LEMMA SameFacts ==
    ASSUME NEW w, IsWorld(w)
    PROVE  /\ \A s \in Servers : IsServer(w.sv[s]) /\ SameLink(w.sv[s], w.sv[s])
           /\ \A f \in Fds : IsConn(w.cn[f]) /\ SameEnd(w.cn[f], w.cn[f])
           /\ Calm(w, w)
  BY DEF IsWorld, SameLink, SameEnd, Calm

LEMMA CalmLinked ==
    ASSUME NEW w, NEW u, Linked(w), Calm(w, u)
    PROVE  Linked(u)
<1>1. ASSUME NEW s \in Servers PROVE ServerOK(u, s)
  <2>1. /\ u.sv[s].up = w.sv[s].up /\ u.sv[s].repl = w.sv[s].repl /\ u.sv[s].master = w.sv[s].master
        /\ u.sv[s].host = w.sv[s].host /\ Used(u.sv[s]) = Used(w.sv[s])
    BY DEF Calm, SameLink, Used
  <2>2. ServerOK(w, s)
    BY DEF Linked
  <2>3. ASSUME w.sv[s].up, w.sv[s].repl \in Active
        PROVE  /\ Used(w.sv[s]) \in Fds /\ u.cn[Used(w.sv[s])].slave = s
               /\ Working(w.sv[s].repl, u.cn[Used(w.sv[s])].ev)
    <3>1. /\ Used(w.sv[s]) \in Fds /\ w.cn[Used(w.sv[s])].slave = s
          /\ Working(w.sv[s].repl, w.cn[Used(w.sv[s])].ev)
      BY <2>2, <2>3 DEF ServerOK
    <3>2. SameEnd(w.cn[Used(w.sv[s])], u.cn[Used(w.sv[s])])
      BY <3>1 DEF Calm
    <3>3. w.cn[Used(w.sv[s])].ev # "none"
      BY <3>1 DEF Working
    <3> QED
      BY <3>1, <3>2, <3>3 DEF SameEnd
  <2> QED
    BY <2>1, <2>2, <2>3 DEF ServerOK
<1>2. ASSUME NEW f \in Fds, u.cn[f].ev # "none" PROVE ConnOK(u, f)
  <2>1. u.cn[f].ev = w.cn[f].ev /\ u.cn[f].slave = w.cn[f].slave /\ u.cn[f].master = w.cn[f].master
    BY <1>2 DEF Calm, SameEnd
  <2>2. /\ w.cn[f].slave \in Servers /\ w.sv[w.cn[f].slave].up /\ Used(w.sv[w.cn[f].slave]) = f
        /\ Working(w.sv[w.cn[f].slave].repl, w.cn[f].ev) /\ w.cn[f].master = w.sv[w.cn[f].slave].host
    BY <1>2, <2>1 DEF Linked, ConnOK
  <2>3. /\ u.sv[w.cn[f].slave].up = w.sv[w.cn[f].slave].up
        /\ u.sv[w.cn[f].slave].repl = w.sv[w.cn[f].slave].repl
        /\ u.sv[w.cn[f].slave].host = w.sv[w.cn[f].slave].host
        /\ Used(u.sv[w.cn[f].slave]) = Used(w.sv[w.cn[f].slave])
    BY <2>2 DEF Calm, SameLink, Used
  <2> QED
    BY <2>1, <2>2, <2>3 DEF ConnOK
<1>3. ASSUME NEW f \in Fds, u.cn[f].ev = "none" PROVE ConnOK(u, f)
  BY <1>3 DEF ConnOK
<1> QED
  BY <1>1, <1>2, <1>3 DEF Linked

LEMMA CalmThen ==
    ASSUME NEW w, NEW u, NEW x, Calm(w, u), Calm(u, x)
    PROVE  Calm(w, x)
  BY DEF Calm, SameLink, SameEnd

LEMMA CalmNear ==
    ASSUME NEW w, NEW u, Calm(w, u), NEW s
    PROVE  Near(w, u, s)
  BY DEF Calm, Near

LEMMA NearThen ==
    ASSUME NEW w, NEW u, NEW x, NEW s, Near(w, u, s), Near(u, x, s)
    PROVE  Near(w, x, s)
<1>1. \A r \in Servers \ {s} : SameLink(w.sv[r], x.sv[r])
  BY DEF Near, SameLink
<1>2. ASSUME NEW f \in Fds PROVE SameEnd(w.cn[f], x.cn[f]) \/ (w.cn[f].slave = s /\ x.cn[f].ev = "none")
  BY DEF Near, SameEnd, IsWorld
<1> QED
  BY <1>1, <1>2 DEF Near

LEMMA NearLoose ==
    ASSUME NEW w, NEW u, NEW s, Near(w, u, s), Loose(w, s)
    PROVE  Loose(u, s)
  BY DEF Near, Loose, SameEnd

\* The one end that a slave uses
LEMMA OneLink ==
    ASSUME NEW w, Linked(w), NEW s \in Servers, NEW f \in Fds, w.cn[f].slave = s, w.cn[f].ev # "none"
    PROVE  /\ w.sv[s].up /\ Used(w.sv[s]) = f /\ w.sv[s].repl \in Active
           /\ Working(w.sv[s].repl, w.cn[f].ev) /\ w.cn[f].master = w.sv[s].host
  BY DEF Linked, ConnOK, Working, Active

LEMMA LooseLinked ==
    ASSUME NEW w, NEW u, NEW s \in Servers, Linked(w), Near(w, u, s), Loose(u, s),
           u.sv[s].up => u.sv[s].repl \notin Active /\ u.sv[s].master = 0,
           u.sv[s].up /\ u.sv[s].host = 0 => u.sv[s].repl = "none"
    PROVE  Linked(u)
<1>1. ASSUME NEW r \in Servers \ {s} PROVE ServerOK(u, r)
  <2>1. SameLink(w.sv[r], u.sv[r]) /\ Used(u.sv[r]) = Used(w.sv[r])
    BY DEF Near, SameLink, Used
  <2>2. ServerOK(w, r)
    BY DEF Linked
  <2>3. ASSUME w.sv[r].up, w.sv[r].repl \in Active
        PROVE  LET f == Used(w.sv[r])
               IN  f \in Fds /\ u.cn[f].slave = r /\ Working(w.sv[r].repl, u.cn[f].ev)
    <3>1. LET f == Used(w.sv[r])
          IN  f \in Fds /\ w.cn[f].slave = r /\ Working(w.sv[r].repl, w.cn[f].ev) /\ w.cn[f].ev # "none"
      BY <2>2, <2>3 DEF ServerOK, Working
    <3> QED
      BY <3>1 DEF Near, SameEnd
  <2> QED
    BY <2>1, <2>2, <2>3 DEF ServerOK, SameLink
<1>2. ServerOK(u, s)
  BY DEF ServerOK
<1>3. ASSUME NEW f \in Fds, u.cn[f].ev # "none" PROVE ConnOK(u, f)
  <2>1. SameEnd(w.cn[f], u.cn[f]) /\ u.cn[f].slave # s
    BY <1>3 DEF Near, Loose
  <2>2. w.cn[f].slave \in Servers /\ ConnOK(w, f)
    BY <1>3, <2>1 DEF Linked, ConnOK, SameEnd
  <2>3. SameLink(w.sv[w.cn[f].slave], u.sv[w.cn[f].slave])
    BY <1>3, <2>1, <2>2 DEF Near, SameEnd
  <2> QED
    BY <1>3, <2>1, <2>2, <2>3 DEF ConnOK, SameLink, SameEnd, Used
<1> QED
  BY <1>1, <1>2, <1>3 DEF Linked, ConnOK

(***************************************************************************)
(* How worlds are changed.                                                 *)
(***************************************************************************)
WithServer(w, s, v) == [sv |-> [w.sv EXCEPT ![s] = v], cn |-> w.cn]
WithConn(w, f, c) == [sv |-> w.sv, cn |-> [w.cn EXCEPT ![f] = c]]
WithConns(w, cn) == [sv |-> w.sv, cn |-> cn]

LEMMA Shape ==
    ASSUME NEW w, IsWorld(w)
    PROVE  w = [sv |-> w.sv, cn |-> w.cn]
  BY DEF IsWorld

LEMMA Changes ==
    ASSUME NEW w, IsWorld(w)
    PROVE  /\ \A s, v : [w EXCEPT !.sv[s] = v] = WithServer(w, s, v)
           /\ \A f, c : [w EXCEPT !.cn[f] = c] = WithConn(w, f, c)
           /\ \A cn : [w EXCEPT !.cn = cn] = WithConns(w, cn)
  BY DEF IsWorld, WithServer, WithConn, WithConns

LEMMA PutServer ==
    ASSUME NEW w, IsWorld(w), NEW s \in Servers, NEW v, IsServer(v)
    PROVE  LET u == WithServer(w, s, v)
           IN  /\ IsWorld(u) /\ u.cn = w.cn /\ u.sv[s] = v
               /\ \A r \in Servers \ {s} : u.sv[r] = w.sv[r]
               /\ Near(w, u, s)
               /\ SameLink(w.sv[s], v) => Calm(w, u)
<1> DEFINE u == WithServer(w, s, v)
<1>1. u = [sv |-> [w.sv EXCEPT ![s] = v], cn |-> w.cn]
  BY DEF WithServer
<1> HIDE DEF u
<1>2. u.cn = w.cn /\ u.sv = [r \in Servers |-> IF r = s THEN v ELSE w.sv[r]]
  BY <1>1 DEF IsWorld
<1>3. IsWorld(u)
  BY <1>1, <1>2 DEF IsWorld
<1>4. Near(w, u, s) /\ (SameLink(w.sv[s], v) => Calm(w, u))
  BY <1>2, <1>3, SameFacts DEF Near, Calm
<1> QED
  BY <1>2, <1>3, <1>4 DEF u

LEMMA PutConn ==
    ASSUME NEW w, IsWorld(w), NEW f \in Fds, NEW c, IsConn(c)
    PROVE  LET u == WithConn(w, f, c)
           IN  /\ IsWorld(u) /\ u.sv = w.sv /\ u.cn[f] = c
               /\ \A g \in Fds \ {f} : u.cn[g] = w.cn[g]
               /\ SameEnd(w.cn[f], c) => Calm(w, u)
<1> DEFINE u == WithConn(w, f, c)
<1>1. u = [sv |-> w.sv, cn |-> [w.cn EXCEPT ![f] = c]]
  BY DEF WithConn
<1> HIDE DEF u
<1>2. u.sv = w.sv /\ u.cn = [g \in Fds |-> IF g = f THEN c ELSE w.cn[g]]
  BY <1>1 DEF IsWorld
<1>3. IsWorld(u)
  BY <1>1, <1>2 DEF IsWorld
<1>4. SameEnd(w.cn[f], c) => Calm(w, u)
  BY <1>2, <1>3, SameFacts DEF Calm
<1> QED
  BY <1>2, <1>3, <1>4 DEF u

LEMMA PutConns ==
    ASSUME NEW w, IsWorld(w), NEW cn, cn = [f \in Fds |-> cn[f]],
           \A f \in Fds : SameEnd(w.cn[f], cn[f])
    PROVE  LET u == WithConns(w, cn) IN Calm(w, u) /\ u.sv = w.sv /\ u.cn = cn
<1> DEFINE u == WithConns(w, cn)
<1>1. u = [sv |-> w.sv, cn |-> cn]
  BY DEF WithConns
<1> HIDE DEF u
<1>2. u.sv = w.sv /\ u.cn = cn
  BY <1>1
<1>3. IsWorld(u)
  BY <1>1, <1>2 DEF IsWorld, SameEnd
<1>4. Calm(w, u)
  BY <1>2, <1>3, SameFacts DEF Calm
<1> QED
  BY <1>2, <1>4 DEF u

LEMMA Twice ==
    ASSUME NEW w, IsWorld(w), NEW s \in Servers, NEW v, NEW u
    PROVE  WithServer(WithServer(w, s, v), s, u) = WithServer(w, s, u)
<1>1. [[w.sv EXCEPT ![s] = v] EXCEPT ![s] = u] = [w.sv EXCEPT ![s] = u]
  BY DEF IsWorld
<1> QED
  BY <1>1 DEF WithServer

(***************************************************************************)
(* A slave that loses or gives up its link, alone and in its world.        *)
(***************************************************************************)
Late(v) == [v EXCEPT !.repl = "connect"]
Undone(v) == [v EXCEPT !.repl = "connect", !.fd = 0]
Refusing(v) == [v EXCEPT !.fd = 0, !.repl = "connect"]
Parted(v) == [v EXCEPT !.master = 0, !.repl = "connect"]
UndoneIn(w, s) == [w EXCEPT !.sv[s].repl = "connect", !.sv[s].fd = 0]
RefusingIn(w, s) == [w EXCEPT !.sv[s].fd = 0, !.sv[s].repl = "connect"]
PartedIn(w, s) == [w EXCEPT !.sv[s].master = 0, !.sv[s].repl = "connect"]

LEMMA LostLink ==
    ASSUME NEW v, IsServer(v)
    PROVE  /\ \A u \in {Late(v), Undone(v), Refusing(v)} :
                 IsServer(u) /\ u.up = v.up /\ u.host = v.host /\ u.repl = "connect" /\ u.master = v.master
           /\ LET u == Parted(v)
              IN  IsServer(u) /\ u.up = v.up /\ u.host = v.host /\ u.fd = v.fd /\ u.repl = "connect" /\ u.master = 0
<1>1. LET u == Late(v) IN IsServer(u) /\ u.up = v.up /\ u.host = v.host /\ u.repl = "connect" /\ u.master = v.master
  BY DEF IsServer, ServerFields, Late
<1>2. LET u == Undone(v) IN IsServer(u) /\ u.up = v.up /\ u.host = v.host /\ u.repl = "connect" /\ u.master = v.master
  BY DEF IsServer, ServerFields, Undone
<1>3. LET u == Refusing(v) IN IsServer(u) /\ u.up = v.up /\ u.host = v.host /\ u.repl = "connect" /\ u.master = v.master
  BY DEF IsServer, ServerFields, Refusing
<1>4. LET u == Parted(v)
      IN  IsServer(u) /\ u.up = v.up /\ u.host = v.host /\ u.fd = v.fd /\ u.repl = "connect" /\ u.master = 0
  BY DEF IsServer, ServerFields, Parted
<1> QED
  BY <1>1, <1>2, <1>3, <1>4

LEMMA InWorld ==
    ASSUME NEW w, IsWorld(w), NEW s \in Servers
    PROVE  /\ UndoneIn(w, s) = WithServer(w, s, Undone(w.sv[s]))
           /\ RefusingIn(w, s) = WithServer(w, s, Refusing(w.sv[s]))
           /\ PartedIn(w, s) = WithServer(w, s, Parted(w.sv[s]))
<1>0. IsServer(w.sv[s])
  BY SameFacts
<1>1. UndoneIn(w, s) = WithServer(w, s, Undone(w.sv[s]))
  <2> DEFINE v == [w.sv[s] EXCEPT !.repl = "connect"]
             x == WithServer(w, s, v)
             y == [v EXCEPT !.fd = 0]
  <2>1. IsServer(v)
    BY <1>0 DEF IsServer, ServerFields
  <2>2. [w EXCEPT !.sv[s].repl = "connect"] = x
    BY Shape DEF WithServer
  <2>3. UndoneIn(w, s) = [x EXCEPT !.sv[s].fd = 0]
    BY <2>2 DEF UndoneIn
  <2>4. x = WithServer(w, s, v) /\ y = [v EXCEPT !.fd = 0] /\ y = Undone(w.sv[s])
    BY DEF Undone
  <2> HIDE DEF v, y
  <2>5. IsWorld(x) /\ x.sv[s] = v
    BY <2>1, PutServer
  <2> HIDE DEF x
  <2>6. [x EXCEPT !.sv[s].fd = 0] = WithServer(x, s, [x.sv[s] EXCEPT !.fd = 0])
    BY <2>5, Shape DEF WithServer
  <2>7. WithServer(x, s, y) = WithServer(w, s, y)
    BY <2>4, Twice
  <2> QED
    BY <2>3, <2>4, <2>5, <2>6, <2>7
<1>2. RefusingIn(w, s) = WithServer(w, s, Refusing(w.sv[s]))
  <2> DEFINE v == [w.sv[s] EXCEPT !.fd = 0]
             x == WithServer(w, s, v)
             y == [v EXCEPT !.repl = "connect"]
  <2>1. IsServer(v)
    BY <1>0 DEF IsServer, ServerFields
  <2>2. [w EXCEPT !.sv[s].fd = 0] = x
    BY Shape DEF WithServer
  <2>3. RefusingIn(w, s) = [x EXCEPT !.sv[s].repl = "connect"]
    BY <2>2 DEF RefusingIn
  <2>4. x = WithServer(w, s, v) /\ y = [v EXCEPT !.repl = "connect"] /\ y = Refusing(w.sv[s])
    BY DEF Refusing
  <2> HIDE DEF v, y
  <2>5. IsWorld(x) /\ x.sv[s] = v
    BY <2>1, PutServer
  <2> HIDE DEF x
  <2>6. [x EXCEPT !.sv[s].repl = "connect"] = WithServer(x, s, [x.sv[s] EXCEPT !.repl = "connect"])
    BY <2>5, Shape DEF WithServer
  <2>7. WithServer(x, s, y) = WithServer(w, s, y)
    BY <2>4, Twice
  <2> QED
    BY <2>3, <2>4, <2>5, <2>6, <2>7
<1>3. PartedIn(w, s) = WithServer(w, s, Parted(w.sv[s]))
  <2> DEFINE v == [w.sv[s] EXCEPT !.master = 0]
             x == WithServer(w, s, v)
             y == [v EXCEPT !.repl = "connect"]
  <2>1. IsServer(v)
    BY <1>0 DEF IsServer, ServerFields
  <2>2. [w EXCEPT !.sv[s].master = 0] = x
    BY Shape DEF WithServer
  <2>3. PartedIn(w, s) = [x EXCEPT !.sv[s].repl = "connect"]
    BY <2>2 DEF PartedIn
  <2>4. x = WithServer(w, s, v) /\ y = [v EXCEPT !.repl = "connect"] /\ y = Parted(w.sv[s])
    BY DEF Parted
  <2> HIDE DEF v, y
  <2>5. IsWorld(x) /\ x.sv[s] = v
    BY <2>1, PutServer
  <2> HIDE DEF x
  <2>6. [x EXCEPT !.sv[s].repl = "connect"] = WithServer(x, s, [x.sv[s] EXCEPT !.repl = "connect"])
    BY <2>5, Shape DEF WithServer
  <2>7. WithServer(x, s, y) = WithServer(w, s, y)
    BY <2>4, Twice
  <2> QED
    BY <2>3, <2>4, <2>5, <2>6, <2>7
<1> QED
  BY <1>1, <1>2, <1>3

-----------------------------------------------------------------------------
(***************************************************************************)
(* The master's end: nothing it does touches the slave's.                  *)
(***************************************************************************)
LEMMA FreedEnd ==
    ASSUME NEW c, IsConn(c)
    PROVE  SameEnd(c, Freed(c)) /\ IsConn(Closed) /\ Closed.ev = "none" /\ Closed.slave = 0
<1>1. IsConn(Closed) /\ Closed.ev = "none" /\ Closed.slave = 0
  BY DEF IsConn, Closed, ConnFields
<1> QED
  BY <1>1 DEF SameEnd, Freed

LEMMA ClosedEnd ==
    ASSUME NEW c, IsConn(c)
    PROVE  SameEnd(c, Freed([c EXCEPT !.role = "closed"]))
<1>1. SameEnd(c, [c EXCEPT !.role = "closed"])
  BY DEF SameEnd, IsConn, ConnFields
<1>2. SameEnd([c EXCEPT !.role = "closed"], Freed([c EXCEPT !.role = "closed"]))
  BY <1>1, FreedEnd DEF SameEnd
<1> QED
  BY <1>1, <1>2 DEF SameEnd

LEMMA FeedCalm ==
    ASSUME NEW w, IsWorld(w), NEW s \in Servers, NEW db, NEW c
    PROVE  /\ Calm(w, replicationFeedSlaves(w, s, db, c))
           /\ Calm(w, propagate(w, s, db, c))
<1>1. ASSUME NEW u, IsWorld(u) PROVE Calm(u, replicationFeedSlaves(u, s, db, c))
  <2> DEFINE cn == replicationFeedSlaves(u, s, db, c).cn
             Out(k) == k.out \o IF k.seldb = db THEN <<c>> ELSE <<Select(db), c>>
             next == [f \in Fds |-> IF f \in SlavesOf(u, s) /\ u.cn[f].role # "start"
                                    THEN [u.cn[f] EXCEPT !.seldb = db, !.out = Out(u.cn[f])] ELSE u.cn[f]]
  <2>1. replicationFeedSlaves(u, s, db, c) = WithConns(u, next)
    BY Zenon, <1>1, Changes DEF replicationFeedSlaves
  <2>2. next = [f \in Fds |-> next[f]]
    BY Zenon
  <2>3. ASSUME NEW f \in Fds PROVE SameEnd(u.cn[f], next[f])
    <3>1. next[f] = IF f \in SlavesOf(u, s) /\ u.cn[f].role # "start"
                    THEN [u.cn[f] EXCEPT !.seldb = db, !.out = Out(u.cn[f])] ELSE u.cn[f]
      BY <2>3, Zenon
    <3>2. IsConn(u.cn[f]) /\ SameEnd(u.cn[f], u.cn[f])
      BY <1>1, <2>3, SameFacts
    <3> HIDE DEF next, Out
    <3>3. SameEnd(u.cn[f], [u.cn[f] EXCEPT !.seldb = db, !.out = Out(u.cn[f])])
      BY <3>2 DEF SameEnd, IsConn, ConnFields
    <3> QED
      BY <3>1, <3>2, <3>3
  <2> HIDE DEF next
  <2> QED
    BY <1>1, <2>1, <2>2, <2>3, PutConns
<1>2. Calm(w, propagate(w, s, db, c))
  <2> DEFINE fed == WithServer(w, s, feedAppendOnlyFile(w.sv[s], db, c))
  <2>1. SameLink(w.sv[s], feedAppendOnlyFile(w.sv[s], db, c))
    BY SameFacts, AppendsLink
  <2>2. Calm(w, fed) /\ IsWorld(fed)
    BY <2>1, PutServer DEF SameLink
  <2>3. propagate(w, s, db, c) = replicationFeedSlaves(fed, s, db, c)
    BY Shape DEF propagate, WithServer
  <2> HIDE DEF fed
  <2> QED
    BY <1>1, <2>2, <2>3, CalmThen
<1> QED
  BY <1>1, <1>2

LEMMA CloseMasterCalm ==
    ASSUME NEW w, IsWorld(w), NEW fs
    PROVE  Calm(w, CloseMasterEnds(w, fs)) /\ CloseMasterEnds(w, fs).sv = w.sv
<1> DEFINE next == [f \in Fds |-> IF f \in fs THEN Freed([w.cn[f] EXCEPT !.role = "closed"]) ELSE w.cn[f]]
<1>1. CloseMasterEnds(w, fs) = WithConns(w, next)
  BY Zenon, Changes DEF CloseMasterEnds
<1>2. next = [f \in Fds |-> next[f]]
  BY Zenon
<1>3. ASSUME NEW f \in Fds PROVE SameEnd(w.cn[f], next[f])
  <2>1. next[f] \in {w.cn[f], Freed([w.cn[f] EXCEPT !.role = "closed"])}
    OBVIOUS
  <2> HIDE DEF next
  <2> QED
    BY <2>1, ClosedEnd, SameFacts
<1> HIDE DEF next
<1> QED
  BY <1>1, <1>2, <1>3, PutConns

LEMMA SyncCommandCalm ==
    ASSUME NEW w, IsWorld(w), NEW s, NEW f \in Fds, NEW forks
    PROVE  Calm(w, syncCommand(w, s, f, forks))
<1> DEFINE Role(r, out) == [w EXCEPT !.cn[f] = [@ EXCEPT !.role = r, !.out = out, !.seldb = 0]]
           error == [w EXCEPT !.cn[f].wire = Append(@, <<"error">>)]
           Forked == [Role("end", <<>>) EXCEPT !.sv[s] = rdbSaveBackground(@, TRUE)]
<1>1. \/ syncCommand(w, s, f, forks) \in {w, error, Role("start", <<>>), Forked}
      \/ \E out : syncCommand(w, s, f, forks) = Role("end", out)
  BY Zenon DEF syncCommand
<1>2. ASSUME NEW r, NEW out PROVE Calm(w, Role(r, out)) /\ Role(r, out).sv = w.sv
  <2> DEFINE c == [w.cn[f] EXCEPT !.role = r, !.out = out, !.seldb = 0]
  <2>0. IsConn(w.cn[f])
    BY SameFacts
  <2>1. SameEnd(w.cn[f], c) /\ IsConn(c)
    BY <2>0 DEF SameEnd, IsConn, ConnFields
  <2>2. Role(r, out) = WithConn(w, f, c)
    BY Shape DEF WithConn
  <2> HIDE DEF c, Role
  <2> QED
    BY <2>1, <2>2, PutConn
<1>3. Calm(w, error)
  <2> DEFINE c == [w.cn[f] EXCEPT !.wire = Append(@, <<"error">>)]
  <2>0. IsConn(w.cn[f])
    BY SameFacts
  <2>1. SameEnd(w.cn[f], c) /\ IsConn(c)
    BY <2>0 DEF SameEnd, IsConn, ConnFields
  <2>2. error = [w EXCEPT !.cn[f] = c]
    BY Zenon
  <2> HIDE DEF c, error
  <2>3. error = WithConn(w, f, c)
    BY Zenon, <2>2, Changes
  <2> QED
    BY <2>1, <2>3, PutConn
<1>4. Calm(w, Forked)
  <2> DEFINE u == Role("end", <<>>)
  <2>1. Calm(w, u) /\ IsWorld(u)
    BY <1>2 DEF Calm
  <2>0. Forked = [u EXCEPT !.sv[s] = rdbSaveBackground(u.sv[s], TRUE)]
    BY Zenon
  <2> HIDE DEF u, Forked
  <2>2. Forked = WithServer(u, s, rdbSaveBackground(u.sv[s], TRUE))
    BY ZenonT(60), <2>0, <2>1, Changes
  <2>3. CASE s \in Servers
    <3>1. SameLink(u.sv[s], rdbSaveBackground(u.sv[s], TRUE))
      BY <2>1, <2>3, SameFacts, SnapshotsLink
    <3>2. Calm(u, Forked)
      BY <2>1, <2>2, <2>3, <3>1, PutServer DEF SameLink
    <3> QED
      BY <2>1, <3>2, CalmThen
  <2>4. CASE s \notin Servers
    <3>1. [u.sv EXCEPT ![s] = rdbSaveBackground(u.sv[s], TRUE)] = u.sv
      BY <2>1, <2>4 DEF IsWorld
    <3>2. Forked = u
      BY <2>1, <2>2, <3>1, Shape DEF WithServer
    <3> QED
      BY <2>1, <3>2
  <2> QED
    BY <2>3, <2>4
<1> HIDE DEF Role, error, Forked
<1> QED
  BY <1>1, <1>2, <1>3, <1>4, SameFacts

LEMMA SaveDoneCalm ==
    ASSUME NEW w, IsWorld(w), NEW s \in Servers, NEW forks
    PROVE  Calm(w, backgroundSaveDoneHandler(w, s, forks))
<1>1. ASSUME NEW u, IsWorld(u), NEW ok PROVE Calm(u, updateSlavesWaitingBgsave(u, s, ok, forks))
  <2> DEFINE Next1(c) == IF c.role = "start" THEN [c EXCEPT !.role = "end"]
                         ELSE IF c.role # "end" THEN c
                         ELSE IF ok /\ u.sv[s].rdb # <<>>
                         THEN [c EXCEPT !.role = "bulk", !.bulk = u.sv[s].rdb]
                         ELSE Freed([c EXCEPT !.role = "closed"])
             next == [f \in Fds |-> IF f \in SlavesOf(u, s) THEN Next1(u.cn[f]) ELSE u.cn[f]]
             moved == WithConns(u, next)
  <2>0. moved = [u EXCEPT !.cn = [f \in Fds |-> IF f \in SlavesOf(u, s) THEN Next1(@[f]) ELSE @[f]]]
    BY Zenon, <1>1, Changes
  <2>1. \/ updateSlavesWaitingBgsave(u, s, ok, forks) = moved
        \/ updateSlavesWaitingBgsave(u, s, ok, forks) =
               [moved EXCEPT !.sv[s] = rdbSaveBackground(@, forks)]
    BY <2>0, Zenon DEF updateSlavesWaitingBgsave, Server
  <2>2. next = [f \in Fds |-> next[f]]
    BY Zenon
  <2>3. ASSUME NEW f \in Fds PROVE SameEnd(u.cn[f], next[f])
    <3>1. next[f] = IF f \in SlavesOf(u, s) THEN Next1(u.cn[f]) ELSE u.cn[f]
      BY <2>3, Zenon
    <3>2. IsConn(u.cn[f]) /\ SameEnd(u.cn[f], u.cn[f])
      BY <1>1, <2>3, SameFacts
    <3>3. SameEnd(u.cn[f], [u.cn[f] EXCEPT !.role = "end"])
      BY <3>2 DEF SameEnd, IsConn, ConnFields
    <3>4. SameEnd(u.cn[f], [u.cn[f] EXCEPT !.role = "bulk", !.bulk = u.sv[s].rdb])
      BY <3>2 DEF SameEnd, IsConn, ConnFields
    <3>5. SameEnd(u.cn[f], Freed([u.cn[f] EXCEPT !.role = "closed"]))
      BY <3>2, ClosedEnd
    <3> HIDE DEF next
    <3> QED
      BY <3>1, <3>2, <3>3, <3>4, <3>5
  <2> HIDE DEF next
  <2>4. Calm(u, moved)
    BY <1>1, <2>2, <2>3, PutConns
  <2> HIDE DEF moved
  <2>5. Calm(moved, [moved EXCEPT !.sv[s] = rdbSaveBackground(@, forks)])
    <3>1. IsWorld(moved) /\ SameLink(moved.sv[s], rdbSaveBackground(moved.sv[s], forks))
      BY <2>4, SameFacts, SnapshotsLink DEF Calm
    <3>2. [moved EXCEPT !.sv[s] = rdbSaveBackground(@, forks)] =
             WithServer(moved, s, rdbSaveBackground(moved.sv[s], forks))
      BY <3>1, Shape DEF WithServer
    <3> QED
      BY <3>1, <3>2, PutServer DEF SameLink
  <2> QED
    BY <2>1, <2>4, <2>5, CalmThen
<1> DEFINE done == WithServer(w, s, backgroundSaveDone(w.sv[s]))
<1>2. Calm(w, done) /\ IsWorld(done)
  <2>1. SameLink(w.sv[s], backgroundSaveDone(w.sv[s]))
    BY SameFacts, SnapshotsLink
  <2> QED
    BY <2>1, PutServer DEF SameLink
<1>3. backgroundSaveDoneHandler(w, s, forks) =
         updateSlavesWaitingBgsave(done, s, w.sv[s].save[1].exit \in {"ok", "killed"}, forks)
  BY Shape DEF backgroundSaveDoneHandler, Server, WithServer
<1> HIDE DEF done
<1> QED
  BY <1>1, <1>2, <1>3, CalmThen

-----------------------------------------------------------------------------
(***************************************************************************)
(* The slave's end.  A slave that changes its stage moves one end, its own *)
(* or a free one.                                                          *)
(***************************************************************************)
LEMMA MoveLinked ==
    ASSUME NEW w, NEW u, NEW s \in Servers, NEW f \in Fds, Linked(w), IsWorld(u),
           \A r \in Servers \ {s} : SameLink(w.sv[r], u.sv[r]),
           \A g \in Fds \ {f} : /\ SameEnd(w.cn[g], u.cn[g])
                                /\ w.cn[g].ev # "none" => w.cn[g].slave # s,
           w.cn[f].ev = "none" \/ w.cn[f].slave = s,
           u.cn[f].slave = s, u.cn[f].master = u.sv[s].host, Working(u.sv[s].repl, u.cn[f].ev),
           u.sv[s].up, u.sv[s].host # 0, Used(u.sv[s]) = f, u.sv[s].master # 0 => u.sv[s].repl = "connected"
    PROVE  Linked(u)
<1>1. ServerOK(u, s)
  BY DEF ServerOK
<1>2. ASSUME NEW r \in Servers \ {s} PROVE ServerOK(u, r)
  <2>1. SameLink(w.sv[r], u.sv[r]) /\ Used(u.sv[r]) = Used(w.sv[r])
    BY DEF SameLink, Used
  <2>2. ServerOK(w, r)
    BY DEF Linked
  <2>3. ASSUME w.sv[r].up, w.sv[r].repl \in Active
        PROVE  LET g == Used(w.sv[r])
               IN  g \in Fds /\ u.cn[g].slave = r /\ Working(w.sv[r].repl, u.cn[g].ev)
    <3>1. LET g == Used(w.sv[r])
          IN  g \in Fds /\ w.cn[g].slave = r /\ Working(w.sv[r].repl, w.cn[g].ev) /\ w.cn[g].ev # "none"
      BY <2>2, <2>3 DEF ServerOK, Working
    <3> QED
      BY <3>1 DEF SameEnd
  <2> QED
    BY <2>1, <2>2, <2>3 DEF ServerOK, SameLink
<1>3. ConnOK(u, f)
  BY DEF ConnOK
<1>4. ASSUME NEW g \in Fds \ {f}, u.cn[g].ev # "none" PROVE ConnOK(u, g)
  <2>1. SameEnd(w.cn[g], u.cn[g]) /\ w.cn[g].ev # "none" /\ w.cn[g].slave # s /\ ConnOK(w, g)
    BY <1>4 DEF Linked, SameEnd
  <2>3. w.cn[g].slave \in Servers
    BY <2>1 DEF ConnOK
  <2>2. SameLink(w.sv[w.cn[g].slave], u.sv[w.cn[g].slave])
    BY <2>1, <2>3
  <2>4. /\ w.sv[w.cn[g].slave].up /\ Used(w.sv[w.cn[g].slave]) = g
        /\ Working(w.sv[w.cn[g].slave].repl, w.cn[g].ev) /\ w.cn[g].master = w.sv[w.cn[g].slave].host
    BY <2>1 DEF ConnOK
  <2>5. u.cn[g].ev = w.cn[g].ev /\ u.cn[g].slave = w.cn[g].slave /\ u.cn[g].master = w.cn[g].master
    BY <2>1 DEF SameEnd
  <2>6. Used(u.sv[w.cn[g].slave]) = Used(w.sv[w.cn[g].slave])
    BY <2>2 DEF SameLink, Used
  <2>7. /\ u.sv[w.cn[g].slave].up /\ u.sv[w.cn[g].slave].repl = w.sv[w.cn[g].slave].repl
        /\ u.sv[w.cn[g].slave].host = w.sv[w.cn[g].slave].host
    BY <2>2, <2>4 DEF SameLink
  <2> QED
    BY <2>3, <2>4, <2>5, <2>6, <2>7 DEF ConnOK
<1> QED
  BY <1>1, <1>2, <1>3, <1>4 DEF Linked, ConnOK

LEMMA CloseEnd ==
    ASSUME NEW w, IsWorld(w), NEW f \in Fds
    PROVE  LET u == CloseSlaveEnd(w, f)
           IN  /\ IsWorld(u) /\ u.sv = w.sv /\ u.cn[f].ev = "none"
               /\ \A g \in Fds \ {f} : u.cn[g] = w.cn[g]
               /\ Near(w, u, w.cn[f].slave)
<1> DEFINE c == [w.cn[f] EXCEPT !.ev = "none", !.writable = FALSE]
<1>1. f # 0
  BY ReplicationAssumption DEF Fds
<1>2. CloseSlaveEnd(w, f) = WithConn(w, f, Freed(c))
  BY <1>1, Shape DEF CloseSlaveEnd, WithConn
<1>3. IsConn(w.cn[f])
  BY SameFacts
<1>4. IsConn(c) /\ c.ev = "none"
  BY <1>3 DEF IsConn, ConnFields
<1> HIDE DEF c
<1>5. IsConn(Freed(c)) /\ Freed(c).ev = "none"
  BY <1>4, FreedEnd DEF SameEnd
<1>6. LET u == CloseSlaveEnd(w, f)
      IN  /\ IsWorld(u) /\ u.sv = w.sv /\ u.cn[f].ev = "none"
          /\ \A g \in Fds \ {f} : u.cn[g] = w.cn[g]
  BY <1>2, <1>5, PutConn
<1>7. ASSUME NEW g \in Fds
      PROVE  LET u == CloseSlaveEnd(w, f)
             IN  SameEnd(w.cn[g], u.cn[g]) \/ (w.cn[g].slave = w.cn[f].slave /\ u.cn[g].ev = "none")
  BY <1>6, SameFacts
<1>8. \A r \in Servers : SameLink(w.sv[r], w.sv[r])
  BY SameFacts
<1> QED
  BY <1>6, <1>7, <1>8 DEF Near

\* When the end that a slave uses is closed it has none
LEMMA UsedClosed ==
    ASSUME NEW w, NEW u, Linked(w), NEW s \in Servers, Near(w, u, s),
           u.cn[Used(w.sv[s])].ev = "none"
    PROVE  Loose(u, s)
<1> SUFFICES ASSUME NEW f \in Fds, u.cn[f].ev # "none", u.cn[f].slave = s PROVE FALSE
  BY DEF Loose
<1>1. w.cn[f].slave = s /\ w.cn[f].ev # "none"
  BY DEF Near, SameEnd
<1> QED
  BY <1>1, OneLink

LEMMA IdleIsLoose ==
    ASSUME NEW w, Linked(w), NEW s \in Servers, w.sv[s].repl \notin Active
    PROVE  Loose(w, s)
  BY OneLink DEF Loose

\* A slave that is up and uses an end can close it
LEMMA UsedIs ==
    ASSUME NEW w, Linked(w), NEW s \in Servers, w.sv[s].up
    PROVE  /\ w.sv[s].repl \in Active =>
                 Used(w.sv[s]) \in Fds /\ w.cn[Used(w.sv[s])].slave = s /\ w.cn[Used(w.sv[s])].ev # "none"
           /\ w.sv[s].master # 0 => w.sv[s].repl = "connected"
           /\ w.sv[s].host = 0 => w.sv[s].repl = "none"
  BY DEF Linked, ServerOK, Working

LEMMA StopFacts ==
    ASSUME NEW w, IsWorld(w), NEW s \in Servers, w.sv[s].fd \in Fds, w.cn[w.sv[s].fd].slave = s
    PROVE  /\ LET u == replicationAbortSyncTransfer(w, s)
              IN  /\ Near(w, u, s) /\ u.cn[w.sv[s].fd].ev = "none"
                  /\ u.sv[s].up = w.sv[s].up /\ u.sv[s].host = w.sv[s].host
                  /\ u.sv[s].repl = "connect" /\ u.sv[s].master = w.sv[s].master
           /\ LET u == undoConnectWithMaster(w, s)
              IN  /\ Near(w, u, s) /\ u.cn[w.sv[s].fd].ev = "none"
                  /\ u.sv[s].up = w.sv[s].up /\ u.sv[s].host = w.sv[s].host
                  /\ u.sv[s].repl = "connect" /\ u.sv[s].master = w.sv[s].master
<1> DEFINE x == CloseSlaveEnd(w, w.sv[s].fd)
<1>1. IsWorld(x) /\ x.sv = w.sv /\ x.cn[w.sv[s].fd].ev = "none" /\ Near(w, x, s)
  BY CloseEnd
<1>2. replicationAbortSyncTransfer(w, s) = WithServer(x, s, Late(x.sv[s]))
  BY <1>1, Shape DEF replicationAbortSyncTransfer, Server, WithServer, Late
<1>3. undoConnectWithMaster(w, s) = WithServer(x, s, Undone(x.sv[s]))
  BY <1>1, InWorld DEF undoConnectWithMaster, Server, UndoneIn
<1> HIDE DEF x
<1>4. IsServer(x.sv[s])
  BY <1>1, SameFacts
<1>5. /\ IsServer(Late(x.sv[s])) /\ Late(x.sv[s]).up = x.sv[s].up /\ Late(x.sv[s]).host = x.sv[s].host
      /\ Late(x.sv[s]).repl = "connect" /\ Late(x.sv[s]).master = x.sv[s].master
  BY <1>4, LostLink
<1>6. /\ IsServer(Undone(x.sv[s])) /\ Undone(x.sv[s]).up = x.sv[s].up /\ Undone(x.sv[s]).host = x.sv[s].host
      /\ Undone(x.sv[s]).repl = "connect" /\ Undone(x.sv[s]).master = x.sv[s].master
  BY <1>4, LostLink
<1>7. LET u == replicationAbortSyncTransfer(w, s) IN Near(x, u, s) /\ u.cn = x.cn /\ u.sv[s] = Late(x.sv[s])
  BY <1>1, <1>2, <1>5, PutServer
<1>8. LET u == undoConnectWithMaster(w, s) IN Near(x, u, s) /\ u.cn = x.cn /\ u.sv[s] = Undone(x.sv[s])
  BY <1>1, <1>3, <1>6, PutServer
<1>9. /\ Near(w, replicationAbortSyncTransfer(w, s), s)
      /\ Near(w, undoConnectWithMaster(w, s), s)
  BY <1>1, <1>7, <1>8, NearThen
<1> QED
  BY <1>1, <1>5, <1>6, <1>7, <1>8, <1>9

LEMMA FreeFacts ==
    ASSUME NEW w, IsWorld(w), NEW s \in Servers,
           NEW m, m = w.sv[s].master, m # 0 => m \in Fds /\ w.cn[m].slave = s
    PROVE  LET u == FreeMaster(w, s)
           IN  /\ Near(w, u, s) /\ u.sv[s].up = w.sv[s].up /\ u.sv[s].fd = w.sv[s].fd
               /\ u.sv[s].host = w.sv[s].host /\ u.sv[s].master = 0
               /\ m = 0 => u = w
               /\ m # 0 => u.cn[m].ev = "none" /\ u.sv[s].repl = "connect"
<1>1. CASE m = 0
  BY <1>1, SameFacts, CalmNear DEF FreeMaster, Server
<1>2. CASE m # 0
  <2> DEFINE x == CloseSlaveEnd(w, m)
             v == Parted(x.sv[s])
             y == WithServer(x, s, v)
  <2>1. IsWorld(x) /\ x.sv = w.sv /\ x.cn[m].ev = "none" /\ Near(w, x, s)
    BY <1>2, CloseEnd
  <2> DEFINE freed == PartedIn(x, s)
  <2>2. FreeMaster(w, s) \in {freed, disconnectSlaves(freed, s)}
    BY <1>2 DEF FreeMaster, Server, PartedIn
  <2> HIDE DEF x
  <2>10. freed = y
    BY <2>1, InWorld
  <2> HIDE DEF freed
  <2>3. IsServer(x.sv[s])
    BY <2>1, SameFacts
  <2>4. IsServer(v) /\ v.up = x.sv[s].up /\ v.host = x.sv[s].host /\ v.fd = x.sv[s].fd /\ v.master = 0 /\ v.repl = "connect"
    BY <2>3, LostLink
  <2> HIDE DEF v
  <2>5. IsWorld(y) /\ Near(x, y, s) /\ y.cn = x.cn /\ y.sv[s] = v
    BY <2>1, <2>4, PutServer
  <2> HIDE DEF y
  <2>6. Near(w, y, s)
    BY <2>1, <2>5, NearThen
  <2>7. LET z == disconnectSlaves(y, s) IN Calm(y, z) /\ z.sv = y.sv
    BY <2>5, CloseMasterCalm DEF disconnectSlaves
  <2>8. Near(w, disconnectSlaves(y, s), s)
    BY <2>6, <2>7, CalmNear, NearThen
  <2>9. disconnectSlaves(y, s).cn[m].ev = "none"
    BY <1>2, <2>1, <2>5, <2>7 DEF Calm, SameEnd
  <2> QED
    BY <1>2, <2>1, <2>2, <2>10, <2>4, <2>5, <2>6, <2>7, <2>8, <2>9
<1> QED
  BY <1>1, <1>2

-----------------------------------------------------------------------------
(***************************************************************************)
(* Each handler of the slave keeps the links.                              *)
(***************************************************************************)
LEMMA LowestOfAny ==
    ASSUME NEW S, S \subseteq Fds, S # {}
    PROVE  Min(S) \in S
<1>1. S \subseteq Nat
  BY ReplicationAssumption DEF Fds
<1>2. PICK x \in S : \A y \in S : ~ (<<y, x>> \in OpToRel(<, Nat))
  BY <1>1, NatLessThanWellFounded, WFMin
<1>3. \A y \in S : x <= y
  <2>1. ASSUME NEW y \in S, y < x PROVE FALSE
    BY <1>1, <1>2, <2>1 DEF OpToRel
  <2> QED
    BY <1>1, <2>1
<1> QED
  BY <1>3 DEF Min

\* A slave that loses its link, in a handler that changes nothing else
LEMMA StopLinked ==
    ASSUME NEW w, IsWorld(w), Linked(w), NEW s \in Servers, w.sv[s].up
    PROVE  /\ w.sv[s].repl = "transfer" => LET u == replicationAbortSyncTransfer(w, s)
                                           IN  IsWorld(u) /\ Linked(u) /\ u.sv[s].up
           /\ w.sv[s].repl \in {"connecting", "pong"} => LET u == undoConnectWithMaster(w, s)
                                                         IN  IsWorld(u) /\ Linked(u) /\ u.sv[s].up
<1>1. w.sv[s].repl \in {"transfer", "connecting", "pong"} =>
         w.sv[s].fd \in Fds /\ w.cn[w.sv[s].fd].slave = s /\ w.sv[s].fd = Used(w.sv[s])
         /\ w.sv[s].master = 0 /\ w.sv[s].host # 0
  BY UsedIs DEF Used, Active
<1>2. "connect" \notin Active
  BY DEF Active
<1>3. ASSUME w.sv[s].repl = "transfer"
      PROVE  LET u == replicationAbortSyncTransfer(w, s) IN IsWorld(u) /\ Linked(u) /\ u.sv[s].up
  <2> DEFINE u == replicationAbortSyncTransfer(w, s)
  <2>1. Near(w, u, s) /\ u.cn[Used(w.sv[s])].ev = "none" /\ u.sv[s].repl = "connect" /\ u.sv[s].master = 0
        /\ u.sv[s].up /\ u.sv[s].host # 0
    BY <1>1, <1>3, StopFacts
  <2> HIDE DEF u
  <2>2. Linked(u) /\ IsWorld(u) /\ u.sv[s].up
    BY <1>2, <2>1, UsedClosed, LooseLinked DEF Near
  <2> QED
    BY <2>2 DEF u
<1>4. ASSUME w.sv[s].repl \in {"connecting", "pong"}
      PROVE  LET u == undoConnectWithMaster(w, s) IN IsWorld(u) /\ Linked(u) /\ u.sv[s].up
  <2> DEFINE u == undoConnectWithMaster(w, s)
  <2>1. Near(w, u, s) /\ u.cn[Used(w.sv[s])].ev = "none" /\ u.sv[s].repl = "connect" /\ u.sv[s].master = 0
        /\ u.sv[s].up /\ u.sv[s].host # 0
    BY <1>1, <1>4, StopFacts
  <2> HIDE DEF u
  <2>2. Linked(u) /\ IsWorld(u) /\ u.sv[s].up
    BY <1>2, <2>1, UsedClosed, LooseLinked DEF Near
  <2> QED
    BY <2>2 DEF u
<1> QED
  BY <1>3, <1>4

LEMMA FreeLinked ==
    ASSUME NEW w, IsWorld(w), Linked(w), NEW s \in Servers, w.sv[s].up
    PROVE  LET u == FreeMaster(w, s) IN IsWorld(u) /\ Linked(u) /\ u.sv[s].up
<1> DEFINE u == FreeMaster(w, s)
           m == w.sv[s].master
<1>1. m # 0 => m \in Fds /\ w.cn[m].slave = s /\ m = Used(w.sv[s]) /\ w.sv[s].host # 0
  BY UsedIs DEF Used, Active
<1>2. /\ Near(w, u, s) /\ u.sv[s].master = 0 /\ u.sv[s].up /\ (m = 0 => u = w)
      /\ m # 0 => u.cn[m].ev = "none" /\ u.sv[s].repl = "connect" /\ u.sv[s].host # 0
  BY <1>1, FreeFacts
<1>3. "connect" \notin Active
  BY DEF Active
<1> HIDE DEF u, m
<1>4. m # 0 => Linked(u) /\ IsWorld(u)
  BY <1>1, <1>2, <1>3, UsedClosed, LooseLinked DEF Near
<1> QED
  BY <1>2, <1>4 DEF u

LEMMA ConnectLinked ==
    ASSUME NEW w, IsWorld(w), Linked(w), NEW s \in Servers, w.sv[s].up, w.sv[s].repl = "connect"
    PROVE  LET u == connectWithMaster(w, s) IN IsWorld(u) /\ Linked(u)
<1> DEFINE free == {f \in Fds : w.cn[f] = Closed}
           f == Min(free)
           role == IF Server(w, Server(w, s).host).up THEN "none" ELSE "closed"
           c == [Closed EXCEPT !.slave = s, !.master = Server(w, s).host, !.ev = "sync", !.writable = TRUE,
                               !.role = role]
           v == [w.sv[s] EXCEPT !.fd = f, !.repl = "connecting"]
           x == [w EXCEPT !.sv[s].fd = f, !.sv[s].repl = "connecting"]
           u == [x EXCEPT !.cn[f] = c]
<1>1. connectWithMaster(w, s) = IF free = {} THEN w ELSE u
  BY DEF connectWithMaster
<1>2. CASE free = {}
  BY <1>1, <1>2
<1>3. CASE free # {}
  <2>1. f \in Fds /\ w.cn[f] = Closed
    BY <1>3, LowestOfAny
  <2>2. w.cn[f].ev = "none"
    BY <2>1 DEF Closed
  <2>3. IsConn(c) /\ c.slave = s /\ c.master = w.sv[s].host /\ c.ev = "sync"
    <3> HIDE DEF role
    <3> QED
      BY DEF Closed, IsConn, ConnFields, Server
  <2>4. IsServer(w.sv[s]) /\ w.sv[s].master = 0 /\ w.sv[s].host # 0
    BY SameFacts, UsedIs
  <2> HIDE DEF f, c
  <2>5. /\ IsServer(v) /\ v.up /\ v.repl = "connecting" /\ v.fd = f /\ v.master = 0
        /\ v.host = w.sv[s].host
    BY <2>4 DEF IsServer, ServerFields
  <2>6. x = WithServer(w, s, v)
    <3> DEFINE v1 == [w.sv[s] EXCEPT !.fd = f]
               x1 == WithServer(w, s, v1)
    <3>1. [w EXCEPT !.sv[s].fd = f] = x1
      BY Shape DEF WithServer
    <3>2. x = [x1 EXCEPT !.sv[s].repl = "connecting"]
      BY <3>1
    <3>3. IsServer(v1)
      BY <2>4 DEF IsServer, ServerFields
    <3>4. v = [v1 EXCEPT !.repl = "connecting"] /\ x1 = WithServer(w, s, v1)
      OBVIOUS
    <3> HIDE DEF v1, v, x
    <3>5. IsWorld(x1) /\ x1.sv[s] = v1
      BY <3>3, PutServer
    <3> HIDE DEF x1
    <3>6. x = WithServer(x1, s, v)
      BY <3>2, <3>4, <3>5, Shape DEF WithServer
    <3> QED
      BY <3>4, <3>6, Twice
  <2> HIDE DEF v, x
  <2>7. /\ IsWorld(x) /\ x.cn = w.cn /\ x.sv[s] = v
        /\ \A r \in Servers \ {s} : x.sv[r] = w.sv[r]
    BY <2>5, <2>6, PutServer
  <2>8. u = WithConn(x, f, c)
    BY <2>7, Shape DEF WithConn
  <2> HIDE DEF u
  <2>9. /\ IsWorld(u) /\ u.sv = x.sv /\ u.cn[f] = c
        /\ \A g \in Fds \ {f} : u.cn[g] = x.cn[g]
    BY <2>1, <2>3, <2>7, <2>8, PutConn
  <2>10. Loose(w, s)
    BY IdleIsLoose DEF Active
  <2>11. /\ \A r \in Servers \ {s} : SameLink(w.sv[r], u.sv[r])
         /\ \A g \in Fds \ {f} : SameEnd(w.cn[g], u.cn[g]) /\ (w.cn[g].ev # "none" => w.cn[g].slave # s)
    BY <2>7, <2>9, <2>10, SameFacts DEF Loose
  <2>12. Used(u.sv[s]) = f /\ Working(u.sv[s].repl, u.cn[f].ev)
    BY <2>3, <2>5, <2>7, <2>9 DEF Used, Working
  <2>13. /\ u.cn[f].slave = s /\ u.cn[f].master = u.sv[s].host /\ u.sv[s].up /\ u.sv[s].host # 0
         /\ u.sv[s].master # 0 => u.sv[s].repl = "connected"
    BY <2>3, <2>4, <2>5, <2>7, <2>9
  <2>14. Linked(u)
    BY <2>1, <2>2, <2>9, <2>11, <2>12, <2>13, MoveLinked
  <2> QED
    BY <1>1, <1>3, <2>9, <2>14
<1> QED
  BY <1>2, <1>3

LEMMA CronLinked ==
    ASSUME NEW w, IsWorld(w), Linked(w), NEW s \in Servers, w.sv[s].up, NEW t
    PROVE  LET u == replicationCron(w, s, t) IN IsWorld(u) /\ Linked(u)
<1> DEFINE late == IF Server(w, s).host = 0 \/ ~t.late THEN w
                   ELSE IF Server(w, s).repl \in {"connecting", "pong"} THEN undoConnectWithMaster(w, s)
                   ELSE IF Server(w, s).repl = "transfer" THEN replicationAbortSyncTransfer(w, s)
                   ELSE IF Server(w, s).repl = "connected" THEN FreeMaster(w, s)
                   ELSE w
<1>1. \/ replicationCron(w, s, t) \in {w, late}
      \/ replicationCron(w, s, t) = connectWithMaster(late, s) /\ late.sv[s].repl = "connect"
  BY Zenon DEF replicationCron, Server
<1>2. \/ late \in {w, FreeMaster(w, s)}
      \/ late = undoConnectWithMaster(w, s) /\ w.sv[s].repl \in {"connecting", "pong"}
      \/ late = replicationAbortSyncTransfer(w, s) /\ w.sv[s].repl = "transfer"
  BY Zenon DEF Server
<1> HIDE DEF late
<1>3. IsWorld(late) /\ Linked(late) /\ late.sv[s].up
  BY <1>2, StopLinked, FreeLinked
<1>4. late.sv[s].repl = "connect" => LET u == connectWithMaster(late, s) IN IsWorld(u) /\ Linked(u)
  BY <1>3, ConnectLinked
<1> QED
  BY <1>1, <1>3, <1>4

\* Everything cron does before it looks at the links leaves them alone
LEMMA ServerCronLinked ==
    ASSUME NEW w, IsWorld(w), Linked(w), NEW s \in Servers, w.sv[s].up, NEW conf, NEW t
    PROVE  LET u == serverCron(w, s, conf, t) IN IsWorld(u) /\ Linked(u)
<1> DEFINE Own(x, v) == [x EXCEPT !.sv[s] = v]
           started == Own(w, StartScheduled(w.sv[s], t))
           reaped == Reap(started, s, conf, t)
           saved == Own(started, SaveOrRewrite(started.sv[s], conf, t))
           Flushed(v) == IF v.postponed THEN flushAppendOnlyFile(v, conf, t) ELSE v
           Then(x) == Own(x, Flushed(x.sv[s]))
<1>1. ASSUME NEW x, IsWorld(x), NEW v, SameLink(x.sv[s], v) PROVE Calm(x, Own(x, v))
  BY <1>1, Changes, PutServer DEF SameLink
<1>2. serverCron(w, s, conf, t) \in {replicationCron(Then(reaped), s, t), replicationCron(Then(saved), s, t)}
  BY Zenon DEF serverCron, Server
<1>3. ASSUME NEW x, IsWorld(x) PROVE Calm(x, Then(x))
  <2>1. IsServer(x.sv[s]) /\ SameLink(x.sv[s], x.sv[s])
    BY <1>3, SameFacts
  <2>2. SameLink(x.sv[s], Flushed(x.sv[s]))
    BY <2>1, AppendsLink
  <2> HIDE DEF Flushed, Own
  <2> QED
    BY <1>1, <1>3, <2>2
<1>4. Calm(w, started)
  <2>1. IsServer(w.sv[s]) /\ SameLink(w.sv[s], w.sv[s])
    BY SameFacts
  <2>2. SameLink(w.sv[s], StartScheduled(w.sv[s], t))
    BY <2>1, AppendsLink DEF StartScheduled
  <2> HIDE DEF Own
  <2> QED
    BY <1>1, <2>2
<1> HIDE DEF started
<1>5. IsWorld(started) /\ IsServer(started.sv[s]) /\ SameLink(started.sv[s], started.sv[s])
  BY <1>4, SameFacts DEF Calm
<1>6. Calm(started, saved)
  <2> DEFINE v == IF conf.saveparams /\ started.sv[s].dirty > 0 /\ t.save
                  THEN rdbSaveBackground(started.sv[s], t.forks) ELSE started.sv[s]
  <2>1. SameLink(started.sv[s], v)
    BY <1>5, SnapshotsLink
  <2>2. SaveOrRewrite(started.sv[s], conf, t) \in {v, rewriteAppendOnlyFileBackground(v, t.forks)}
    BY Zenon DEF SaveOrRewrite
  <2> HIDE DEF v
  <2>3. SameLink(v, rewriteAppendOnlyFileBackground(v, t.forks))
    BY <2>1, AppendsLink DEF SameLink
  <2>4. SameLink(started.sv[s], SaveOrRewrite(started.sv[s], conf, t))
    BY <2>1, <2>2, <2>3 DEF SameLink
  <2> HIDE DEF Own
  <2> QED
    BY <1>1, <1>5, <2>4
<1>7. Calm(started, reaped)
  <2>1. reaped \in {backgroundSaveDoneHandler(started, s, t.forks),
                    Own(started, backgroundRewriteDoneHandler(started.sv[s], conf)), started}
    BY Zenon DEF Reap, Server
  <2>2. Calm(started, backgroundSaveDoneHandler(started, s, t.forks)) /\ Calm(started, started)
    BY <1>5, SaveDoneCalm, SameFacts
  <2>3. SameLink(started.sv[s], backgroundRewriteDoneHandler(started.sv[s], conf))
    BY <1>5, AppendsLink
  <2> HIDE DEF Own, reaped
  <2>4. Calm(started, Own(started, backgroundRewriteDoneHandler(started.sv[s], conf)))
    BY <1>1, <1>5, <2>3
  <2> QED
    BY <2>1, <2>2, <2>4
<1> HIDE DEF saved, reaped
<1>8. ASSUME NEW x \in {saved, reaped} PROVE IsWorld(Then(x)) /\ Linked(Then(x)) /\ Then(x).sv[s].up
  <2> DEFINE y == Then(x)
  <2>1. Calm(w, x) /\ IsWorld(x)
    BY <1>4, <1>6, <1>7, CalmThen DEF Calm
  <2>2. Calm(x, y)
    BY <1>3, <2>1
  <2> HIDE DEF y
  <2>3. Calm(w, y)
    BY <2>1, <2>2, CalmThen
  <2>4. IsWorld(y) /\ Linked(y) /\ y.sv[s].up
    BY <2>3, CalmLinked DEF Calm, SameLink
  <2> QED
    BY <2>4 DEF y
<1> HIDE DEF Then
<1> QED
  BY <1>2, <1>8, CronLinked

\* A slave whose connection works with it can move it to another stage
LEMMA StageLinked ==
    ASSUME NEW w, IsWorld(w), Linked(w), NEW s \in Servers, NEW f \in Fds,
           w.cn[f].slave = s, w.cn[f].ev # "none",
           NEW u, IsWorld(u), \A r \in Servers \ {s} : u.sv[r] = w.sv[r], \A g \in Fds \ {f} : u.cn[g] = w.cn[g],
           u.cn[f].slave = s, u.cn[f].master = w.cn[f].master,
           u.sv[s].up = w.sv[s].up, u.sv[s].host = w.sv[s].host,
           Working(u.sv[s].repl, u.cn[f].ev), Used(u.sv[s]) = f,
           u.sv[s].master # 0 => u.sv[s].repl = "connected"
    PROVE  Linked(u)
<1>1. w.sv[s].up /\ Used(w.sv[s]) = f /\ w.cn[f].master = w.sv[s].host
  BY OneLink
<1>2. \A g \in Fds \ {f} : w.cn[g].ev # "none" => w.cn[g].slave # s
  BY <1>1, OneLink
<1>3. /\ \A r \in Servers \ {s} : SameLink(w.sv[r], u.sv[r])
      /\ \A g \in Fds \ {f} : SameEnd(w.cn[g], u.cn[g]) /\ (w.cn[g].ev # "none" => w.cn[g].slave # s)
  BY <1>2, SameFacts
<1>4. u.cn[f].master = u.sv[s].host /\ u.sv[s].up /\ u.sv[s].host # 0
  BY <1>1, UsedIs, OneLink DEF Active
<1> QED
  BY <1>3, <1>4, MoveLinked

LEMMA SyncLinked ==
    ASSUME NEW w, IsWorld(w), Linked(w), NEW f \in Fds, w.cn[f].ev = "sync"
    PROVE  LET u == syncWithMaster(w, w.cn[f].slave, f) IN IsWorld(u) /\ Linked(u)
<1> DEFINE s == w.cn[f].slave
           Sent(x) == [x.cn[f] EXCEPT !.req = Append(@, "SYNC"), !.ev = "payload", !.writable = FALSE]
           Sync(x) == [x EXCEPT !.cn[f] = Sent(x), !.sv[s].repl = "transfer"]
           pinged == [w.cn[f] EXCEPT !.writable = FALSE, !.req = <<"PING">>]
           ping == [w EXCEPT !.cn[f] = pinged, !.sv[s].repl = "pong"]
           answer == [w.cn[f] EXCEPT !.wire = Tail(@)]
           answered == [w EXCEPT !.cn[f] = answer]
<1>1. s \in Servers
  BY DEF Linked, ConnOK
<1>2. /\ w.sv[s].up /\ w.sv[s].repl \in {"connecting", "pong"} /\ w.sv[s].fd = f /\ w.sv[s].master = 0
      /\ w.sv[s].host # 0
      /\ Used(w.sv[s]) = f
  BY <1>1, OneLink, UsedIs DEF Working, Used
<1>3. syncWithMaster(w, s, f) \in {Failed(w, s, f), ping, Sync(answered)}
  <2>1. Server(w, s).repl # "none" /\ (Server(w, s).repl = "connecting" \/ Server(w, s).repl = "pong")
    BY <1>2 DEF Server
  <2>2. \/ syncWithMaster(w, s, f) = Failed(w, s, f)
        \/ syncWithMaster(w, s, f) = ping
        \/ syncWithMaster(w, s, f) = Sync(answered)
    <3> HIDE DEF s
    <3> QED
      BY <2>1, Zenon DEF syncWithMaster
  <2> QED
    BY <2>2
<1> HIDE DEF s
<1>4. IsServer(w.sv[s]) /\ IsConn(w.cn[f]) /\ w.cn[f].slave = s
  BY <1>1, SameFacts DEF s
<1>5. ASSUME NEW x, IsWorld(x), x.sv = w.sv, \A g \in Fds \ {f} : x.cn[g] = w.cn[g],
             NEW c, IsConn(c), c.slave = s, c.master = w.cn[f].master,
             NEW repl, Working(repl, c.ev), repl # "connected",
             NEW u, u = [x EXCEPT !.cn[f] = c, !.sv[s].repl = repl]
      PROVE  IsWorld(u) /\ Linked(u)
  <2> DEFINE y == WithConn(x, f, c)
             v == [w.sv[s] EXCEPT !.repl = repl]
  <2>1. /\ IsServer(v) /\ v.up = w.sv[s].up /\ v.host = w.sv[s].host /\ v.fd = f /\ v.repl = repl
        /\ v.master = 0
    BY <1>2, <1>4 DEF IsServer, ServerFields
  <2>2. [x EXCEPT !.cn[f] = c] = y
    BY <1>5, Changes
  <2>3. u = [y EXCEPT !.sv[s].repl = repl]
    BY <1>5, <2>2
  <2>4. v = [w.sv[s] EXCEPT !.repl = repl]
    OBVIOUS
  <2> HIDE DEF v, y
  <2>5. IsWorld(y) /\ y.sv = w.sv /\ y.cn[f] = c /\ \A g \in Fds \ {f} : y.cn[g] = w.cn[g]
    BY <1>5, PutConn DEF y
  <2>6. u = WithServer(y, s, v)
    BY <2>3, <2>4, <2>5, Shape DEF WithServer
  <2>7. /\ IsWorld(u) /\ u.cn = y.cn /\ u.sv[s] = v
        /\ \A r \in Servers \ {s} : u.sv[r] = w.sv[r]
    BY <1>1, <2>1, <2>5, <2>6, PutServer
  <2>8. Used(v) = f
    BY <1>5, <2>1 DEF Used
  <2>9. w.cn[f].slave = s /\ w.cn[f].ev # "none"
    BY <1>4
  <2>10. /\ \A g \in Fds \ {f} : u.cn[g] = w.cn[g]
         /\ u.cn[f].slave = s /\ u.cn[f].master = w.cn[f].master
         /\ u.sv[s].up = w.sv[s].up /\ u.sv[s].host = w.sv[s].host
         /\ Working(u.sv[s].repl, u.cn[f].ev) /\ Used(u.sv[s]) = f /\ u.sv[s].master = 0
    BY <1>5, <2>1, <2>5, <2>7, <2>8
  <2>11. Linked(u)
    BY <1>1, <2>7, <2>9, <2>10, StageLinked
  <2> QED
    BY <2>7, <2>11
<1>6. IsWorld(ping) /\ Linked(ping)
  <2>1. IsConn(pinged) /\ pinged.slave = s /\ pinged.master = w.cn[f].master /\ pinged.ev = "sync"
    BY <1>4 DEF IsConn, ConnFields
  <2>2. ping = [w EXCEPT !.cn[f] = pinged, !.sv[s].repl = "pong"]
    OBVIOUS
  <2> HIDE DEF pinged, ping
  <2> QED
    BY <1>5, <2>1, <2>2 DEF Working
<1>7. IsWorld(Sync(answered)) /\ Linked(Sync(answered))
  <2>1. IsConn(answer) /\ answer.slave = s /\ answer.master = w.cn[f].master
    BY <1>4 DEF IsConn, ConnFields
  <2>8. answered = [w EXCEPT !.cn[f] = answer]
    OBVIOUS
  <2> HIDE DEF answer, answered
  <2>2. answered = WithConn(w, f, answer)
    BY ZenonT(60), <2>8, Changes
  <2>3. /\ IsWorld(answered) /\ answered.sv = w.sv /\ answered.cn[f] = answer
        /\ \A g \in Fds \ {f} : answered.cn[g] = w.cn[g]
    BY <2>1, <2>2, PutConn
  <2> DEFINE c == Sent(answered)
             u == Sync(answered)
  <2>4. IsConn(c) /\ c.slave = s /\ c.master = w.cn[f].master /\ c.ev = "payload"
    BY <2>1, <2>3 DEF IsConn, ConnFields
  <2>5. u = [answered EXCEPT !.cn[f] = c, !.sv[s].repl = "transfer"]
    OBVIOUS
  <2> HIDE DEF c, u
  <2>6. IsWorld(u) /\ Linked(u)
    BY <1>5, <2>3, <2>4, <2>5 DEF Working
  <2> QED
    BY <2>6 DEF u
<1>8. LET u == Failed(w, s, f) IN IsWorld(u) /\ Linked(u)
  <2> DEFINE x == CloseSlaveEnd(w, f)
             v == Refusing(w.sv[s])
             u == Failed(w, s, f)
  <2>1. IsWorld(x) /\ x.sv = w.sv /\ x.cn[f].ev = "none" /\ Near(w, x, s)
    BY <1>4, CloseEnd
  <2>2. u = RefusingIn(x, s)
    BY DEF Failed, RefusingIn
  <2>3. IsServer(v) /\ v.repl = "connect" /\ v.master = 0 /\ v.host # 0
    BY <1>2, <1>4, LostLink
  <2> HIDE DEF x, u, v
  <2>4. u = WithServer(x, s, v)
    BY <1>1, <2>1, <2>2, InWorld DEF v
  <2>5. Near(x, u, s) /\ u.cn = x.cn /\ u.sv[s] = v
    BY <1>1, <2>1, <2>3, <2>4, PutServer
  <2>6. Near(w, u, s) /\ u.cn[Used(w.sv[s])].ev = "none"
    BY <1>2, <2>1, <2>5, NearThen
  <2>7. IsWorld(u) /\ Linked(u)
    BY <1>1, <2>3, <2>5, <2>6, UsedClosed, LooseLinked DEF Near, Active
  <2> QED
    BY <2>7 DEF u
<1> HIDE DEF ping, answered, Sync
<1> QED
  BY <1>3, <1>6, <1>7, <1>8 DEF s

LEMMA BulkLinked ==
    ASSUME NEW w, IsWorld(w), Linked(w), NEW f \in Fds, w.cn[f].ev = "payload", NEW conf, NEW forks
    PROVE  LET u == readSyncBulkPayload(w, w.cn[f].slave, f, conf, forks) IN IsWorld(u) /\ Linked(u)
<1> DEFINE s == w.cn[f].slave
           u == readSyncBulkPayload(w, s, f, conf, forks)
           aof(v) == IF v.aof = "off" THEN v ELSE startAppendOnly(stopAppendOnly(v, conf), forks)
           Loaded(v) == [v EXCEPT !.rdb = <<Head(w.cn[f].wire)[2]>>, !.data = Head(w.cn[f].wire)[2],
                                  !.master = f, !.repl = "connected"]
           c1 == [w.cn[f] EXCEPT !.wire = Tail(@)]
           x1 == WithConn(w, f, c1)
           c2 == [c1 EXCEPT !.ev = "link"]
           x2 == WithConn(x1, f, c2)
           c3 == [c2 EXCEPT !.db = 0]
           x3 == WithConn(x2, f, c3)
           v == aof(Loaded(w.sv[s]))
<1>1. s \in Servers
  BY DEF Linked, ConnOK
<1>2. /\ w.sv[s].up /\ w.sv[s].repl = "transfer" /\ w.sv[s].fd = f /\ w.sv[s].master = 0
      /\ Used(w.sv[s]) = f
  BY <1>1, OneLink, UsedIs DEF Working, Used
<1> HIDE DEF s
<1>3. u \in {replicationAbortSyncTransfer(w, s),
             [w EXCEPT !.cn[f].wire = Tail(@), !.cn[f].ev = "link", !.cn[f].db = 0, !.sv[s] = aof(Loaded(@))]}
  BY <1>2 DEF readSyncBulkPayload, Server
<1>4. IsServer(w.sv[s]) /\ IsConn(w.cn[f]) /\ w.cn[f].slave = s /\ w.cn[f].ev # "none"
  BY <1>1, SameFacts DEF s
<1>5. IsConn(c1) /\ c1.slave = s /\ c1.master = w.cn[f].master
  BY <1>4 DEF IsConn, ConnFields
<1>6. [w EXCEPT !.cn[f].wire = Tail(@)] = x1
  <2> DEFINE e == Tail(w.cn[f].wire)
  <2>1. [w EXCEPT !.cn[f].wire = Tail(@)] = [w EXCEPT !.cn[f].wire = e] /\ c1 = [w.cn[f] EXCEPT !.wire = e]
    BY Zenon
  <2> HIDE DEF e, c1
  <2>2. [w EXCEPT !.cn[f].wire = e] = WithConn(w, f, [w.cn[f] EXCEPT !.wire = e])
    BY Shape DEF WithConn
  <2> QED
    BY <2>1, <2>2
<1> HIDE DEF c1
<1>7. IsConn(c2) /\ c2.slave = s /\ c2.master = w.cn[f].master /\ c2.ev = "link"
  BY <1>5 DEF IsConn, ConnFields
<1>8. c2 = [c1 EXCEPT !.ev = "link"]
  OBVIOUS
<1> HIDE DEF c2
<1>9. IsConn(c3) /\ c3.slave = s /\ c3.master = w.cn[f].master /\ c3.ev = "link"
  BY <1>7 DEF IsConn, ConnFields
<1>10. c3 = [c2 EXCEPT !.db = 0] /\ x1 = WithConn(w, f, c1) /\ x2 = WithConn(x1, f, c2) /\ x3 = WithConn(x2, f, c3)
  OBVIOUS
<1> HIDE DEF c3, x1, x2, x3
<1>11. IsWorld(x1) /\ x1.sv = w.sv /\ x1.cn[f] = c1 /\ \A g \in Fds \ {f} : x1.cn[g] = w.cn[g]
  BY <1>5, <1>10, PutConn
<1>12. IsWorld(x2) /\ x2.sv = w.sv /\ x2.cn[f] = c2 /\ \A g \in Fds \ {f} : x2.cn[g] = w.cn[g]
  BY <1>7, <1>10, <1>11, PutConn
<1>13. IsWorld(x3) /\ x3.sv = w.sv /\ x3.cn[f] = c3 /\ \A g \in Fds \ {f} : x3.cn[g] = w.cn[g]
  BY <1>9, <1>10, <1>12, PutConn
<1>14. [x1 EXCEPT !.cn[f].ev = "link"] = x2
  BY <1>8, <1>10, <1>11, Shape DEF WithConn
<1>15. [x2 EXCEPT !.cn[f].db = 0] = x3
  BY <1>10, <1>12, Shape DEF WithConn
<1>16. [w EXCEPT !.cn[f].wire = Tail(@), !.cn[f].ev = "link", !.cn[f].db = 0, !.sv[s] = aof(Loaded(@))]
          = [x3 EXCEPT !.sv[s] = aof(Loaded(x3.sv[s]))]
  <2> HIDE DEF aof, Loaded
  <2>1. [w EXCEPT !.cn[f].wire = Tail(@), !.cn[f].ev = "link"] = x2
    BY <1>6, <1>14
  <2>2. [w EXCEPT !.cn[f].wire = Tail(@), !.cn[f].ev = "link", !.cn[f].db = 0] = x3
    BY <2>1, <1>15
  <2> QED
    BY <2>2
<1>17. SameLink(Loaded(w.sv[s]), v) /\ IsServer(Loaded(w.sv[s]))
  <2>1. IsServer(Loaded(w.sv[s]))
    BY <1>4 DEF IsServer, ServerFields
  <2> HIDE DEF Loaded
  <2>2. SameLink(Loaded(w.sv[s]), Loaded(w.sv[s]))
    BY <2>1 DEF SameLink
  <2> DEFINE y == stopAppendOnly(Loaded(w.sv[s]), conf)
  <2>3. SameLink(Loaded(w.sv[s]), y)
    <3>1. \A c : SameLink(Loaded(w.sv[s]), stopAppendOnly(Loaded(w.sv[s]), c))
      BY ZenonT(60), <2>1, AppendsLink
    <3> QED
      BY Zenon, <3>1
  <2>7. v = IF Loaded(w.sv[s]).aof = "off" THEN Loaded(w.sv[s]) ELSE startAppendOnly(y, forks)
    BY Zenon
  <2> HIDE DEF y
  <2>4. IsServer(y)
    BY Zenon, <2>3 DEF SameLink
  <2>5. SameLink(y, startAppendOnly(y, forks))
    <3>1. \A k : SameLink(y, startAppendOnly(y, k))
      BY ZenonT(60), <2>4, AppendsLink
    <3> QED
      BY Zenon, <3>1
  <2>6. SameLink(Loaded(w.sv[s]), startAppendOnly(y, forks))
    BY <2>3, <2>5 DEF SameLink
  <2> HIDE DEF v
  <2> QED
    BY Zenon, <2>1, <2>2, <2>6, <2>7
<1>18. /\ Loaded(w.sv[s]).up /\ Loaded(w.sv[s]).host = w.sv[s].host
       /\ Loaded(w.sv[s]).master = f /\ Loaded(w.sv[s]).repl = "connected"
  BY <1>2, <1>4 DEF IsServer, ServerFields
<1> HIDE DEF Loaded
<1>19. IsServer(v) /\ v.up /\ v.host = w.sv[s].host /\ v.master = f /\ v.repl = "connected"
  BY <1>17, <1>18 DEF SameLink
<1>20. v = aof(Loaded(w.sv[s]))
  OBVIOUS
<1> HIDE DEF u, v, aof
<1>21. CASE u = replicationAbortSyncTransfer(w, s)
  BY <1>1, <1>2, <1>21, StopLinked DEF u, s
<1>22. CASE u = [w EXCEPT !.cn[f].wire = Tail(@), !.cn[f].ev = "link", !.cn[f].db = 0, !.sv[s] = aof(Loaded(@))]
  <2>1. u = WithServer(x3, s, v)
    BY <1>13, <1>16, <1>20, <1>22, Changes
  <2>2. IsWorld(u) /\ u.cn = x3.cn /\ u.sv[s] = v /\ \A r \in Servers \ {s} : u.sv[r] = w.sv[r]
    BY <1>1, <1>13, <1>19, <2>1, PutServer
  <2>3. Working(u.sv[s].repl, u.cn[f].ev) /\ Used(u.sv[s]) = f
    BY <1>9, <1>13, <1>19, <2>2 DEF Working, Used
  <2>4. /\ \A g \in Fds \ {f} : u.cn[g] = w.cn[g]
        /\ u.cn[f].slave = s /\ u.cn[f].master = w.cn[f].master
        /\ u.sv[s].up = w.sv[s].up /\ u.sv[s].host = w.sv[s].host
        /\ u.sv[s].master # 0 => u.sv[s].repl = "connected"
    <3>1. /\ \A g \in Fds \ {f} : u.cn[g] = w.cn[g]
          /\ u.cn[f].slave = s /\ u.cn[f].master = w.cn[f].master
      BY Zenon, <1>2, <1>9, <1>13, <2>2
    <3> QED
      BY Zenon, <1>2, <1>19, <2>2, <3>1
  <2>5. Linked(u)
    BY <1>1, <1>4, <2>2, <2>3, <2>4, StageLinked
  <2> QED
    BY <2>2, <2>5 DEF u, s
<1> QED
  BY <1>3, <1>21, <1>22 DEF u

\* A slave that is told to follow another server, or none, first gives up the
\* link that it has: unless that one is still being set up, and a host is given
LEMMA SlaveofLinked ==
    ASSUME NEW w, IsWorld(w), Linked(w), NEW s \in Servers, w.sv[s].up, NEW host,
           host = 0 \/ w.sv[s].repl \notin {"connecting", "pong"}
    PROVE  LET u == slaveofCommand(w, s, host) IN IsWorld(u) /\ Linked(u)
<1> DEFINE v == w.sv[s]
           m == v.master
           v0 == [v EXCEPT !.host = host]
           w0 == [w EXCEPT !.sv[s].host = host]
           moved == FreeMaster(w0, s)
           stop(x) == IF v.repl = "transfer" THEN replicationAbortSyncTransfer(x, s)
                      ELSE IF v.repl \in {"connecting", "pong"} /\ host = 0 THEN undoConnectWithMaster(x, s)
                      ELSE x
           Told(x, repl) == [x EXCEPT !.sv[s].repl = repl]
<1>1. \/ slaveofCommand(w, s, host) = w
      \/ slaveofCommand(w, s, host) = Told(stop(moved), "none")
      \/ host # 0 /\ slaveofCommand(w, s, host) = Told(stop(disconnectSlaves(moved, s)), "connect")
  BY Zenon DEF slaveofCommand, Server
<1>2. IsServer(v)
  BY SameFacts
<1>3. /\ v.repl \in Active => Used(v) \in Fds /\ w.cn[Used(v)].slave = s /\ w.cn[Used(v)].ev # "none"
      /\ m # 0 => v.repl = "connected"
  BY UsedIs
<1>4. v.up
  OBVIOUS
<1> HIDE DEF moved
<1>5. IsServer(v0) /\ v0.up /\ v0.repl = v.repl /\ v0.fd = v.fd /\ v0.master = m /\ v0.host = host
  BY <1>2, <1>4 DEF IsServer, ServerFields
<1>6. w0 = WithServer(w, s, v0)
  BY Shape DEF WithServer
<1> HIDE DEF v0, w0
<1>7. IsWorld(w0) /\ Near(w, w0, s) /\ w0.cn = w.cn /\ w0.sv[s] = v0
  BY <1>5, <1>6, PutServer
<1> HIDE DEF v, m
<1>8. m # 0 => m \in Fds /\ w0.cn[m].slave = s /\ m = Used(v)
  BY <1>3, <1>7 DEF Used, Active, m, v
<1>9. /\ Near(w0, moved, s) /\ moved.sv[s].up /\ moved.sv[s].host = host /\ moved.sv[s].fd = v.fd /\ moved.sv[s].master = 0
      /\ m = 0 => moved = w0
      /\ m # 0 => moved.cn[m].ev = "none"
  BY <1>5, <1>7, <1>8, FreeFacts DEF moved
<1>10. Near(w, moved, s) /\ IsWorld(moved)
  BY <1>7, <1>9, NearThen DEF Near
<1>11. ASSUME NEW y \in {moved, disconnectSlaves(moved, s)}, NEW repl \in {"none", "connect"},
              host = 0 => repl = "none"
       PROVE  IsWorld(Told(stop(y), repl)) /\ Linked(Told(stop(y), repl))
  <2>1. Calm(moved, y) /\ y.sv = moved.sv /\ IsWorld(y)
    BY <1>10, SameFacts, CloseMasterCalm DEF disconnectSlaves, Calm
  <2>2. Near(w, y, s)
    BY <1>10, <2>1, CalmNear, NearThen
  <2> DEFINE x == stop(y)
  <2>3. ASSUME v.repl \in {"transfer", "connecting", "pong"}
        PROVE  y.sv[s].fd = Used(v) /\ Used(v) \in Fds /\ y.cn[Used(v)].slave = s
    <3>1. Used(v) = v.fd /\ m = 0 /\ v.repl \in Active
      BY <1>3, <2>3 DEF Used, Active, m
    <3>2. SameEnd(w.cn[Used(v)], y.cn[Used(v)])
      BY <1>3, <1>7, <1>9, <2>1, <3>1 DEF Calm
    <3>3. y.cn[Used(v)].slave = s
      BY <1>3, <3>1, <3>2 DEF SameEnd
    <3> QED
      BY <1>3, <1>9, <2>1, <3>1, <3>3
  <2>4. y.sv[s].up /\ y.sv[s].master = 0 /\ y.sv[s].host = host
    BY <1>9, <2>1
  <2>5. Near(y, x, s) /\ x.sv[s].up /\ x.sv[s].master = 0 /\ x.sv[s].host = host /\ (v.repl \in Active => x.cn[Used(v)].ev = "none")
    <3>1. CASE v.repl = "transfer"
      <4>1. LET z == replicationAbortSyncTransfer(y, s)
            IN  Near(y, z, s) /\ z.cn[Used(v)].ev = "none" /\ z.sv[s].up /\ z.sv[s].master = 0 /\ z.sv[s].host = host
        BY <2>1, <2>3, <2>4, <3>1, StopFacts
      <4> QED
        BY <3>1, <4>1
    <3>2. CASE v.repl \in {"connecting", "pong"} /\ host = 0
      <4>1. LET z == undoConnectWithMaster(y, s)
            IN  Near(y, z, s) /\ z.cn[Used(v)].ev = "none" /\ z.sv[s].up /\ z.sv[s].master = 0 /\ z.sv[s].host = host
        BY <2>1, <2>3, <2>4, <3>2, StopFacts
      <4> QED
        BY <3>2, <4>1
    <3>3. CASE v.repl \notin {"transfer", "connecting", "pong"}
      <4>1. x = y
        BY <3>3
      <4>2. Near(y, y, s)
        BY <2>1, SameFacts, CalmNear
      <4>3. v.repl \in Active => m # 0 /\ Used(v) = m /\ Used(v) \in Fds
        BY <1>3, <3>3, ReplicationAssumption DEF Used, Active, Fds, m
      <4>4. v.repl \in Active => y.cn[Used(v)].ev = "none"
        BY <1>9, <2>1, <4>3 DEF Calm, SameEnd
      <4> QED
        BY <2>4, <4>1, <4>2, <4>4
    <3> QED
      BY <3>1, <3>2, <3>3 DEF v
  <2> HIDE DEF x, stop
  <2>6. Near(w, x, s)
    BY <2>2, <2>5, NearThen
  <2>7. Loose(x, s)
    <3>1. CASE v.repl \in Active
      BY <2>5, <2>6, <3>1, UsedClosed DEF v
    <3>2. CASE v.repl \notin Active
      BY <2>6, <3>2, IdleIsLoose, NearLoose DEF v
    <3> QED
      BY <3>1, <3>2
  <2> DEFINE r == [x.sv[s] EXCEPT !.repl = repl]
             u == Told(x, repl)
  <2>8. IsWorld(x) /\ IsServer(x.sv[s])
    BY <2>6, SameFacts DEF Near
  <2>9. IsServer(r) /\ r.master = 0 /\ r.repl \notin Active /\ r.repl = repl /\ r.host = host
    BY <2>5, <2>8 DEF IsServer, ServerFields, Active
  <2>10. u = WithServer(x, s, r)
    BY <2>8, Shape DEF WithServer
  <2> HIDE DEF r, u
  <2>11. Near(x, u, s) /\ u.cn = x.cn /\ u.sv[s] = r
    BY SMTT(30), <2>8, <2>9, <2>10, PutServer
  <2>12. Near(w, u, s) /\ Loose(u, s) /\ IsWorld(u)
    BY <2>6, <2>7, <2>11, NearThen DEF Loose, Near
  <2>13. Linked(u)
    BY <1>11, <2>9, <2>11, <2>12, LooseLinked
  <2> QED
    BY <2>12, <2>13 DEF u, x
<1> HIDE DEF Told, stop
<1> QED
  BY <1>1, <1>11

-----------------------------------------------------------------------------
(***************************************************************************)
(* The inductive invariant, and how a step that commits a world keeps it.  *)
(***************************************************************************)
LinkInv == family \in DOMAIN Families /\ IsWorld(World) /\ Linked(World)

LEMMA Committed ==
    ASSUME LinkInv, NEW u, IsWorld(u), Linked(u), Commit(u)
    PROVE  LinkInv'
<1>1. World' = u
  BY Shape DEF Commit, World
<1>2. family' = family /\ Families' = Families
  BY DEF Commit
<1> QED
  BY <1>1, <1>2 DEF LinkInv

LEMMA CalmStep ==
    ASSUME LinkInv, NEW u, Calm(World, u), Commit(u)
    PROVE  LinkInv'
  BY Committed, CalmLinked DEF LinkInv, Calm

LEMMA Here ==
    ASSUME LinkInv
    PROVE  /\ IsWorld(World) /\ Linked(World) /\ World.sv = server /\ World.cn = conn
           /\ \A s \in Servers : IsServer(server[s]) /\ SameLink(server[s], server[s])
           /\ \A f \in Fds : IsConn(conn[f]) /\ SameEnd(conn[f], conn[f])
<1>1. IsWorld(World) /\ Linked(World)
  BY DEF LinkInv
<1>2. World.sv = server /\ World.cn = conn
  BY DEF World
<1> QED
  BY <1>1, <1>2, SameFacts

LEMMA PutStep ==
    ASSUME LinkInv, NEW s \in Servers, NEW v, SameLink(server[s], v), Put(s, v)
    PROVE  LinkInv'
<1>1. [World EXCEPT !.sv[s] = v] = WithServer(World, s, v)
  BY Here, Changes
<1>2. Calm(World, WithServer(World, s, v))
  BY Here, PutServer DEF SameLink
<1> QED
  BY <1>1, <1>2, CalmStep DEF Put

LEMMA PropagateStep ==
    ASSUME LinkInv, NEW w, Calm(World, w), NEW s \in Servers, NEW v, SameLink(w.sv[s], v),
           NEW db, NEW c, Commit(propagate([w EXCEPT !.sv[s] = v], s, db, c))
    PROVE  LinkInv'
<1>1. [w EXCEPT !.sv[s] = v] = WithServer(w, s, v)
  BY Changes DEF Calm
<1>2. Calm(w, WithServer(w, s, v)) /\ IsWorld(WithServer(w, s, v))
  <2>1. IsWorld(w) /\ IsServer(v)
    BY DEF Calm, SameLink
  <2> QED
    BY <2>1, PutServer
<1>3. Calm(World, propagate(WithServer(w, s, v), s, db, c))
  BY <1>2, FeedCalm, CalmThen
<1> QED
  BY <1>1, <1>3, CalmStep

-----------------------------------------------------------------------------
(* The steps of a server that leave every link alone.                       *)

LEMMA DataSteps ==
    ASSUME LinkInv, NEW s \in Servers,
           \/ flushallCommand(s)
           \/ \E d \in Dbs : WriteCommand(s, d)
    PROVE  LinkInv'
<1>1. CASE flushallCommand(s)
  <2>1. Commit(propagate([World EXCEPT !.sv[s] = emptyDb(server[s], Conf.saveparams)], s, 0, FlushAll))
    BY <1>1, Here DEF flushallCommand
  <2>2. SameLink(World.sv[s], emptyDb(server[s], Conf.saveparams))
    BY Here, SnapshotsLink
  <2>3. Calm(World, World)
    BY Here, SameFacts
  <2> QED
    BY <2>1, <2>2, <2>3, PropagateStep
<1>2. ASSUME NEW d \in Dbs, WriteCommand(s, d) PROVE LinkInv'
  <2> DEFINE n == count.write + 1
             v == [server[s] EXCEPT !.data[d] = Append(@, n), !.dirty = @ + 1]
  <2>1. Commit(propagate([World EXCEPT !.sv[s] = v], s, d, Write(n)))
    BY <1>2 DEF WriteCommand
  <2>2. SameLink(server[s], v)
    <3>1. IsServer(server[s])
      BY Here
    <3> QED
      BY <3>1 DEF SameLink, IsServer, ServerFields
  <2>3. Calm(World, World) /\ World.sv[s] = server[s]
    BY Here, SameFacts
  <2> HIDE DEF v, n
  <2> QED
    BY <2>1, <2>2, <2>3, PropagateStep
<1> QED
  BY <1>1, <1>2

LEMMA FileSteps ==
    ASSUME LinkInv, NEW s \in Servers,
           \/ saveCommand(s) \/ bgsaveCommand(s) \/ bgrewriteaofCommand(s) \/ configSetAppendonly(s)
           \/ Bio(s) \/ beforeSleep(s)
           \/ \E how \in {"ok", "error", "killed"} : SaveChild(s, how) \/ RewriteChild(s, how)
    PROVE  LinkInv'
<1>1. IsServer(server[s])
  BY Here
<1>2. CASE saveCommand(s)
  BY <1>1, <1>2, SnapshotsLink, PutStep DEF saveCommand
<1>3. CASE bgsaveCommand(s)
  BY <1>1, <1>3, SnapshotsLink, PutStep DEF bgsaveCommand
<1>4. CASE bgrewriteaofCommand(s)
  <2>1. SameLink(server[s], [server[s] EXCEPT !.scheduled = TRUE])
    BY <1>1 DEF SameLink, IsServer, ServerFields
  <2>2. \/ Put(s, [server[s] EXCEPT !.scheduled = TRUE])
        \/ \E forks : Put(s, rewriteAppendOnlyFileBackground(server[s], forks))
    BY <1>4 DEF bgrewriteaofCommand
  <2> QED
    BY <1>1, <2>1, <2>2, AppendsLink, PutStep
<1>5. CASE configSetAppendonly(s)
  <2>1. \/ Put(s, stopAppendOnly(server[s], Conf))
        \/ \E forks : Put(s, startAppendOnly(server[s], forks))
    BY <1>5 DEF configSetAppendonly
  <2> QED
    BY <1>1, <2>1, AppendsLink, PutStep
<1>6. CASE Bio(s)
  BY <1>1, <1>6, AppendsLink, PutStep DEF Bio
<1>7. CASE beforeSleep(s)
  <2>1. PICK t : server' = [server EXCEPT ![s] = flushAppendOnlyFile(@, Conf, t)]
    BY <1>7 DEF beforeSleep
  <2> DEFINE v == flushAppendOnlyFile(server[s], Conf, t)
             u == WithServer(World, s, v)
  <2>2. SameLink(server[s], v)
    BY <1>1, AppendsLink
  <2>3. World' = u
    BY <1>7, <2>1, Here DEF beforeSleep, World, WithServer
  <2>4. Calm(World, u)
    BY <2>2, Here, PutServer DEF SameLink
  <2> HIDE DEF u
  <2>5. IsWorld(u) /\ Linked(u)
    BY <2>4, Here, CalmLinked DEF Calm
  <2>6. family' = family
    BY <1>7 DEF beforeSleep
  <2> QED
    BY <2>3, <2>5, <2>6 DEF LinkInv
<1>8. ASSUME NEW how, SaveChild(s, how) PROVE LinkInv'
  BY <1>1, <1>8, SnapshotsLink, PutStep DEF SaveChild
<1>9. ASSUME NEW how, RewriteChild(s, how) PROVE LinkInv'
  <2> DEFINE v == [server[s] EXCEPT !.rewrite = Exited(@, how)]
  <2>1. SameLink(server[s], v)
    BY <1>1 DEF SameLink, IsServer, ServerFields
  <2>2. Put(s, v)
    BY <1>9 DEF RewriteChild
  <2> HIDE DEF v
  <2> QED
    BY <2>1, <2>2, PutStep
<1> QED
  BY <1>2, <1>3, <1>4, <1>5, <1>6, <1>7, <1>8, <1>9

\* A process that stops closes its ends, and one that starts has none
LEMMA GoneStep ==
    ASSUME LinkInv, NEW s \in Servers, NEW v, IsServer(v), ~v.up, Gone(s, v)
    PROVE  LinkInv'
<1> DEFINE Cut(c) == [c EXCEPT !.ev = IF c.slave = s THEN "none" ELSE @,
                               !.role = IF c.master = s THEN "closed" ELSE @]
           next == [f \in Fds |-> Freed(Cut(conn[f]))]
           u == [sv |-> [server EXCEPT ![s] = v], cn |-> next]
<1>1. Commit(u)
  BY DEF Gone
<1>2. ASSUME NEW c, IsConn(c)
      PROVE  /\ IsConn(Cut(c)) /\ Cut(c).slave = c.slave /\ Cut(c).master = c.master
             /\ Cut(c).ev = IF c.slave = s THEN "none" ELSE c.ev
  BY <1>2 DEF IsConn, ConnFields
<1> HIDE DEF Cut
<1>3. ASSUME NEW f \in Fds
      PROVE  /\ IsConn(next[f])
             /\ SameEnd(conn[f], next[f]) \/ (conn[f].slave = s /\ next[f].ev = "none")
             /\ next[f].ev # "none" => next[f].slave # s
  <2>1. next[f] = Freed(Cut(conn[f]))
    OBVIOUS
  <2>2. IsConn(conn[f])
    BY Here
  <2>3. SameEnd(Cut(conn[f]), next[f])
    BY <1>2, <2>1, <2>2, FreedEnd
  <2> HIDE DEF next
  <2> QED
    BY <1>2, <2>2, <2>3 DEF SameEnd
<1>4. next = [f \in Fds |-> next[f]]
  BY Zenon
<1> HIDE DEF next
<1>5. u.cn = next /\ u.sv = [r \in Servers |-> IF r = s THEN v ELSE server[r]] /\ u = [sv |-> u.sv, cn |-> u.cn]
  BY Here DEF IsWorld
<1> HIDE DEF u
<1>6. IsWorld(u)
  BY <1>3, <1>4, <1>5, Here DEF IsWorld
<1>7. Near(World, u, s) /\ Loose(u, s) /\ u.sv[s] = v
  BY <1>3, <1>5, <1>6, Here DEF Near, Loose
<1>8. Linked(u)
  BY <1>7, Here, LooseLinked
<1> QED
  BY <1>1, <1>6, <1>8, Committed

LEMMA InitialServer ==
    ASSUME NEW conf, NEW s
    PROVE  LET u == initServer(conf, s)
           IN  IsServer(u) /\ u.master = 0 /\ u.repl \in {"none", "connect"} /\ (u.host = 0 => u.repl = "none")
<1> DEFINE aof == IF conf.appendonly THEN "on" ELSE "off"
           repl == IF conf.slaveof[s] = 0 THEN "none" ELSE "connect"
           u == [up |-> TRUE, data |-> EmptyData, dirty |-> 0, before |-> 0, saveok |-> TRUE,
                 rdb |-> <<>>, save |-> <<>>, aof |-> aof, file |-> <<>>, synced |-> 0, buf |-> <<>>,
                 seldb |-> -1, rewrite |-> <<>>, diff |-> <<>>, scheduled |-> FALSE, postponed |-> FALSE,
                 bio |-> <<>>, host |-> conf.slaveof[s], repl |-> repl, fd |-> 0, master |-> 0]
<1>1. initServer(conf, s) = u
  BY DEF initServer
<1>2. repl \in {"none", "connect"} /\ (conf.slaveof[s] = 0 => repl = "none")
  OBVIOUS
<1> HIDE DEF aof, repl
<1>3. IsServer(u) /\ u.master = 0 /\ u.repl = repl /\ u.host = conf.slaveof[s]
  BY DEF IsServer, ServerFields
<1> QED
  BY <1>1, <1>2, <1>3

LEMMA StopAndStart ==
    ASSUME NEW v, IsServer(v)
    PROVE  /\ \A kept : IsServer(Stopped(v, kept)) /\ ~Stopped(v, kept).up
           /\ SameLink(v, prepareForShutdown(v))
           /\ \A conf, s : LET u == loadDataFromDisk(v, conf, s)
                           IN  /\ IsServer(u) /\ u.master = 0 /\ u.repl \in {"none", "connect"}
                               /\ u.host = 0 => u.repl = "none"
<1>1. ASSUME NEW kept PROVE IsServer(Stopped(v, kept)) /\ ~Stopped(v, kept).up
  BY DEF Stopped, IsServer, ServerFields
<1>2. SameLink(v, prepareForShutdown(v))
  BY DEF prepareForShutdown, SameLink, IsServer, ServerFields
<1>3. ASSUME NEW conf, NEW s
      PROVE  LET u == loadDataFromDisk(v, conf, s)
             IN  /\ IsServer(u) /\ u.master = 0 /\ u.repl \in {"none", "connect"}
                 /\ u.host = 0 => u.repl = "none"
  <2> DEFINE i == initServer(conf, s)
             Loaded(x, y, z) == [i EXCEPT !.data = x, !.rdb = v.rdb, !.file = v.file, !.synced = y, !.dirty = z]
  <2>1. \E x, y, z : loadDataFromDisk(v, conf, s) = Loaded(x, y, z)
    BY Zenon DEF loadDataFromDisk
  <2>2. IsServer(i) /\ i.master = 0 /\ i.repl \in {"none", "connect"} /\ (i.host = 0 => i.repl = "none")
    BY InitialServer
  <2> HIDE DEF i
  <2>3. ASSUME NEW x, NEW y, NEW z
        PROVE  IsServer(Loaded(x, y, z)) /\ Loaded(x, y, z).master = 0 /\ Loaded(x, y, z).repl = i.repl
               /\ Loaded(x, y, z).host = i.host
    BY <2>2 DEF IsServer, ServerFields
  <2> HIDE DEF Loaded
  <2> QED
    BY <2>1, <2>2, <2>3
<1> QED
  BY <1>1, <1>2, <1>3

LEMMA ProcessSteps ==
    ASSUME LinkInv, NEW s \in Servers, shutdownCommand(s) \/ Crash(s) \/ Kill(s) \/ Start(s)
    PROVE  LinkInv'
<1>1. IsServer(server[s])
  BY Here
<1>2. CASE shutdownCommand(s)
  <2> DEFINE v == prepareForShutdown(server[s])
  <2>1. \/ Gone(s, Stopped(v, v.synced)) \/ Gone(s, Stopped(rdbSave(v), v.synced)) \/ Put(s, v)
    BY <1>2 DEF shutdownCommand
  <2>2. SameLink(server[s], v)
    BY <1>1, StopAndStart
  <2> HIDE DEF v
  <2>3. IsServer(v) /\ IsServer(rdbSave(v))
    BY <2>2, SnapshotsLink DEF SameLink
  <2>4. /\ IsServer(Stopped(v, v.synced)) /\ ~Stopped(v, v.synced).up
        /\ IsServer(Stopped(rdbSave(v), v.synced)) /\ ~Stopped(rdbSave(v), v.synced).up
    BY <2>3, StopAndStart
  <2> QED
    BY <2>1, <2>2, <2>4, PutStep, GoneStep
<1>3. CASE Crash(s) \/ Kill(s)
  <2>1. PICK kept : Gone(s, Stopped(server[s], kept))
    BY <1>3 DEF Crash, Kill
  <2>2. IsServer(Stopped(server[s], kept)) /\ ~Stopped(server[s], kept).up
    BY <1>1, StopAndStart
  <2> QED
    BY <2>1, <2>2, GoneStep
<1>4. CASE Start(s)
  <2> DEFINE v == loadDataFromDisk(server[s], Conf, s)
             u == WithServer(World, s, v)
  <2>1. IsServer(v) /\ v.master = 0 /\ v.repl \in {"none", "connect"} /\ (v.host = 0 => v.repl = "none")
    BY <1>1, StopAndStart
  <2>2. ~server[s].up /\ Put(s, v)
    BY <1>4 DEF Start
  <2> HIDE DEF v
  <2>3. [World EXCEPT !.sv[s] = v] = u
    BY Here, Changes
  <2>4. Commit(u)
    BY <2>2, <2>3 DEF Put
  <2>5. Near(World, u, s) /\ IsWorld(u) /\ u.cn = conn /\ u.sv[s] = v
    BY <2>1, Here, PutServer
  <2> HIDE DEF u
  <2>6. Loose(u, s)
    BY <2>2, <2>5, Here, OneLink DEF Loose
  <2>7. Linked(u)
    BY <2>1, <2>5, <2>6, Here, LooseLinked DEF Active
  <2> QED
    BY <2>4, <2>5, <2>7, Committed
<1> QED
  BY <1>2, <1>3, <1>4

-----------------------------------------------------------------------------
(* The steps that change links.                                             *)

LEMMA CronSteps ==
    ASSUME LinkInv, NEW s \in Servers, SomeCron(s) \/ TimeOut(s)
    PROVE  LinkInv'
<1>1. PICK t : CronStep(s, t)
  BY DEF SomeCron, TimeOut, Cron
<1>2. World.sv[s].up /\ Commit(serverCron(World, s, Conf, t))
  BY <1>1, Here DEF CronStep
<1> QED
  BY <1>2, Here, ServerCronLinked, Committed

LEMMA SlaveofStep ==
    ASSUME LinkInv, \A g \in DOMAIN Families : "handshake" \notin Families[g].allowed,
           NEW s \in Servers, NEW host, Slaveof(s, host)
    PROVE  LinkInv'
<1>1. host = 0 \/ World.sv[s].repl \notin {"connecting", "pong"}
  BY Here DEF Slaveof, Allowed, Conf, LinkInv
<1>2. World.sv[s].up /\ Commit(slaveofCommand(World, s, host))
  BY Here DEF Slaveof, Admin
<1> QED
  BY <1>1, <1>2, Here, SlaveofLinked, Committed

LEMMA SlaveEndSteps ==
    ASSUME LinkInv, NEW f \in Fds, SyncWithMaster(f) \/ ReadSyncBulkPayload(f) \/ ReadFromMaster(f)
    PROVE  LinkInv'
<1>1. CASE SyncWithMaster(f)
  BY <1>1, Here, SyncLinked, Committed DEF SyncWithMaster
<1>2. CASE ReadSyncBulkPayload(f)
  <2>1. World.cn[f].ev = "payload" /\
        \E forks : Commit(readSyncBulkPayload(World, World.cn[f].slave, f, Conf, forks))
    BY <1>2, Here DEF ReadSyncBulkPayload
  <2> QED
    BY <2>1, Here, BulkLinked, Committed
<1>3. CASE ReadFromMaster(f)
  <2> DEFINE c == conn[f]
             s == c.slave
             v == server[s]
             cmd == Head(c.wire)
             read == [World EXCEPT !.cn[f].wire = Tail(@)]
             wrote == [v EXCEPT !.data[c.db] = Append(@, cmd[2]), !.dirty = @ + 1]
             emptied == emptyDb(v, Conf.saveparams)
  <2>1. c.ev = "link"
    BY <1>3 DEF ReadFromMaster
  <2>2. s \in Servers /\ v.up
    BY <2>1, Here DEF Linked, ConnOK
  <2>3. \/ Commit(FreeMaster(World, s))
        \/ Commit([read EXCEPT !.cn[f].db = cmd[2]])
        \/ Commit(read)
        \/ Commit(propagate([read EXCEPT !.sv[s] = wrote], s, c.db, cmd))
        \/ Commit(propagate([read EXCEPT !.sv[s] = emptied], s, c.db, cmd))
    BY <1>3, Zenon DEF ReadFromMaster
  <2>4. Calm(World, read) /\ IsWorld(read) /\ read.sv = server
    <3> DEFINE e == Tail(World.cn[f].wire)
               d == [World.cn[f] EXCEPT !.wire = e]
    <3>1. read = [World EXCEPT !.cn[f].wire = e]
      BY Zenon
    <3> HIDE DEF e
    <3>2. IsConn(World.cn[f])
      BY Here
    <3>3. IsConn(d) /\ SameEnd(World.cn[f], d)
      BY <3>2 DEF IsConn, ConnFields, SameEnd
    <3>4. read = WithConn(World, f, d)
      BY <3>1, Here, Shape DEF WithConn
    <3> HIDE DEF d, read
    <3> QED
      BY <3>3, <3>4, Here, PutConn
  <2>5. Calm(read, [read EXCEPT !.cn[f].db = cmd[2]])
    <3> DEFINE e == cmd[2]
               d == [read.cn[f] EXCEPT !.db = e]
    <3> HIDE DEF read, e
    <3>1. IsConn(read.cn[f])
      BY <2>4, SameFacts
    <3>2. IsConn(d) /\ SameEnd(read.cn[f], d)
      BY <3>1 DEF IsConn, ConnFields, SameEnd
    <3>3. [read EXCEPT !.cn[f].db = e] = WithConn(read, f, d)
      BY <2>4, Shape DEF WithConn
    <3> HIDE DEF d
    <3>4. Calm(read, [read EXCEPT !.cn[f].db = e])
      BY <2>4, <3>2, <3>3, PutConn
    <3> QED
      BY <3>4 DEF e
  <2>6. SameLink(v, wrote) /\ SameLink(v, emptied)
    <3>1. IsServer(v)
      BY <2>2, Here
    <3> HIDE DEF v, c
    <3>2. SameLink(v, wrote)
      BY <3>1 DEF SameLink, IsServer, ServerFields
    <3> QED
      BY <3>1, <3>2, SnapshotsLink
  <2>7. LET u == FreeMaster(World, s) IN IsWorld(u) /\ Linked(u)
    BY <2>2, Here, FreeLinked
  <2> HIDE DEF read, wrote, emptied
  <2>8. Calm(World, [read EXCEPT !.cn[f].db = cmd[2]])
    BY <2>4, <2>5, CalmThen
  <2>9. read.sv[s] = v
    BY <2>4
  <2> HIDE DEF s, v, cmd, c
  <2> QED
    BY <2>2, <2>3, <2>4, <2>6, <2>7, <2>8, <2>9, CalmStep, Committed, PropagateStep
<1> QED
  BY <1>1, <1>2, <1>3

LEMMA MasterEndSteps ==
    ASSUME LinkInv, NEW f \in Fds,
           Request(f) \/ sendBulkToSlave(f) \/ sendReplyToClient(f) \/ SlaveGone(f) \/ DropSlave(f)
    PROVE  LinkInv'
<1>1. IsConn(conn[f])
  BY Here
<1>2. ASSUME NEW c, SameEnd(conn[f], c) PROVE Calm(World, [World EXCEPT !.cn[f] = c])
  <2>1. [World EXCEPT !.cn[f] = c] = WithConn(World, f, c)
    BY Here, Changes
  <2>2. IsConn(c) /\ SameEnd(World.cn[f], c)
    BY <1>2, Here DEF SameEnd
  <2> QED
    BY <2>1, <2>2, Here, PutConn
<1>3. CASE Request(f)
  <2> DEFINE e == Tail(World.cn[f].req)
             d == [World.cn[f] EXCEPT !.req = e]
             w == [World EXCEPT !.cn[f].req = Tail(@)]
             g == Append(w.cn[f].wire, <<"pong">>)
             ponged == [w EXCEPT !.cn[f].wire = g]
  <2>1. w = [World EXCEPT !.cn[f].req = e]
    BY Zenon
  <2>2. \/ Commit(ponged)
        \/ \E forks : Commit(syncCommand(w, conn[f].master, f, forks))
    BY <1>3, Zenon DEF Request
  <2> HIDE DEF e
  <2>3. IsConn(d) /\ SameEnd(World.cn[f], d)
    BY <1>1, Here DEF IsConn, ConnFields, SameEnd
  <2>4. w = WithConn(World, f, d)
    BY <2>1, Here, Shape DEF WithConn
  <2> HIDE DEF d, w
  <2>5. Calm(World, w) /\ IsWorld(w)
    BY <2>3, <2>4, Here, PutConn
  <2>6. Calm(World, ponged)
    <3> DEFINE k == [w.cn[f] EXCEPT !.wire = g]
    <3>0. ponged = [w EXCEPT !.cn[f].wire = g]
      OBVIOUS
    <3> HIDE DEF g, ponged
    <3>1. IsConn(w.cn[f])
      BY <2>5, SameFacts
    <3>2. IsConn(k) /\ SameEnd(w.cn[f], k)
      BY <3>1 DEF IsConn, ConnFields, SameEnd
    <3>3. ponged = WithConn(w, f, k)
      BY <2>5, <3>0, Shape DEF WithConn
    <3> HIDE DEF k
    <3> QED
      BY <2>5, <3>2, <3>3, PutConn, CalmThen
  <2> HIDE DEF ponged
  <2>7. ASSUME NEW forks PROVE Calm(World, syncCommand(w, conn[f].master, f, forks))
    BY <2>5, SyncCommandCalm, CalmThen
  <2> QED
    BY <2>2, <2>6, <2>7, CalmStep
<1>4. CASE sendBulkToSlave(f)
  <2> DEFINE c == [conn[f] EXCEPT !.wire = Append(@, <<"rdb", conn[f].bulk[1]>>), !.bulk = <<>>, !.role = "online"]
  <2>1. Commit([World EXCEPT !.cn[f] = c])
    BY <1>4 DEF sendBulkToSlave
  <2>2. SameEnd(conn[f], c)
    BY <1>1 DEF IsConn, ConnFields, SameEnd
  <2> HIDE DEF c
  <2> QED
    BY <1>2, <2>1, <2>2, CalmStep
<1>5. CASE sendReplyToClient(f)
  <2> DEFINE c == [conn[f] EXCEPT !.wire = @ \o conn[f].out, !.out = <<>>]
  <2>1. Commit([World EXCEPT !.cn[f] = c])
    BY <1>5 DEF sendReplyToClient
  <2>2. SameEnd(conn[f], c)
    BY <1>1 DEF IsConn, ConnFields, SameEnd
  <2> HIDE DEF c
  <2> QED
    BY <1>2, <2>1, <2>2, CalmStep
<1>6. CASE SlaveGone(f) \/ DropSlave(f)
  BY <1>6, Here, CloseMasterCalm, CalmStep DEF SlaveGone, DropSlave
<1> QED
  BY <1>3, <1>4, <1>5, <1>6

LEMMA LinksAtFirst == ASSUME Init PROVE LinkInv
<1> DEFINE v(s) == [initServer(Conf, s) EXCEPT !.up = s \in Conf.servers]
<1>1. ASSUME NEW s \in Servers
      PROVE  /\ IsServer(v(s)) /\ v(s).master = 0 /\ v(s).repl \in {"none", "connect"}
             /\ v(s).host = 0 => v(s).repl = "none"
  <2> DEFINE i == initServer(Conf, s)
  <2>0. IsConn(Closed)
    BY DEF IsConn, Closed, ConnFields
  <2>1. IsServer(i) /\ i.master = 0 /\ i.repl \in {"none", "connect"} /\ (i.host = 0 => i.repl = "none")
    BY InitialServer
  <2> HIDE DEF i
  <2>2. LET u == [i EXCEPT !.up = s \in Conf.servers]
        IN  IsServer(u) /\ u.master = 0 /\ u.repl \in {"none", "connect"} /\ (u.host = 0 => u.repl = "none")
    BY <2>1 DEF IsServer, ServerFields
  <2> QED
    BY <2>2 DEF i
<1> HIDE DEF v
<1>2. server = [s \in Servers |-> v(s)]
  BY Zenon DEF Init, v
<1>3. conn = [f \in Fds |-> Closed] /\ family \in DOMAIN Families
  BY DEF Init
<1>4. IsConn(Closed) /\ Closed.ev = "none"
  BY DEF IsConn, Closed, ConnFields
<1>5. World.sv = server /\ World.cn = conn /\ World = [sv |-> World.sv, cn |-> World.cn]
  BY DEF World
<1>6. IsWorld(World)
  BY <1>1, <1>2, <1>3, <1>4, <1>5 DEF IsWorld
<1>7. ASSUME NEW s \in Servers PROVE ServerOK(World, s)
  <2>1. /\ World.sv[s].master = 0 /\ World.sv[s].repl \in {"none", "connect"}
        /\ World.sv[s].host = 0 => World.sv[s].repl = "none"
    BY <1>1, <1>2, <1>5
  <2> QED
    BY <2>1 DEF ServerOK, Active
<1>8. ASSUME NEW f \in Fds PROVE ConnOK(World, f)
  <2>1. World.cn[f].ev = "none"
    BY <1>3, <1>4, <1>5
  <2> QED
    BY <2>1 DEF ConnOK
<1> QED
  BY <1>3, <1>6, <1>7, <1>8 DEF LinkInv, Linked

LEMMA LinksKept ==
    ASSUME \A g \in DOMAIN Families : "handshake" \notin Families[g].allowed, LinkInv, [Next]_vars
    PROVE  LinkInv'
<1>1. CASE UNCHANGED vars
  <2>1. World' = World /\ family' = family
    BY <1>1 DEF vars, World
  <2> QED
    BY <2>1 DEF LinkInv
<1>2. ASSUME NEW s \in Servers,
             \/ flushallCommand(s) \/ saveCommand(s) \/ bgsaveCommand(s) \/ bgrewriteaofCommand(s)
             \/ configSetAppendonly(s) \/ shutdownCommand(s) \/ Crash(s) \/ Kill(s) \/ Start(s)
             \/ beforeSleep(s) \/ SomeCron(s) \/ Bio(s) \/ TimeOut(s)
             \/ \E d \in Dbs : WriteCommand(s, d)
             \/ \E host \in {0} \cup Servers : Slaveof(s, host)
             \/ \E how \in {"ok", "error", "killed"} : SaveChild(s, how) \/ RewriteChild(s, how)
      PROVE  LinkInv'
  <2>1. CASE flushallCommand(s) \/ \E d \in Dbs : WriteCommand(s, d)
    BY <2>1, DataSteps
  <2>2. CASE \/ saveCommand(s) \/ bgsaveCommand(s) \/ bgrewriteaofCommand(s) \/ configSetAppendonly(s)
             \/ Bio(s) \/ beforeSleep(s)
             \/ \E how \in {"ok", "error", "killed"} : SaveChild(s, how) \/ RewriteChild(s, how)
    BY <2>2, FileSteps
  <2>3. CASE shutdownCommand(s) \/ Crash(s) \/ Kill(s) \/ Start(s)
    BY <2>3, ProcessSteps
  <2>4. CASE SomeCron(s) \/ TimeOut(s)
    BY <2>4, CronSteps
  <2>5. CASE \E host \in {0} \cup Servers : Slaveof(s, host)
    BY <2>5, SlaveofStep
  <2> QED
    BY <1>2, <2>1, <2>2, <2>3, <2>4, <2>5
<1>3. ASSUME NEW f \in Fds,
             \/ SyncWithMaster(f) \/ ReadSyncBulkPayload(f) \/ ReadFromMaster(f)
             \/ Request(f) \/ sendBulkToSlave(f) \/ sendReplyToClient(f)
             \/ SlaveGone(f) \/ DropSlave(f)
      PROVE  LinkInv'
  BY <1>3, SlaveEndSteps, MasterEndSteps
<1> QED
  BY <1>1, <1>2, <1>3 DEF Next

\* A slave that is up and connected has its end of one connection, and that is
\* a connection to the host it was last told to follow: whatever servers stop
\* and start, transfers that fail, time out or are given up for another host,
\* in any order.  A host that is given while a connection is being set up is
\* the exception (syncWithMaster goes on with the old one): "handshake".
THEOREM SlavesFollowHosts ==
    ASSUME \A g \in DOMAIN Families : "handshake" \notin Families[g].allowed
    PROVE  Spec => []FollowsHost
<1>1. LinkInv => FollowsHost
  <2> SUFFICES ASSUME LinkInv, NEW s \in Servers, server[s].up, server[s].repl = "connected"
               PROVE  conn[server[s].master].master = server[s].host
    BY DEF FollowsHost
  <2> DEFINE f == server[s].master
  <2>1. ServerOK(World, s) /\ World.sv = server /\ World.cn = conn
    BY Here DEF Linked
  <2>2. f \in Fds /\ conn[f].slave = s /\ conn[f].ev # "none"
    BY <2>1 DEF ServerOK, Used, Working, Active
  <2> QED
    BY <2>2, Here, OneLink
<1> QED
  BY <1>1, LinksAtFirst, LinksKept, PTL DEF Spec

-----------------------------------------------------------------------------
(***************************************************************************)
(* Sequences, of whatever elements.                                        *)
(***************************************************************************)
IsSeq(q) == \E S : q \in Seq(S)

LEMMA Sequences ==
    ASSUME NEW q, IsSeq(q)
    PROVE  /\ Len(q) \in Nat /\ DOMAIN q = 1..Len(q)
           /\ \A p : IsSeq(p) => IsSeq(q \o p)
           /\ \A e : IsSeq(Append(q, e))
           /\ q \o <<>> = q /\ <<>> \o q = q
           /\ \A n \in 0..Len(q) : IsSeq(SubSeq(q, 1, n)) /\ Len(SubSeq(q, 1, n)) = n
           /\ SubSeq(q, 1, Len(q)) = q
<1>1. PICK S : q \in Seq(S)
  BY DEF IsSeq
<1>2. Len(q) \in Nat /\ DOMAIN q = 1..Len(q)
  BY <1>1, LenProperties
<1>3. ASSUME NEW p, IsSeq(p) PROVE IsSeq(q \o p)
  <2>1. PICK T : p \in Seq(T)
    BY <1>3 DEF IsSeq
  <2>2. q \in Seq(S \cup T) /\ p \in Seq(S \cup T)
    BY <1>1, <2>1, SeqMonotonic
  <2>3. q \o p \in Seq(S \cup T)
    BY <2>2, ConcatProperties
  <2> QED
    BY <2>3 DEF IsSeq
<1>4. ASSUME NEW e PROVE IsSeq(Append(q, e))
  <2>1. q \in Seq(S \cup {e}) /\ e \in S \cup {e}
    BY <1>1, SeqMonotonic
  <2>2. Append(q, e) \in Seq(S \cup {e})
    BY <2>1, AppendProperties
  <2> QED
    BY <2>2 DEF IsSeq
<1>5. q \o <<>> = q /\ <<>> \o q = q
  BY <1>1, ConcatEmptySeq
<1>6. ASSUME NEW n \in 0..Len(q) PROVE IsSeq(SubSeq(q, 1, n)) /\ Len(SubSeq(q, 1, n)) = n
  <2>1. 1 \in Int /\ n \in Int /\ \A i \in 1..n : q[i] \in S
    BY <1>1, <1>2, ElementOfSeq
  <2>2. SubSeq(q, 1, n) \in Seq(S) /\ Len(SubSeq(q, 1, n)) = IF 1 <= n THEN n - 1 + 1 ELSE 0
    BY <2>1, SubSeqProperties
  <2>3. (IF 1 <= n THEN n - 1 + 1 ELSE 0) = n
    BY <1>2
  <2> QED
    BY <2>2, <2>3 DEF IsSeq
<1>7. SubSeq(q, 1, Len(q)) = q
  BY <1>1, SubSeqFull
<1> QED
  BY <1>2, <1>3, <1>4, <1>5, <1>6, <1>7

LEMMA ShortSequences ==
    IsSeq(<<>>) /\ Len(<<>>) = 0 /\ (\A e : IsSeq(<<e>>)) /\ (\A e, c : IsSeq(<<e, c>>))
<1>1. IsSeq(<<>>) /\ Len(<<>>) = 0
  BY EmptySeq DEF IsSeq
<1>2. ASSUME NEW e PROVE IsSeq(<<e>>)
  <2>1. <<e>> \in Seq({e})
    OBVIOUS
  <2> QED
    BY <2>1 DEF IsSeq
<1>3. ASSUME NEW e, NEW c PROVE IsSeq(<<e, c>>)
  <2>1. <<e, c>> \in Seq({e, c})
    OBVIOUS
  <2> QED
    BY <2>1 DEF IsSeq
<1> QED
  BY <1>1, <1>2, <1>3

(***************************************************************************)
(* Replaying commands (FoldFacts): one more, some more, and that the       *)
(* result is again a data set and a database, whatever the commands.       *)
(***************************************************************************)
IsState(st) == st = [data |-> st.data, db |-> st.db]
Fold == INSTANCE FoldFacts WITH Op <- Execute, Kept <- IsState
State(data, db) == [data |-> data, db |-> db]

LEMMA StateFacts ==
    ASSUME NEW data, NEW db
    PROVE  IsState(State(data, db)) /\ State(data, db).data = data /\ State(data, db).db = db
  BY DEF State, IsState

LEMMA ExecuteKeeps == ASSUME NEW st, IsState(st), NEW c PROVE IsState(Execute(st, c))
<1>1. \A x : IsState([st EXCEPT !.db = x]) /\ IsState([st EXCEPT !.data = x])
  BY DEF IsState
<1>2. [st EXCEPT !.data[st.db] = Append(@, c[2])] = [st EXCEPT !.data = [st.data EXCEPT ![st.db] = Append(@, c[2])]]
  BY DEF IsState
<1> QED
  BY <1>1, <1>2 DEF Execute

LEMMA ReplayIs ==
    ASSUME NEW data, NEW db, NEW q
    PROVE  Replay(data, db, q) = Fold!Fold(State(data, db), q)
  BY DEF Replay, Fold!Fold, State, FoldLeft, Fold!FoldLeft, MapThenFoldSet, Fold!MapThenFoldSet, Max, Fold!Max

LEMMA ReplayNone ==
    ASSUME NEW data, NEW db
    PROVE  Replay(data, db, <<>>) = State(data, db)
  BY ReplayIs, Fold!FoldEmpty

LEMMA ReplayState ==
    ASSUME NEW data, NEW db, NEW q, IsSeq(q)
    PROVE  IsState(Replay(data, db, q))
<1>1. PICK S : q \in Seq(S)
  BY DEF IsSeq
<1>2. IsState(State(data, db)) /\ \A st, c : IsState(st) => IsState(Execute(st, c))
  BY StateFacts, ExecuteKeeps
<1>3. IsState(Fold!Fold(State(data, db), q))
  BY <1>1, <1>2, Fold!FoldKeeps
<1> QED
  BY <1>3, ReplayIs

LEMMA ReplayMore ==
    ASSUME NEW data, NEW db, NEW q, IsSeq(q), NEW p, IsSeq(p),
           NEW data1, NEW db1, Replay(data, db, q) = State(data1, db1)
    PROVE  Replay(data, db, q \o p) = Replay(data1, db1, p)
<1>1. PICK S : q \in Seq(S)
  BY DEF IsSeq
<1>2. PICK T : p \in Seq(T)
  BY DEF IsSeq
<1>3. q \in Seq(S \cup T) /\ p \in Seq(S \cup T)
  BY <1>1, <1>2, SeqMonotonic
<1>4. Fold!Fold(State(data, db), q \o p) = Fold!Fold(Fold!Fold(State(data, db), q), p)
  BY <1>3, Fold!FoldConcat
<1> QED
  BY <1>4, ReplayIs

LEMMA ReplayOne ==
    ASSUME NEW data, NEW db, NEW c
    PROVE  Replay(data, db, <<c>>) = Execute(State(data, db), c)
<1>1. <<>> \in Seq({c}) /\ c \in {c}
  BY EmptySeq
<1>2. Append(<<>>, c) = <<c>>
  OBVIOUS
<1> DEFINE none == <<>>
<1>3. none \in Seq({c}) /\ Append(none, c) = <<c>>
  BY <1>1, <1>2
<1>4. Fold!Fold(State(data, db), none) = State(data, db)
  BY Fold!FoldEmpty
<1> HIDE DEF none
<1>5. Fold!Fold(State(data, db), Append(none, c)) = Execute(Fold!Fold(State(data, db), none), c)
  BY <1>3, Fold!FoldAppend
<1> QED
  BY <1>3, <1>4, <1>5, ReplayIs

-----------------------------------------------------------------------------
(***************************************************************************)
(* The files of one server, with T for the data sets since the last reply: *)
(* the append only file, and, where changes are counted to the end, what   *)
(* dump.rdb does not have.  A buffer and the differences of a rewrite end  *)
(* with the database that was selected last.                               *)
(***************************************************************************)
IsChild(child) == child = <<>> \/ child = <<[data |-> child[1].data, exit |-> child[1].exit]>>
IsData(x) == x = [d \in Dbs |-> x[d]] /\ \A d \in Dbs : IsSeq(x[d])

Rebuilds(data, cmds, v) ==
    \E db : Replay(data, 0, cmds) = State(v.data, db) /\ (v.seldb # -1 => db = v.seldb)

Syncing(conf) == conf.fsync = "always" /\ ~conf.no_fsync_on_rewrite
MayAppend(conf) == conf.appendonly \/ "appendonly" \in conf.allowed

AofPart(v, T, conf) ==
    /\ IsChild(v.rewrite)
    /\ IsSeq(v.file) /\ IsSeq(v.buf) /\ IsSeq(v.diff)
    /\ v.synced \in 0..Len(v.file)
    /\ v.rewrite = <<>> => v.diff = <<>>
    /\ ~v.up => v.synced = Len(v.file) /\ v.rewrite = <<>>
    /\ v.up /\ v.aof = "on" => Rebuilds(EmptyData, v.file \o v.buf, v)
    /\ v.rewrite # <<>> /\ v.aof # "off" => Rebuilds(v.rewrite[1].data, v.diff, v)
    /\ conf.fsync = "always" => ~v.postponed
    /\ Syncing(conf) /\ v.aof = "on" => v.synced = Len(v.file)
    /\ conf.appendonly /\ v.up /\ v.aof = "on" /\ ~v.postponed => Rebuilt(v.file) \in T
    /\ ~MayAppend(conf) => v.aof = "off"

Counts(conf) == ~MayAppend(conf) /\ "slaveof" \notin conf.allowed
Dumped(v) == v.data = IF v.rdb = <<>> THEN EmptyData ELSE v.rdb[1]

SavePart(v, conf, s) ==
    /\ IsChild(v.save) /\ (~v.up => v.save = <<>>)
    /\ Counts(conf) => v.host = conf.slaveof[s]
    /\ Counts(conf) /\ conf.slaveof[s] = 0 =>
         /\ v.rdb = <<>> \/ IsData(v.rdb[1])
         /\ v.up => /\ IsData(v.data) /\ v.dirty \in Nat /\ v.before \in Nat
                    /\ v.dirty = 0 => Dumped(v)
                    /\ v.save # <<>> =>
                         /\ IsData(v.save[1].data) /\ v.before <= v.dirty
                         /\ v.dirty = v.before /\ v.save[1].exit = "none" => v.data = v.save[1].data
                         /\ v.dirty = v.before /\ v.save[1].exit = "ok" => Dumped(v)

FileOK(v, T, conf, s) == AofPart(v, T, conf) /\ SavePart(v, conf, s)

SameAof(v, u) ==
    /\ u.up = v.up /\ u.data = v.data /\ u.aof = v.aof /\ u.file = v.file /\ u.synced = v.synced
    /\ u.buf = v.buf /\ u.seldb = v.seldb /\ u.rewrite = v.rewrite /\ u.diff = v.diff
    /\ u.postponed = v.postponed
SameSave(v, u) ==
    /\ u.up = v.up /\ u.data = v.data /\ u.dirty = v.dirty /\ u.before = v.before
    /\ u.rdb = v.rdb /\ u.save = v.save /\ u.host = v.host

LEMMA PartsKept ==
    ASSUME NEW v, NEW u, NEW T, NEW conf, NEW s
    PROVE  /\ SameAof(v, u) /\ AofPart(v, T, conf) => AofPart(u, T, conf)
           /\ SameSave(v, u) /\ SavePart(v, conf, s) => SavePart(u, conf, s)
<1>1. SameAof(v, u) /\ AofPart(v, T, conf) => AofPart(u, T, conf)
  BY DEF SameAof, AofPart, Rebuilds
<1>2. SameSave(v, u) /\ SavePart(v, conf, s) => SavePart(u, conf, s)
  BY DEF SameSave, SavePart, Dumped
<1> QED
  BY <1>1, <1>2

LEMMA MorePromised ==
    ASSUME NEW v, NEW T, NEW U, NEW conf, AofPart(v, T, conf), T \subseteq U \/ ~conf.appendonly
    PROVE  AofPart(v, U, conf)
  BY DEF AofPart

\* A child, as it is made and as it ends
LEMMA ChildFacts ==
    /\ IsChild(<<>>)
    /\ \A data : /\ IsChild(Child(data)) /\ Child(data) # <<>>
                 /\ Child(data)[1].data = data /\ Child(data)[1].exit = "none"
    /\ \A child, how : IsChild(child) /\ child # <<>> =>
         /\ IsChild(Exited(child, how)) /\ Exited(child, how) # <<>>
         /\ Exited(child, how)[1].data = child[1].data /\ Exited(child, how)[1].exit = how
    /\ \A child : IsChild(child) =>
         /\ IsChild(Killed(child)) /\ (child = <<>> <=> Killed(child) = <<>>)
         /\ child # <<>> => /\ Killed(child)[1].data = child[1].data
                            /\ Killed(child)[1].exit = IF child[1].exit = "none" THEN "killed" ELSE child[1].exit
<1>1. IsChild(<<>>)
  BY DEF IsChild
<1>2. ASSUME NEW data
      PROVE  /\ IsChild(Child(data)) /\ Child(data) # <<>>
             /\ Child(data)[1].data = data /\ Child(data)[1].exit = "none"
  <2> DEFINE r == [data |-> data, exit |-> "none"]
  <2>1. r.data = data /\ r.exit = "none" /\ r = [data |-> r.data, exit |-> r.exit]
    OBVIOUS
  <2>2. Child(data) = <<r>>
    BY DEF Child
  <2> HIDE DEF r
  <2> QED
    BY <2>1, <2>2 DEF IsChild
<1>3. ASSUME NEW child, IsChild(child), child # <<>>, NEW how
      PROVE  /\ IsChild(Exited(child, how)) /\ Exited(child, how) # <<>>
             /\ Exited(child, how)[1].data = child[1].data /\ Exited(child, how)[1].exit = how
  <2> DEFINE r == [child[1] EXCEPT !.exit = how]
             data == child[1].data
             exit == child[1].exit
  <2>1. child = <<[data |-> data, exit |-> exit]>>
    BY <1>3 DEF IsChild
  <2> HIDE DEF data, exit
  <2>2. child[1] = [data |-> data, exit |-> exit]
    BY <2>1
  <2>3. r.data = data /\ r.exit = how /\ r = [data |-> r.data, exit |-> r.exit]
    BY <2>2
  <2>4. Exited(child, how) = <<r>>
    BY DEF Exited
  <2> HIDE DEF r
  <2> QED
    BY <2>3, <2>4 DEF IsChild, data
<1>4. ASSUME NEW child, IsChild(child)
      PROVE  /\ IsChild(Killed(child)) /\ (child = <<>> <=> Killed(child) = <<>>)
             /\ child # <<>> => /\ Killed(child)[1].data = child[1].data
                                /\ Killed(child)[1].exit = IF child[1].exit = "none" THEN "killed" ELSE child[1].exit
  BY <1>3, <1>4 DEF Killed, Running
<1> QED
  BY <1>1, <1>2, <1>3, <1>4

LEMMA DataFacts ==
    /\ IsData(EmptyData)
    /\ \A x, d, n : IsData(x) => IsData([x EXCEPT ![d] = Append(@, n)])
<1>1. IsData(EmptyData)
  BY ShortSequences DEF IsData, EmptyData
<1>2. ASSUME NEW x, IsData(x), NEW d, NEW n PROVE IsData([x EXCEPT ![d] = Append(@, n)])
  <2> DEFINE q == Append(x[d], n)
             y == [x EXCEPT ![d] = q]
  <2>1. d \in Dbs => IsSeq(q)
    BY <1>2, Sequences DEF IsData
  <2> HIDE DEF q
  <2>2. y = [e \in Dbs |-> IF e = d THEN q ELSE x[e]]
    BY <1>2 DEF IsData
  <2>3. IsData(y)
    BY <1>2, <2>1, <2>2 DEF IsData
  <2> QED
    BY <2>3 DEF q
<1> QED
  BY <1>1, <1>2

(***************************************************************************)
(* dump.rdb.                                                               *)
(***************************************************************************)
LEMMA SaveKeeps ==
    ASSUME NEW v, IsServer(v), NEW T, NEW conf, NEW s, FileOK(v, T, conf, s), v.up, v.save = <<>>
    PROVE  LET u == rdbSave(v) IN IsServer(u) /\ FileOK(u, T, conf, s) /\ u.data = v.data
<1> DEFINE u == rdbSave(v)
           d == <<v.data>>
<1>1. d # <<>> /\ d[1] = v.data
  OBVIOUS
<1>2. u = [v EXCEPT !.rdb = d, !.dirty = 0, !.saveok = TRUE]
  BY DEF rdbSave
<1> HIDE DEF u, d
<1>3. IsServer(u) /\ SameAof(v, u) /\ u.rdb = d /\ u.dirty = 0 /\ u.save = <<>> /\ u.host = v.host /\ u.before = v.before
  BY <1>2 DEF IsServer, ServerFields, SameAof
<1>4. SavePart(u, conf, s)
  BY <1>1, <1>3, ChildFacts DEF SavePart, FileOK, SameAof, Dumped
<1> QED
  BY <1>3, <1>4, PartsKept DEF FileOK, u, SameAof

LEMMA BgsaveKeeps ==
    ASSUME NEW v, IsServer(v), NEW T, NEW conf, NEW s, FileOK(v, T, conf, s), v.up, NEW forks
    PROVE  LET u == rdbSaveBackground(v, forks) IN IsServer(u) /\ FileOK(u, T, conf, s) /\ u.data = v.data
<1> DEFINE u == rdbSaveBackground(v, forks)
           k == IF forks THEN Child(v.data) ELSE <<>>
<1>1. CASE v.save # <<>>
  BY <1>1 DEF rdbSaveBackground, Running
<1>2. CASE v.save = <<>>
  <2>1. u = [v EXCEPT !.before = v.dirty, !.save = k]
    BY <1>2 DEF rdbSaveBackground, Running
  <2>2. IsChild(k) /\ (k # <<>> => k[1].data = v.data /\ k[1].exit = "none")
    BY ChildFacts
  <2> HIDE DEF u, k
  <2>3. /\ IsServer(u) /\ SameAof(v, u) /\ u.before = v.dirty /\ u.save = k /\ u.dirty = v.dirty
        /\ u.host = v.host /\ u.rdb = v.rdb
    BY <2>1 DEF IsServer, ServerFields, SameAof
  <2>4. SavePart(u, conf, s)
    BY <2>2, <2>3 DEF SavePart, FileOK, SameAof, Dumped
  <2> QED
    BY <2>3, <2>4, PartsKept DEF FileOK, u, SameAof
<1> QED
  BY <1>1, <1>2

LEMMA SaveExitKeeps ==
    ASSUME NEW v, IsServer(v), NEW T, NEW conf, NEW s, FileOK(v, T, conf, s),
           v.save # <<>>, v.save[1].exit = "none", NEW how
    PROVE  LET u == SaveExit(v, how) IN IsServer(u) /\ FileOK(u, T, conf, s) /\ u.data = v.data
<1> DEFINE u == SaveExit(v, how)
           k == Exited(v.save, how)
           child == <<v.save[1].data>>
           rdb == IF how = "ok" THEN child ELSE v.rdb
<1>1. child # <<>> /\ child[1] = v.save[1].data
  OBVIOUS
<1>2. u = [v EXCEPT !.rdb = rdb, !.save = k]
  BY DEF SaveExit
<1>3. IsChild(k) /\ k # <<>> /\ k[1].data = v.save[1].data /\ k[1].exit = how
  BY ChildFacts DEF FileOK, SavePart
<1>4. IF how = "ok" THEN rdb = child ELSE rdb = v.rdb
  OBVIOUS
<1> HIDE DEF u, k, child, rdb
<1>5. /\ IsServer(u) /\ SameAof(v, u) /\ u.before = v.before /\ u.save = k /\ u.dirty = v.dirty
      /\ u.host = v.host /\ u.rdb = rdb
  BY <1>2 DEF IsServer, ServerFields, SameAof
<1>6. ASSUME Counts(conf), conf.slaveof[s] = 0
      PROVE  /\ u.rdb = <<>> \/ IsData(u.rdb[1])
             /\ u.up => /\ IsData(u.data) /\ u.dirty \in Nat /\ u.before \in Nat
                        /\ u.dirty = 0 => Dumped(u)
                        /\ IsData(u.save[1].data) /\ u.before <= u.dirty
                        /\ u.dirty = u.before /\ u.save[1].exit = "ok" => Dumped(u)
  <2>1. CASE ~v.up
    BY <1>6, <2>1, <1>1, <1>3, <1>4, <1>5 DEF SavePart, FileOK, SameAof
  <2>2. CASE v.up
    <3>1. /\ IsData(v.data) /\ v.dirty \in Nat /\ v.before \in Nat /\ (v.dirty = 0 => Dumped(v))
          /\ IsData(v.save[1].data) /\ v.before <= v.dirty
          /\ v.dirty = v.before => v.data = v.save[1].data
          /\ v.rdb = <<>> \/ IsData(v.rdb[1])
      BY <1>6, <2>2 DEF SavePart, FileOK
    <3>2. v.dirty = 0 => v.dirty = v.before
      BY <3>1
    <3>3. CASE how = "ok"
      BY <1>1, <1>3, <1>4, <1>5, <3>1, <3>2, <3>3 DEF SameAof, Dumped
    <3>4. CASE how # "ok"
      BY <1>1, <1>3, <1>4, <1>5, <3>1, <3>4 DEF SameAof, Dumped
    <3> QED
      BY <3>3, <3>4
  <2> QED
    BY <2>1, <2>2
<1>7. u.dirty = u.before /\ u.save[1].exit = "none" /\ u.up /\ Counts(conf) /\ conf.slaveof[s] = 0 => u.data = u.save[1].data
  BY <1>3, <1>5 DEF SavePart, FileOK, SameAof
<1>8. SavePart(u, conf, s)
  BY <1>3, <1>5, <1>6, <1>7 DEF SavePart, FileOK, SameAof
<1> QED
  BY <1>5, <1>8, PartsKept DEF FileOK, u, SameAof

LEMMA SaveDoneKeeps ==
    ASSUME NEW v, IsServer(v), NEW T, NEW conf, NEW s, FileOK(v, T, conf, s), v.save # <<>>, v.save[1].exit # "none"
    PROVE  LET u == backgroundSaveDone(v) IN IsServer(u) /\ FileOK(u, T, conf, s) /\ u.data = v.data
<1> DEFINE u == backgroundSaveDone(v)
           ok == v.save[1].exit = "ok"
           dirty == IF ok THEN v.dirty - v.before ELSE v.dirty
<1>1. u = [v EXCEPT !.dirty = dirty, !.saveok = ok, !.save = <<>>]
  BY Zenon DEF backgroundSaveDone
<1>2. IF v.save[1].exit = "ok" THEN dirty = v.dirty - v.before ELSE dirty = v.dirty
  OBVIOUS
<1> HIDE DEF u, ok, dirty
<1>3. /\ IsServer(u) /\ SameAof(v, u) /\ u.before = v.before /\ u.save = <<>> /\ u.dirty = dirty
      /\ u.host = v.host /\ u.rdb = v.rdb
  BY <1>1 DEF IsServer, ServerFields, SameAof
<1>4. SavePart(u, conf, s)
  BY <1>2, <1>3, ChildFacts DEF SavePart, FileOK, SameAof, Dumped
<1> QED
  BY <1>3, <1>4, PartsKept DEF FileOK, u, SameAof

(***************************************************************************)
(* The append only file.                                                   *)
(***************************************************************************)
Flushed(v, u, conf, t) ==
    /\ IsServer(u) /\ SameSave(v, u)
    /\ u.aof = v.aof /\ u.seldb = v.seldb /\ u.rewrite = v.rewrite /\ u.diff = v.diff
    /\ \/ u = v /\ v.buf = <<>>
       \/ /\ u.file = v.file /\ u.buf = v.buf /\ u.synced = v.synced /\ u.postponed
          /\ conf.fsync # "always"
       \/ /\ u.file = v.file \o v.buf /\ u.buf = <<>> /\ ~u.postponed
          /\ u.synced = v.synced \/ u.synced = Len(u.file)
          /\ Syncing(conf) => u.synced = Len(u.file)
    /\ t.force => u.buf = <<>>

LEMMA FlushFacts ==
    ASSUME NEW v, IsServer(v), NEW conf, NEW t
    PROVE  Flushed(v, flushAppendOnlyFile(v, conf, t), conf, t)
<1> DEFINE u == flushAppendOnlyFile(v, conf, t)
           busy == conf.fsync = "everysec" /\ v.bio # <<>>
           quiet == conf.no_fsync_on_rewrite /\ (Running(v.rewrite) \/ Running(v.save))
           all == v.file \o v.buf
           none == <<>>
           written == [v EXCEPT !.file = all, !.buf = none, !.postponed = FALSE]
           later == [v EXCEPT !.postponed = TRUE]
           synced == [written EXCEPT !.synced = Len(written.file)]
           queued == [written EXCEPT !.bio = Append(@, TRUE)]
<1>1. \/ u = v /\ v.buf = none
      \/ u = later /\ conf.fsync = "everysec" /\ ~t.force
      \/ u = written /\ (quiet \/ conf.fsync # "always")
      \/ u = synced
      \/ u = queued /\ conf.fsync = "everysec"
  BY DEF flushAppendOnlyFile
<1>2. conf.fsync = "everysec" => ~Syncing(conf) /\ conf.fsync # "always"
  BY DEF Syncing
<1>3. quiet \/ conf.fsync # "always" => ~Syncing(conf)
  BY DEF Syncing
<1>0. none = <<>>
  OBVIOUS
<1> HIDE DEF u, busy, quiet, all, none
<1>4. /\ IsServer(later) /\ SameSave(v, later) /\ later.aof = v.aof /\ later.seldb = v.seldb
      /\ later.rewrite = v.rewrite /\ later.diff = v.diff /\ later.file = v.file
      /\ later.buf = v.buf /\ later.synced = v.synced /\ later.postponed
  BY DEF IsServer, ServerFields, SameSave
<1>5. /\ IsServer(written) /\ SameSave(v, written) /\ written.aof = v.aof /\ written.seldb = v.seldb
      /\ written.rewrite = v.rewrite /\ written.diff = v.diff /\ written.file = all
      /\ written.buf = none /\ written.synced = v.synced /\ ~written.postponed
  BY DEF IsServer, ServerFields, SameSave
<1> HIDE DEF later, written
<1>6. /\ IsServer(synced) /\ SameSave(v, synced) /\ synced.aof = v.aof /\ synced.seldb = v.seldb
      /\ synced.rewrite = v.rewrite /\ synced.diff = v.diff /\ synced.file = all
      /\ synced.buf = none /\ synced.synced = Len(synced.file) /\ ~synced.postponed
  BY <1>5 DEF IsServer, ServerFields, SameSave
<1>7. /\ IsServer(queued) /\ SameSave(v, queued) /\ queued.aof = v.aof /\ queued.seldb = v.seldb
      /\ queued.rewrite = v.rewrite /\ queued.diff = v.diff /\ queued.file = all
      /\ queued.buf = none /\ queued.synced = v.synced /\ ~queued.postponed
  BY <1>5 DEF IsServer, ServerFields, SameSave
<1> HIDE DEF synced, queued
<1>8. CASE u = v /\ v.buf = none
  BY <1>0, <1>8 DEF u, SameSave, Flushed
<1>9. CASE u = later /\ conf.fsync = "everysec" /\ ~t.force
  BY <1>2, <1>4, <1>9 DEF u, Flushed
<1>10. CASE u = written /\ (quiet \/ conf.fsync # "always")
  BY <1>0, <1>3, <1>5, <1>10 DEF u, all, Flushed
<1>11. CASE u = synced
  BY <1>0, <1>6, <1>11 DEF u, all, Flushed
<1>12. CASE u = queued /\ conf.fsync = "everysec"
  BY <1>0, <1>2, <1>7, <1>12 DEF u, all, Flushed
<1> QED
  BY <1>1, <1>8, <1>9, <1>10, <1>11, <1>12

LEMMA FlushKeeps ==
    ASSUME NEW v, IsServer(v), NEW T, NEW conf, NEW s, FileOK(v, T, conf, s), v.up, NEW t
    PROVE  LET u == flushAppendOnlyFile(v, conf, t)
           IN  IsServer(u) /\ FileOK(u, {v.data}, conf, s) /\ u.data = v.data /\ (v.data \in T => FileOK(u, T, conf, s))
<1> DEFINE u == flushAppendOnlyFile(v, conf, t)
<1>1. /\ IsServer(u) /\ SameSave(v, u)
      /\ u.aof = v.aof /\ u.seldb = v.seldb /\ u.rewrite = v.rewrite /\ u.diff = v.diff
      /\ \/ u = v /\ v.buf = <<>>
         \/ /\ u.file = v.file /\ u.buf = v.buf /\ u.synced = v.synced /\ u.postponed
            /\ conf.fsync # "always"
         \/ /\ u.file = v.file \o v.buf /\ u.buf = <<>> /\ ~u.postponed
            /\ u.synced = v.synced \/ u.synced = Len(u.file)
            /\ Syncing(conf) => u.synced = Len(u.file)
  <2>1. Flushed(v, u, conf, t)
    BY FlushFacts
  <2> HIDE DEF u
  <2> QED
    BY <2>1 DEF Flushed
<1> HIDE DEF u
<1>2. u.up = v.up /\ u.data = v.data
  BY <1>1 DEF SameSave
<1>3. SavePart(u, conf, s)
  BY <1>1, PartsKept DEF FileOK
<1>4. v.aof = "on" => Rebuilt(v.file \o v.buf) = v.data
  BY StateFacts DEF FileOK, AofPart, Rebuilds, Rebuilt
<1>5. IsSeq(v.file) /\ IsSeq(v.buf) /\ v.synced \in 0..Len(v.file)
  BY DEF FileOK, AofPart
<1>6. CASE u = v /\ v.buf = <<>>
  <2>1. v.file \o <<>> = v.file
    BY <1>5, Sequences
  <2>2. v.aof = "on" => Rebuilt(v.file) = v.data
    BY <1>4, <1>6, <2>1
  <2>3. AofPart(u, {v.data}, conf)
    BY <1>6, <2>2 DEF FileOK, AofPart
  <2> QED
    BY <1>3, <1>6, <2>3 DEF FileOK, u
<1>7. CASE /\ u.file = v.file /\ u.buf = v.buf /\ u.synced = v.synced /\ u.postponed
           /\ conf.fsync # "always"
  <2>1. AofPart(u, {v.data}, conf) /\ AofPart(u, T, conf)
    BY <1>1, <1>2, <1>7 DEF FileOK, AofPart, Rebuilds, Syncing
  <2> QED
    BY <1>1, <1>2, <1>3, <2>1 DEF FileOK, u
<1>8. CASE /\ u.file = v.file \o v.buf /\ u.buf = <<>> /\ ~u.postponed
           /\ u.synced = v.synced \/ u.synced = Len(u.file)
           /\ Syncing(conf) => u.synced = Len(u.file)
  <2>1. IsSeq(u.file) /\ IsSeq(u.buf) /\ u.file \o u.buf = v.file \o v.buf
    BY <1>5, <1>8, Sequences, ShortSequences
  <2>2. u.synced \in 0..Len(u.file)
    <3>1. PICK S : v.file \in Seq(S)
      BY <1>5 DEF IsSeq
    <3>2. PICK U : v.buf \in Seq(U)
      BY <1>5 DEF IsSeq
    <3>3. v.file \in Seq(S \cup U) /\ v.buf \in Seq(S \cup U)
      BY <3>1, <3>2, SeqMonotonic
    <3>4. Len(u.file) = Len(v.file) + Len(v.buf)
      BY <1>8, <3>3, ConcatProperties
    <3>5. Len(v.file) \in Nat /\ Len(v.buf) \in Nat
      BY <1>5, Sequences
    <3> DEFINE a == Len(v.file)
               b == Len(v.buf)
               c == Len(u.file)
    <3>6. a \in Nat /\ b \in Nat /\ c = a + b /\ v.synced \in 0..a /\ u.synced \in {v.synced, c}
      BY <1>5, <1>8, <3>4, <3>5
    <3> HIDE DEF a, b, c
    <3>7. u.synced \in 0..c
      BY <3>6
    <3> QED
      BY <3>7 DEF c
  <2>3. \A U : v.data \in U => AofPart(u, U, conf)
    <3> SUFFICES ASSUME NEW U, v.data \in U PROVE AofPart(u, U, conf)
      OBVIOUS
    <3>1. v.aof = "on" => Rebuilt(u.file) = v.data
      BY <1>4, <1>8
    <3> QED
      BY <1>1, <1>2, <1>8, <2>1, <2>2, <3>1 DEF FileOK, AofPart, Rebuilds
  <2> QED
    BY <1>1, <1>2, <1>3, <2>3 DEF FileOK, u
<1> QED
  BY <1>1, <1>6, <1>7, <1>8

LEMMA BioKeeps ==
    ASSUME NEW v, IsServer(v), NEW T, NEW conf, NEW s, FileOK(v, T, conf, s)
    PROVE  LET u == bioProcessBackgroundJobs(v) IN IsServer(u) /\ FileOK(u, T, conf, s) /\ u.data = v.data
<1> DEFINE u == bioProcessBackgroundJobs(v)
           n == IF Head(v.bio) THEN Len(v.file) ELSE v.synced
           bio == Tail(v.bio)
<1>1. u = [v EXCEPT !.bio = bio, !.synced = n]
  BY Zenon DEF bioProcessBackgroundJobs
<1>2. n \in {Len(v.file), v.synced}
  OBVIOUS
<1>3. Len(v.file) \in Nat
  BY Sequences DEF FileOK, AofPart
<1> HIDE DEF u, n, bio
<1>4. /\ IsServer(u) /\ SameSave(v, u) /\ u.synced = n
      /\ u.aof = v.aof /\ u.file = v.file /\ u.buf = v.buf /\ u.seldb = v.seldb
      /\ u.rewrite = v.rewrite /\ u.diff = v.diff /\ u.postponed = v.postponed
  BY <1>1 DEF IsServer, ServerFields, SameSave
<1>5. AofPart(u, T, conf)
  BY <1>2, <1>3, <1>4 DEF FileOK, AofPart, Rebuilds, SameSave
<1> QED
  BY <1>4, <1>5, PartsKept DEF FileOK, u, SameSave

LEMMA RewriteKeeps ==
    ASSUME NEW v, IsServer(v), NEW T, NEW conf, NEW s, FileOK(v, T, conf, s), v.up, NEW forks
    PROVE  LET u == rewriteAppendOnlyFileBackground(v, forks)
           IN  IsServer(u) /\ FileOK(u, T, conf, s) /\ u.data = v.data
<1> DEFINE u == rewriteAppendOnlyFileBackground(v, forks)
           k == Child(v.data)
<1>1. CASE v.rewrite # <<>> \/ ~forks
  BY <1>1 DEF rewriteAppendOnlyFileBackground, Running
<1>2. CASE v.rewrite = <<>> /\ forks
  <2>1. u = [v EXCEPT !.rewrite = k, !.scheduled = FALSE, !.seldb = -1]
    BY <1>2 DEF rewriteAppendOnlyFileBackground, Running
  <2>2. IsChild(k) /\ k # <<>> /\ k[1].data = v.data
    BY ChildFacts
  <2> HIDE DEF u, k
  <2>3. /\ IsServer(u) /\ SameSave(v, u) /\ u.synced = v.synced /\ u.aof = v.aof /\ u.file = v.file
        /\ u.buf = v.buf /\ u.seldb = -1 /\ u.rewrite = k /\ u.diff = v.diff /\ u.postponed = v.postponed
    BY <2>1 DEF IsServer, ServerFields, SameSave
  <2>4. v.diff = <<>> /\ Replay(v.data, 0, <<>>) = State(v.data, 0)
    BY <1>2, ReplayNone DEF FileOK, AofPart
  <2>5. Rebuilds(u.rewrite[1].data, u.diff, u)
    BY <2>2, <2>3, <2>4 DEF Rebuilds, SameSave
  <2>6. AofPart(u, T, conf)
    BY <2>2, <2>3, <2>5 DEF FileOK, AofPart, Rebuilds, SameSave
  <2> QED
    BY <2>3, <2>6, PartsKept DEF FileOK, u, SameSave
<1> QED
  BY <1>1, <1>2

LEMMA RewriteExitKeeps ==
    ASSUME NEW v, IsServer(v), NEW T, NEW conf, NEW s, FileOK(v, T, conf, s), v.rewrite # <<>>, NEW how
    PROVE  LET u == [v EXCEPT !.rewrite = Exited(@, how)]
           IN  IsServer(u) /\ FileOK(u, T, conf, s) /\ u.data = v.data
<1> DEFINE k == Exited(v.rewrite, how)
           u == [v EXCEPT !.rewrite = k]
<1>1. IsChild(k) /\ k # <<>> /\ k[1].data = v.rewrite[1].data
  BY ChildFacts DEF FileOK, AofPart
<1> HIDE DEF k
<1>2. /\ IsServer(u) /\ SameSave(v, u) /\ u.synced = v.synced /\ u.aof = v.aof /\ u.file = v.file
      /\ u.buf = v.buf /\ u.seldb = v.seldb /\ u.rewrite = k /\ u.diff = v.diff /\ u.postponed = v.postponed
  BY DEF IsServer, ServerFields, SameSave
<1> HIDE DEF u
<1>3. AofPart(u, T, conf)
  BY <1>1, <1>2 DEF FileOK, AofPart, Rebuilds, SameSave
<1>4. FileOK(u, T, conf, s) /\ u.data = v.data
  BY <1>2, <1>3, PartsKept DEF FileOK, SameSave
<1> QED
  BY <1>2, <1>4 DEF u, k

\* A file that starts with what a data set stands for, and goes on from there
LEMMA BaseFirst ==
    ASSUME NEW data, NEW q, IsSeq(q)
    PROVE  /\ IsSeq(<<Base(data)>> \o q) /\ Len(<<Base(data)>> \o q) \in Nat \ {0}
           /\ Replay(EmptyData, 0, <<Base(data)>> \o q) = Replay(data, 0, q)
<1> DEFINE c == Base(data)
           first == <<c>>
           file == first \o q
<1>1. IsSeq(first) /\ Len(first) = 1 /\ c \in {c} /\ first \in Seq({c})
  BY ShortSequences
<1>2. Execute(State(EmptyData, 0), c) = State(data, 0)
  BY DEF Execute, State, Base
<1>3. Replay(EmptyData, 0, first) = State(data, 0)
  BY <1>2, ReplayOne
<1> HIDE DEF first, c
<1>4. IsSeq(file)
  BY <1>1, Sequences
<1>5. Len(file) \in Nat \ {0}
  <2>1. PICK S : q \in Seq(S)
    BY DEF IsSeq
  <2>2. q \in Seq(S \cup {c}) /\ first \in Seq(S \cup {c})
    BY <1>1, <2>1, SeqMonotonic
  <2>3. Len(file) = Len(first) + Len(q) /\ Len(q) \in Nat
    BY <2>2, ConcatProperties, LenProperties
  <2> QED
    BY <1>1, <2>3
<1>6. Replay(EmptyData, 0, file) = Replay(data, 0, q)
  BY <1>1, <1>3, ReplayMore
<1> QED
  BY <1>4, <1>5, <1>6 DEF first, c

LEMMA RewriteDoneKeeps ==
    ASSUME NEW v, IsServer(v), NEW T, NEW conf, NEW s, FileOK(v, T, conf, s),
           v.rewrite # <<>>, v.data \in T
    PROVE  LET u == backgroundRewriteDoneHandler(v, conf)
           IN  IsServer(u) /\ FileOK(u, T, conf, s) /\ u.data = v.data
<1> DEFINE u == backgroundRewriteDoneHandler(v, conf)
           d == v.rewrite[1].data
           file == <<Base(d)>> \o v.diff
           none == <<>>
           over == [v EXCEPT !.diff = none, !.rewrite = none]
           Failure(b) == [over EXCEPT !.scheduled = b]
           Renamed(b) == [over EXCEPT !.file = file, !.synced = 1, !.bio = b]
           Opened(w, n, b) == [w EXCEPT !.synced = n, !.bio = b, !.seldb = -1, !.buf = none, !.aof = "on"]
           n0 == IF conf.fsync = "always" THEN Len(file) ELSE 1
<1>1. \/ \E b : u = Failure(b)
      \/ v.aof = "off" /\ \E b : u = Renamed(b)
      \/ v.aof # "off" /\ \E b, b1 : u = Opened(Renamed(b), n0, b1)
  BY Zenon DEF backgroundRewriteDoneHandler
<1>2. none = <<>> /\ IsSeq(none)
  BY ShortSequences
<1>3. IsSeq(file) /\ Len(file) \in Nat \ {0} /\ Replay(EmptyData, 0, file) = Replay(d, 0, v.diff)
  BY BaseFirst DEF FileOK, AofPart
<1>4. n0 \in 0..Len(file) /\ 1 \in 0..Len(file) /\ (conf.fsync = "always" => n0 = Len(file))
  <2> DEFINE len == Len(file)
  <2>1. len \in Nat \ {0} /\ n0 = IF conf.fsync = "always" THEN len ELSE 1
    BY <1>3
  <2> HIDE DEF len, n0
  <2>2. n0 \in 0..len /\ 1 \in 0..len /\ (conf.fsync = "always" => n0 = len)
    BY <2>1
  <2> QED
    BY <2>2 DEF len
<1>5. v.up
  BY DEF FileOK, AofPart
<1>6. v.aof # "off" => Rebuilds(d, v.diff, v)
  BY DEF FileOK, AofPart
<1>7. file \o none = file
  BY <1>3, Sequences
<1> HIDE DEF u, d, file, none, n0
<1>8. /\ IsServer(over) /\ SameSave(v, over) /\ over.synced = v.synced /\ over.aof = v.aof /\ over.file = v.file
      /\ over.buf = v.buf /\ over.seldb = v.seldb /\ over.rewrite = none /\ over.diff = none /\ over.postponed = v.postponed
  BY DEF IsServer, ServerFields, SameSave
<1> HIDE DEF over
<1>9. ASSUME NEW b
      PROVE  /\ IsServer(Failure(b)) /\ SameSave(v, Failure(b)) /\ SameAof(over, Failure(b))
             /\ IsServer(Renamed(b)) /\ SameSave(v, Renamed(b))
             /\ Renamed(b).file = file /\ Renamed(b).synced = 1 /\ Renamed(b).aof = v.aof
             /\ Renamed(b).buf = v.buf /\ Renamed(b).rewrite = none /\ Renamed(b).diff = none
             /\ Renamed(b).postponed = v.postponed
  BY <1>8 DEF IsServer, ServerFields, SameSave, SameAof
<1> HIDE DEF Failure, Renamed
<1>10. ASSUME NEW w, IsServer(w), NEW n, NEW b, SameSave(v, w), w.diff = none, w.rewrite = none, w.file = file, w.postponed = v.postponed
       PROVE  LET o == Opened(w, n, b)
              IN  /\ IsServer(o) /\ SameSave(v, o) /\ o.file = file /\ o.synced = n /\ o.aof = "on"
                  /\ o.buf = none /\ o.rewrite = none /\ o.diff = none /\ o.postponed = v.postponed /\ o.seldb = -1
  BY <1>10 DEF IsServer, ServerFields, SameSave
<1> HIDE DEF Opened
<1>11. IsChild(none)
  BY <1>2, ChildFacts
<1>12. CASE \E b : u = Failure(b)
  <2>1. PICK b : u = Failure(b)
    BY <1>12
  <2>2. IsServer(u) /\ SameSave(v, u)
    BY <1>9, <2>1
  <2>3. AofPart(over, T, conf)
    BY <1>2, <1>5, <1>8, <1>11 DEF FileOK, AofPart, Rebuilds, SameSave
  <2>4. AofPart(u, T, conf)
    BY <1>9, <2>1, <2>3, PartsKept
  <2> QED
    BY <2>2, <2>4, PartsKept DEF FileOK, SameSave, u
<1>13. CASE v.aof = "off" /\ \E b : u = Renamed(b)
  <2>1. PICK b : u = Renamed(b)
    BY <1>13
  <2>2. /\ IsServer(u) /\ SameSave(v, u) /\ u.file = file /\ u.synced = 1 /\ u.aof = "off"
        /\ u.buf = v.buf /\ u.rewrite = none /\ u.diff = none /\ u.postponed = v.postponed
    BY <1>9, <1>13, <2>1
  <2>3. AofPart(u, T, conf)
    BY <1>2, <1>3, <1>4, <1>5, <1>11, <2>2 DEF FileOK, AofPart, SameSave
  <2> QED
    BY <2>2, <2>3, PartsKept DEF FileOK, SameSave, u
<1>14. CASE v.aof # "off" /\ \E b, b1 : u = Opened(Renamed(b), n0, b1)
  <2>1. PICK b, b1 : u = Opened(Renamed(b), n0, b1)
    BY <1>14
  <2>2. /\ IsServer(u) /\ SameSave(v, u) /\ u.file = file /\ u.synced = n0 /\ u.aof = "on"
        /\ u.buf = none /\ u.rewrite = none /\ u.diff = none /\ u.postponed = v.postponed /\ u.seldb = -1
    BY <1>9, <1>10, <2>1
  <2>3. PICK db : Replay(EmptyData, 0, file) = State(v.data, db)
    BY <1>3, <1>6, <1>14 DEF Rebuilds
  <2>4. Rebuilds(EmptyData, u.file \o u.buf, u)
    BY <1>7, <2>2, <2>3 DEF Rebuilds, SameSave
  <2>5. Rebuilt(u.file) \in T
    BY <2>2, <2>3, StateFacts DEF Rebuilt
  <2>6. MayAppend(conf)
    BY <1>14 DEF FileOK, AofPart
  <2>7. AofPart(u, T, conf)
    BY <1>2, <1>3, <1>4, <1>5, <1>11, <2>2, <2>4, <2>5, <2>6 DEF FileOK, AofPart, SameSave, Syncing
  <2> QED
    BY <2>2, <2>7, PartsKept DEF FileOK, SameSave, u
<1> QED
  BY <1>1, <1>12, <1>13, <1>14

LEMMA StopKeeps ==
    ASSUME NEW v, IsServer(v), v.up, NEW T, NEW conf,
           IsSeq(v.file), IsSeq(v.buf), v.rewrite = <<>> => v.diff = <<>>, conf.fsync = "always" => ~v.postponed
    PROVE  LET u == stopAppendOnly(v, conf)
           IN  /\ IsServer(u) /\ AofPart(u, T, conf) /\ u.data = v.data /\ u.up /\ u.aof = "off"
               /\ SameSave(v, u)
<1> DEFINE u == stopAppendOnly(v, conf)
           t == [force |-> TRUE, two_seconds |-> FALSE, second |-> FALSE]
           w == flushAppendOnlyFile(v, conf, t)
           n == Len(w.file)
           none == <<>>
           diff == IF Running(v.rewrite) THEN none ELSE w.diff
<1>1. u = [w EXCEPT !.aof = "off", !.seldb = -1, !.synced = n, !.rewrite = none, !.diff = diff]
  BY Zenon DEF stopAppendOnly
<1> HIDE DEF u, t, n, diff
<1>2. /\ IsServer(w) /\ SameSave(v, w) /\ w.rewrite = v.rewrite /\ w.diff = v.diff
      /\ w.file = v.file \/ w.file = v.file \o v.buf
      /\ w.buf = v.buf \/ w.buf = <<>>
      /\ conf.fsync = "always" => ~w.postponed
  <2>1. \E time : Flushed(v, w, conf, time)
    BY FlushFacts
  <2> HIDE DEF w
  <2> QED
    BY <2>1 DEF Flushed
<1>3. IsSeq(v.file \o v.buf)
  BY Sequences
<1>4. none = <<>> /\ IsSeq(none) /\ IsChild(none)
  BY ShortSequences, ChildFacts
<1>5. n \in Nat /\ IsSeq(w.file) /\ n = Len(w.file)
  BY <1>2, <1>3, Sequences DEF n
<1>6. diff = none
  BY <1>2 DEF Running, diff
<1>7. n \in 0..n
  BY <1>5
<1>8. conf.fsync = "always" => ~w.postponed
  BY <1>2
<1>9. IsSeq(w.buf)
  BY <1>2, <1>4
<1> HIDE DEF u, t, w, n, none, diff
<1>10. /\ IsServer(u) /\ SameSave(w, u) /\ u.synced = n /\ u.aof = "off" /\ u.file = w.file
       /\ u.buf = w.buf /\ u.rewrite = none /\ u.diff = none /\ u.postponed = w.postponed
  BY <1>1, <1>2, <1>6 DEF IsServer, ServerFields, SameSave
<1>11. u.up /\ u.data = v.data /\ SameSave(v, u)
  BY <1>2, <1>10 DEF SameSave
<1>12. AofPart(u, T, conf)
  BY <1>4, <1>5, <1>7, <1>8, <1>9, <1>10, <1>11 DEF AofPart
<1> QED
  BY <1>10, <1>11, <1>12 DEF u

LEMMA StartKeeps ==
    ASSUME NEW v, IsServer(v), NEW T, NEW conf, NEW s, FileOK(v, T, conf, s),
           v.up, v.aof = "off", MayAppend(conf), NEW forks
    PROVE  LET u == startAppendOnly(v, forks)
           IN  IsServer(u) /\ FileOK(u, T, conf, s) /\ u.data = v.data /\ SameSave(v, u)
<1> DEFINE u == startAppendOnly(v, forks)
           k == Child(v.data)
<1>1. CASE v.rewrite # <<>> \/ ~forks
  BY <1>1 DEF startAppendOnly, Running, SameSave
<1>2. CASE v.rewrite = <<>> /\ forks
  <2> DEFINE w == [v EXCEPT !.rewrite = k, !.scheduled = FALSE, !.seldb = -1]
  <2>1. u = [w EXCEPT !.aof = "wait"]
    BY <1>2 DEF rewriteAppendOnlyFileBackground, startAppendOnly, Running
  <2>2. IsChild(k) /\ k # <<>> /\ k[1].data = v.data
    BY ChildFacts
  <2> HIDE DEF u, k
  <2>3. /\ IsServer(u) /\ SameSave(v, u) /\ u.synced = v.synced /\ u.aof = "wait" /\ u.file = v.file
        /\ u.buf = v.buf /\ u.seldb = -1 /\ u.rewrite = k /\ u.diff = v.diff /\ u.postponed = v.postponed
    BY <2>1 DEF IsServer, ServerFields, SameSave
  <2>4. v.diff = <<>> /\ Replay(v.data, 0, <<>>) = State(v.data, 0)
    BY <1>2, ReplayNone DEF FileOK, AofPart
  <2>5. Rebuilds(u.rewrite[1].data, u.diff, u)
    BY <2>2, <2>3, <2>4 DEF Rebuilds, SameSave
  <2>6. AofPart(u, T, conf)
    BY <2>2, <2>3, <2>5 DEF FileOK, AofPart, SameSave
  <2> QED
    BY <2>3, <2>6, PartsKept DEF FileOK, u, SameSave
<1> QED
  BY <1>1, <1>2

(***************************************************************************)
(* Start and stop.                                                         *)
(***************************************************************************)
LEMMA ShutdownKeeps ==
    ASSUME NEW v, IsServer(v), NEW T, NEW conf, NEW s, FileOK(v, T, conf, s), v.up
    PROVE  LET u == prepareForShutdown(v)
           IN  IsServer(u) /\ FileOK(u, T, conf, s) /\ u.data = v.data /\ u.up
<1> DEFINE u == prepareForShutdown(v)
           save == Killed(v.save)
           rewrite == IF v.aof # "off" THEN Killed(v.rewrite) ELSE v.rewrite
           n == IF v.aof # "off" THEN Len(v.file) ELSE v.synced
<1>1. u = [v EXCEPT !.save = save, !.rewrite = rewrite, !.synced = n]
  BY Zenon DEF prepareForShutdown
<1>2. /\ IsChild(save) /\ (v.save = <<>> <=> save = <<>>)
      /\ v.save # <<>> => /\ save[1].data = v.save[1].data
                          /\ save[1].exit = IF v.save[1].exit = "none" THEN "killed" ELSE v.save[1].exit
  BY ChildFacts DEF FileOK, SavePart
<1>3. /\ IsChild(rewrite) /\ (v.rewrite = <<>> <=> rewrite = <<>>)
      /\ v.rewrite # <<>> => rewrite[1].data = v.rewrite[1].data
  BY ChildFacts DEF FileOK, AofPart
<1>4. n \in {Len(v.file), v.synced} /\ Len(v.file) \in Nat /\ (v.aof = "on" => n = Len(v.file))
  BY Sequences DEF FileOK, AofPart
<1> HIDE DEF u, save, rewrite, n
<1>5. /\ IsServer(u) /\ u.up = v.up /\ u.data = v.data /\ u.dirty = v.dirty /\ u.before = v.before
      /\ u.rdb = v.rdb /\ u.save = save /\ u.host = v.host /\ u.synced = n /\ u.aof = v.aof
      /\ u.file = v.file /\ u.buf = v.buf /\ u.seldb = v.seldb /\ u.rewrite = rewrite
      /\ u.diff = v.diff /\ u.postponed = v.postponed
  BY <1>1 DEF IsServer, ServerFields
<1>6. SavePart(u, conf, s)
  BY <1>2, <1>5 DEF FileOK, SavePart, Dumped
<1>7. AofPart(u, T, conf)
  BY <1>3, <1>4, <1>5 DEF FileOK, AofPart, Rebuilds
<1> QED
  BY <1>5, <1>6, <1>7 DEF FileOK, u

\* What is left on disk, when anything after what is synced may be lost
LEMMA StoppedKeeps ==
    ASSUME NEW v, IsServer(v), NEW T, NEW U, NEW conf, NEW s, AofPart(v, T, conf),
           Counts(conf) => v.host = conf.slaveof[s],
           Counts(conf) /\ conf.slaveof[s] = 0 => v.rdb = <<>> \/ IsData(v.rdb[1]),
           NEW kept \in 0..Len(v.file)
    PROVE  LET u == Stopped(v, kept) IN IsServer(u) /\ FileOK(u, U, conf, s)
<1> DEFINE u == Stopped(v, kept)
           none == <<>>
           file == SubSeq(v.file, 1, kept)
           data == EmptyData
<1>1. u = [v EXCEPT !.up = FALSE, !.save = none, !.rewrite = none, !.buf = none, !.diff = none, !.bio = none,
                    !.file = file, !.synced = kept, !.data = data]
  BY Zenon DEF Stopped
<1>2. IsSeq(file) /\ Len(file) = kept /\ kept \in 0..kept
  BY Sequences DEF AofPart
<1>3. none = <<>> /\ IsSeq(none) /\ IsChild(none)
  BY ShortSequences, ChildFacts
<1> HIDE DEF u, none, file, data
<1>4. /\ IsServer(u) /\ ~u.up /\ u.rdb = v.rdb /\ u.save = none /\ u.host = v.host /\ u.synced = kept
      /\ u.aof = v.aof /\ u.file = file /\ u.buf = none /\ u.rewrite = none /\ u.diff = none
      /\ u.postponed = v.postponed
  BY <1>1 DEF IsServer, ServerFields
<1>5. SavePart(u, conf, s)
  BY <1>3, <1>4 DEF SavePart
<1>6. AofPart(u, U, conf)
  BY <1>2, <1>3, <1>4 DEF AofPart
<1> QED
  BY <1>4, <1>5, <1>6 DEF FileOK, u

Fresh(u, conf, s) ==
    /\ u.before = 0 /\ u.save = <<>> /\ u.host = conf.slaveof[s]
    /\ u.aof = IF conf.appendonly THEN "on" ELSE "off"
    /\ u.buf = <<>> /\ u.rewrite = <<>> /\ u.diff = <<>> /\ ~u.postponed /\ u.seldb = -1

LEMMA FreshServer ==
    ASSUME NEW conf, NEW s
    PROVE  LET i == initServer(conf, s)
           IN  /\ IsServer(i) /\ Fresh(i, conf, s) /\ i.data = EmptyData /\ i.dirty = 0
               /\ i.rdb = <<>> /\ i.file = <<>> /\ i.synced = 0
<1> DEFINE host == conf.slaveof[s]
           repl == IF conf.slaveof[s] = 0 THEN "none" ELSE "connect"
           aof == IF conf.appendonly THEN "on" ELSE "off"
           empty == EmptyData
           none == <<>>
           i == [up |-> TRUE, data |-> empty, dirty |-> 0, before |-> 0, saveok |-> TRUE,
                 rdb |-> none, save |-> none, aof |-> aof, file |-> none, synced |-> 0, buf |-> none,
                 seldb |-> -1, rewrite |-> none, diff |-> none, scheduled |-> FALSE, postponed |-> FALSE,
                 bio |-> none, host |-> host, repl |-> repl, fd |-> 0, master |-> 0]
<1>1. initServer(conf, s) = i
  BY DEF initServer
<1> HIDE DEF host, repl, aof, empty, none
<1>2. /\ IsServer(i) /\ i.before = 0 /\ i.save = none /\ i.host = host /\ i.aof = aof
      /\ i.buf = none /\ i.rewrite = none /\ i.diff = none /\ i.postponed = FALSE /\ i.seldb = -1
      /\ i.data = empty /\ i.dirty = 0 /\ i.rdb = none /\ i.file = none /\ i.synced = 0
  BY DEF IsServer, ServerFields
<1> HIDE DEF i
<1>3. Fresh(i, conf, s)
  BY <1>2 DEF Fresh, host, aof, none
<1> QED
  BY <1>1, <1>2, <1>3 DEF none, empty

LEMMA FreshKeeps ==
    ASSUME NEW u, IsServer(u), NEW conf, NEW s, Fresh(u, conf, s), IsSeq(u.file), u.synced = Len(u.file),
           conf.appendonly => u.data = Rebuilt(u.file),
           Counts(conf) /\ conf.slaveof[s] = 0 =>
             u.dirty = 0 /\ (u.rdb = <<>> \/ IsData(u.rdb[1])) /\ Dumped(u),
           NEW U, u.data \in U
    PROVE  FileOK(u, U, conf, s)
<1> DEFINE none == <<>>
           n == Len(u.file)
<1>1. none = <<>> /\ IsSeq(none) /\ IsChild(none) /\ u.file \o none = u.file
  BY ShortSequences, ChildFacts, Sequences
<1>2. n \in Nat /\ n = Len(u.file)
  BY Sequences
<1>3. (u.aof = "off" <=> ~conf.appendonly) /\ (u.aof = "on" <=> conf.appendonly)
  BY DEF Fresh
<1>4. conf.appendonly => Rebuilds(EmptyData, u.file, u)
  <2>1. IsState(Replay(EmptyData, 0, u.file))
    BY ReplayState
  <2>2. Rebuilt(u.file) = Replay(EmptyData, 0, u.file).data
    BY DEF Rebuilt
  <2>3. Replay(EmptyData, 0, u.file) = State(Rebuilt(u.file), Replay(EmptyData, 0, u.file).db)
    BY <2>1, <2>2 DEF IsState, State
  <2> QED
    BY <2>3 DEF Rebuilds, Fresh
<1>5. u.buf = none /\ u.rewrite = none /\ u.diff = none /\ ~u.postponed /\ u.save = none
  BY DEF Fresh
<1> HIDE DEF none, n
<1>6. conf.appendonly => Rebuilds(EmptyData, u.file \o u.buf, u)
  BY <1>1, <1>4, <1>5
<1>7. n \in 0..n
  BY <1>2
<1>8. AofPart(u, U, conf)
  BY <1>1, <1>2, <1>3, <1>5, <1>6, <1>7 DEF AofPart, MayAppend
<1>9. Counts(conf) /\ conf.slaveof[s] = 0 => IsData(u.data) /\ u.dirty \in Nat /\ u.before \in Nat
  BY DataFacts DEF Dumped, Fresh
<1>10. SavePart(u, conf, s)
  BY <1>1, <1>5, <1>9 DEF SavePart, Fresh
<1> QED
  BY <1>8, <1>10 DEF FileOK

LEMMA LoadKeeps ==
    ASSUME NEW v, IsServer(v), NEW T, NEW conf, NEW s, FileOK(v, T, conf, s), ~v.up,
           NEW U, loadDataFromDisk(v, conf, s).data \in U
    PROVE  LET u == loadDataFromDisk(v, conf, s) IN IsServer(u) /\ FileOK(u, U, conf, s)
<1> DEFINE u == loadDataFromDisk(v, conf, s)
           i == initServer(conf, s)
           x == IF conf.appendonly THEN Rebuilt(v.file) ELSE IF v.rdb = <<>> THEN EmptyData ELSE v.rdb[1]
           n == IF conf.appendonly THEN Keys(x) ELSE 0
<1>1. v.synced = Len(v.file) /\ IsSeq(v.file)
  BY DEF FileOK, AofPart
<1>2. u = [i EXCEPT !.data = x, !.rdb = v.rdb, !.file = v.file, !.synced = v.synced, !.dirty = n]
  BY Zenon DEF loadDataFromDisk
<1>3. conf.appendonly => x = Rebuilt(v.file)
  OBVIOUS
<1>4. Counts(conf) => ~conf.appendonly
  BY DEF Counts, MayAppend
<1>5. Counts(conf) /\ conf.slaveof[s] = 0 =>
        /\ n = 0 /\ (v.rdb = <<>> \/ IsData(v.rdb[1]))
        /\ x = IF v.rdb = <<>> THEN EmptyData ELSE v.rdb[1]
  BY <1>4 DEF FileOK, SavePart
<1>6. IsServer(i) /\ Fresh(i, conf, s)
  BY FreshServer
<1>7. u.data \in U
  OBVIOUS
<1> HIDE DEF u, i, n, x
<1>8. /\ IsServer(u) /\ u.data = x /\ u.rdb = v.rdb /\ u.file = v.file /\ u.synced = v.synced
      /\ u.dirty = n /\ u.before = i.before /\ u.save = i.save /\ u.host = i.host /\ u.aof = i.aof
      /\ u.buf = i.buf /\ u.rewrite = i.rewrite /\ u.diff = i.diff /\ u.postponed = i.postponed
      /\ u.seldb = i.seldb
  BY <1>2, <1>6 DEF IsServer, ServerFields
<1>9. Fresh(u, conf, s)
  BY <1>6, <1>8 DEF Fresh
<1>10. FileOK(u, U, conf, s)
  BY <1>1, <1>3, <1>5, <1>7, <1>8, <1>9, FreshKeeps DEF Dumped
<1> QED
  BY <1>8, <1>10 DEF u

LEMMA InitKeeps ==
    ASSUME NEW conf, NEW s, NEW up
    PROVE  LET u == [initServer(conf, s) EXCEPT !.up = up]
           IN  IsServer(u) /\ FileOK(u, {EmptyData}, conf, s) /\ u.data = EmptyData
<1> DEFINE i == initServer(conf, s)
           u == [i EXCEPT !.up = up]
           none == <<>>
<1>1. none = <<>> /\ IsSeq(none) /\ Len(none) = 0 /\ Rebuilt(none) = EmptyData
  BY ShortSequences, ReplayNone, StateFacts DEF Rebuilt
<1>2. /\ IsServer(i) /\ Fresh(i, conf, s) /\ i.data = EmptyData /\ i.dirty = 0
      /\ i.rdb = none /\ i.file = none /\ i.synced = 0
  BY FreshServer
<1> HIDE DEF i, none
<1>3. /\ IsServer(u) /\ u.data = i.data /\ u.rdb = i.rdb /\ u.file = i.file /\ u.synced = i.synced
      /\ u.dirty = i.dirty /\ u.before = i.before /\ u.save = i.save /\ u.host = i.host /\ u.aof = i.aof
      /\ u.buf = i.buf /\ u.rewrite = i.rewrite /\ u.diff = i.diff /\ u.postponed = i.postponed
      /\ u.seldb = i.seldb
  BY <1>2 DEF IsServer, ServerFields
<1> HIDE DEF u
<1>4. Fresh(u, conf, s) /\ u.data \in {EmptyData} /\ Dumped(u)
  BY <1>1, <1>2, <1>3 DEF Fresh, Dumped
<1>5. FileOK(u, {EmptyData}, conf, s)
  BY <1>1, <1>2, <1>3, <1>4, FreshKeeps
<1> QED
  BY <1>2, <1>3, <1>5 DEF u, i

(***************************************************************************)
(* A command: executed, then fed to the append only file.                  *)
(***************************************************************************)
Executed(v, x, db, c) ==
    /\ Execute(State(v.data, db), c) = State(x.data, db)
    /\ x.up = v.up /\ x.aof = v.aof /\ x.file = v.file /\ x.synced = v.synced
    /\ x.buf = v.buf /\ x.seldb = v.seldb /\ x.rewrite = v.rewrite /\ x.diff = v.diff
    /\ x.postponed = v.postponed

LEMMA FedCommand ==
    ASSUME NEW v, NEW x, NEW db \in Nat, NEW c, Execute(State(v.data, db), c) = State(x.data, db),
           NEW y, y.data = x.data, y.seldb = db,
           NEW data, NEW q, IsSeq(q), Rebuilds(data, q, v)
    PROVE  Rebuilds(data, q \o (IF db = v.seldb THEN <<c>> ELSE <<Select(db), c>>), y)
<1>1. PICK db0 : Replay(data, 0, q) = State(v.data, db0) /\ (v.seldb # -1 => db0 = v.seldb)
  BY DEF Rebuilds
<1>2. db # -1
  OBVIOUS
<1> DEFINE cmds == IF db = v.seldb THEN <<c>> ELSE <<Select(db), c>>
<1>3. IsSeq(cmds)
  BY ShortSequences
<1>4. Replay(v.data, db0, cmds) = State(x.data, db)
  <2>1. CASE db = v.seldb
    BY <1>1, <1>2, <2>1, ReplayOne
  <2>2. CASE db # v.seldb
    <3> DEFINE a == Select(db)
               one == <<a>>
               two == <<c>>
    <3>1. Execute(State(v.data, db0), a) = State(v.data, db)
      BY DEF Execute, State, Select
    <3> HIDE DEF a
    <3>2. cmds = one \o two /\ IsSeq(one) /\ IsSeq(two)
      BY <2>2, ShortSequences DEF a
    <3>3. Replay(v.data, db0, one) = State(v.data, db)
      BY <3>1, ReplayOne
    <3>4. Replay(v.data, db, two) = State(x.data, db)
      BY ReplayOne
    <3> HIDE DEF one, two, cmds
    <3> QED
      BY <3>2, <3>3, <3>4, ReplayMore
  <2> QED
    BY <2>1, <2>2
<1> HIDE DEF cmds
<1>5. Replay(data, 0, q \o cmds) = State(x.data, db)
  BY <1>1, <1>3, <1>4, ReplayMore
<1>6. Rebuilds(data, q \o cmds, y)
  BY <1>5 DEF Rebuilds
<1> QED
  BY <1>6 DEF cmds

LEMMA FeedKeeps ==
    ASSUME NEW v, NEW x, IsServer(x), NEW T, NEW conf, AofPart(v, T, conf),
           NEW db \in Nat, NEW c, Executed(v, x, db, c)
    PROVE  LET y == feedAppendOnlyFile(x, db, c)
           IN  IsServer(y) /\ AofPart(y, T, conf) /\ SameSave(x, y)
<1> DEFINE cmds == IF db = x.seldb THEN <<c>> ELSE <<Select(db), c>>
           buf == IF x.aof = "on" THEN x.buf \o cmds ELSE x.buf
           diff == IF Running(x.rewrite) THEN x.diff \o cmds ELSE x.diff
           y == feedAppendOnlyFile(x, db, c)
<1>1. CASE x.aof = "off"
  <2>1. y = x
    BY <1>1 DEF feedAppendOnlyFile
  <2>2. AofPart(x, T, conf)
    BY <1>1 DEF AofPart, Executed
  <2> QED
    BY <2>1, <2>2 DEF SameSave
<1>2. CASE x.aof # "off"
  <2>1. y = [x EXCEPT !.seldb = db, !.buf = buf, !.diff = diff]
    BY <1>2, Zenon DEF feedAppendOnlyFile
  <2>2. IsSeq(cmds) /\ IsSeq(v.file) /\ IsSeq(v.buf) /\ IsSeq(v.diff)
    BY ShortSequences DEF AofPart
  <2>3. /\ x.aof = "on" => buf = v.buf \o cmds
        /\ x.aof # "on" => buf = v.buf
        /\ v.rewrite # <<>> => diff = v.diff \o cmds
        /\ v.rewrite = <<>> => diff = v.diff
    BY DEF Executed, Running
  <2>4. cmds = IF db = v.seldb THEN <<c>> ELSE <<Select(db), c>>
    BY DEF Executed
  <2> HIDE DEF y, buf, diff
  <2>5. /\ IsServer(y) /\ SameSave(x, y) /\ y.seldb = db /\ y.buf = buf /\ y.diff = diff /\ y.aof = x.aof
        /\ y.file = x.file /\ y.synced = x.synced /\ y.rewrite = x.rewrite /\ y.postponed = x.postponed
    BY <2>1 DEF IsServer, ServerFields, SameSave
  <2>6. y.data = x.data /\ y.up = x.up
    BY <2>5 DEF SameSave
  <2>7. v.up /\ v.aof = "on" => Rebuilds(EmptyData, y.file \o y.buf, y)
    <3> SUFFICES ASSUME v.up, v.aof = "on" PROVE Rebuilds(EmptyData, y.file \o y.buf, y)
      OBVIOUS
    <3>1. Rebuilds(EmptyData, v.file \o v.buf, v) /\ IsSeq(v.file \o v.buf)
      BY <2>2, Sequences DEF AofPart
    <3>2. Rebuilds(EmptyData, (v.file \o v.buf) \o cmds, y)
      BY <2>4, <2>5, <2>6, <3>1, FedCommand DEF Executed
    <3>3. (v.file \o v.buf) \o cmds = v.file \o (v.buf \o cmds)
      <4>1. PICK S : v.file \in Seq(S)
        BY <2>2 DEF IsSeq
      <4>2. PICK U : v.buf \in Seq(U)
        BY <2>2 DEF IsSeq
      <4>3. PICK V : cmds \in Seq(V)
        BY <2>2 DEF IsSeq
      <4> DEFINE W == S \cup U \cup V
      <4>4. v.file \in Seq(W) /\ v.buf \in Seq(W) /\ cmds \in Seq(W)
        BY <4>1, <4>2, <4>3, SeqMonotonic
      <4> HIDE DEF cmds, W
      <4> DEFINE a == v.file
                 b == v.buf
      <4>5. a \in Seq(W) /\ b \in Seq(W)
        BY <4>4
      <4> HIDE DEF a, b
      <4>6. (a \o b) \o cmds = a \o (b \o cmds)
        BY <4>4, <4>5, ConcatAssociative
      <4> QED
        BY <4>6 DEF a, b
    <3>4. y.file \o y.buf = (v.file \o v.buf) \o cmds
      BY <2>3, <2>5, <3>3 DEF Executed
    <3> QED
      BY <3>2, <3>4
  <2>8. v.rewrite # <<>> => Rebuilds(y.rewrite[1].data, y.diff, y)
    <3> SUFFICES ASSUME v.rewrite # <<>> PROVE Rebuilds(y.rewrite[1].data, y.diff, y)
      OBVIOUS
    <3>1. Rebuilds(v.rewrite[1].data, v.diff, v)
      BY <1>2 DEF AofPart, Executed
    <3>2. Rebuilds(v.rewrite[1].data, v.diff \o cmds, y)
      BY <2>2, <2>4, <2>5, <2>6, <3>1, FedCommand DEF Executed
    <3> QED
      BY <2>3, <2>5, <3>2 DEF Executed
  <2>9. IsSeq(buf) /\ IsSeq(diff)
    <3>1. IsSeq(v.buf \o cmds) /\ IsSeq(v.diff \o cmds)
      BY <2>2, Sequences
    <3> HIDE DEF cmds
    <3> QED
      BY <2>2, <2>3, <3>1
  <2>10. AofPart(y, T, conf)
    BY <2>3, <2>5, <2>6, <2>7, <2>8, <2>9 DEF AofPart, Executed
  <2> QED
    BY <2>5, <2>10 DEF y
<1> QED
  BY <1>1, <1>2

LEMMA KeysCounted == ASSUME NEW x, IsData(x) PROVE Keys(x) \in Nat
<1> DEFINE K(d) == {d} \X DOMAIN x[d]
           S == {K(d) : d \in Dbs}
           f == [d \in Dbs |-> K(d)]
<1>1. ASSUME NEW d \in Dbs PROVE IsFiniteSet(K(d))
  <2>1. IsSeq(x[d])
    BY DEF IsData
  <2>2. DOMAIN x[d] = 1..Len(x[d]) /\ Len(x[d]) \in Nat
    BY <2>1, Sequences
  <2> DEFINE n == Len(x[d])
  <2>3. IsFiniteSet(DOMAIN x[d]) /\ IsFiniteSet({d})
    <3>1. n \in Int /\ 1 \in Int /\ DOMAIN x[d] = 1..n
      BY <2>2
    <3> HIDE DEF n
    <3>2. IsFiniteSet(1..n)
      BY <3>1, FS_Interval
    <3>3. IsFiniteSet({d})
      BY FS_Singleton
    <3> QED
      BY <3>1, <3>2, <3>3
  <2> QED
    BY <2>3, FS_Product
<1>2. f \in Surjection(Dbs, S)
  BY DEF Surjection
<1>3. IsFiniteSet(S)
  BY <1>2, FS_Surjection, PersistenceAssumption
<1>4. \A k \in S : IsFiniteSet(k)
  BY <1>1
<1>5. IsFiniteSet(UNION S)
  BY <1>3, <1>4, FS_UNION
<1> QED
  BY <1>5, FS_CardinalityType DEF Keys

LEMMA WriteKeeps ==
    ASSUME NEW v, IsServer(v), NEW T, NEW conf, NEW s, FileOK(v, T, conf, s), v.up, NEW d \in Dbs, NEW n
    PROVE  LET x == [v EXCEPT !.data[d] = Append(@, n), !.dirty = @ + 1]
               y == feedAppendOnlyFile(x, d, Write(n))
           IN  IsServer(y) /\ FileOK(y, T, conf, s)
<1> DEFINE data == [v.data EXCEPT ![d] = Append(@, n)]
           dirty == v.dirty + 1
           x == [v EXCEPT !.data = data, !.dirty = dirty]
           c == Write(n)
           y == feedAppendOnlyFile(x, d, c)
<1>1. [v EXCEPT !.data[d] = Append(@, n), !.dirty = @ + 1] = x
  BY DEF IsServer, ServerFields
<1>2. Execute(State(v.data, d), c) = State(data, d)
  BY DEF Execute, State, Write
<1>3. IsData(v.data) => IsData(data)
  BY DataFacts
<1>4. v.dirty \in Nat => dirty \in Nat /\ dirty > v.dirty /\ dirty = v.dirty + 1
  OBVIOUS
<1>5. d \in Nat
  BY PersistenceAssumption
<1> HIDE DEF data, dirty, c
<1>6. /\ IsServer(x) /\ x.up = v.up /\ x.data = data /\ x.dirty = dirty /\ x.before = v.before /\ x.rdb = v.rdb
      /\ x.save = v.save /\ x.host = v.host /\ x.aof = v.aof /\ x.file = v.file /\ x.synced = v.synced
      /\ x.buf = v.buf /\ x.seldb = v.seldb /\ x.rewrite = v.rewrite /\ x.diff = v.diff
      /\ x.postponed = v.postponed
  BY DEF IsServer, ServerFields
<1> HIDE DEF x
<1>7. Executed(v, x, d, c)
  BY <1>2, <1>6 DEF Executed
<1>8. IsServer(y) /\ AofPart(y, T, conf) /\ SameSave(x, y)
  BY <1>5, <1>6, <1>7, FeedKeeps DEF FileOK
<1>9. SavePart(x, conf, s)
  BY <1>3, <1>4, <1>6 DEF FileOK, SavePart
<1>10. SavePart(y, conf, s)
  BY <1>8, <1>9, PartsKept
<1> QED
  BY <1>1, <1>8, <1>10 DEF FileOK, c

LEMMA EmptyFacts ==
    ASSUME NEW v, IsServer(v), NEW conf, NEW s, NEW T, FileOK(v, T, conf, s), NEW saveparams
    PROVE  LET u == emptyDb(v, saveparams)
           IN  /\ IsServer(u) /\ u.data = EmptyData
               /\ u.up = v.up /\ u.host = v.host /\ u.before = v.before /\ u.save = Killed(v.save)
               /\ u.aof = v.aof /\ u.file = v.file /\ u.synced = v.synced
               /\ u.buf = v.buf /\ u.seldb = v.seldb /\ u.rewrite = v.rewrite /\ u.diff = v.diff
               /\ u.postponed = v.postponed
               /\ u.rdb = v.rdb \/ u.rdb = <<EmptyData>>
               /\ u.dirty = (v.dirty + Keys(v.data)) + 1
<1> DEFINE empty == EmptyData
           save == Killed(v.save)
           dirty == v.dirty + Keys(v.data)
           killed == [v EXCEPT !.data = empty, !.save = save, !.dirty = dirty]
           rdb == <<killed.data>>
           saved == [killed EXCEPT !.rdb = rdb, !.dirty = 0, !.saveok = TRUE]
           w == IF saveparams THEN saved ELSE killed
           more == killed.dirty + 1
           u == emptyDb(v, saveparams)
<1>1. u = [w EXCEPT !.dirty = more]
  BY Zenon DEF emptyDb, rdbSave
<1> HIDE DEF empty, save, dirty, u
<1>2. /\ IsServer(killed) /\ killed.data = empty /\ killed.dirty = dirty
      /\ killed.up = v.up /\ killed.host = v.host /\ killed.before = v.before /\ killed.save = save
      /\ killed.aof = v.aof /\ killed.file = v.file /\ killed.synced = v.synced
      /\ killed.buf = v.buf /\ killed.seldb = v.seldb /\ killed.rewrite = v.rewrite /\ killed.diff = v.diff
      /\ killed.postponed = v.postponed /\ killed.rdb = v.rdb
  BY DEF IsServer, ServerFields
<1>3. more = dirty + 1 /\ rdb = <<empty>>
  BY <1>2
<1> HIDE DEF killed, rdb, more
<1>4. /\ IsServer(saved) /\ saved.data = empty
      /\ saved.up = v.up /\ saved.host = v.host /\ saved.before = v.before /\ saved.save = save
      /\ saved.aof = v.aof /\ saved.file = v.file /\ saved.synced = v.synced
      /\ saved.buf = v.buf /\ saved.seldb = v.seldb /\ saved.rewrite = v.rewrite /\ saved.diff = v.diff
      /\ saved.postponed = v.postponed /\ saved.rdb = rdb
  BY <1>2 DEF IsServer, ServerFields
<1>5. w = saved \/ w = killed
  OBVIOUS
<1> HIDE DEF saved, w
<1>6. /\ IsServer(w) /\ w.data = empty
      /\ w.up = v.up /\ w.host = v.host /\ w.before = v.before /\ w.save = save
      /\ w.aof = v.aof /\ w.file = v.file /\ w.synced = v.synced
      /\ w.buf = v.buf /\ w.seldb = v.seldb /\ w.rewrite = v.rewrite /\ w.diff = v.diff
      /\ w.postponed = v.postponed /\ (w.rdb = rdb \/ w.rdb = v.rdb)
  BY <1>2, <1>4, <1>5
<1>7. /\ IsServer(u) /\ u.data = empty
      /\ u.up = v.up /\ u.host = v.host /\ u.before = v.before /\ u.save = save
      /\ u.aof = v.aof /\ u.file = v.file /\ u.synced = v.synced
      /\ u.buf = v.buf /\ u.seldb = v.seldb /\ u.rewrite = v.rewrite /\ u.diff = v.diff
      /\ u.postponed = v.postponed /\ (u.rdb = rdb \/ u.rdb = v.rdb) /\ u.dirty = more
  BY <1>1, <1>6 DEF IsServer, ServerFields
<1> QED
  BY <1>3, <1>7 DEF u, empty, save, dirty

LEMMA EmptyKeeps ==
    ASSUME NEW v, IsServer(v), NEW T, NEW conf, NEW s, FileOK(v, T, conf, s), v.up,
           NEW db \in Dbs, NEW saveparams
    PROVE  LET y == feedAppendOnlyFile(emptyDb(v, saveparams), db, FlushAll)
           IN  IsServer(y) /\ FileOK(y, T, conf, s)
<1> DEFINE x == emptyDb(v, saveparams)
           c == FlushAll
           y == feedAppendOnlyFile(x, db, c)
           keys == Keys(v.data)
           rdb == <<EmptyData>>
<1>1. /\ IsServer(x) /\ x.data = EmptyData
      /\ x.up = v.up /\ x.host = v.host /\ x.before = v.before /\ x.save = Killed(v.save)
      /\ x.aof = v.aof /\ x.file = v.file /\ x.synced = v.synced
      /\ x.buf = v.buf /\ x.seldb = v.seldb /\ x.rewrite = v.rewrite /\ x.diff = v.diff
      /\ x.postponed = v.postponed
      /\ x.rdb = v.rdb \/ x.rdb = rdb
      /\ x.dirty = (v.dirty + keys) + 1
  BY EmptyFacts
<1>2. Execute(State(v.data, db), c) = State(EmptyData, db)
  BY DEF Execute, State, FlushAll
<1>3. db \in Nat
  BY PersistenceAssumption
<1>4. IsData(v.data) => keys \in Nat
  BY KeysCounted
<1>5. rdb[1] = EmptyData /\ IsData(EmptyData)
  BY DataFacts
<1>6. /\ IsChild(Killed(v.save)) /\ (v.save = <<>> <=> Killed(v.save) = <<>>)
      /\ v.save # <<>> => Killed(v.save)[1].data = v.save[1].data
  BY ChildFacts DEF FileOK, SavePart
<1> HIDE DEF x, c, keys, rdb
<1>7. Executed(v, x, db, c)
  BY <1>1, <1>2 DEF Executed
<1>8. IsServer(y) /\ AofPart(y, T, conf) /\ SameSave(x, y)
  BY <1>1, <1>3, <1>7, FeedKeeps DEF FileOK
<1>9. SavePart(x, conf, s)
  <2>1. Counts(conf) => x.host = conf.slaveof[s]
    BY <1>1 DEF FileOK, SavePart
  <2>2. ASSUME Counts(conf), conf.slaveof[s] = 0
        PROVE  /\ x.rdb = <<>> \/ IsData(x.rdb[1])
               /\ IsData(x.data) /\ x.dirty \in Nat /\ x.before \in Nat
               /\ x.dirty # 0
               /\ x.save # <<>> => IsData(x.save[1].data) /\ x.before < x.dirty
    <3>1. /\ v.rdb = <<>> \/ IsData(v.rdb[1])
          /\ IsData(v.data) /\ v.dirty \in Nat /\ v.before \in Nat
          /\ v.save # <<>> => IsData(v.save[1].data) /\ v.before <= v.dirty
      BY <2>2 DEF FileOK, SavePart
    <3>2. x.dirty \in Nat /\ x.dirty # 0 /\ (v.before <= v.dirty => v.before < x.dirty)
      BY <1>1, <1>4, <3>1
    <3> QED
      BY <1>1, <1>5, <1>6, <3>1, <3>2
  <2> QED
    BY <1>1, <1>6, <2>1, <2>2 DEF SavePart
<1>10. SavePart(y, conf, s)
  BY <1>8, <1>9, PartsKept
<1> QED
  BY <1>8, <1>10 DEF FileOK, x, c

(***************************************************************************)
(* A slave that has a new snapshot, and a change of a link.                *)
(***************************************************************************)
LEMMA PayloadKeeps ==
    ASSUME NEW v, IsServer(v), NEW T, NEW conf, NEW s, FileOK(v, T, conf, s), v.up, v.host # 0,
           NEW p, NEW fd, NEW forks, NEW U
    PROVE  LET z == [v EXCEPT !.rdb = <<p>>, !.data = p, !.master = fd, !.repl = "connected"]
               y == IF z.aof = "off" THEN z ELSE startAppendOnly(stopAppendOnly(z, conf), forks)
           IN  IsServer(y) /\ FileOK(y, U, conf, s) /\ y.data = p
<1> DEFINE rdb == <<p>>
           z == [v EXCEPT !.rdb = rdb, !.data = p, !.master = fd, !.repl = "connected"]
           w == stopAppendOnly(z, conf)
           a == startAppendOnly(w, forks)
<1> HIDE DEF rdb
<1>1. /\ IsServer(z) /\ z.up /\ z.data = p /\ z.save = v.save /\ z.host = v.host /\ z.aof = v.aof
      /\ z.file = v.file /\ z.synced = v.synced /\ z.buf = v.buf /\ z.seldb = v.seldb
      /\ z.rewrite = v.rewrite /\ z.diff = v.diff /\ z.postponed = v.postponed
  BY DEF IsServer, ServerFields
<1> HIDE DEF z
<1>2. SavePart(z, conf, s)
  BY <1>1 DEF FileOK, SavePart
<1>3. CASE z.aof = "off"
  <2>1. AofPart(z, U, conf)
    BY <1>1, <1>3 DEF FileOK, AofPart
  <2> QED
    BY <1>1, <1>2, <1>3, <2>1 DEF FileOK, z, rdb
<1>4. CASE z.aof # "off"
  <2>1. /\ IsSeq(z.file) /\ IsSeq(z.buf) /\ (z.rewrite = <<>> => z.diff = <<>>)
        /\ (conf.fsync = "always" => ~z.postponed) /\ MayAppend(conf)
    BY <1>1, <1>4 DEF FileOK, AofPart
  <2>2. /\ IsServer(w) /\ AofPart(w, U, conf) /\ w.data = z.data /\ w.up /\ w.aof = "off"
        /\ SameSave(z, w)
    BY <1>1, <2>1, StopKeeps
  <2> HIDE DEF w
  <2>3. FileOK(w, U, conf, s)
    BY <1>2, <2>2, PartsKept DEF FileOK
  <2>4. IsServer(a) /\ FileOK(a, U, conf, s) /\ a.data = w.data
    BY <2>1, <2>2, <2>3, StartKeeps
  <2> QED
    BY <1>1, <1>4, <2>2, <2>4 DEF z, w, rdb
<1> QED
  BY <1>3, <1>4

\* The host matters only where changes are counted
SameFiles(v, u, conf) ==
    /\ IsServer(u) /\ SameAof(v, u)
    /\ u.dirty = v.dirty /\ u.before = v.before /\ u.rdb = v.rdb /\ u.save = v.save
    /\ u.host = v.host \/ ~Counts(conf)

LEMMA SameFilesKeep ==
    ASSUME NEW v, NEW u, NEW conf, SameFiles(v, u, conf)
    PROVE  /\ u.data = v.data /\ u.up = v.up
           /\ \A T, s : FileOK(v, T, conf, s) => FileOK(u, T, conf, s)
<1>1. ASSUME NEW T, NEW s, FileOK(v, T, conf, s) PROVE FileOK(u, T, conf, s)
  <2>1. AofPart(u, T, conf)
    BY <1>1, PartsKept DEF FileOK, SameFiles
  <2>2. SavePart(u, conf, s)
    BY <1>1 DEF FileOK, SameFiles, SavePart, SameAof, Dumped
  <2> QED
    BY <2>1, <2>2 DEF FileOK
<1> QED
  BY <1>1 DEF SameFiles, SameAof

LEMMA SameFilesFields ==
    ASSUME NEW v, IsServer(v), NEW conf
    PROVE  /\ SameFiles(v, v, conf)
           /\ \A repl : SameFiles(v, [v EXCEPT !.repl = repl], conf)
           /\ \A repl, fd : SameFiles(v, [v EXCEPT !.repl = repl, !.fd = fd], conf)
           /\ \A repl, fd : SameFiles(v, [v EXCEPT !.fd = fd, !.repl = repl], conf)
           /\ \A repl, fd : SameFiles(v, [v EXCEPT !.master = fd, !.repl = repl], conf)
           /\ \A b : SameFiles(v, [v EXCEPT !.scheduled = b], conf)
           /\ ~Counts(conf) => \A host : SameFiles(v, [v EXCEPT !.host = host], conf)
<1>1. SameFiles(v, v, conf) /\ \A b : SameFiles(v, [v EXCEPT !.scheduled = b], conf)
  BY DEF SameFiles, SameAof, IsServer, ServerFields
<1>2. ASSUME NEW repl, NEW fd
      PROVE  /\ SameFiles(v, [v EXCEPT !.repl = repl], conf)
             /\ SameFiles(v, [v EXCEPT !.repl = repl, !.fd = fd], conf)
             /\ SameFiles(v, [v EXCEPT !.fd = fd, !.repl = repl], conf)
             /\ SameFiles(v, [v EXCEPT !.master = fd, !.repl = repl], conf)
  BY DEF SameFiles, SameAof, IsServer, ServerFields
<1>3. ~Counts(conf) => \A host : SameFiles(v, [v EXCEPT !.host = host], conf)
  BY DEF SameFiles, SameAof, IsServer, ServerFields
<1> QED
  BY <1>1, <1>2, <1>3

LEMMA SameFilesThen ==
    ASSUME NEW v, NEW u, NEW w, NEW conf, SameFiles(v, u, conf), SameFiles(u, w, conf)
    PROVE  SameFiles(v, w, conf)
  BY DEF SameFiles, SameAof

-----------------------------------------------------------------------------
(***************************************************************************)
(* What goes over a connection: answers to PING and SYNC first, then a     *)
(* snapshot, and then commands only.  So what a slave executes, and passes *)
(* on to its files, is a command.                                          *)
(***************************************************************************)
IsCommand(m) == (\E d \in Dbs : m = Select(d)) \/ (\E n : m = Write(n)) \/ m = FlushAll
Commands(q) == IsSeq(q) /\ \A i \in 1..Len(q) : IsCommand(q[i])
Answers(q) == IsSeq(q) /\ \A i \in 1..Len(q) : q[i][1] # "rdb"
Sent(q) == IsSeq(q) /\ \A i, j \in 1..Len(q) : i < j /\ q[i][1] = "rdb" => IsCommand(q[j])

AnyRequests == {<<>>, <<"PING">>, <<"SYNC">>, <<"PING", "SYNC">>}

Phase(c) ==
    /\ Commands(c.out)
    /\ c.ev = "sync" => /\ c.role \in {"none", "closed"} /\ Answers(c.wire)
                        /\ c.req \in {<<>>, <<"PING">>}
    /\ c.ev = "payload" => /\ Sent(c.wire)
                           /\ c.role \notin {"online", "closed"} => Answers(c.wire)
                           /\ c.role = "none" => c.req \in AnyRequests
                           /\ c.role \notin {"none", "closed"} => c.req = <<>>
    /\ c.ev = "link" => /\ Commands(c.wire) /\ c.db \in Dbs
                        /\ c.role \in {"online", "closed"} /\ (c.role = "online" => c.req = <<>>)
    /\ c.ev \in {"none", "sync", "payload", "link"}

LEMMA Elements ==
    ASSUME NEW q, IsSeq(q)
    PROVE  /\ \A e : /\ Len(Append(q, e)) = Len(q) + 1 /\ Append(q, e)[Len(q) + 1] = e
                     /\ \A i \in 1..Len(q) : Append(q, e)[i] = q[i]
           /\ \A p : IsSeq(p) =>
                /\ Len(q \o p) = Len(q) + Len(p)
                /\ \A i \in 1..(Len(q) + Len(p)) : (q \o p)[i] = IF i <= Len(q) THEN q[i] ELSE p[i - Len(q)]
           /\ q # <<>> => /\ IsSeq(Tail(q)) /\ Len(Tail(q)) = Len(q) - 1 /\ Len(q) >= 1 /\ Head(q) = q[1]
                          /\ \A i \in 1..Len(Tail(q)) : Tail(q)[i] = q[i + 1]
<1>1. PICK S : q \in Seq(S)
  BY DEF IsSeq
<1>2. ASSUME NEW e
      PROVE  /\ Len(Append(q, e)) = Len(q) + 1 /\ Append(q, e)[Len(q) + 1] = e
             /\ \A i \in 1..Len(q) : Append(q, e)[i] = q[i]
  <2>1. q \in Seq(S \cup {e}) /\ e \in S \cup {e}
    BY <1>1, SeqMonotonic
  <2> QED
    BY <2>1, AppendProperties
<1>3. ASSUME NEW p, IsSeq(p)
      PROVE  /\ Len(q \o p) = Len(q) + Len(p)
             /\ \A i \in 1..(Len(q) + Len(p)) : (q \o p)[i] = IF i <= Len(q) THEN q[i] ELSE p[i - Len(q)]
  <2>1. PICK T : p \in Seq(T)
    BY <1>3 DEF IsSeq
  <2>2. q \in Seq(S \cup T) /\ p \in Seq(S \cup T)
    BY <1>1, <2>1, SeqMonotonic
  <2> QED
    BY <2>2, ConcatProperties
<1>4. ASSUME q # <<>>
      PROVE  /\ IsSeq(Tail(q)) /\ Len(Tail(q)) = Len(q) - 1 /\ Len(q) >= 1 /\ Head(q) = q[1]
             /\ \A i \in 1..Len(Tail(q)) : Tail(q)[i] = q[i + 1]
  <2>1. /\ Tail(q) \in Seq(S) /\ Len(Tail(q)) = Len(q) - 1
        /\ \A i \in 1..Len(Tail(q)) : Tail(q)[i] = q[i + 1]
    BY <1>1, <1>4, HeadTailProperties
  <2>2. Len(q) \in Nat /\ Len(q) # 0
    BY <1>1, <1>4, LenProperties, EmptySeq
  <2>3. Head(q) = q[1]
    BY <1>1, <1>4
  <2> QED
    BY <2>1, <2>2, <2>3 DEF IsSeq
<1> QED
  BY <1>2, <1>3, <1>4

LEMMA Messages ==
    /\ \A m : IsCommand(m) => m[1] # "rdb" /\ m[1] \in {"select", "write", "flushall"}
    /\ \A d \in Dbs : IsCommand(Select(d))
    /\ \A n : IsCommand(Write(n))
    /\ IsCommand(FlushAll)
    /\ \A m : IsCommand(m) /\ m[1] = "select" => m[2] \in Dbs
    /\ \A m : IsCommand(m) /\ m[1] = "write" => m = Write(m[2])
    /\ \A m : IsCommand(m) /\ m[1] \notin {"select", "write"} => m = FlushAll
<1>1. \A d : Select(d)[1] = "select" /\ Select(d)[2] = d
  BY DEF Select
<1>2. \A n : Write(n)[1] = "write" /\ Write(n)[2] = n
  BY DEF Write
<1>3. FlushAll[1] = "flushall"
  BY DEF FlushAll
<1> QED
  BY <1>1, <1>2, <1>3 DEF IsCommand

LEMMA ShortWires ==
    /\ Commands(<<>>) /\ Answers(<<>>)
    /\ \A m : IsCommand(m) => Commands(<<m>>)
    /\ \A m, k : IsCommand(m) /\ IsCommand(k) => Commands(<<m, k>>)
<1>1. Commands(<<>>) /\ Answers(<<>>)
  <2> DEFINE none == <<>>
  <2>1. IsSeq(none) /\ Len(none) = 0
    BY ShortSequences
  <2> HIDE DEF none
  <2>2. Commands(none) /\ Answers(none)
    BY <2>1 DEF Commands, Answers
  <2> QED
    BY <2>2 DEF none
<1>2. ASSUME NEW m, IsCommand(m) PROVE Commands(<<m>>)
  <2> DEFINE q == <<m>>
  <2>1. IsSeq(q) /\ Len(q) = 1 /\ q[1] = m
    BY ShortSequences
  <2> HIDE DEF q
  <2>2. Commands(q)
    BY <1>2, <2>1 DEF Commands
  <2> QED
    BY <2>2 DEF q
<1>3. ASSUME NEW m, NEW k, IsCommand(m), IsCommand(k) PROVE Commands(<<m, k>>)
  <2> DEFINE q == <<m, k>>
  <2>1. IsSeq(q) /\ Len(q) = 2 /\ q[1] = m /\ q[2] = k
    BY ShortSequences
  <2> HIDE DEF q
  <2>2. Commands(q)
    BY <1>3, <2>1 DEF Commands
  <2> QED
    BY <2>2 DEF q
<1> QED
  BY <1>1, <1>2, <1>3

LEMMA CommandWires ==
    ASSUME NEW q, Commands(q)
    PROVE  /\ \A p : Commands(p) => Commands(q \o p)
           /\ q # <<>> => IsCommand(Head(q)) /\ Commands(Tail(q))
<1> DEFINE n == Len(q)
<1>1. n \in Nat
  BY Sequences DEF Commands
<1>2. ASSUME NEW p, Commands(p) PROVE Commands(q \o p)
  <2> DEFINE r == q \o p
             k == Len(p)
  <2>1. /\ IsSeq(r) /\ Len(r) = n + k /\ k \in Nat
        /\ \A i \in 1..(n + k) : r[i] = IF i <= n THEN q[i] ELSE p[i - n]
    BY <1>2, Elements, Sequences DEF Commands
  <2>2. (\A i \in 1..n : IsCommand(q[i])) /\ (\A i \in 1..k : IsCommand(p[i]))
    BY <1>2 DEF Commands
  <2> HIDE DEF r, n, k
  <2>3. \A i \in 1..(n + k) : IsCommand(r[i])
    <3> SUFFICES ASSUME NEW i \in 1..(n + k) PROVE IsCommand(r[i])
      OBVIOUS
    <3>1. CASE i <= n
      BY <1>1, <2>1, <2>2, <3>1
    <3>2. CASE ~(i <= n)
      <4>1. i - n \in 1..k /\ r[i] = p[i - n]
        BY <1>1, <2>1, <3>2
      <4> QED
        BY <2>2, <4>1
    <3> QED
      BY <3>1, <3>2
  <2> QED
    BY <2>1, <2>3 DEF Commands, r
<1>3. ASSUME q # <<>> PROVE IsCommand(Head(q)) /\ Commands(Tail(q))
  <2> DEFINE t == Tail(q)
             k == Len(t)
  <2>1. /\ IsSeq(t) /\ k = n - 1 /\ n >= 1 /\ Head(q) = q[1]
        /\ \A i \in 1..k : t[i] = q[i + 1]
    BY <1>3, Elements DEF Commands
  <2>2. \A i \in 1..n : IsCommand(q[i])
    BY DEF Commands
  <2> HIDE DEF t, n, k
  <2>3. IsCommand(Head(q)) /\ \A i \in 1..k : IsCommand(t[i])
    <3>1. 1 \in 1..n /\ \A i \in 1..k : i + 1 \in 1..n
      BY <1>1, <2>1
    <3> QED
      BY <2>1, <2>2, <3>1
  <2> QED
    BY <2>1, <2>3 DEF Commands, t, k
<1> QED
  BY <1>2, <1>3

LEMMA AnswerWires ==
    ASSUME NEW q, Answers(q)
    PROVE  /\ Sent(q)
           /\ \A m : Sent(Append(q, m)) /\ (m[1] # "rdb" => Answers(Append(q, m)))
           /\ q # <<>> => Answers(Tail(q)) /\ Head(q)[1] # "rdb"
<1> DEFINE n == Len(q)
<1>1. n \in Nat
  BY Sequences DEF Answers
<1>2. Sent(q)
  BY DEF Answers, Sent
<1>3. ASSUME NEW m PROVE Sent(Append(q, m)) /\ (m[1] # "rdb" => Answers(Append(q, m)))
  <2> DEFINE r == Append(q, m)
             k == Len(r)
  <2>1. /\ IsSeq(r) /\ k = n + 1 /\ r[n + 1] = m
        /\ \A i \in 1..n : r[i] = q[i]
    BY Elements, Sequences DEF Answers
  <2>2. \A i \in 1..n : q[i][1] # "rdb"
    BY DEF Answers
  <2> HIDE DEF r, n, k
  <2>3. \A i \in 1..k : i \in 1..n \/ i = n + 1
    BY <1>1, <2>1
  <2>4. \A i, j \in 1..k : i < j => i \in 1..n
    BY <1>1, <2>1
  <2>5. Sent(r)
    BY <2>1, <2>2, <2>4 DEF Sent, k
  <2>6. m[1] # "rdb" => Answers(r)
    BY <2>1, <2>2, <2>3 DEF Answers, k
  <2> QED
    BY <2>5, <2>6 DEF r
<1>4. ASSUME q # <<>> PROVE Answers(Tail(q)) /\ Head(q)[1] # "rdb"
  <2> DEFINE t == Tail(q)
             k == Len(t)
  <2>1. /\ IsSeq(t) /\ k = n - 1 /\ n >= 1 /\ Head(q) = q[1]
        /\ \A i \in 1..k : t[i] = q[i + 1]
    BY <1>4, Elements DEF Answers
  <2>2. \A i \in 1..n : q[i][1] # "rdb"
    BY DEF Answers
  <2> HIDE DEF t, n, k
  <2>3. 1 \in 1..n /\ \A i \in 1..k : i + 1 \in 1..n
    BY <1>1, <2>1
  <2>4. Answers(t)
    BY <2>1, <2>2, <2>3 DEF Answers, k
  <2> QED
    BY <2>1, <2>2, <2>3, <2>4 DEF t
<1> QED
  BY <1>2, <1>3, <1>4

LEMMA SentWires ==
    ASSUME NEW q, Sent(q)
    PROVE  /\ \A p : Commands(p) => Sent(q \o p)
           /\ q # <<>> /\ Head(q)[1] = "rdb" => Commands(Tail(q)) /\ ~Answers(q)
<1> DEFINE n == Len(q)
<1>1. n \in Nat
  BY Sequences DEF Sent
<1>2. ASSUME NEW p, Commands(p) PROVE Sent(q \o p)
  <2> DEFINE r == q \o p
             k == Len(p)
             l == Len(r)
  <2>1. /\ IsSeq(r) /\ l = n + k /\ k \in Nat
        /\ \A i \in 1..(n + k) : r[i] = IF i <= n THEN q[i] ELSE p[i - n]
    BY <1>2, Elements, Sequences DEF Commands, Sent
  <2>2. /\ \A i, j \in 1..n : i < j /\ q[i][1] = "rdb" => IsCommand(q[j])
        /\ \A i \in 1..k : IsCommand(p[i])
    BY <1>2 DEF Commands, Sent
  <2> HIDE DEF r, n, k, l
  <2>3. ASSUME NEW i \in 1..l, NEW j \in 1..l, i < j, r[i][1] = "rdb" PROVE IsCommand(r[j])
    <3>1. CASE j <= n
      <4>1. i \in 1..n /\ j \in 1..n /\ r[i] = q[i] /\ r[j] = q[j]
        BY <1>1, <2>1, <2>3, <3>1
      <4> QED
        BY <2>2, <2>3, <4>1
    <3>2. CASE ~(j <= n)
      <4>1. j - n \in 1..k /\ r[j] = p[j - n]
        BY <1>1, <2>1, <3>2
      <4> QED
        BY <2>2, <4>1
    <3> QED
      BY <3>1, <3>2
  <2> QED
    BY <2>1, <2>3 DEF Sent, r, l
<1>3. ASSUME q # <<>>, Head(q)[1] = "rdb" PROVE Commands(Tail(q)) /\ ~Answers(q)
  <2> DEFINE t == Tail(q)
             k == Len(t)
  <2>1. /\ IsSeq(t) /\ k = n - 1 /\ n >= 1 /\ Head(q) = q[1]
        /\ \A i \in 1..k : t[i] = q[i + 1]
    BY <1>3, Elements DEF Sent
  <2>2. \A i, j \in 1..n : i < j /\ q[i][1] = "rdb" => IsCommand(q[j])
    BY DEF Sent
  <2>3. 1 \in 1..n => ~Answers(q)
    BY <1>3, <2>1 DEF Answers
  <2> HIDE DEF t, n, k
  <2>4. 1 \in 1..n /\ \A i \in 1..k : i + 1 \in 1..n /\ 1 < i + 1
    BY <1>1, <2>1
  <2>5. \A i \in 1..k : IsCommand(t[i])
    BY <1>3, <2>1, <2>2, <2>4
  <2> QED
    BY <2>1, <2>3, <2>4, <2>5 DEF Commands, t, k
<1> QED
  BY <1>2, <1>3

(***************************************************************************)
(* What is done to one connection.                                         *)
(***************************************************************************)
ConnStep(c, d) ==
    IsConn(d) /\ (Phase(c) => Phase(d)) /\ (d.role # "closed" => c.role # "closed" /\ d.master = c.master)

LEMMA RequestFacts ==
    /\ \A q \in AnyRequests : q # <<>> => Tail(q) \in AnyRequests /\ (Head(q) # "PING" => Tail(q) = <<>>)
    /\ \A q \in {<<>>, <<"PING">>} : /\ q \in AnyRequests /\ Append(q, "SYNC") \in AnyRequests
                                     /\ q # <<>> => Tail(q) = <<>> /\ Head(q) = "PING"
<1>1. Append(<<>>, "SYNC") = <<"SYNC">> /\ Append(<<"PING">>, "SYNC") = <<"PING", "SYNC">>
  <2>1. \A x : Append(<<>>, x) = <<x>>
    OBVIOUS
  <2>2. ASSUME NEW x, NEW y PROVE Append(<<x>>, y) = <<x, y>>
    <3> DEFINE a == <<x>>
               b == <<x, y>>
               S == {x, y}
    <3>1. a \in Seq(S) /\ Len(a) = 1 /\ a[1] = x /\ b \in Seq(S) /\ Len(b) = 2 /\ b[1] = x /\ b[2] = y /\ y \in S
      OBVIOUS
    <3> HIDE DEF a, b, S
    <3>6. a \in Seq(S) /\ y \in S
      BY <3>1
    <3>5. /\ Append(a, y) \in Seq(S) /\ Len(Append(a, y)) = Len(a) + 1
          /\ Append(a, y)[Len(a) + 1] = y /\ \A i \in 1..Len(a) : Append(a, y)[i] = a[i]
      BY <3>6, AppendProperties
    <3> DEFINE r == Append(a, y)
               n == Len(a)
    <3>0. n = 1
      BY <3>1
    <3>2. /\ r \in Seq(S) /\ Len(r) = n + 1
          /\ r[n + 1] = y /\ \A i \in 1..n : r[i] = a[i]
      BY <3>5, Zenon
    <3> HIDE DEF r, n
    <3>3. Len(r) = 2 /\ \A i \in 1..2 : r[i] = b[i]
      <4>1. \A i \in 1..2 : i = 1 \/ i = 2
        OBVIOUS
      <4>2. 1 \in 1..n /\ n + 1 = 2
        BY <3>0
      <4>3. r[1] = x /\ r[2] = y
        BY <3>1, <3>2, <4>2
      <4> QED
        BY <3>1, <3>2, <4>1, <4>2, <4>3
    <3>4. r = b
      BY <3>1, <3>2, <3>3, SeqEqual
    <3> QED
      BY <3>4 DEF a, b, r
  <2> QED
    BY <2>1, <2>2
<1>2. Tail(<<"PING">>) = <<>> /\ Head(<<"PING">>) = "PING"
  OBVIOUS
<1>3. Tail(<<"SYNC">>) = <<>> /\ Head(<<"SYNC">>) = "SYNC"
  OBVIOUS
<1>4. Tail(<<"PING", "SYNC">>) = <<"SYNC">> /\ Head(<<"PING", "SYNC">>) = "PING"
  OBVIOUS
<1> DEFINE a == <<>>
           b == <<"PING">>
           c == <<"SYNC">>
           d == <<"PING", "SYNC">>
<1>5. AnyRequests = {a, b, c, d}
  BY DEF AnyRequests
<1>6. /\ Append(a, "SYNC") = c /\ Append(b, "SYNC") = d /\ Tail(b) = a /\ Head(b) = "PING" /\ Tail(c) = a
      /\ Tail(d) = c /\ Head(d) = "PING"
  BY <1>1, <1>2, <1>3, <1>4
<1>7. \A q \in {a, b, c, d} : q # a => Tail(q) \in {a, b, c, d} /\ (Head(q) # "PING" => Tail(q) = a)
  <2> HIDE DEF a, b, c, d
  <2> QED
    BY <1>6
<1>8. \A q \in {a, b} : /\ q \in {a, b, c, d} /\ Append(q, "SYNC") \in {a, b, c, d}
                        /\ q # a => Tail(q) = a /\ Head(q) = "PING"
  <2> HIDE DEF a, b, c, d
  <2> QED
    BY <1>6
<1> HIDE DEF b, c, d
<1> QED
  BY <1>5, <1>7, <1>8 DEF b

LEMMA ClosedPhase ==
    IsConn(Closed) /\ Phase(Closed) /\ Closed.role = "closed" /\ \A c : ConnStep(c, Closed)
<1> DEFINE none == <<>>
           d == [slave |-> 0, master |-> 0, ev |-> "none", writable |-> FALSE, db |-> 0, wire |-> none,
                 req |-> none, role |-> "closed", seldb |-> 0, out |-> none, bulk |-> none]
<1>1. Closed = d
  BY DEF Closed
<1>2. Commands(none)
  BY ShortWires
<1> HIDE DEF none
<1>3. IsConn(d) /\ d.role = "closed" /\ d.out = none /\ d.ev = "none"
  BY DEF IsConn, ConnFields
<1> HIDE DEF d
<1>4. Phase(d)
  BY <1>2, <1>3 DEF Phase
<1> QED
  BY <1>1, <1>3, <1>4 DEF ConnStep

LEMMA FreedStep ==
    ASSUME NEW c, NEW d, ConnStep(c, d)
    PROVE  ConnStep(c, Freed(d))
  BY ClosedPhase DEF Freed

LEMMA ConnStepThen ==
    ASSUME NEW c, NEW d, NEW e, ConnStep(c, d), ConnStep(d, e)
    PROVE  ConnStep(c, e)
  BY DEF ConnStep

\* An end is closed
LEMMA CloseSteps ==
    ASSUME NEW c, IsConn(c)
    PROVE  /\ ConnStep(c, c)
           /\ ConnStep(c, Freed([c EXCEPT !.ev = "none", !.writable = FALSE]))
           /\ ConnStep(c, Freed([c EXCEPT !.role = "closed"]))
           /\ \A ev \in {"none", c.ev}, role \in {"closed", c.role} :
                 ConnStep(c, Freed([c EXCEPT !.ev = ev, !.role = role]))
<1>1. ConnStep(c, c)
  BY DEF ConnStep
<1>2. ConnStep(c, Freed([c EXCEPT !.ev = "none", !.writable = FALSE]))
  <2> DEFINE d == [c EXCEPT !.ev = "none", !.writable = FALSE]
  <2>1. IsConn(d) /\ d.ev = "none" /\ d.out = c.out /\ d.role = c.role /\ d.master = c.master
    BY DEF IsConn, ConnFields
  <2> HIDE DEF d
  <2>2. ConnStep(c, d)
    BY <2>1 DEF ConnStep, Phase
  <2> QED
    BY <2>2, FreedStep DEF d
<1>3. ConnStep(c, Freed([c EXCEPT !.role = "closed"]))
  <2> DEFINE d == [c EXCEPT !.role = "closed"]
  <2>1. /\ IsConn(d) /\ d.ev = c.ev /\ d.out = c.out /\ d.role = "closed" /\ d.wire = c.wire /\ d.req = c.req
        /\ d.db = c.db
    BY DEF IsConn, ConnFields
  <2> HIDE DEF d
  <2>2. ConnStep(c, d)
    BY <2>1 DEF ConnStep, Phase
  <2> QED
    BY <2>2, FreedStep DEF d
<1>4. ASSUME NEW ev \in {"none", c.ev}, NEW role \in {"closed", c.role}
      PROVE  ConnStep(c, Freed([c EXCEPT !.ev = ev, !.role = role]))
  <2> DEFINE d == [c EXCEPT !.ev = ev, !.role = role]
  <2>1. /\ IsConn(d) /\ d.ev = ev /\ d.out = c.out /\ d.role = role /\ d.wire = c.wire /\ d.req = c.req
        /\ d.db = c.db /\ d.master = c.master
    BY DEF IsConn, ConnFields
  <2> HIDE DEF d
  <2>2. ConnStep(c, d)
    BY <2>1 DEF ConnStep, Phase
  <2> QED
    BY <2>2, FreedStep DEF d
<1> QED
  BY <1>1, <1>2, <1>3, <1>4

\* A command is collected for a slave, and sent to it
LEMMA FedStep ==
    ASSUME NEW c, IsConn(c), NEW db \in Dbs, NEW cmd, IsCommand(cmd)
    PROVE  ConnStep(c, [c EXCEPT !.seldb = db, !.out = @ \o IF c.seldb = db THEN <<cmd>> ELSE <<Select(db), cmd>>])
<1> DEFINE p == IF c.seldb = db THEN <<cmd>> ELSE <<Select(db), cmd>>
           q == c.out \o p
           d == [c EXCEPT !.seldb = db, !.out = q]
<1>1. Commands(p)
  BY Messages, ShortWires
<1> HIDE DEF p
<1>2. Commands(c.out) => Commands(q)
  BY <1>1, CommandWires
<1> HIDE DEF q
<1>3. /\ IsConn(d) /\ d.ev = c.ev /\ d.out = q /\ d.role = c.role /\ d.wire = c.wire /\ d.req = c.req
      /\ d.db = c.db /\ d.master = c.master
  BY DEF IsConn, ConnFields
<1>4. d = [c EXCEPT !.seldb = db, !.out = @ \o IF c.seldb = db THEN <<cmd>> ELSE <<Select(db), cmd>>]
  BY DEF p, q
<1> HIDE DEF d
<1>5. ConnStep(c, d)
  BY <1>2, <1>3 DEF ConnStep, Phase
<1> QED
  BY <1>4, <1>5

LEMMA SendSteps ==
    ASSUME NEW c, IsConn(c)
    PROVE  /\ c.role = "bulk" => \A x : ConnStep(c, [c EXCEPT !.wire = Append(@, <<"rdb", x>>), !.bulk = <<>>,
                                                              !.role = "online"])
           /\ c.role = "online" => ConnStep(c, [c EXCEPT !.wire = @ \o c.out, !.out = <<>>])
<1> DEFINE none == <<>>
<1>1. Commands(none)
  BY ShortWires
<1> HIDE DEF none
<1>2. ASSUME c.role = "bulk", NEW x
      PROVE  ConnStep(c, [c EXCEPT !.wire = Append(@, <<"rdb", x>>), !.bulk = none, !.role = "online"])
  <2> DEFINE q == Append(c.wire, <<"rdb", x>>)
             d == [c EXCEPT !.wire = q, !.bulk = none, !.role = "online"]
  <2>1. Answers(c.wire) => Sent(q)
    BY AnswerWires
  <2>0. d = [c EXCEPT !.wire = Append(@, <<"rdb", x>>), !.bulk = none, !.role = "online"]
    BY Zenon
  <2> HIDE DEF q
  <2>2. /\ IsConn(d) /\ d.ev = c.ev /\ d.out = c.out /\ d.role = "online" /\ d.wire = q /\ d.req = c.req
        /\ d.db = c.db /\ d.master = c.master
    BY DEF IsConn, ConnFields
  <2> HIDE DEF d
  <2>3. ConnStep(c, d)
    BY <1>2, <2>1, <2>2 DEF ConnStep, Phase
  <2> QED
    BY <2>0, <2>3
<1>3. ASSUME c.role = "online"
      PROVE  ConnStep(c, [c EXCEPT !.wire = @ \o c.out, !.out = none])
  <2> DEFINE q == c.wire \o c.out
             d == [c EXCEPT !.wire = q, !.out = none]
  <2>1. /\ Sent(c.wire) /\ Commands(c.out) => Sent(q)
        /\ Commands(c.wire) /\ Commands(c.out) => Commands(q)
    BY SentWires, CommandWires
  <2>0. d = [c EXCEPT !.wire = @ \o c.out, !.out = none]
    BY Zenon
  <2> HIDE DEF q
  <2>2. /\ IsConn(d) /\ d.ev = c.ev /\ d.out = none /\ d.role = "online" /\ d.wire = q /\ d.req = c.req
        /\ d.db = c.db /\ d.master = c.master
    BY <1>3 DEF IsConn, ConnFields
  <2> HIDE DEF d
  <2>3. ConnStep(c, d)
    BY <1>1, <1>3, <2>1, <2>2 DEF ConnStep, Phase
  <2> QED
    BY <2>0, <2>3
<1> QED
  BY <1>2, <1>3 DEF none

\* The master's end answers a request
LEMMA RequestSteps ==
    ASSUME NEW c, IsConn(c), c.req # <<>>, c.role # "closed"
    PROVE  LET d == [c EXCEPT !.req = Tail(@)]
           IN  /\ ConnStep(c, d) /\ d.role = c.role
               /\ Phase(c) /\ Head(c.req) # "PING" => /\ c.role = "none" /\ d.ev = "payload" => d.req = <<>>
                                                      /\ c.role = "none" => d.ev \in {"none", "payload"}
               /\ \A m : m[1] # "rdb" => (Head(c.req) = "PING" => ConnStep(c, [d EXCEPT !.wire = Append(@, m)]))
<1> DEFINE none == <<>>
           e == Tail(c.req)
           d == [c EXCEPT !.req = e]
<1>1. /\ \A q \in AnyRequests : q # none => Tail(q) \in AnyRequests /\ (Head(q) # "PING" => Tail(q) = none)
      /\ \A q \in {none, <<"PING">>} : q # none => Tail(q) = none /\ Head(q) = "PING"
  BY RequestFacts
<1>2. c.req # none /\ (c.req \in AnyRequests => e \in AnyRequests /\ (Head(c.req) # "PING" => e = none))
      /\ (c.req \in {none, <<"PING">>} => e = none /\ Head(c.req) = "PING")
  BY <1>1
<1>3. d = [c EXCEPT !.req = Tail(@)]
  BY Zenon
<1> HIDE DEF e, none
<1>4. /\ IsConn(d) /\ d.ev = c.ev /\ d.out = c.out /\ d.role = c.role /\ d.wire = c.wire /\ d.req = e
      /\ d.db = c.db /\ d.master = c.master
  BY DEF IsConn, ConnFields
<1> HIDE DEF d
<1>5. ConnStep(c, d)
  BY <1>2, <1>4 DEF ConnStep, Phase, none
<1>6. Phase(c) /\ Head(c.req) # "PING" => /\ c.role = "none" /\ d.ev = "payload" => d.req = none
                                          /\ c.role = "none" => d.ev \in {"none", "payload"}
  BY <1>2, <1>4 DEF Phase, none
<1>7. ASSUME NEW m, m[1] # "rdb", Head(c.req) = "PING" PROVE ConnStep(c, [d EXCEPT !.wire = Append(@, m)])
  <2> DEFINE q == Append(d.wire, m)
             k == [d EXCEPT !.wire = q]
  <2>1. Answers(d.wire) => Answers(q) /\ Sent(q)
    BY <1>7, AnswerWires
  <2>2. k = [d EXCEPT !.wire = Append(@, m)]
    BY Zenon
  <2> HIDE DEF q
  <2>3. /\ IsConn(k) /\ k.ev = d.ev /\ k.out = d.out /\ k.role = d.role /\ k.wire = q /\ k.req = d.req
        /\ k.db = d.db /\ k.master = d.master
    BY <1>4 DEF IsConn, ConnFields
  <2> HIDE DEF k
  <2>4. Phase(c) /\ c.ev \in {"sync", "payload"} => Answers(d.wire)
    BY <1>4 DEF Phase
  <2>5. ConnStep(c, k)
    <3> SUFFICES ASSUME Phase(c) PROVE Phase(k)
      BY <1>4, <2>3 DEF ConnStep
    <3>0. Phase(d)
      BY <1>5 DEF ConnStep
    <3>1. CASE d.ev \in {"sync", "payload"}
      BY <1>4, <2>1, <2>3, <2>4, <3>0, <3>1 DEF Phase
    <3>2. CASE d.ev = "none"
      BY <2>3, <3>0, <3>2 DEF Phase
    <3>3. CASE d.ev = "link"
      BY <1>4, <3>3 DEF Phase
    <3> QED
      BY <3>0, <3>1, <3>2, <3>3 DEF Phase
  <2> QED
    BY <2>2, <2>5
<1> QED
  BY <1>3, <1>4, <1>5, <1>6, <1>7 DEF none

\* The slave's end: PING, its answer and SYNC, the snapshot, the commands
LEMMA SlaveSteps ==
    ASSUME NEW c, IsConn(c)
    PROVE  /\ c.ev = "sync" => ConnStep(c, [c EXCEPT !.writable = FALSE, !.req = <<"PING">>])
           /\ c.ev \in {"sync", "link"} /\ c.wire # <<>> => ConnStep(c, [c EXCEPT !.wire = Tail(@)])
           /\ c.ev = "sync" /\ c.role # "closed" =>
                ConnStep(c, [c EXCEPT !.req = Append(@, "SYNC"), !.ev = "payload", !.writable = FALSE])
           /\ c.ev = "payload" /\ c.wire # <<>> /\ Head(c.wire)[1] = "rdb" =>
                ConnStep(c, [c EXCEPT !.wire = Tail(@), !.ev = "link", !.db = 0])
           /\ \A db \in Dbs : ConnStep(c, [c EXCEPT !.db = db])
<1> DEFINE none == <<>>
           ping == <<"PING">>
<1>1. ping \in {none, ping} /\ \A q \in {none, ping} : Append(q, "SYNC") \in AnyRequests
  BY RequestFacts
<1>2. \A q : q \in {<<>>, <<"PING">>} <=> q \in {none, ping}
  OBVIOUS
<1>9. \A q : q # none /\ Answers(q) => Answers(Tail(q))
  BY AnswerWires
<1>10. \A q : q # none /\ Commands(q) => Commands(Tail(q))
  BY CommandWires
<1>11. \A q : q # none /\ Sent(q) /\ Head(q)[1] = "rdb" => Commands(Tail(q)) /\ ~Answers(q)
  BY SentWires
<1>12. ASSUME NEW e, NEW wire PROVE e.wire = wire => [e EXCEPT !.wire = Tail(@)] = [e EXCEPT !.wire = Tail(wire)]
  OBVIOUS
<1> HIDE DEF none, ping
<1>3. ASSUME c.ev = "sync" PROVE ConnStep(c, [c EXCEPT !.writable = FALSE, !.req = ping])
  <2> DEFINE d == [c EXCEPT !.writable = FALSE, !.req = ping]
  <2>1. /\ IsConn(d) /\ d.ev = c.ev /\ d.out = c.out /\ d.role = c.role /\ d.wire = c.wire /\ d.req = ping
        /\ d.db = c.db /\ d.master = c.master
    BY DEF IsConn, ConnFields
  <2> HIDE DEF d
  <2>2. ConnStep(c, d)
    BY <1>1, <1>2, <1>3, <2>1 DEF ConnStep, Phase
  <2> QED
    BY <2>2 DEF d
<1>4. ASSUME c.ev \in {"sync", "link"}, c.wire # none PROVE ConnStep(c, [c EXCEPT !.wire = Tail(@)])
  <2> DEFINE e == Tail(c.wire)
             d == [c EXCEPT !.wire = e]
  <2>1. (Answers(c.wire) => Answers(e)) /\ (Commands(c.wire) => Commands(e))
    BY <1>4, <1>9, <1>10
  <2>2. d = [c EXCEPT !.wire = Tail(@)]
    BY Zenon
  <2> HIDE DEF e
  <2>3. /\ IsConn(d) /\ d.ev = c.ev /\ d.out = c.out /\ d.role = c.role /\ d.wire = e /\ d.req = c.req
        /\ d.db = c.db /\ d.master = c.master
    BY DEF IsConn, ConnFields
  <2> HIDE DEF d
  <2>4. ConnStep(c, d)
    BY <1>4, <2>1, <2>3 DEF ConnStep, Phase
  <2> QED
    BY <2>2, <2>4
<1>5. ASSUME c.ev = "sync", c.role # "closed"
      PROVE  ConnStep(c, [c EXCEPT !.req = Append(@, "SYNC"), !.ev = "payload", !.writable = FALSE])
  <2> DEFINE e == Append(c.req, "SYNC")
             d == [c EXCEPT !.req = e, !.ev = "payload", !.writable = FALSE]
  <2>1. c.req \in {<<>>, <<"PING">>} => e \in AnyRequests
    BY <1>1, <1>2
  <2>2. d = [c EXCEPT !.req = Append(@, "SYNC"), !.ev = "payload", !.writable = FALSE]
    BY Zenon
  <2>5. Answers(c.wire) => Sent(c.wire)
    BY AnswerWires
  <2> HIDE DEF e
  <2>3. /\ IsConn(d) /\ d.ev = "payload" /\ d.out = c.out /\ d.role = c.role /\ d.wire = c.wire /\ d.req = e
        /\ d.db = c.db /\ d.master = c.master
    BY DEF IsConn, ConnFields
  <2> HIDE DEF d
  <2>4. ConnStep(c, d)
    <3>1. Phase(c) => Commands(c.out) /\ c.role = "none" /\ Answers(c.wire) /\ e \in AnyRequests
      BY <1>5, <2>1 DEF Phase
    <3> QED
      BY <2>3, <2>5, <3>1 DEF ConnStep, Phase
  <2> QED
    BY <2>2, <2>4
<1>6. ASSUME c.ev = "payload", c.wire # none, Head(c.wire)[1] = "rdb"
      PROVE  ConnStep(c, [c EXCEPT !.wire = Tail(@), !.ev = "link", !.db = 0])
  <2> DEFINE e == Tail(c.wire)
             d == [c EXCEPT !.wire = e, !.ev = "link", !.db = 0]
  <2>1. Sent(c.wire) => Commands(e) /\ ~Answers(c.wire)
    BY <1>6, <1>11
  <2>2. d = [c EXCEPT !.wire = Tail(@), !.ev = "link", !.db = 0]
    BY Zenon
  <2> HIDE DEF e
  <2>3. /\ IsConn(d) /\ d.ev = "link" /\ d.out = c.out /\ d.role = c.role /\ d.wire = e /\ d.req = c.req
        /\ d.db = 0 /\ d.master = c.master
    BY DEF IsConn, ConnFields
  <2> HIDE DEF d
  <2>4. ConnStep(c, d)
    BY <1>6, <2>1, <2>3, PersistenceAssumption DEF ConnStep, Phase
  <2> QED
    BY <2>2, <2>4
<1>7. ASSUME NEW db \in Dbs PROVE ConnStep(c, [c EXCEPT !.db = db])
  <2> DEFINE d == [c EXCEPT !.db = db]
  <2>1. /\ IsConn(d) /\ d.ev = c.ev /\ d.out = c.out /\ d.role = c.role /\ d.wire = c.wire /\ d.req = c.req
        /\ d.db = db /\ d.master = c.master
    BY DEF IsConn, ConnFields
  <2> HIDE DEF d
  <2>2. ConnStep(c, d)
    BY <2>1 DEF ConnStep, Phase
  <2> QED
    BY <2>2 DEF d
<1> QED
  BY <1>3, <1>4, <1>5, <1>6, <1>7 DEF none, ping

\* The master's end takes a slave, and a snapshot is ready for it
LEMMA RoleSteps ==
    ASSUME NEW c, IsConn(c)
    PROVE  /\ c.role = "none" /\ c.ev \in {"none", "payload"} /\ (c.ev = "payload" => c.req = <<>>) =>
                /\ \A m : m[1] # "rdb" => ConnStep(c, [c EXCEPT !.wire = Append(@, m)])
                /\ \A role \in {"start", "end"} : \A out : Commands(out) =>
                      ConnStep(c, [c EXCEPT !.role = role, !.out = out, !.seldb = 0])
           /\ c.role = "start" => ConnStep(c, [c EXCEPT !.role = "end"])
           /\ c.role = "end" => \A b : ConnStep(c, [c EXCEPT !.role = "bulk", !.bulk = b])
<1>1. ASSUME c.role = "none", c.ev \in {"none", "payload"}, NEW m, m[1] # "rdb"
      PROVE  ConnStep(c, [c EXCEPT !.wire = Append(@, m)])
  <2> DEFINE q == Append(c.wire, m)
             d == [c EXCEPT !.wire = q]
  <2>1. Answers(c.wire) => Answers(q) /\ Sent(q)
    BY <1>1, AnswerWires
  <2>2. d = [c EXCEPT !.wire = Append(@, m)]
    BY Zenon
  <2> HIDE DEF q
  <2>3. /\ IsConn(d) /\ d.ev = c.ev /\ d.out = c.out /\ d.role = c.role /\ d.wire = q /\ d.req = c.req
        /\ d.db = c.db /\ d.master = c.master
    BY DEF IsConn, ConnFields
  <2> HIDE DEF d
  <2>4. ConnStep(c, d)
    BY <1>1, <2>1, <2>3 DEF ConnStep, Phase
  <2> QED
    BY <2>2, <2>4
<1>2. ASSUME c.role = "none", c.ev \in {"none", "payload"}, c.ev = "payload" => c.req = <<>>,
             NEW role \in {"start", "end"}, NEW out, Commands(out)
      PROVE  ConnStep(c, [c EXCEPT !.role = role, !.out = out, !.seldb = 0])
  <2> DEFINE d == [c EXCEPT !.role = role, !.out = out, !.seldb = 0]
  <2>1. /\ IsConn(d) /\ d.ev = c.ev /\ d.out = out /\ d.role = role /\ d.wire = c.wire /\ d.req = c.req
        /\ d.db = c.db /\ d.master = c.master
    BY DEF IsConn, ConnFields
  <2> HIDE DEF d
  <2>2. ConnStep(c, d)
    BY <1>2, <2>1 DEF ConnStep, Phase
  <2> QED
    BY <2>2 DEF d
<1>3. ASSUME c.role = "start" PROVE ConnStep(c, [c EXCEPT !.role = "end"])
  <2> DEFINE d == [c EXCEPT !.role = "end"]
  <2>1. /\ IsConn(d) /\ d.ev = c.ev /\ d.out = c.out /\ d.role = "end" /\ d.wire = c.wire /\ d.req = c.req
        /\ d.db = c.db /\ d.master = c.master
    BY DEF IsConn, ConnFields
  <2> HIDE DEF d
  <2>2. ConnStep(c, d)
    BY <1>3, <2>1 DEF ConnStep, Phase
  <2> QED
    BY <2>2 DEF d
<1>4. ASSUME c.role = "end", NEW b PROVE ConnStep(c, [c EXCEPT !.role = "bulk", !.bulk = b])
  <2> DEFINE d == [c EXCEPT !.role = "bulk", !.bulk = b]
  <2>1. /\ IsConn(d) /\ d.ev = c.ev /\ d.out = c.out /\ d.role = "bulk" /\ d.wire = c.wire /\ d.req = c.req
        /\ d.db = c.db /\ d.master = c.master
    BY DEF IsConn, ConnFields
  <2> HIDE DEF d
  <2>2. ConnStep(c, d)
    BY <1>4, <2>1 DEF ConnStep, Phase
  <2> QED
    BY <2>2 DEF d
<1> QED
  BY <1>1, <1>2, <1>3, <1>4

\* A connection that is opened
Opened(s, m, role) ==
    [Closed EXCEPT !.slave = s, !.master = m, !.ev = "sync", !.writable = TRUE, !.role = role]

LEMMA OpenedPhase ==
    ASSUME NEW s, NEW m, NEW role \in {"none", "closed"}
    PROVE  LET c == Opened(s, m, role) IN IsConn(c) /\ Phase(c) /\ c.role = role /\ c.master = m
<1> DEFINE none == <<>>
           c == Opened(s, m, role)
<1>1. Commands(none) /\ Answers(none) /\ none \in {<<>>, <<"PING">>}
  BY ShortWires
<1>2. IsConn(Closed) /\ Closed.wire = none /\ Closed.req = none /\ Closed.out = none
  BY ClosedPhase DEF Closed
<1> HIDE DEF none
<1>3. IsConn(c) /\ c.role = role /\ c.out = none /\ c.ev = "sync" /\ c.wire = none /\ c.req = none /\ c.master = m
  BY <1>2 DEF Opened, IsConn, ConnFields
<1> HIDE DEF c
<1>4. Phase(c)
  BY <1>1, <1>3 DEF Phase
<1> QED
  BY <1>3, <1>4 DEF c

-----------------------------------------------------------------------------
(***************************************************************************)
(* A handler that keeps the data set of every server, and keeps their      *)
(* files and what goes over the connections sound.                         *)
(***************************************************************************)
Wires(w) ==
    \A f \in Fds : /\ Phase(w.cn[f])
                   /\ w.cn[f].role # "closed" /\ w.cn[f].master \in Servers => w.sv[w.cn[f].master].up

FileStep(v, u, conf, s) ==
    /\ u.up = v.up
    /\ \A T : FileOK(v, T, conf, s) /\ v.data \in T => FileOK(u, T, conf, s) /\ u.data = v.data

Tame(w, u, conf) ==
    /\ IsWorld(u)
    /\ \A s \in Servers : FileStep(w.sv[s], u.sv[s], conf, s)
    /\ Wires(w) => Wires(u)

LEMMA TameSelf ==
    ASSUME NEW w, IsWorld(w), NEW conf
    PROVE  Tame(w, w, conf)
  BY DEF Tame, FileStep

LEMMA FileStepThen ==
    ASSUME NEW v, NEW u, NEW x, NEW conf, NEW s, FileStep(v, u, conf, s), FileStep(u, x, conf, s)
    PROVE  FileStep(v, x, conf, s)
  BY DEF FileStep

LEMMA TameThen ==
    ASSUME NEW w, NEW u, NEW x, NEW conf, Tame(w, u, conf), Tame(u, x, conf)
    PROVE  Tame(w, x, conf)
<1>1. ASSUME NEW s \in Servers PROVE FileStep(w.sv[s], x.sv[s], conf, s)
  BY FileStepThen DEF Tame
<1> QED
  BY <1>1 DEF Tame

LEMMA TameServer ==
    ASSUME NEW w, IsWorld(w), NEW conf, NEW s \in Servers, NEW v, IsServer(v), FileStep(w.sv[s], v, conf, s)
    PROVE  Tame(w, WithServer(w, s, v), conf)
<1> DEFINE u == WithServer(w, s, v)
<1>1. IsWorld(u) /\ u.cn = w.cn /\ u.sv[s] = v /\ \A r \in Servers \ {s} : u.sv[r] = w.sv[r]
  BY PutServer
<1> HIDE DEF u
<1>2. ASSUME NEW r \in Servers PROVE FileStep(w.sv[r], u.sv[r], conf, r)
  <2>1. CASE r = s
    BY <1>1, <2>1
  <2>2. CASE r # s
    BY <1>1, <2>2 DEF FileStep
  <2> QED
    BY <2>1, <2>2
<1>3. \A r \in Servers : u.sv[r].up = w.sv[r].up
  BY <1>2 DEF FileStep
<1>4. Wires(w) => Wires(u)
  BY <1>1, <1>3 DEF Wires
<1> QED
  BY <1>1, <1>2, <1>4 DEF Tame, u

LEMMA TameConns ==
    ASSUME NEW w, IsWorld(w), NEW conf, NEW cn, cn = [f \in Fds |-> cn[f]],
           Wires(w) => \A f \in Fds : ConnStep(w.cn[f], cn[f]), \A f \in Fds : IsConn(cn[f])
    PROVE  Tame(w, WithConns(w, cn), conf) /\ WithConns(w, cn).sv = w.sv
<1> DEFINE u == WithConns(w, cn)
<1>1. u = [sv |-> w.sv, cn |-> cn]
  BY DEF WithConns
<1> HIDE DEF u
<1>2. u.sv = w.sv /\ u.cn = cn
  BY <1>1
<1>3. IsWorld(u)
  BY <1>1, <1>2 DEF IsWorld
<1>4. Wires(w) => Wires(u)
  BY <1>2 DEF Wires, ConnStep
<1> QED
  BY <1>2, <1>3, <1>4 DEF Tame, FileStep, u

LEMMA TameConn ==
    ASSUME NEW w, IsWorld(w), NEW conf, NEW f \in Fds, NEW c, IsConn(c),
           Wires(w) => ConnStep(w.cn[f], c)
    PROVE  LET u == WithConn(w, f, c)
           IN  Tame(w, u, conf) /\ u.sv = w.sv /\ u.cn[f] = c /\ IsWorld(u)
<1> DEFINE u == WithConn(w, f, c)
<1>1. IsWorld(u) /\ u.sv = w.sv /\ u.cn[f] = c /\ \A g \in Fds \ {f} : u.cn[g] = w.cn[g]
  BY PutConn
<1> HIDE DEF u
<1>2. Wires(w) => Wires(u)
  <2> SUFFICES ASSUME Wires(w), NEW g \in Fds
               PROVE  /\ Phase(u.cn[g])
                      /\ u.cn[g].role # "closed" /\ u.cn[g].master \in Servers => u.sv[u.cn[g].master].up
    BY DEF Wires
  <2>1. CASE g = f
    BY <1>1, <2>1 DEF Wires, ConnStep
  <2>2. CASE g # f
    BY <1>1, <2>2 DEF Wires
  <2> QED
    BY <2>1, <2>2
<1> QED
  BY <1>1, <1>2 DEF Tame, FileStep, u

LEMMA SameFilesStep ==
    ASSUME NEW v, NEW u, NEW conf, SameFiles(v, u, conf), NEW s
    PROVE  FileStep(v, u, conf, s)
  BY SameFilesKeep DEF FileStep

LEMMA ServerFileSteps ==
    ASSUME NEW v, IsServer(v), v.up, NEW conf, NEW s
    PROVE  /\ \A forks : FileStep(v, rdbSaveBackground(v, forks), conf, s)
           /\ v.save # <<>> /\ v.save[1].exit # "none" => FileStep(v, backgroundSaveDone(v), conf, s)
           /\ \A t : FileStep(v, flushAppendOnlyFile(v, conf, t), conf, s)
           /\ \A forks : FileStep(v, rewriteAppendOnlyFileBackground(v, forks), conf, s)
           /\ v.rewrite # <<>> => FileStep(v, backgroundRewriteDoneHandler(v, conf), conf, s)
<1>1. ASSUME NEW forks PROVE FileStep(v, rdbSaveBackground(v, forks), conf, s)
  <2>1. SameLink(v, rdbSaveBackground(v, forks))
    BY SnapshotsLink
  <2> QED
    BY <2>1, BgsaveKeeps DEF FileStep, SameLink
<1>2. ASSUME v.save # <<>>, v.save[1].exit # "none" PROVE FileStep(v, backgroundSaveDone(v), conf, s)
  <2>1. SameLink(v, backgroundSaveDone(v))
    BY SnapshotsLink
  <2> QED
    BY <1>2, <2>1, SaveDoneKeeps DEF FileStep, SameLink
<1>3. ASSUME NEW t PROVE FileStep(v, flushAppendOnlyFile(v, conf, t), conf, s)
  <2>1. SameLink(v, flushAppendOnlyFile(v, conf, t))
    BY AppendsLink
  <2>2. ASSUME NEW T, FileOK(v, T, conf, s), v.data \in T
        PROVE  LET u == flushAppendOnlyFile(v, conf, t) IN FileOK(u, T, conf, s) /\ u.data = v.data
    <3>1. LET u == flushAppendOnlyFile(v, conf, t) IN u.data = v.data
      <4>1. SameSave(v, flushAppendOnlyFile(v, conf, t))
        BY FlushFacts DEF Flushed
      <4> QED
        BY <4>1 DEF SameSave
    <3>2. LET u == flushAppendOnlyFile(v, conf, t) IN v.data \in T => FileOK(u, T, conf, s)
      BY <2>2, FlushKeeps
    <3> QED
      BY <2>2, <3>1, <3>2
  <2> QED
    BY <2>1, <2>2 DEF FileStep, SameLink
<1>4. ASSUME NEW forks PROVE FileStep(v, rewriteAppendOnlyFileBackground(v, forks), conf, s)
  <2>1. SameLink(v, rewriteAppendOnlyFileBackground(v, forks))
    BY AppendsLink
  <2> QED
    BY <2>1, RewriteKeeps DEF FileStep, SameLink
<1>5. ASSUME v.rewrite # <<>> PROVE FileStep(v, backgroundRewriteDoneHandler(v, conf), conf, s)
  <2>1. SameLink(v, backgroundRewriteDoneHandler(v, conf))
    BY AppendsLink
  <2> QED
    BY <1>5, <2>1, RewriteDoneKeeps DEF FileStep, SameLink
<1> QED
  BY <1>1, <1>2, <1>3, <1>4, <1>5

-----------------------------------------------------------------------------
(* The master's handlers.                                                   *)

LEMMA FeedTame ==
    ASSUME NEW w, IsWorld(w), NEW s \in Servers, NEW db \in Dbs, NEW c, IsCommand(c), NEW conf
    PROVE  LET u == replicationFeedSlaves(w, s, db, c) IN Tame(w, u, conf) /\ u.sv = w.sv
<1> DEFINE Fed(k) == [k EXCEPT !.seldb = db, !.out = @ \o IF k.seldb = db THEN <<c>> ELSE <<Select(db), c>>]
           next == [f \in Fds |-> IF f \in SlavesOf(w, s) /\ w.cn[f].role # "start"
                                  THEN Fed(w.cn[f]) ELSE w.cn[f]]
<1>1. replicationFeedSlaves(w, s, db, c) = WithConns(w, next)
  BY Zenon, Changes DEF replicationFeedSlaves
<1>2. next = [f \in Fds |-> next[f]]
  BY Zenon
<1>3. ASSUME NEW f \in Fds PROVE ConnStep(w.cn[f], next[f])
  <2>1. next[f] \in {Fed(w.cn[f]), w.cn[f]}
    BY Zenon
  <2>2. IsConn(w.cn[f])
    BY SameFacts
  <2>3. ConnStep(w.cn[f], Fed(w.cn[f])) /\ ConnStep(w.cn[f], w.cn[f])
    BY <2>2, FedStep, CloseSteps
  <2> HIDE DEF next, Fed
  <2> QED
    BY <2>1, <2>3
<1> HIDE DEF next
<1> QED
  BY <1>1, <1>2, <1>3, TameConns DEF ConnStep

LEMMA CloseMasterTame ==
    ASSUME NEW w, IsWorld(w), NEW fs, NEW conf
    PROVE  Tame(w, CloseMasterEnds(w, fs), conf) /\ CloseMasterEnds(w, fs).sv = w.sv
<1> DEFINE next == [f \in Fds |-> IF f \in fs THEN Freed([w.cn[f] EXCEPT !.role = "closed"]) ELSE w.cn[f]]
<1>1. CloseMasterEnds(w, fs) = WithConns(w, next)
  BY Zenon, Changes DEF CloseMasterEnds
<1>2. next = [f \in Fds |-> next[f]]
  BY Zenon
<1>3. ASSUME NEW f \in Fds PROVE ConnStep(w.cn[f], next[f])
  <2>1. next[f] \in {w.cn[f], Freed([w.cn[f] EXCEPT !.role = "closed"])}
    BY Zenon
  <2> HIDE DEF next
  <2> QED
    BY <2>1, CloseSteps, SameFacts
<1> HIDE DEF next
<1> QED
  BY <1>1, <1>2, <1>3, TameConns DEF ConnStep

LEMMA SyncCommandTame ==
    ASSUME NEW w, IsWorld(w), NEW f \in Fds, NEW forks, NEW conf, NEW s, s = w.cn[f].master,
           w.cn[f].role = "none" => w.cn[f].ev \in {"none", "payload"},
           w.cn[f].role = "none" /\ w.cn[f].ev = "payload" => w.cn[f].req = <<>>,
           Wires(w)
    PROVE  Tame(w, syncCommand(w, s, f, forks), conf)
<1> DEFINE none == <<>>
           Role(r, out) == [w EXCEPT !.cn[f] = [@ EXCEPT !.role = r, !.out = out, !.seldb = 0]]
           error == [w EXCEPT !.cn[f].wire = Append(@, <<"error">>)]
           Forked == [Role("end", none) EXCEPT !.sv[s] = rdbSaveBackground(@, TRUE)]
           waiting == {g \in SlavesOf(w, s) : w.cn[g].role = "end"}
<1>0. IsConn(w.cn[f])
  BY SameFacts
<1>1. \/ w.cn[f].role # "none" /\ syncCommand(w, s, f, forks) = w
      \/ /\ w.cn[f].role = "none"
         /\ \/ syncCommand(w, s, f, forks) \in {error, Role("start", none), Forked}
            \/ waiting # {} /\ syncCommand(w, s, f, forks) = Role("end", w.cn[Min(waiting)].out)
  BY Zenon DEF syncCommand
<1>2. CASE w.cn[f].role # "none" /\ syncCommand(w, s, f, forks) = w
  BY <1>2, TameSelf
<1>3. ASSUME w.cn[f].role = "none", NEW r \in {"start", "end"}, NEW out, Commands(out)
      PROVE  Tame(w, Role(r, out), conf) /\ Role(r, out).sv = w.sv /\ Role(r, out).cn[f].master = s
  <2> DEFINE c == [w.cn[f] EXCEPT !.role = r, !.out = out, !.seldb = 0]
  <2>0. \A role \in {"start", "end"} : \A x : Commands(x) =>
           ConnStep(w.cn[f], [w.cn[f] EXCEPT !.role = role, !.out = x, !.seldb = 0])
    BY Zenon, <1>0, <1>3, RoleSteps
  <2>1. ConnStep(w.cn[f], c) /\ IsConn(c)
    BY Zenon, <1>3, <2>0 DEF ConnStep
  <2>2. Role(r, out) = WithConn(w, f, c)
    BY Shape DEF WithConn
  <2>3. c.master = s
    BY <1>0 DEF IsConn, ConnFields
  <2> HIDE DEF c, Role
  <2> QED
    BY <2>1, <2>2, <2>3, TameConn
<1>4. Commands(none)
  BY ShortWires
<1>5. waiting # {} => Commands(w.cn[Min(waiting)].out)
  <2> SUFFICES ASSUME waiting # {} PROVE Commands(w.cn[Min(waiting)].out)
    OBVIOUS
  <2>1. waiting \subseteq Fds
    BY DEF SlavesOf
  <2> HIDE DEF waiting
  <2>2. Min(waiting) \in Fds
    BY <2>1, LowestOfAny
  <2> QED
    BY <2>2 DEF Wires, Phase
<1> HIDE DEF none
<1>6. ASSUME w.cn[f].role = "none" PROVE Tame(w, error, conf)
  <2> DEFINE m == <<"error">>
             c == [w.cn[f] EXCEPT !.wire = Append(@, m)]
  <2>0. m[1] # "rdb"
    OBVIOUS
  <2>2. error = [w EXCEPT !.cn[f] = c]
    BY Zenon
  <2> HIDE DEF m
  <2>1. ConnStep(w.cn[f], c) /\ IsConn(c)
    BY <1>0, <1>6, <2>0, RoleSteps DEF ConnStep
  <2> HIDE DEF c, error
  <2>3. error = WithConn(w, f, c)
    BY <2>2, Shape DEF WithConn
  <2> QED
    BY <2>1, <2>3, TameConn
<1>7. ASSUME w.cn[f].role = "none" PROVE Tame(w, Forked, conf)
  <2> DEFINE u == Role("end", none)
  <2>1. Tame(w, u, conf) /\ IsWorld(u) /\ u.sv = w.sv
    BY <1>3, <1>4, <1>7 DEF Tame
  <2>0. Forked = [u EXCEPT !.sv[s] = rdbSaveBackground(u.sv[s], TRUE)]
    BY Zenon
  <2> HIDE DEF u, Forked, Role
  <2>2. Forked = WithServer(u, s, rdbSaveBackground(u.sv[s], TRUE))
    <3> DEFINE v == rdbSaveBackground(u.sv[s], TRUE)
    <3>1. [u EXCEPT !.sv[s] = v] = WithServer(u, s, v)
      <4> HIDE DEF v
      <4> QED
        BY <2>1, Changes
    <3> QED
      BY Zenon, <2>0, <3>1
  <2>3. CASE s \in Servers
    <3>1. u.sv[s].up /\ IsServer(u.sv[s])
      BY <1>7, <2>1, <2>3, SameFacts DEF Wires
    <3>2. SameLink(u.sv[s], rdbSaveBackground(u.sv[s], TRUE))
      BY <3>1, SnapshotsLink
    <3>3. FileStep(u.sv[s], rdbSaveBackground(u.sv[s], TRUE), conf, s)
      BY <3>1, ServerFileSteps
    <3>4. Tame(u, Forked, conf)
      BY <2>1, <2>2, <2>3, <3>2, <3>3, TameServer DEF SameLink
    <3> QED
      BY <2>1, <3>4, TameThen
  <2>4. CASE s \notin Servers
    <3>1. [u.sv EXCEPT ![s] = rdbSaveBackground(u.sv[s], TRUE)] = u.sv
      BY <2>1, <2>4 DEF IsWorld
    <3>2. Forked = u
      BY <2>1, <2>2, <3>1, Shape DEF WithServer
    <3> QED
      BY <2>1, <3>2
  <2> QED
    BY <2>3, <2>4
<1> HIDE DEF Role, error, Forked, waiting
<1> QED
  BY <1>1, <1>2, <1>3, <1>4, <1>5, <1>6, <1>7

LEMMA SaveDoneTame ==
    ASSUME NEW w, IsWorld(w), NEW s \in Servers, NEW forks, NEW conf, w.sv[s].up,
           w.sv[s].save # <<>>, w.sv[s].save[1].exit # "none"
    PROVE  Tame(w, backgroundSaveDoneHandler(w, s, forks), conf)
<1>1. ASSUME NEW u, IsWorld(u), NEW ok, u.sv[s].up PROVE Tame(u, updateSlavesWaitingBgsave(u, s, ok, forks), conf)
  <2> DEFINE Next1(c) == IF c.role = "start" THEN [c EXCEPT !.role = "end"]
                         ELSE IF c.role # "end" THEN c
                         ELSE IF ok /\ u.sv[s].rdb # <<>>
                         THEN [c EXCEPT !.role = "bulk", !.bulk = u.sv[s].rdb]
                         ELSE Freed([c EXCEPT !.role = "closed"])
             next == [f \in Fds |-> IF f \in SlavesOf(u, s) THEN Next1(u.cn[f]) ELSE u.cn[f]]
             moved == WithConns(u, next)
  <2>0. moved = [u EXCEPT !.cn = [f \in Fds |-> IF f \in SlavesOf(u, s) THEN Next1(@[f]) ELSE @[f]]]
    BY Zenon, <1>1, Changes
  <2>1. \/ updateSlavesWaitingBgsave(u, s, ok, forks) = moved
        \/ updateSlavesWaitingBgsave(u, s, ok, forks) =
               [moved EXCEPT !.sv[s] = rdbSaveBackground(@, forks)]
    BY <2>0, Zenon DEF updateSlavesWaitingBgsave, Server
  <2>2. next = [f \in Fds |-> next[f]]
    BY Zenon
  <2>3. ASSUME NEW f \in Fds PROVE ConnStep(u.cn[f], next[f])
    <3>1. next[f] = IF f \in SlavesOf(u, s) THEN Next1(u.cn[f]) ELSE u.cn[f]
      BY <2>3, Zenon
    <3>2. IsConn(u.cn[f])
      BY <1>1, <2>3, SameFacts
    <3>3. u.cn[f].role = "start" => ConnStep(u.cn[f], [u.cn[f] EXCEPT !.role = "end"])
      BY <3>2, RoleSteps, Zenon
    <3>4. u.cn[f].role = "end" => ConnStep(u.cn[f], [u.cn[f] EXCEPT !.role = "bulk", !.bulk = u.sv[s].rdb])
      BY <3>2, RoleSteps, Zenon
    <3>5. ConnStep(u.cn[f], Freed([u.cn[f] EXCEPT !.role = "closed"])) /\ ConnStep(u.cn[f], u.cn[f])
      BY <3>2, CloseSteps
    <3> HIDE DEF next
    <3> QED
      BY <3>1, <3>3, <3>4, <3>5
  <2> HIDE DEF next
  <2>4. Tame(u, moved, conf) /\ moved.sv = u.sv
    BY <1>1, <2>2, <2>3, TameConns DEF ConnStep
  <2> HIDE DEF moved
  <2>5. Tame(moved, [moved EXCEPT !.sv[s] = rdbSaveBackground(@, forks)], conf)
    <3>1. IsWorld(moved) /\ IsServer(moved.sv[s]) /\ moved.sv[s].up
      BY <1>1, <2>4, SameFacts DEF Tame
    <3>2. /\ SameLink(moved.sv[s], rdbSaveBackground(moved.sv[s], forks))
          /\ FileStep(moved.sv[s], rdbSaveBackground(moved.sv[s], forks), conf, s)
      BY <3>1, SnapshotsLink, ServerFileSteps
    <3>3. [moved EXCEPT !.sv[s] = rdbSaveBackground(@, forks)] =
             WithServer(moved, s, rdbSaveBackground(moved.sv[s], forks))
      BY <3>1, Shape DEF WithServer
    <3> QED
      BY <3>1, <3>2, <3>3, TameServer DEF SameLink
  <2> QED
    BY <2>1, <2>4, <2>5, TameThen
<1> DEFINE done == WithServer(w, s, backgroundSaveDone(w.sv[s]))
<1>2. Tame(w, done, conf) /\ IsWorld(done) /\ done.sv[s].up
  <2>1. IsServer(w.sv[s])
    BY SameFacts
  <2>2. SameLink(w.sv[s], backgroundSaveDone(w.sv[s])) /\ FileStep(w.sv[s], backgroundSaveDone(w.sv[s]), conf, s)
    BY <2>1, SnapshotsLink, ServerFileSteps
  <2>3. Tame(w, done, conf)
    BY <2>2, TameServer DEF SameLink
  <2> QED
    BY <2>3 DEF Tame, FileStep
<1>3. backgroundSaveDoneHandler(w, s, forks) =
         updateSlavesWaitingBgsave(done, s, w.sv[s].save[1].exit \in {"ok", "killed"}, forks)
  BY Shape DEF backgroundSaveDoneHandler, Server, WithServer
<1> HIDE DEF done
<1> QED
  BY <1>1, <1>2, <1>3, TameThen

-----------------------------------------------------------------------------
(* The slave's handlers.                                                    *)

LEMMA CloseSlaveTame ==
    ASSUME NEW w, IsWorld(w), NEW f, NEW conf
    PROVE  LET u == CloseSlaveEnd(w, f) IN Tame(w, u, conf) /\ u.sv = w.sv /\ IsWorld(u)
<1> DEFINE c == Freed([w.cn[f] EXCEPT !.ev = "none", !.writable = FALSE])
           u == CloseSlaveEnd(w, f)
<1>1. CASE f = 0
  BY <1>1, TameSelf DEF CloseSlaveEnd
<1>2. f # 0 => u = WithConn(w, f, c)
  BY Shape DEF CloseSlaveEnd, WithConn
<1>3. CASE f # 0 /\ f \in Fds
  <2>1. ConnStep(w.cn[f], c) /\ IsConn(c)
    BY <1>3, SameFacts, CloseSteps DEF ConnStep
  <2> HIDE DEF c, u
  <2>2. Tame(w, u, conf) /\ u.sv = w.sv /\ IsWorld(u)
    BY <1>2, <1>3, <2>1, TameConn
  <2> QED
    BY <2>2 DEF u
<1>4. CASE f # 0 /\ f \notin Fds
  <2> HIDE DEF c, u
  <2>1. [w.cn EXCEPT ![f] = c] = w.cn
    BY <1>4 DEF IsWorld
  <2>2. u = w
    BY <1>2, <1>4, <2>1, Shape DEF WithConn
  <2> QED
    BY <2>2, TameSelf DEF u
<1> QED
  BY <1>1, <1>3, <1>4

\* A server of a world is replaced by one that has the same files
LEMMA TameFields ==
    ASSUME NEW w, IsWorld(w), NEW conf, NEW s \in Servers, NEW v, SameFiles(w.sv[s], v, conf)
    PROVE  LET u == WithServer(w, s, v) IN Tame(w, u, conf) /\ IsWorld(u) /\ u.sv[s] = v
<1>1. IsServer(v) /\ FileStep(w.sv[s], v, conf, s)
  BY SameFilesStep DEF SameFiles
<1>2. Tame(w, WithServer(w, s, v), conf)
  BY <1>1, TameServer
<1>3. WithServer(w, s, v).sv[s] = v
  BY <1>1, PutServer
<1> QED
  BY <1>2, <1>3 DEF Tame

LEMMA LinkFields ==
    ASSUME NEW w, IsWorld(w), NEW conf, NEW s \in Servers
    PROVE  LET v == w.sv[s]
           IN  /\ SameFiles(v, Late(v), conf) /\ SameFiles(v, Undone(v), conf)
               /\ SameFiles(v, Refusing(v), conf) /\ SameFiles(v, Parted(v), conf)
<1> DEFINE v == w.sv[s]
<1>1. IsServer(v)
  BY SameFacts
<1> HIDE DEF v
<1>2. SameFiles(v, Late(v), conf) /\ SameFiles(v, Undone(v), conf)
  BY <1>1, SameFilesFields DEF Late, Undone
<1>3. SameFiles(v, Refusing(v), conf) /\ SameFiles(v, Parted(v), conf)
  BY <1>1, SameFilesFields DEF Refusing, Parted
<1> QED
  BY <1>2, <1>3 DEF v

LEMMA StopTame ==
    ASSUME NEW w, IsWorld(w), NEW s \in Servers, NEW conf
    PROVE  /\ Tame(w, replicationAbortSyncTransfer(w, s), conf)
           /\ Tame(w, undoConnectWithMaster(w, s), conf)
           /\ \A f : Tame(w, Failed(w, s, f), conf)
<1>1. ASSUME NEW f
      PROVE  LET x == CloseSlaveEnd(w, f)
             IN  /\ Tame(w, x, conf) /\ IsWorld(x)
                 /\ Tame(w, WithServer(x, s, Late(x.sv[s])), conf)
                 /\ Tame(w, WithServer(x, s, Undone(x.sv[s])), conf)
                 /\ Tame(w, WithServer(x, s, Refusing(x.sv[s])), conf)
  <2> DEFINE x == CloseSlaveEnd(w, f)
  <2>1. Tame(w, x, conf) /\ IsWorld(x)
    BY CloseSlaveTame
  <2> HIDE DEF x
  <2>2. /\ Tame(x, WithServer(x, s, Late(x.sv[s])), conf)
        /\ Tame(x, WithServer(x, s, Undone(x.sv[s])), conf)
        /\ Tame(x, WithServer(x, s, Refusing(x.sv[s])), conf)
    BY <2>1, LinkFields, TameFields
  <2>3. /\ Tame(w, WithServer(x, s, Late(x.sv[s])), conf)
        /\ Tame(w, WithServer(x, s, Undone(x.sv[s])), conf)
        /\ Tame(w, WithServer(x, s, Refusing(x.sv[s])), conf)
    BY <2>1, <2>2, TameThen
  <2> QED
    BY <2>1, <2>3 DEF x
<1>2. Tame(w, replicationAbortSyncTransfer(w, s), conf)
  <2> DEFINE x == CloseSlaveEnd(w, w.sv[s].fd)
  <2>1. IsWorld(x) /\ Tame(w, WithServer(x, s, Late(x.sv[s])), conf)
    BY <1>1
  <2>2. replicationAbortSyncTransfer(w, s) = [x EXCEPT !.sv[s].repl = "connect"]
    BY DEF replicationAbortSyncTransfer, Server
  <2> HIDE DEF x
  <2>3. replicationAbortSyncTransfer(w, s) = WithServer(x, s, Late(x.sv[s]))
    BY <2>1, <2>2, Shape DEF WithServer, Late
  <2> QED
    BY <2>1, <2>3
<1>3. Tame(w, undoConnectWithMaster(w, s), conf)
  <2> DEFINE x == CloseSlaveEnd(w, w.sv[s].fd)
  <2>1. IsWorld(x) /\ Tame(w, WithServer(x, s, Undone(x.sv[s])), conf)
    BY <1>1
  <2>2. undoConnectWithMaster(w, s) = UndoneIn(x, s)
    BY DEF undoConnectWithMaster, Server, UndoneIn
  <2> HIDE DEF x
  <2> QED
    BY <2>1, <2>2, InWorld
<1>4. ASSUME NEW f PROVE Tame(w, Failed(w, s, f), conf)
  <2> DEFINE x == CloseSlaveEnd(w, f)
  <2>1. IsWorld(x) /\ Tame(w, WithServer(x, s, Refusing(x.sv[s])), conf)
    BY <1>1
  <2>2. Failed(w, s, f) = RefusingIn(x, s)
    BY DEF Failed, RefusingIn
  <2> HIDE DEF x
  <2> QED
    BY <2>1, <2>2, InWorld
<1> QED
  BY <1>2, <1>3, <1>4

LEMMA FreeTame ==
    ASSUME NEW w, IsWorld(w), NEW s \in Servers, NEW conf
    PROVE  Tame(w, FreeMaster(w, s), conf)
<1> DEFINE x == CloseSlaveEnd(w, w.sv[s].master)
           freed == PartedIn(x, s)
<1>1. FreeMaster(w, s) \in {w, freed, disconnectSlaves(freed, s)}
  BY DEF FreeMaster, Server, PartedIn
<1>2. Tame(w, x, conf) /\ IsWorld(x)
  BY CloseSlaveTame
<1> HIDE DEF x
<1>3. freed = WithServer(x, s, Parted(x.sv[s]))
  BY <1>2, InWorld
<1> HIDE DEF freed
<1>4. Tame(x, freed, conf)
  BY <1>2, <1>3, LinkFields, TameFields
<1>5. Tame(w, freed, conf) /\ IsWorld(freed)
  BY <1>2, <1>4, TameThen DEF Tame
<1>6. Tame(w, disconnectSlaves(freed, s), conf)
  BY <1>5, CloseMasterTame, TameThen DEF disconnectSlaves
<1> QED
  BY <1>1, <1>5, <1>6, TameSelf

LEMMA ConnectTame ==
    ASSUME NEW w, IsWorld(w), NEW s \in Servers, NEW conf
    PROVE  Tame(w, connectWithMaster(w, s), conf)
<1> DEFINE free == {f \in Fds : w.cn[f] = Closed}
           f == Min(free)
           m == Server(w, s).host
           role == IF Server(w, m).up THEN "none" ELSE "closed"
           c == Opened(s, m, role)
           v1 == [w.sv[s] EXCEPT !.fd = f]
           v == [v1 EXCEPT !.repl = "connecting"]
           x1 == WithServer(w, s, v1)
           x == WithServer(x1, s, v)
           u == [[w EXCEPT !.sv[s].fd = f, !.sv[s].repl = "connecting"] EXCEPT !.cn[f] = c]
<1>1. connectWithMaster(w, s) = IF free = {} THEN w ELSE u
  BY DEF connectWithMaster, Opened
<1>2. CASE free = {}
  BY <1>1, <1>2, TameSelf
<1>3. CASE free # {}
  <2>1. f \in Fds
    BY <1>3, LowestOfAny
  <2>2. IsConn(c) /\ Phase(c) /\ c.role = role /\ c.master = m
    <3>1. role \in {"none", "closed"}
      OBVIOUS
    <3> HIDE DEF role, m
    <3> QED
      BY <3>1, OpenedPhase
  <2>3. c.role # "closed" => w.sv[m].up
    BY <2>2 DEF Server
  <2>4. [w EXCEPT !.sv[s].fd = f] = x1
    BY Shape DEF WithServer
  <2>5. u = [[x1 EXCEPT !.sv[s].repl = "connecting"] EXCEPT !.cn[f] = c]
    BY <2>4
  <2> HIDE DEF f, c, role, m, u
  <2>6. IsServer(w.sv[s])
    BY SameFacts
  <2>7. SameFiles(w.sv[s], v, conf)
    BY <2>6, SameFilesFields
  <2>8. IsServer(v1)
    BY <2>6 DEF IsServer, ServerFields
  <2>9. v = [v1 EXCEPT !.repl = "connecting"] /\ x = WithServer(x1, s, v) /\ x1 = WithServer(w, s, v1)
    OBVIOUS
  <2> HIDE DEF v, v1, x, x1
  <2>10. IsWorld(x1) /\ x1.sv[s] = v1
    BY <2>8, <2>9, PutServer
  <2>11. [x1 EXCEPT !.sv[s].repl = "connecting"] = x
    BY <2>9, <2>10, Shape DEF WithServer
  <2>12. x = WithServer(w, s, v)
    BY <2>9, Twice
  <2>13. Tame(w, x, conf) /\ IsWorld(x)
    BY <2>7, <2>12, TameFields
  <2>14. u = WithConn(x, f, c)
    <3>1. u = [x EXCEPT !.cn[f] = c]
      BY <2>5, <2>11
    <3> QED
      BY <2>13, <3>1, Shape DEF WithConn
  <2>15. IsWorld(u) /\ u.sv = x.sv /\ u.cn[f] = c /\ \A g \in Fds \ {f} : u.cn[g] = x.cn[g]
    BY <2>1, <2>2, <2>13, <2>14, PutConn
  <2>16. \A r \in Servers : x.sv[r].up = w.sv[r].up
    BY <2>13 DEF Tame, FileStep
  <2>17. Wires(w) => Wires(u)
    <3> SUFFICES ASSUME Wires(w), NEW g \in Fds
                 PROVE  /\ Phase(u.cn[g])
                        /\ u.cn[g].role # "closed" /\ u.cn[g].master \in Servers => u.sv[u.cn[g].master].up
      BY DEF Wires
    <3>1. CASE g = f
      BY <2>2, <2>3, <2>15, <2>16, <3>1
    <3>2. CASE g # f
      BY <2>13, <2>15, <3>2 DEF Wires, Tame
    <3> QED
      BY <3>1, <3>2
  <2>18. Tame(w, u, conf)
    BY <2>13, <2>15, <2>17 DEF Tame
  <2> QED
    BY <1>1, <1>3, <2>18
<1> QED
  BY <1>2, <1>3

LEMMA CronTame ==
    ASSUME NEW w, IsWorld(w), NEW s \in Servers, NEW t, NEW conf
    PROVE  Tame(w, replicationCron(w, s, t), conf)
<1> DEFINE late == IF Server(w, s).host = 0 \/ ~t.late THEN w
                   ELSE IF Server(w, s).repl \in {"connecting", "pong"} THEN undoConnectWithMaster(w, s)
                   ELSE IF Server(w, s).repl = "transfer" THEN replicationAbortSyncTransfer(w, s)
                   ELSE IF Server(w, s).repl = "connected" THEN FreeMaster(w, s)
                   ELSE w
<1>1. replicationCron(w, s, t) \in {w, late, connectWithMaster(late, s)}
  BY Zenon DEF replicationCron
<1>2. late \in {w, FreeMaster(w, s), undoConnectWithMaster(w, s), replicationAbortSyncTransfer(w, s)}
  BY Zenon
<1> HIDE DEF late
<1>3. Tame(w, late, conf) /\ IsWorld(late)
  BY <1>2, TameSelf, FreeTame, StopTame DEF Tame
<1>4. Tame(w, connectWithMaster(late, s), conf)
  BY <1>3, ConnectTame, TameThen
<1> QED
  BY <1>1, <1>3, <1>4, TameSelf

\* A server does something of its own
LEMMA OwnTame ==
    ASSUME NEW w, IsWorld(w), NEW s \in Servers, NEW conf, NEW v, SameLink(w.sv[s], v),
           FileStep(w.sv[s], v, conf, s), w.sv[s].up
    PROVE  LET u == [w EXCEPT !.sv[s] = v] IN Tame(w, u, conf) /\ IsWorld(u) /\ u.sv[s] = v /\ v.up
<1>1. [w EXCEPT !.sv[s] = v] = WithServer(w, s, v)
  BY Changes
<1>2. IsServer(v) /\ v.up
  BY DEF SameLink
<1>3. Tame(w, WithServer(w, s, v), conf)
  BY <1>2, TameServer
<1>4. WithServer(w, s, v).sv[s] = v
  BY <1>2, PutServer
<1> QED
  BY <1>1, <1>2, <1>3, <1>4 DEF Tame

LEMMA ServerCronTame ==
    ASSUME NEW w, IsWorld(w), NEW s \in Servers, w.sv[s].up, NEW conf, NEW t
    PROVE  Tame(w, serverCron(w, s, conf, t), conf)
<1> DEFINE Own(x, v) == [x EXCEPT !.sv[s] = v]
           started == Own(w, StartScheduled(w.sv[s], t))
           reaped == Reap(started, s, conf, t)
           saved == Own(started, SaveOrRewrite(started.sv[s], conf, t))
           Caught(v) == IF v.postponed THEN flushAppendOnlyFile(v, conf, t) ELSE v
           Then(x) == Own(x, Caught(x.sv[s]))
<1>1. ASSUME NEW x, IsWorld(x), x.sv[s].up, NEW v, SameLink(x.sv[s], v), FileStep(x.sv[s], v, conf, s)
      PROVE  Tame(x, Own(x, v), conf) /\ IsWorld(Own(x, v)) /\ Own(x, v).sv[s].up
  BY <1>1, OwnTame
<1>2. serverCron(w, s, conf, t) \in {replicationCron(Then(reaped), s, t), replicationCron(Then(saved), s, t)}
  BY Zenon DEF serverCron, Server
<1>7. \A v : IsServer(v) => SameLink(v, v) /\ FileStep(v, v, conf, s)
  BY DEF SameLink, FileStep
<1>3. ASSUME NEW x, IsWorld(x), x.sv[s].up
      PROVE  Tame(x, Then(x), conf) /\ IsWorld(Then(x)) /\ Then(x).sv[s].up
  <2>1. IsServer(x.sv[s])
    BY <1>3, SameFacts
  <2>2. SameLink(x.sv[s], Caught(x.sv[s])) /\ FileStep(x.sv[s], Caught(x.sv[s]), conf, s)
    BY <1>3, <1>7, <2>1, AppendsLink, ServerFileSteps
  <2> HIDE DEF Caught, Own
  <2> QED
    BY <1>1, <1>3, <2>2
<1>4. Tame(w, started, conf) /\ IsWorld(started) /\ started.sv[s].up
  <2>1. IsServer(w.sv[s])
    BY SameFacts
  <2>2. /\ SameLink(w.sv[s], StartScheduled(w.sv[s], t))
        /\ FileStep(w.sv[s], StartScheduled(w.sv[s], t), conf, s)
    BY <1>7, <2>1, AppendsLink, ServerFileSteps DEF StartScheduled
  <2> HIDE DEF Own
  <2> QED
    BY <1>1, <2>2
<1> HIDE DEF started
<1>5. IsServer(started.sv[s])
  BY <1>4, SameFacts
<1>6. Tame(started, saved, conf) /\ IsWorld(saved) /\ saved.sv[s].up
  <2> DEFINE v == IF conf.saveparams /\ started.sv[s].dirty > 0 /\ t.save
                  THEN rdbSaveBackground(started.sv[s], t.forks) ELSE started.sv[s]
  <2>1. SameLink(started.sv[s], v) /\ FileStep(started.sv[s], v, conf, s)
    BY <1>4, <1>5, <1>7, SnapshotsLink, ServerFileSteps
  <2>2. SaveOrRewrite(started.sv[s], conf, t) \in {v, rewriteAppendOnlyFileBackground(v, t.forks)}
    BY Zenon DEF SaveOrRewrite
  <2> HIDE DEF v
  <2>3. v.up /\ IsServer(v)
    BY <1>4, <2>1 DEF SameLink
  <2>4. /\ SameLink(v, rewriteAppendOnlyFileBackground(v, t.forks))
        /\ FileStep(v, rewriteAppendOnlyFileBackground(v, t.forks), conf, s)
    BY <2>3, AppendsLink, ServerFileSteps
  <2>5. /\ SameLink(started.sv[s], rewriteAppendOnlyFileBackground(v, t.forks))
        /\ FileStep(started.sv[s], rewriteAppendOnlyFileBackground(v, t.forks), conf, s)
    BY <2>1, <2>4, FileStepThen DEF SameLink
  <2> DEFINE k == SaveOrRewrite(started.sv[s], conf, t)
  <2>6. SameLink(started.sv[s], k) /\ FileStep(started.sv[s], k, conf, s)
    BY <2>1, <2>2, <2>5
  <2> HIDE DEF k, Own
  <2> QED
    BY <1>1, <1>4, <2>6 DEF k
<1>8. Tame(started, reaped, conf) /\ IsWorld(reaped) /\ reaped.sv[s].up
  <2>1. \/ reaped = started
        \/ /\ started.sv[s].save # <<>> /\ started.sv[s].save[1].exit # "none"
           /\ reaped = backgroundSaveDoneHandler(started, s, t.forks)
        \/ /\ started.sv[s].rewrite # <<>>
           /\ reaped = Own(started, backgroundRewriteDoneHandler(started.sv[s], conf))
    BY Zenon DEF Reap, Server, Running
  <2> HIDE DEF Own, reaped
  <2>2. CASE reaped = started
    BY <1>4, <2>2, TameSelf
  <2>3. CASE /\ started.sv[s].save # <<>> /\ started.sv[s].save[1].exit # "none"
             /\ reaped = backgroundSaveDoneHandler(started, s, t.forks)
    <3>1. Tame(started, reaped, conf)
      BY <1>4, <2>3, SaveDoneTame
    <3> QED
      BY <1>4, <3>1 DEF Tame, FileStep
  <2>4. CASE /\ started.sv[s].rewrite # <<>>
             /\ reaped = Own(started, backgroundRewriteDoneHandler(started.sv[s], conf))
    <3>1. /\ SameLink(started.sv[s], backgroundRewriteDoneHandler(started.sv[s], conf))
          /\ FileStep(started.sv[s], backgroundRewriteDoneHandler(started.sv[s], conf), conf, s)
      BY <1>4, <1>5, <2>4, AppendsLink, ServerFileSteps
    <3> QED
      BY <1>1, <1>4, <2>4, <3>1
  <2> QED
    BY <2>1, <2>2, <2>3, <2>4
<1> HIDE DEF saved, reaped, Then, Own
<1>9. ASSUME NEW x \in {saved, reaped} PROVE Tame(w, replicationCron(Then(x), s, t), conf)
  <2>1. Tame(started, x, conf) /\ IsWorld(x) /\ x.sv[s].up
    BY <1>6, <1>8, <1>9
  <2>2. Tame(x, Then(x), conf) /\ IsWorld(Then(x))
    BY <1>3, <2>1
  <2>3. Tame(Then(x), replicationCron(Then(x), s, t), conf)
    BY <2>2, CronTame
  <2> QED
    BY <1>4, <2>1, <2>2, <2>3, TameThen
<1> QED
  BY <1>2, <1>9

LEMMA SlaveofTame ==
    ASSUME NEW w, IsWorld(w), NEW s \in Servers, NEW host, NEW conf, ~Counts(conf)
    PROVE  Tame(w, slaveofCommand(w, s, host), conf)
<1> DEFINE v == w.sv[s]
           v0 == [v EXCEPT !.host = host]
           w0 == [w EXCEPT !.sv[s].host = host]
           moved == FreeMaster(w0, s)
           stop(x) == IF v.repl = "transfer" THEN replicationAbortSyncTransfer(x, s)
                      ELSE IF v.repl \in {"connecting", "pong"} /\ host = 0 THEN undoConnectWithMaster(x, s)
                      ELSE x
           Told(x, repl) == [x EXCEPT !.sv[s].repl = repl]
<1>1. \/ slaveofCommand(w, s, host) = w
      \/ slaveofCommand(w, s, host) = Told(stop(moved), "none")
      \/ slaveofCommand(w, s, host) = Told(stop(disconnectSlaves(moved, s)), "connect")
  BY Zenon DEF slaveofCommand, Server
<1>2. IsServer(v)
  BY SameFacts
<1>3. w0 = WithServer(w, s, v0)
  BY Shape DEF WithServer
<1> HIDE DEF moved, w0
<1>4. SameFiles(v, v0, conf)
  BY <1>2, SameFilesFields
<1> HIDE DEF v0
<1>5. Tame(w, w0, conf) /\ IsWorld(w0)
  BY <1>3, <1>4, TameFields
<1>6. Tame(w, moved, conf) /\ IsWorld(moved)
  BY <1>5, FreeTame, TameThen DEF moved, Tame
<1>7. LET x == disconnectSlaves(moved, s) IN Tame(w, x, conf) /\ IsWorld(x)
  BY <1>6, CloseMasterTame, TameThen DEF disconnectSlaves, Tame
<1>8. ASSUME NEW x, Tame(w, x, conf), IsWorld(x) PROVE Tame(w, stop(x), conf) /\ IsWorld(stop(x))
  <2>1. stop(x) \in {x, replicationAbortSyncTransfer(x, s), undoConnectWithMaster(x, s)}
    OBVIOUS
  <2>2. Tame(w, replicationAbortSyncTransfer(x, s), conf) /\ Tame(w, undoConnectWithMaster(x, s), conf)
    BY <1>8, StopTame, TameThen
  <2> QED
    BY <1>8, <2>1, <2>2 DEF Tame
<1> HIDE DEF stop
<1>9. ASSUME NEW x, Tame(w, x, conf), IsWorld(x), NEW repl PROVE Tame(w, Told(x, repl), conf)
  <2> DEFINE r == [x.sv[s] EXCEPT !.repl = repl]
  <2>1. IsServer(x.sv[s])
    BY <1>9, SameFacts
  <2>2. SameFiles(x.sv[s], r, conf)
    BY <2>1, SameFilesFields
  <2>3. Told(x, repl) = WithServer(x, s, r)
    BY <1>9, Shape DEF WithServer
  <2> HIDE DEF r, Told
  <2>4. Tame(x, Told(x, repl), conf)
    BY <1>9, <2>2, <2>3, TameFields
  <2> QED
    BY <1>9, <2>4, TameThen
<1> HIDE DEF Told
<1> QED
  BY <1>1, <1>6, <1>7, <1>8, <1>9, TameSelf

LEMMA SyncTame ==
    ASSUME NEW w, IsWorld(w), NEW f \in Fds, NEW s \in Servers, w.cn[f].ev = "sync", NEW conf
    PROVE  Tame(w, syncWithMaster(w, s, f), conf)
<1> DEFINE ping == <<"PING">>
           pinged == [w.cn[f] EXCEPT !.writable = FALSE, !.req = ping]
           answer == [w.cn[f] EXCEPT !.wire = Tail(@)]
           Asked(c) == [c EXCEPT !.req = Append(@, "SYNC"), !.ev = "payload", !.writable = FALSE]
           answered == [w EXCEPT !.cn[f].wire = Tail(@)]
           Sync(w1) == [w1 EXCEPT !.cn[f] = Asked(w1.cn[f]), !.sv[s].repl = "transfer"]
           pings == [w EXCEPT !.cn[f] = pinged, !.sv[s].repl = "pong"]
<1>1. \/ syncWithMaster(w, s, f) \in {CloseSlaveEnd(w, f), Failed(w, s, f), pings}
      \/ w.cn[f].role # "closed" /\ syncWithMaster(w, s, f) = Sync(w)
      \/ w.cn[f].role # "closed" /\ w.cn[f].wire # <<>> /\ syncWithMaster(w, s, f) = Sync(answered)
  BY Zenon DEF syncWithMaster
<1>2. IsConn(w.cn[f])
  BY SameFacts
\* An end moves on, and its slave
<1>3. ASSUME NEW x, IsWorld(x), NEW c, ConnStep(x.cn[f], c), NEW repl
      PROVE  Tame(x, [x EXCEPT !.cn[f] = c, !.sv[s].repl = repl], conf)
  <2> DEFINE y == WithConn(x, f, c)
             v == [y.sv[s] EXCEPT !.repl = repl]
             u == [x EXCEPT !.cn[f] = c, !.sv[s].repl = repl]
  <2>1. [x EXCEPT !.cn[f] = c] = y
    BY <1>3, Changes
  <2>2. u = [y EXCEPT !.sv[s].repl = repl]
    BY <2>1
  <2>3. v = [y.sv[s] EXCEPT !.repl = repl] /\ y = WithConn(x, f, c)
    OBVIOUS
  <2> HIDE DEF y, v, u
  <2>4. Tame(x, y, conf) /\ IsWorld(y)
    BY <1>3, <2>3, TameConn DEF ConnStep
  <2>5. IsServer(y.sv[s])
    BY <2>4, SameFacts
  <2>6. SameFiles(y.sv[s], v, conf)
    BY <2>3, <2>5, SameFilesFields
  <2>7. u = WithServer(y, s, v)
    BY <2>2, <2>3, <2>4, Shape DEF WithServer
  <2>8. Tame(x, u, conf)
    BY <2>4, <2>6, <2>7, TameFields, TameThen
  <2> QED
    BY <2>8 DEF u
<1>4. Tame(w, pings, conf)
  <2>1. ConnStep(w.cn[f], pinged)
    BY <1>2, SlaveSteps
  <2> HIDE DEF pinged
  <2> QED
    BY <1>3, <2>1
<1> HIDE DEF ping, pings
<1>5. ASSUME NEW x, IsWorld(x), x.cn[f].ev = "sync", x.cn[f].role # "closed" PROVE Tame(x, Sync(x), conf)
  <2> DEFINE c == Asked(x.cn[f])
  <2>1. IsConn(x.cn[f])
    BY <1>5, SameFacts
  <2>2. ConnStep(x.cn[f], c)
    BY <1>5, <2>1, SlaveSteps
  <2>3. Sync(x) = [x EXCEPT !.cn[f] = c, !.sv[s].repl = "transfer"]
    BY Zenon
  <2> HIDE DEF c, Sync
  <2>4. Tame(x, [x EXCEPT !.cn[f] = c, !.sv[s].repl = "transfer"], conf)
    BY <1>3, <1>5, <2>2
  <2> QED
    BY <2>3, <2>4
<1>6. ASSUME w.cn[f].wire # <<>>
      PROVE  Tame(w, answered, conf) /\ IsWorld(answered) /\ answered.cn[f].ev = "sync"
             /\ answered.cn[f].role = w.cn[f].role
  <2>1. ConnStep(w.cn[f], answer)
    BY <1>2, <1>6, SlaveSteps
  <2>2. answer.ev = "sync" /\ answer.role = w.cn[f].role
    BY <1>2 DEF IsConn, ConnFields
  <2>3. answered = [w EXCEPT !.cn[f] = answer]
    BY Zenon
  <2> HIDE DEF answer, answered
  <2>4. answered = WithConn(w, f, answer)
    BY ZenonT(60), <2>3, Changes
  <2> QED
    BY <2>1, <2>2, <2>4, TameConn DEF ConnStep
<1> HIDE DEF Sync, answered
<1>7. w.cn[f].role # "closed" /\ w.cn[f].wire # <<>> => Tame(w, Sync(answered), conf)
  BY <1>5, <1>6, TameThen
<1> QED
  BY <1>1, <1>4, <1>5, <1>7, CloseSlaveTame, StopTame

-----------------------------------------------------------------------------
(***************************************************************************)
(* A change of the data set of one server, passed on.                      *)
(***************************************************************************)
Changed(w, u, s) ==
    /\ IsWorld(u) /\ (Wires(w) => Wires(u)) /\ u.sv[s].up = w.sv[s].up
    /\ \A r \in Servers \ {s} : u.sv[r] = w.sv[r]

LEMMA ChangedServer ==
    ASSUME NEW w, IsWorld(w), NEW s \in Servers, NEW v, IsServer(v), v.up = w.sv[s].up
    PROVE  LET u == WithServer(w, s, v) IN Changed(w, u, s) /\ u.sv[s] = v
<1> DEFINE u == WithServer(w, s, v)
<1>1. IsWorld(u) /\ u.cn = w.cn /\ u.sv[s] = v /\ \A r \in Servers \ {s} : u.sv[r] = w.sv[r]
  BY PutServer
<1> HIDE DEF u
<1>2. \A r \in Servers : u.sv[r].up = w.sv[r].up
  BY <1>1
<1>3. Wires(w) => Wires(u)
  BY <1>1, <1>2 DEF Wires
<1> QED
  BY <1>1, <1>3 DEF Changed, u

LEMMA PropagateChanged ==
    ASSUME NEW w, IsWorld(w), NEW s \in Servers, NEW db \in Dbs, NEW c, IsCommand(c),
           NEW v, NEW y, y = feedAppendOnlyFile(v, db, c), IsServer(y), y.up = w.sv[s].up, IsServer(v)
    PROVE  LET u == propagate([w EXCEPT !.sv[s] = v], s, db, c) IN Changed(w, u, s) /\ u.sv[s] = y
<1> DEFINE x == [w EXCEPT !.sv[s] = v]
           z == WithServer(w, s, y)
           u == propagate(x, s, db, c)
<1>1. x = WithServer(w, s, v)
  BY Changes
<1> HIDE DEF x
<1>2. IsWorld(x) /\ x.sv[s] = v
  BY <1>1, PutServer
<1>3. u = replicationFeedSlaves([x EXCEPT !.sv[s] = feedAppendOnlyFile(x.sv[s], db, c)], s, db, c)
  BY Zenon DEF propagate
<1>4. [x EXCEPT !.sv[s] = feedAppendOnlyFile(x.sv[s], db, c)] = WithServer(x, s, y)
  BY <1>2, Changes
<1>5. WithServer(x, s, y) = z
  BY <1>1, Twice
<1>6. Changed(w, z, s) /\ z.sv[s] = y
  BY ChangedServer
<1> HIDE DEF z, u
<1>7. u = replicationFeedSlaves(z, s, db, c) /\ IsWorld(z)
  BY <1>3, <1>4, <1>5, <1>6 DEF Changed
<1>8. LET k == replicationFeedSlaves(z, s, db, c) IN \A conf : Tame(z, k, conf) /\ k.sv = z.sv
  BY <1>7, FeedTame
<1>9. u.sv = z.sv /\ IsWorld(u) /\ (Wires(z) => Wires(u))
  BY <1>7, <1>8 DEF Tame
<1>10. Changed(w, u, s) /\ u.sv[s] = y
  BY <1>6, <1>9 DEF Changed
<1> QED
  BY <1>10 DEF u, x

\* The snapshot is there: what readSyncBulkPayload makes of the link and of the
\* slave
LinkRead(c, wire) == [c EXCEPT !.wire = wire, !.ev = "link", !.db = 0]
BulkTaken(w, f, s, wire, e) ==
    [w EXCEPT !.cn[f].wire = wire, !.cn[f].ev = "link", !.cn[f].db = 0, !.sv[s] = e]

LEMMA BulkIs ==
    ASSUME NEW w, IsWorld(w), NEW f \in Fds, NEW s \in Servers, NEW wire, NEW e
    PROVE  BulkTaken(w, f, s, wire, e) = WithServer(WithConn(w, f, LinkRead(w.cn[f], wire)), s, e)
<1> DEFINE c1 == [w.cn[f] EXCEPT !.wire = wire]
           c2 == [c1 EXCEPT !.ev = "link"]
           c3 == [c2 EXCEPT !.db = 0]
           x1 == [w EXCEPT !.cn[f].wire = wire]
           x2 == [x1 EXCEPT !.cn[f].ev = "link"]
           x3 == [x2 EXCEPT !.cn[f].db = 0]
           x == WithConn(w, f, c3)
<1>1. w = [sv |-> w.sv, cn |-> w.cn] /\ DOMAIN w.cn = Fds
  BY Shape DEF IsWorld
<1>2. x3 = x
  <2> DEFINE cn == w.cn
             Row(y, g) == [w EXCEPT !.cn = [cn EXCEPT ![g] = y]]
  <2>1. x1 = Row(c1, f)
    BY <1>1
  <2>2. x2 = Row(c2, f)
    BY <1>1, <2>1
  <2>3. x3 = Row(c3, f)
    BY <1>1, <2>2
  <2> HIDE DEF c3, x3
  <2> QED
    BY <1>1, <2>3 DEF WithConn
<1>3. [x3 EXCEPT !.sv[s] = e] = WithServer(x, s, e)
  <2> HIDE DEF c3, x3
  <2> QED
    BY <1>1, <1>2 DEF WithServer, WithConn
<1>4. BulkTaken(w, f, s, wire, e) = [x3 EXCEPT !.sv[s] = e] /\ c3 = LinkRead(w.cn[f], wire)
  BY DEF BulkTaken, LinkRead
<1> HIDE DEF x3, c3
<1> QED
  BY <1>3, <1>4

LEMMA PayloadUp ==
    ASSUME NEW v, IsServer(v), NEW conf, NEW p, NEW fd \in Fds, NEW forks
    PROVE  LET z == [v EXCEPT !.rdb = <<p>>, !.data = p, !.master = fd, !.repl = "connected"]
               y == IF z.aof = "off" THEN z ELSE startAppendOnly(stopAppendOnly(z, conf), forks)
           IN  y.up = v.up
<1> DEFINE z == [v EXCEPT !.rdb = <<p>>, !.data = p, !.master = fd, !.repl = "connected"]
           x == stopAppendOnly(z, conf)
           y == IF z.aof = "off" THEN z ELSE startAppendOnly(x, forks)
<1>1. IsServer(z) /\ z.up = v.up
  BY DEF IsServer, ServerFields
<1> HIDE DEF z
<1>2. SameLink(z, x)
  BY Zenon, <1>1, AppendsLink
<1> HIDE DEF x
<1>3. SameLink(x, startAppendOnly(x, forks))
  BY Zenon, <1>2, AppendsLink DEF SameLink
<1> QED
  BY <1>1, <1>2, <1>3 DEF SameLink, x, z

LEMMA BulkChanged ==
    ASSUME NEW w, IsWorld(w), Linked(w), NEW f \in Fds, w.cn[f].ev = "payload", NEW conf, NEW forks, NEW T,
           FileOK(w.sv[w.cn[f].slave], T, conf, w.cn[f].slave)
    PROVE  LET s == w.cn[f].slave
               u == readSyncBulkPayload(w, s, f, conf, forks)
           IN  \/ Tame(w, u, conf)
               \/ Changed(w, u, s) /\ \A U : FileOK(u.sv[s], U, conf, s)
<1> DEFINE s == w.cn[f].slave
           u == readSyncBulkPayload(w, s, f, conf, forks)
           p == Head(w.cn[f].wire)[2]
           wire == Tail(w.cn[f].wire)
           Aof(v) == IF v.aof = "off" THEN v ELSE startAppendOnly(stopAppendOnly(v, conf), forks)
           Loaded(v) == [v EXCEPT !.rdb = <<p>>, !.data = p, !.master = f, !.repl = "connected"]
           c == [w.cn[f] EXCEPT !.wire = wire, !.ev = "link", !.db = 0]
           x == WithConn(w, f, c)
           y == Aof(Loaded(w.sv[s]))
<1>1. s \in Servers
  BY DEF Linked, ConnOK
<1>2. /\ w.sv[s].up /\ w.sv[s].repl = "transfer" /\ w.sv[s].fd = f /\ w.sv[s].host # 0
  BY <1>1, OneLink, UsedIs DEF Working, Used, Active
<1>3. IsServer(w.sv[s]) /\ IsConn(w.cn[f])
  BY <1>1, SameFacts
<1>4. \/ u = replicationAbortSyncTransfer(w, s)
      \/ /\ w.cn[f].wire # <<>> /\ Head(w.cn[f].wire)[1] = "rdb"
         /\ u = [w EXCEPT !.cn[f].wire = Tail(@), !.cn[f].ev = "link", !.cn[f].db = 0, !.sv[s] = Aof(Loaded(@))]
  <2>1. Server(w, s).fd = f
    BY <1>2 DEF Server
  <2> QED
    BY Zenon, <2>1 DEF readSyncBulkPayload
<1>5. [w EXCEPT !.cn[f].wire = Tail(@), !.cn[f].ev = "link", !.cn[f].db = 0, !.sv[s] = Aof(Loaded(@))]
        = [w EXCEPT !.cn[f].wire = wire, !.cn[f].ev = "link", !.cn[f].db = 0, !.sv[s] = y]
  <2> DEFINE New(v) == Aof(Loaded(v))
  <2>1. y = New(w.sv[s])
    BY Zenon
  <2> DEFINE z == [w EXCEPT !.cn[f].wire = wire, !.cn[f].ev = "link", !.cn[f].db = 0]
  <2>2. z.sv = w.sv
    BY Shape
  <2>3. [w EXCEPT !.cn[f].wire = Tail(@), !.cn[f].ev = "link", !.cn[f].db = 0, !.sv[s] = Aof(Loaded(@))]
          = [z EXCEPT !.sv[s] = New(z.sv[s])]
    <3>1. [w EXCEPT !.cn[f].wire = Tail(@), !.cn[f].ev = "link", !.cn[f].db = 0] = z
      BY Zenon
    <3> HIDE DEF Aof, Loaded
    <3> QED
      BY <3>1
  <2> HIDE DEF New, Aof, Loaded, y, z
  <2>4. [w EXCEPT !.cn[f].wire = wire, !.cn[f].ev = "link", !.cn[f].db = 0, !.sv[s] = y] = [z EXCEPT !.sv[s] = y]
    BY Zenon DEF z
  <2> HIDE DEF wire
  <2> QED
    BY <2>1, <2>2, <2>3, <2>4
<1>6. CASE u = replicationAbortSyncTransfer(w, s)
  BY <1>1, <1>6, StopTame
<1>7. CASE /\ w.cn[f].wire # <<>> /\ Head(w.cn[f].wire)[1] = "rdb"
           /\ u = [w EXCEPT !.cn[f].wire = Tail(@), !.cn[f].ev = "link", !.cn[f].db = 0, !.sv[s] = Aof(Loaded(@))]
  <2>1. ConnStep(w.cn[f], c)
    BY Zenon, <1>3, <1>7, SlaveSteps
  <2>8. ASSUME NEW v, IsServer(v), FileOK(v, T, conf, s), v.up, v.host # 0
        PROVE  IsServer(Aof(Loaded(v))) /\ Aof(Loaded(v)).up = v.up /\ \A U : FileOK(Aof(Loaded(v)), U, conf, s)
    <3> HIDE DEF p, s
    <3>1. ASSUME NEW U PROVE IsServer(Aof(Loaded(v))) /\ FileOK(Aof(Loaded(v)), U, conf, s)
      BY <2>8, PayloadKeeps
    <3>2. Aof(Loaded(v)).up = v.up
      BY <2>8, PayloadUp
    <3> QED
      BY Zenon, <3>1, <3>2
  <2>9. FileOK(w.sv[s], T, conf, s)
    OBVIOUS
  <2> HIDE DEF Aof, Loaded
  <2>2. IsServer(y) /\ y.up = w.sv[s].up /\ \A U : FileOK(y, U, conf, s)
    BY Zenon, <1>2, <1>3, <2>8, <2>9
  <2>4. u = WithServer(x, s, y)
    <3> HIDE DEF Aof, Loaded, y, wire
    <3>1. u = BulkTaken(w, f, s, wire, y)
      BY <1>5, <1>7 DEF BulkTaken
    <3>2. c = LinkRead(w.cn[f], wire)
      BY DEF LinkRead
    <3> HIDE DEF u, s, c
    <3>3. BulkTaken(w, f, s, wire, y) = WithServer(WithConn(w, f, LinkRead(w.cn[f], wire)), s, y)
      BY <1>1, BulkIs
    <3> QED
      BY <3>1, <3>2, <3>3
  <2> HIDE DEF c, y, s
  <2>5. Tame(w, x, conf) /\ x.sv = w.sv /\ IsWorld(x)
    BY <2>1, TameConn DEF ConnStep
  <2> HIDE DEF x, u
  <2>6. Changed(x, u, s) /\ u.sv[s] = y
    BY <1>1, <2>2, <2>4, <2>5, ChangedServer
  <2>7. Changed(w, u, s)
    BY <2>5, <2>6 DEF Changed, Tame
  <2> QED
    BY <2>2, <2>6, <2>7 DEF u, s
<1> QED
  BY <1>4, <1>6, <1>7

-----------------------------------------------------------------------------
(***************************************************************************)
(* The inductive invariant of the files, beside the one of the links: the  *)
(* files of every server are sound for the data sets since its last reply, *)
(* of which its data set is one.                                           *)
(***************************************************************************)
FilesInv ==
    /\ since = [s \in Servers |-> since[s]]
    /\ Wires(World)
    /\ \A s \in Servers : FileOK(server[s], since[s], Conf, s) /\ server[s].data \in since[s]

LEMMA SinceThen ==
    ASSUME NEW u, Commit(u)
    PROVE  /\ since' = [s \in Servers |-> since'[s]]
           /\ \A s \in Servers : u.sv[s].data \in since'[s] /\ (since[s] \subseteq since'[s] \/ ~Conf.appendonly)
  BY DEF Commit

LEMMA SoundStep ==
    ASSUME FilesInv, NEW u, IsWorld(u), Commit(u), Wires(u),
           \A s \in Servers : \/ FileOK(u.sv[s], since[s], Conf, s)
                              \/ \A U : FileOK(u.sv[s], U, Conf, s)
                              \/ FileOK(u.sv[s], since'[s], Conf, s)
    PROVE  FilesInv'
<1>1. World' = u /\ server' = u.sv
  BY Shape DEF Commit, World
<1>2. Conf' = Conf
  BY DEF Commit, Conf
<1>3. Wires(World)'
  BY <1>1 DEF Wires
<1>4. ASSUME NEW s \in Servers PROVE FileOK(u.sv[s], since'[s], Conf, s) /\ u.sv[s].data \in since'[s]
  <2> DEFINE v == u.sv[s]
             U == since'[s]
             conf == Conf
  <2>1. v.data \in U /\ (since[s] \subseteq U \/ ~conf.appendonly)
    BY SinceThen
  <2>2. FileOK(v, since[s], conf, s) \/ FileOK(v, U, conf, s)
    BY Zenon
  <2> HIDE DEF U, v, conf
  <2>3. FileOK(v, U, conf, s)
    BY <2>1, <2>2, MorePromised DEF FileOK
  <2> QED
    BY <2>1, <2>3 DEF U, v, conf
<1>5. ASSUME NEW s \in Servers PROVE FileOK(server[s], since[s], Conf, s)'
  BY <1>1, <1>2, <1>4 DEF FileOK, AofPart, SavePart
<1> QED
  BY <1>1, <1>3, <1>4, <1>5, SinceThen DEF FilesInv

LEMMA TameStep ==
    ASSUME LinkInv, FilesInv, NEW u, Tame(World, u, Conf), Commit(u)
    PROVE  FilesInv'
<1>1. World.sv = server
  BY Here
<1>2. ASSUME NEW s \in Servers PROVE FileOK(u.sv[s], since[s], Conf, s)
  BY <1>1 DEF Tame, FileStep, FilesInv
<1> QED
  BY <1>2, SoundStep DEF Tame, FilesInv

LEMMA ChangedStep ==
    ASSUME LinkInv, FilesInv, NEW s \in Servers, NEW u, Changed(World, u, s), Commit(u),
           FileOK(u.sv[s], since[s], Conf, s) \/ \A U : FileOK(u.sv[s], U, Conf, s)
    PROVE  FilesInv'
<1>1. World.sv = server
  BY Here
<1>2. ASSUME NEW r \in Servers
      PROVE  FileOK(u.sv[r], since[r], Conf, r) \/ \A U : FileOK(u.sv[r], U, Conf, r)
  <2>1. CASE r = s
    BY Zenon, <2>1
  <2>2. CASE r # s
    BY <1>1, <2>2 DEF Changed, FilesInv
  <2> QED
    BY <2>1, <2>2
<1> QED
  BY <1>2, SoundStep DEF Changed, FilesInv

\* A server's own step
LEMMA PutFiles ==
    ASSUME LinkInv, FilesInv, NEW s \in Servers, NEW v, IsServer(v), v.up = server[s].up, Put(s, v),
           FileOK(v, since[s], Conf, s)
    PROVE  FilesInv'
<1> DEFINE u == WithServer(World, s, v)
<1>1. [World EXCEPT !.sv[s] = v] = u
  BY Here, Changes
<1>2. Changed(World, u, s) /\ u.sv[s] = v
  BY Here, ChangedServer
<1>3. Commit(u)
  BY <1>1 DEF Put
<1> HIDE DEF u
<1> QED
  BY <1>2, <1>3, ChangedStep

LEMMA Files ==
    ASSUME LinkInv, FilesInv, NEW s \in Servers
    PROVE  IsServer(server[s]) /\ FileOK(server[s], since[s], Conf, s) /\ server[s].data \in since[s]
  BY Here DEF FilesInv

LEMMA DataFiles ==
    ASSUME LinkInv, FilesInv, NEW s \in Servers,
           flushallCommand(s) \/ \E d \in Dbs : WriteCommand(s, d)
    PROVE  FilesInv'
<1>1. IsServer(server[s]) /\ FileOK(server[s], since[s], Conf, s) /\ IsWorld(World)
  BY Files, Here
<1>2. World.sv[s] = server[s]
  BY Here
<1>3. ASSUME NEW v, NEW db \in Dbs, NEW c, IsCommand(c), SameLink(server[s], v),
             FileOK(feedAppendOnlyFile(v, db, c), since[s], Conf, s),
             Commit(propagate([World EXCEPT !.sv[s] = v], s, db, c))
      PROVE  FilesInv'
  <2> DEFINE y == feedAppendOnlyFile(v, db, c)
             u == propagate([World EXCEPT !.sv[s] = v], s, db, c)
  <2>1. IsServer(v) /\ v.up = server[s].up
    BY <1>3 DEF SameLink
  <2>6. SameLink(v, y)
    BY Zenon, <2>1, AppendsLink
  <2>5. y = feedAppendOnlyFile(v, db, c) /\ FileOK(y, since[s], Conf, s)
    BY <1>3
  <2> HIDE DEF y
  <2>2. IsServer(y) /\ y.up = v.up
    BY <2>6 DEF SameLink
  <2>3. Changed(World, u, s) /\ u.sv[s] = y
    BY <1>1, <1>2, <1>3, <2>1, <2>2, <2>5, PropagateChanged
  <2> HIDE DEF u
  <2>4. FileOK(u.sv[s], since[s], Conf, s)
    BY <2>3, <2>5
  <2> QED
    BY <1>3, <2>3, <2>4, ChangedStep DEF u
<1>4. CASE flushallCommand(s)
  <2> DEFINE v == emptyDb(server[s], Conf.saveparams)
  <2>1. Commit(propagate([World EXCEPT !.sv[s] = v], s, 0, FlushAll)) /\ server[s].up
    BY <1>4, Here DEF flushallCommand
  <2>2. 0 \in Dbs /\ IsCommand(FlushAll)
    BY Messages, PersistenceAssumption
  <2>3. SameLink(server[s], v)
    BY <1>1, SnapshotsLink
  <2>4. FileOK(feedAppendOnlyFile(v, 0, FlushAll), since[s], Conf, s)
    BY Zenon, <1>1, <2>1, <2>2, EmptyKeeps
  <2> HIDE DEF v
  <2> QED
    BY <1>3, <2>1, <2>2, <2>3, <2>4
<1>5. ASSUME NEW d \in Dbs, WriteCommand(s, d) PROVE FilesInv'
  <2> DEFINE n == count.write + 1
             v == [server[s] EXCEPT !.data[d] = Append(@, n), !.dirty = @ + 1]
  <2>1. Commit(propagate([World EXCEPT !.sv[s] = v], s, d, Write(n))) /\ server[s].up
    BY <1>5 DEF WriteCommand
  <2> HIDE DEF n
  <2>2. IsCommand(Write(n))
    BY Messages
  <2>3. SameLink(server[s], v)
    BY <1>1 DEF SameLink, IsServer, ServerFields
  <2>4. FileOK(feedAppendOnlyFile(v, d, Write(n)), since[s], Conf, s)
    BY Zenon, <1>1, <2>1, WriteKeeps
  <2> HIDE DEF v
  <2> QED
    BY <1>3, <2>1, <2>2, <2>3, <2>4
<1> QED
  BY <1>4, <1>5

LEMMA BeforeSleepFiles ==
    ASSUME LinkInv, FilesInv, NEW s \in Servers, beforeSleep(s)
    PROVE  FilesInv'
<1>1. PICK t : server' = [server EXCEPT ![s] = flushAppendOnlyFile(@, Conf, t)]
  BY DEF beforeSleep
<1> DEFINE v == flushAppendOnlyFile(server[s], Conf, t)
           u == WithServer(World, s, v)
<1>2. IsServer(server[s]) /\ FileOK(server[s], since[s], Conf, s) /\ server[s].up
  BY Files DEF beforeSleep
<1>3. IsServer(v) /\ FileOK(v, {server[s].data}, Conf, s) /\ v.data = server[s].data
  <2> DEFINE x == server[s]
             T == since[s]
             conf == Conf
             y == flushAppendOnlyFile(x, conf, t)
  <2>1. IsServer(x) /\ FileOK(x, T, conf, s) /\ x.up
    BY <1>2
  <2> HIDE DEF x, T, conf
  <2>2. IsServer(y) /\ FileOK(y, {x.data}, conf, s) /\ y.data = x.data
    BY <2>1, FlushKeeps
  <2> QED
    BY <2>2 DEF x, conf
<1>4. SameLink(server[s], v)
  BY Zenon, <1>2, AppendsLink
<1>5. World' = u
  <2>1. conn' = conn /\ server' = [server EXCEPT ![s] = v]
    BY <1>1 DEF beforeSleep
  <2> HIDE DEF v
  <2> QED
    BY <2>1 DEF World, WithServer
<1> HIDE DEF v
<1>6. Changed(World, u, s) /\ u.sv[s] = v
  BY <1>3, <1>4, Here, ChangedServer DEF SameLink
<1> HIDE DEF u
<1>7. /\ server' = u.sv /\ Conf' = Conf /\ since' = [since EXCEPT ![s] = {server[s].data}]
  BY <1>5 DEF World, Conf, beforeSleep
<1>8. since' = [r \in Servers |-> since'[r]]
  BY <1>7 DEF FilesInv
<1>9. ASSUME NEW r \in Servers PROVE FileOK(u.sv[r], since'[r], Conf, r) /\ u.sv[r].data \in since'[r]
  <2>1. CASE r = s
    <3>1. since'[s] = {server[s].data}
      BY <1>7 DEF FilesInv
    <3> QED
      BY <1>3, <1>6, <2>1, <3>1
  <2>2. CASE r # s
    <3>1. since'[r] = since[r]
      BY <1>7, <2>2 DEF FilesInv
    <3>2. u.sv[r] = server[r]
      BY <1>6, <2>2, Here DEF Changed
    <3> QED
      BY <3>1, <3>2 DEF FilesInv
  <2> QED
    BY <2>1, <2>2
<1>10. ASSUME NEW r \in Servers PROVE FileOK(server[r], since[r], Conf, r)'
  BY <1>7, <1>9 DEF FileOK, AofPart, SavePart
<1>11. Wires(World)'
  <2>1. Wires(u)
    BY <1>6 DEF Changed, FilesInv
  <2> QED
    BY <1>5, <2>1 DEF Wires
<1> QED
  BY <1>7, <1>8, <1>9, <1>10, <1>11 DEF FilesInv

\* A child or the thread of a server, and what an administrator asks of it
LEMMA OwnFiles ==
    ASSUME LinkInv, FilesInv, NEW s \in Servers,
           \/ saveCommand(s) \/ bgsaveCommand(s) \/ bgrewriteaofCommand(s) \/ configSetAppendonly(s) \/ Bio(s)
           \/ \E how \in {"ok", "error", "killed"} : SaveChild(s, how) \/ RewriteChild(s, how)
    PROVE  FilesInv'
<1> DEFINE v == server[s]
           conf == Conf
           T == since[s]
<1>1. IsServer(v) /\ FileOK(v, T, conf, s) /\ v.data \in T
  BY Files
<1>2. ASSUME NEW u, SameLink(v, u), FileOK(u, T, conf, s), Put(s, u) PROVE FilesInv'
  BY <1>2, PutFiles DEF SameLink
<1>3. CASE saveCommand(s)
  <2>1. Put(s, rdbSave(v)) /\ v.up /\ v.save = <<>>
    BY <1>3 DEF saveCommand, Admin, Running
  <2>2. FileOK(rdbSave(v), T, conf, s)
    BY Zenon, <1>1, <2>1, SaveKeeps
  <2> QED
    BY <1>1, <1>2, <2>1, <2>2, SnapshotsLink
<1>4. CASE bgsaveCommand(s)
  <2>1. PICK forks : Put(s, rdbSaveBackground(v, forks))
    BY <1>4 DEF bgsaveCommand
  <2>2. v.up
    BY <1>4 DEF bgsaveCommand, Admin
  <2>3. FileOK(rdbSaveBackground(v, forks), T, conf, s)
    BY Zenon, <1>1, <2>2, BgsaveKeeps
  <2> QED
    BY <1>1, <1>2, <2>1, <2>3, SnapshotsLink
<1>5. CASE bgrewriteaofCommand(s)
  <2>1. v.up
    BY <1>5 DEF bgrewriteaofCommand, Admin
  <2>2. \/ Put(s, [v EXCEPT !.scheduled = TRUE])
        \/ \E forks : Put(s, rewriteAppendOnlyFileBackground(v, forks))
    BY <1>5 DEF bgrewriteaofCommand
  <2>3. CASE Put(s, [v EXCEPT !.scheduled = TRUE])
    <3> DEFINE u == [v EXCEPT !.scheduled = TRUE]
    <3>1. SameLink(v, u)
      BY <1>1 DEF SameLink, IsServer, ServerFields
    <3>2. SameFiles(v, u, conf)
      BY Zenon, <1>1, SameFilesFields
    <3> HIDE DEF u, v, conf, T
    <3>3. FileOK(u, T, conf, s)
      BY Zenon, <1>1, <3>2, SameFilesKeep
    <3> QED
      BY <1>2, <2>3, <3>1, <3>3 DEF u
  <2>4. ASSUME NEW forks, Put(s, rewriteAppendOnlyFileBackground(v, forks)) PROVE FilesInv'
    <3>1. FileOK(rewriteAppendOnlyFileBackground(v, forks), T, conf, s)
      BY Zenon, <1>1, <2>1, RewriteKeeps
    <3> QED
      BY <1>1, <1>2, <2>4, <3>1, AppendsLink
  <2> QED
    BY <2>2, <2>3, <2>4
<1>6. CASE configSetAppendonly(s)
  <2>1. v.up /\ MayAppend(conf)
    BY <1>6 DEF configSetAppendonly, Admin, Allowed, MayAppend
  <2>2. CASE v.aof = "off"
    <3>1. PICK forks : Put(s, startAppendOnly(v, forks))
      BY <1>6, <2>2 DEF configSetAppendonly
    <3>2. FileOK(startAppendOnly(v, forks), T, conf, s)
      BY Zenon, <1>1, <2>1, <2>2, StartKeeps
    <3> QED
      BY <1>1, <1>2, <3>1, <3>2, AppendsLink
  <2>3. CASE v.aof # "off"
    <3>1. Put(s, stopAppendOnly(v, conf))
      BY <1>6, <2>3 DEF configSetAppendonly
    <3>2. AofPart(stopAppendOnly(v, conf), T, conf) /\ SameSave(v, stopAppendOnly(v, conf))
      <4>1. /\ IsSeq(v.file) /\ IsSeq(v.buf)
            /\ v.rewrite = <<>> => v.diff = <<>>
            /\ conf.fsync = "always" => ~v.postponed
        BY <1>1 DEF FileOK, AofPart
      <4> QED
        BY Zenon, <1>1, <2>1, <4>1, StopKeeps
    <3>3. FileOK(stopAppendOnly(v, conf), T, conf, s)
      <4> DEFINE u == stopAppendOnly(v, conf)
      <4> HIDE DEF u, v, T, conf
      <4> QED
        BY <1>1, <3>2, PartsKept DEF FileOK, u
    <3> QED
      BY <1>1, <1>2, <3>1, <3>3, AppendsLink
  <2> QED
    BY <2>2, <2>3
<1>7. CASE Bio(s)
  <2>1. FileOK(bioProcessBackgroundJobs(v), T, conf, s)
    BY Zenon, <1>1, BioKeeps
  <2> QED
    BY <1>1, <1>2, <1>7, <2>1, AppendsLink DEF Bio
<1>8. ASSUME NEW how, SaveChild(s, how) PROVE FilesInv'
  <2>1. v.save # <<>> /\ v.save[1].exit = "none" /\ Put(s, SaveExit(v, how))
    BY <1>8 DEF SaveChild, Running
  <2>2. FileOK(SaveExit(v, how), T, conf, s)
    BY Zenon, <1>1, <2>1, SaveExitKeeps
  <2> QED
    BY <1>1, <1>2, <2>1, <2>2, SnapshotsLink
<1>9. ASSUME NEW how, RewriteChild(s, how) PROVE FilesInv'
  <2> DEFINE u == [v EXCEPT !.rewrite = Exited(@, how)]
  <2>1. v.rewrite # <<>> /\ Put(s, u)
    BY <1>9 DEF RewriteChild, Running
  <2>2. FileOK(u, T, conf, s)
    BY Zenon, <1>1, <2>1, RewriteExitKeeps
  <2>3. SameLink(v, u)
    BY <1>1 DEF SameLink, IsServer, ServerFields
  <2> HIDE DEF u
  <2> QED
    BY <1>2, <2>1, <2>2, <2>3
<1> QED
  BY <1>3, <1>4, <1>5, <1>6, <1>7, <1>8, <1>9

\* A process that stops is the master of no open end
LEMMA GoneFiles ==
    ASSUME LinkInv, FilesInv, NEW s \in Servers, NEW v, IsServer(v), Gone(s, v),
           \A U : FileOK(v, U, Conf, s)
    PROVE  FilesInv'
<1> DEFINE Ev(c) == IF c.slave = s THEN "none" ELSE c.ev
           Role(c) == IF c.master = s THEN "closed" ELSE c.role
           Cut(c) == [c EXCEPT !.ev = Ev(c), !.role = Role(c)]
           next == [f \in Fds |-> Freed(Cut(conn[f]))]
           u == [sv |-> [server EXCEPT ![s] = v], cn |-> next]
<1>1. Commit(u)
  BY DEF Gone
<1>2. ASSUME NEW c, IsConn(c)
      PROVE  /\ ConnStep(c, Freed(Cut(c)))
             /\ Freed(Cut(c)).role # "closed" => c.master # s
  <2> DEFINE d == Cut(c)
  <2>1. Ev(c) \in {"none", c.ev} /\ Role(c) \in {"closed", c.role}
    OBVIOUS
  <2>2. d.role = Role(c)
    BY <1>2 DEF IsConn, ConnFields
  <2>5. ASSUME NEW ev \in {"none", c.ev}, NEW role \in {"closed", c.role}
        PROVE  ConnStep(c, Freed([c EXCEPT !.ev = ev, !.role = role]))
    BY Zenon, <1>2, CloseSteps
  <2>3. ConnStep(c, Freed(d))
    <3> HIDE DEF Ev, Role
    <3> QED
      BY Zenon, <2>1, <2>5
  <2>4. Role(c) # "closed" => c.master # s
    OBVIOUS
  <2> HIDE DEF Cut, Role
  <2> QED
    BY <2>2, <2>3, <2>4 DEF Freed, Closed
<1> HIDE DEF Cut, Ev, Role
<1>3. ASSUME NEW f \in Fds
      PROVE  ConnStep(conn[f], next[f]) /\ (next[f].role # "closed" => conn[f].master # s)
  <2>1. next[f] = Freed(Cut(conn[f]))
    OBVIOUS
  <2>2. IsConn(conn[f])
    BY Here
  <2> HIDE DEF next
  <2> QED
    BY <1>2, <2>1, <2>2
<1>4. next = [f \in Fds |-> next[f]]
  BY Zenon
<1> HIDE DEF next
<1>5. u.cn = next /\ u.sv = [r \in Servers |-> IF r = s THEN v ELSE server[r]] /\ u = [sv |-> u.sv, cn |-> u.cn]
  BY Here DEF IsWorld
<1> HIDE DEF u
<1>6. IsWorld(u)
  BY <1>3, <1>4, <1>5, Here DEF IsWorld, ConnStep
<1>7. Wires(u)
  <2>1. Wires(World) /\ World.sv = server /\ World.cn = conn
    BY Here DEF FilesInv
  <2> QED
    BY <1>3, <1>5, <2>1 DEF Wires, ConnStep
<1>8. ASSUME NEW r \in Servers
      PROVE  FileOK(u.sv[r], since[r], Conf, r) \/ \A U : FileOK(u.sv[r], U, Conf, r)
  <2>1. CASE r = s
    <3>1. u.sv[r] = v
      BY <1>5, <2>1
    <3> QED
      BY Zenon, <2>1, <3>1
  <2>2. CASE r # s
    BY <1>5, <2>2 DEF FilesInv
  <2> QED
    BY <2>1, <2>2
<1> QED
  BY <1>1, <1>6, <1>7, <1>8, SoundStep

LEMMA StoppedFiles ==
    ASSUME NEW v, IsServer(v), v.up, NEW T, NEW conf, NEW s, FileOK(v, T, conf, s)
    PROVE  /\ \A kept \in 0..Len(v.file) : \A U : IsServer(Stopped(v, kept)) /\ FileOK(Stopped(v, kept), U, conf, s)
           /\ LET x == Stopped(v, v.synced) IN \A U : IsServer(x) /\ FileOK(x, U, conf, s)
           /\ LET x == Stopped(rdbSave(v), v.synced) IN \A U : IsServer(x) /\ FileOK(x, U, conf, s)
<1>1. AofPart(v, T, conf) /\ v.synced \in 0..Len(v.file)
  BY DEF FileOK, AofPart
<1>2. /\ Counts(conf) => v.host = conf.slaveof[s]
      /\ Counts(conf) /\ conf.slaveof[s] = 0 => v.rdb = <<>> \/ IsData(v.rdb[1])
      /\ Counts(conf) /\ conf.slaveof[s] = 0 => IsData(v.data)
  BY DEF FileOK, SavePart
<1>3. ASSUME NEW kept \in 0..Len(v.file), NEW U
      PROVE  IsServer(Stopped(v, kept)) /\ FileOK(Stopped(v, kept), U, conf, s)
  BY <1>1, <1>2, StoppedKeeps
<1>4. ASSUME NEW U
      PROVE  LET x == Stopped(rdbSave(v), v.synced) IN IsServer(x) /\ FileOK(x, U, conf, s)
  <2> DEFINE y == rdbSave(v)
             d == <<v.data>>
  <2>1. d[1] = v.data
    OBVIOUS
  <2>2. y = [v EXCEPT !.rdb = d, !.dirty = 0, !.saveok = TRUE]
    BY DEF rdbSave
  <2> HIDE DEF y, d
  <2>3. IsServer(y) /\ SameAof(v, y) /\ y.rdb = d /\ y.host = v.host
    BY <2>2 DEF IsServer, ServerFields, SameAof
  <2>4. AofPart(y, T, conf) /\ v.synced \in 0..Len(y.file)
    BY <1>1, <2>3, PartsKept DEF SameAof
  <2>5. /\ Counts(conf) => y.host = conf.slaveof[s]
        /\ Counts(conf) /\ conf.slaveof[s] = 0 => y.rdb = <<>> \/ IsData(y.rdb[1])
    BY <1>2, <2>1, <2>3
  <2>6. IsServer(Stopped(y, v.synced)) /\ FileOK(Stopped(y, v.synced), U, conf, s)
    BY <2>3, <2>4, <2>5, StoppedKeeps
  <2> QED
    BY <2>6 DEF y
<1> QED
  BY <1>1, <1>3, <1>4

LEMMA LoadedUp ==
    ASSUME NEW v, NEW conf, NEW s
    PROVE  loadDataFromDisk(v, conf, s).up
  BY DEF loadDataFromDisk, initServer

LEMMA ProcessFiles ==
    ASSUME LinkInv, FilesInv, NEW s \in Servers, shutdownCommand(s) \/ Crash(s) \/ Kill(s) \/ Start(s)
    PROVE  FilesInv'
<1> DEFINE v == server[s]
           conf == Conf
           T == since[s]
<1>1. IsServer(v) /\ FileOK(v, T, conf, s)
  BY Files
<1>2. CASE shutdownCommand(s)
  <2> DEFINE u == prepareForShutdown(v)
  <2>1. v.up
    BY <1>2 DEF shutdownCommand, Admin
  <2>2. \/ Gone(s, Stopped(u, u.synced)) \/ Gone(s, Stopped(rdbSave(u), u.synced)) \/ Put(s, u)
    BY <1>2 DEF shutdownCommand
  <2>3. IsServer(u) /\ FileOK(u, T, conf, s) /\ u.up
    BY Zenon, <1>1, <2>1, ShutdownKeeps
  <2> HIDE DEF u, T, v, conf
  <2>4. LET x == Stopped(u, u.synced) IN \A U : IsServer(x) /\ FileOK(x, U, conf, s)
    BY Zenon, <2>3, StoppedFiles
  <2>5. LET x == Stopped(rdbSave(u), u.synced) IN \A U : IsServer(x) /\ FileOK(x, U, conf, s)
    BY Zenon, <2>3, StoppedFiles
  <2> USE DEF T, v, conf
  <2>6. CASE Gone(s, Stopped(u, u.synced))
    BY <2>4, <2>6, GoneFiles
  <2>7. CASE Gone(s, Stopped(rdbSave(u), u.synced))
    BY <2>5, <2>7, GoneFiles
  <2>8. CASE Put(s, u)
    BY <2>1, <2>3, <2>8, PutFiles
  <2> QED
    BY <2>2, <2>6, <2>7, <2>8
<1>3. CASE Crash(s) \/ Kill(s)
  <2>1. v.up /\ v.synced \in 0..Len(v.file) /\ Len(v.file) \in Nat
    <3>1. v.synced \in 0..Len(v.file)
      BY <1>1 DEF FileOK, AofPart
    <3>2. PICK S : v.file \in Seq(S)
      BY <1>1 DEF FileOK, AofPart, IsSeq
    <3>3. Len(v.file) \in Nat
      BY <3>2, LenProperties
    <3> QED
      BY <1>3, <3>1, <3>3 DEF Crash, Kill
  <2>2. PICK kept \in 0..Len(v.file) : Gone(s, Stopped(v, kept))
    <3>1. CASE Crash(s)
      BY <2>1, <3>1 DEF Crash
    <3>2. CASE Kill(s)
      BY <2>1, <3>2 DEF Kill
    <3> QED
      BY <1>3, <3>1, <3>2
  <2> HIDE DEF v, conf, T
  <2>3. \A U : IsServer(Stopped(v, kept)) /\ FileOK(Stopped(v, kept), U, conf, s)
    BY Zenon, <1>1, <2>1, StoppedFiles
  <2> QED
    BY <2>2, <2>3, GoneFiles DEF conf
<1>4. CASE Start(s)
  <2> DEFINE y == loadDataFromDisk(v, conf, s)
             u == WithServer(World, s, y)
  <2>1. ~v.up /\ Put(s, y)
    BY <1>4 DEF Start
  <2> HIDE DEF v, T, conf
  <2>2. IsServer(y)
    BY <1>1, StopAndStart
  <2>3. ASSUME NEW U, y.data \in U PROVE FileOK(y, U, conf, s)
    BY <1>1, <2>1, <2>3, LoadKeeps
  <2> HIDE DEF y
  <2>4. [World EXCEPT !.sv[s] = y] = u
    BY Here, Changes
  <2>5. Commit(u)
    BY <2>1, <2>4 DEF Put
  <2>6. IsWorld(u) /\ u.cn = World.cn /\ u.sv[s] = y /\ \A r \in Servers \ {s} : u.sv[r] = server[r]
    <3>1. IsWorld(World) /\ World.sv = server
      BY Here
    <3> QED
      BY <2>2, <3>1, PutServer
  <2> HIDE DEF u
  <2>7. IsWorld(u)
    BY <2>6
  <2>8. Wires(u)
    <3>1. Wires(World) /\ World.sv = server
      BY Here DEF FilesInv
    <3>2. y.up
      BY LoadedUp DEF y
    <3>3. \A r \in Servers : server[r].up => u.sv[r].up
      BY <2>6, <3>2
    <3> QED
      BY <2>6, <3>1, <3>3 DEF Wires
  <2>9. ASSUME NEW r \in Servers
        PROVE  FileOK(u.sv[r], since[r], Conf, r) \/ FileOK(u.sv[r], since'[r], Conf, r)
    <3>1. CASE r = s
      <4>1. y.data \in since'[s]
        BY <2>5, <2>6, SinceThen
      <4>2. FileOK(y, since'[s], conf, s)
        BY <2>3, <4>1
      <4> QED
        BY <2>6, <3>1, <4>2 DEF conf
    <3>2. CASE r # s
      BY <2>6, <3>2 DEF FilesInv
    <3> QED
      BY <3>1, <3>2
  <2> QED
    BY <2>5, <2>7, <2>8, <2>9, SoundStep
<1> QED
  BY <1>2, <1>3, <1>4

LEMMA CronFiles ==
    ASSUME LinkInv, FilesInv, NEW s \in Servers, SomeCron(s) \/ TimeOut(s)
    PROVE  FilesInv'
<1>1. PICK t : CronStep(s, t)
  BY DEF SomeCron, TimeOut, Cron
<1>2. World.sv[s].up /\ Commit(serverCron(World, s, Conf, t)) /\ IsWorld(World)
  BY <1>1, Here DEF CronStep
<1> QED
  BY <1>2, ServerCronTame, TameStep

LEMMA SlaveofFiles ==
    ASSUME LinkInv, FilesInv, NEW s \in Servers, NEW host, Slaveof(s, host)
    PROVE  FilesInv'
<1>1. ~Counts(Conf) /\ Commit(slaveofCommand(World, s, host))
  BY DEF Slaveof, Admin, Allowed, Counts
<1> QED
  BY <1>1, Here, SlaveofTame, TameStep

\* One end of a connection
LEMMA EndStep ==
    ASSUME LinkInv, FilesInv, NEW f \in Fds, NEW c, ConnStep(conn[f], c)
    PROVE  /\ Commit([World EXCEPT !.cn[f] = c]) => FilesInv'
           /\ Tame(World, WithConn(World, f, c), Conf) /\ IsWorld(WithConn(World, f, c))
           /\ WithConn(World, f, c).sv = server /\ WithConn(World, f, c).cn[f] = c
<1> DEFINE u == WithConn(World, f, c)
<1>1. [World EXCEPT !.cn[f] = c] = u
  BY Here, Changes
<1>2. Tame(World, u, Conf) /\ u.sv = World.sv /\ u.cn[f] = c /\ IsWorld(u)
  BY Here, TameConn DEF ConnStep
<1> HIDE DEF u
<1> QED
  BY <1>1, <1>2, Here, TameStep DEF u

LEMMA SlaveEndFiles ==
    ASSUME LinkInv, FilesInv, NEW f \in Fds, SyncWithMaster(f) \/ ReadSyncBulkPayload(f)
    PROVE  FilesInv'
<1>1. conn[f].ev # "none" => conn[f].slave \in Servers
  BY Here DEF Linked, ConnOK
<1>2. CASE SyncWithMaster(f)
  <2>1. World.cn[f].ev = "sync" /\ conn[f].slave \in Servers /\ Commit(syncWithMaster(World, conn[f].slave, f))
    BY <1>1, <1>2, Here DEF SyncWithMaster
  <2> QED
    BY <2>1, Here, SyncTame, TameStep
<1>3. CASE ReadSyncBulkPayload(f)
  <2> DEFINE s == World.cn[f].slave
  <2>1. World.cn[f].ev = "payload" /\ s \in Servers
    BY <1>1, <1>3, Here DEF ReadSyncBulkPayload
  <2>2. PICK forks : Commit(readSyncBulkPayload(World, s, f, Conf, forks))
    BY <1>3, Here DEF ReadSyncBulkPayload
  <2> DEFINE u == readSyncBulkPayload(World, s, f, Conf, forks)
  <2>3. FileOK(World.sv[s], since[s], Conf, s)
    BY <2>1, Files, Here
  <2>4. Tame(World, u, Conf) \/ (Changed(World, u, s) /\ \A U : FileOK(u.sv[s], U, Conf, s))
    BY <2>1, <2>3, Here, BulkChanged
  <2> HIDE DEF u, s
  <2>5. Commit(u)
    BY <2>2 DEF u
  <2> QED
    BY <2>1, <2>4, <2>5, TameStep, ChangedStep
<1> QED
  BY <1>2, <1>3

LEMMA LinkFiles ==
    ASSUME LinkInv, FilesInv, NEW f \in Fds, ReadFromMaster(f)
    PROVE  FilesInv'
<1> DEFINE c == conn[f]
           s == c.slave
           v == server[s]
           cmd == Head(c.wire)
           wire == Tail(c.wire)
           read == [World EXCEPT !.cn[f].wire = Tail(@)]
           wrote == [v EXCEPT !.data[c.db] = Append(@, cmd[2]), !.dirty = @ + 1]
           emptied == emptyDb(v, Conf.saveparams)
           d == [c EXCEPT !.wire = Tail(@)]
           x == WithConn(World, f, d)
<1>1. c.ev = "link"
  BY DEF ReadFromMaster
<1>2. s \in Servers /\ v.up
  BY <1>1, Here DEF Linked, ConnOK
<1>3. \/ Commit(FreeMaster(World, s))
      \/ /\ c.wire # <<>>
         /\ \/ cmd[1] = "select" /\ Commit([read EXCEPT !.cn[f].db = cmd[2]])
            \/ Commit(read)
            \/ cmd[1] = "write" /\ Commit(propagate([read EXCEPT !.sv[s] = wrote], s, c.db, cmd))
            \/ cmd[1] \notin {"select", "write"} /\ Commit(propagate([read EXCEPT !.sv[s] = emptied], s, c.db, cmd))
  BY Zenon DEF ReadFromMaster
<1>4. IsConn(c) /\ Commands(c.wire) /\ c.db \in Dbs
  BY <1>1, Here DEF FilesInv, Wires, Phase
<1>5. CASE Commit(FreeMaster(World, s))
  BY <1>2, <1>5, Here, FreeTame, TameStep
<1>6. ASSUME c.wire # <<>> PROVE IsCommand(cmd) /\ ConnStep(c, d)
  <2>1. IsCommand(cmd)
    BY <1>4, <1>6, CommandWires
  <2>2. ConnStep(c, d)
    BY Zenon, <1>1, <1>4, <1>6, SlaveSteps
  <2> QED
    BY <2>1, <2>2
<1>7. read = x
  <2>1. read = [World EXCEPT !.cn[f].wire = wire] /\ d = [c EXCEPT !.wire = wire] /\ c = World.cn[f]
    BY Zenon, Here
  <2> HIDE DEF wire, d, c, read
  <2> QED
    BY <2>1, Here, Shape DEF WithConn
<1> HIDE DEF read
<1>8. ASSUME c.wire # <<>>
      PROVE  Tame(World, x, Conf) /\ IsWorld(x) /\ x.sv = server /\ x.cn[f] = d
  <2> HIDE DEF d, c
  <2> QED
    BY <1>6, <1>8, EndStep DEF c
<1> HIDE DEF x
<1>9. CASE c.wire # <<>> /\ Commit(read)
  BY <1>7, <1>8, <1>9, TameStep
<1>10. CASE c.wire # <<>> /\ cmd[1] = "select" /\ Commit([read EXCEPT !.cn[f].db = cmd[2]])
  <2> DEFINE e == cmd[2]
             k == [x.cn[f] EXCEPT !.db = e]
             u == WithConn(x, f, k)
  <2>1. e \in Dbs
    BY <1>6, <1>10, Messages
  <2> HIDE DEF e, d, c, cmd
  <2>2. IsConn(x.cn[f])
    BY <1>8, <1>10, SameFacts
  <2>3. ConnStep(x.cn[f], k)
    BY Zenon, <2>1, <2>2, SlaveSteps
  <2>4. [x EXCEPT !.cn[f].db = e] = u
    BY <1>8, <1>10, Shape DEF WithConn
  <2> HIDE DEF k, u
  <2>5. Tame(x, u, Conf)
    BY <1>8, <1>10, <2>3, TameConn DEF ConnStep, u
  <2>6. Commit(u)
    BY <1>7, <1>10, <2>4 DEF e
  <2> QED
    BY <1>8, <1>10, <2>5, <2>6, TameThen, TameStep
<1>11. IsServer(v) /\ FileOK(v, since[s], Conf, s)
  BY <1>2, Files
\* A command is executed, and goes to our files and to our slaves
<1>12. ASSUME c.wire # <<>>, NEW z, SameLink(v, z), FileOK(feedAppendOnlyFile(z, c.db, cmd), since[s], Conf, s),
              Commit(propagate([read EXCEPT !.sv[s] = z], s, c.db, cmd))
       PROVE  FilesInv'
  <2> DEFINE db == c.db
             y == feedAppendOnlyFile(z, db, cmd)
             u == propagate([x EXCEPT !.sv[s] = z], s, db, cmd)
  <2>1. IsServer(z) /\ z.up = v.up
    BY <1>12 DEF SameLink
  <2>2. SameLink(z, y)
    <3> HIDE DEF db, cmd
    <3> QED
      BY Zenon, <2>1, AppendsLink
  <2>3. y = feedAppendOnlyFile(z, db, cmd) /\ FileOK(y, since[s], Conf, s) /\ Commit(u)
    BY <1>7, <1>12
  <2>4. IsCommand(cmd) /\ db \in Dbs /\ IsWorld(x) /\ x.sv[s] = v /\ x.sv = server /\ Tame(World, x, Conf)
    BY <1>4, <1>6, <1>8, <1>12
  <2> HIDE DEF y, db, cmd, s, v, c
  <2>5. IsServer(y) /\ y.up = v.up
    BY <2>1, <2>2 DEF SameLink
  <2>6. Changed(x, u, s) /\ u.sv[s] = y
    <3>1. y = feedAppendOnlyFile(z, db, cmd) /\ y.up = x.sv[s].up /\ IsServer(y) /\ IsServer(z) /\ IsWorld(x)
      BY <2>1, <2>3, <2>4, <2>5
    <3> QED
      BY <1>2, <2>4, <3>1, PropagateChanged
  <2> HIDE DEF u
  <2>7. Changed(World, u, s)
    BY <1>2, <2>4, <2>6, Here DEF Changed, Tame, v
  <2> QED
    BY <1>2, <2>3, <2>6, <2>7, ChangedStep
<1>13. CASE c.wire # <<>> /\ cmd[1] = "write" /\ Commit(propagate([read EXCEPT !.sv[s] = wrote], s, c.db, cmd))
  <2> DEFINE n == cmd[2]
             db == c.db
  <2>1. cmd = Write(n)
    BY <1>6, <1>13, Messages
  <2> DEFINE z == [v EXCEPT !.data[db] = Append(@, n), !.dirty = @ + 1]
  <2>4. db \in Dbs /\ wrote = z
    BY <1>4
  <2> HIDE DEF n, db, v, s
  <2>2. SameLink(v, z)
    BY <1>11 DEF SameLink, IsServer, ServerFields
  <2>3. FileOK(feedAppendOnlyFile(z, db, Write(n)), since[s], Conf, s)
    BY Zenon, <1>2, <1>11, <2>4, WriteKeeps
  <2> HIDE DEF z
  <2> HIDE DEF wrote
  <2> QED
    BY <1>12, <1>13, <2>1, <2>2, <2>3, <2>4 DEF db
<1>14. CASE /\ c.wire # <<>> /\ cmd[1] \notin {"select", "write"}
            /\ Commit(propagate([read EXCEPT !.sv[s] = emptied], s, c.db, cmd))
  <2>1. cmd = FlushAll
    BY <1>6, <1>14, Messages
  <2> DEFINE db == c.db
  <2>2. db \in Dbs
    BY <1>4
  <2>3. SameLink(v, emptied)
    BY <1>11, SnapshotsLink
  <2> HIDE DEF db, v, s
  <2>4. FileOK(feedAppendOnlyFile(emptied, db, FlushAll), since[s], Conf, s)
    BY Zenon, <1>2, <1>11, <2>2, EmptyKeeps
  <2> HIDE DEF emptied
  <2> QED
    BY <1>12, <1>14, <2>1, <2>3, <2>4 DEF db
<1> QED
  BY <1>3, <1>5, <1>9, <1>10, <1>13, <1>14

LEMMA RequestFiles ==
    ASSUME LinkInv, FilesInv, NEW f \in Fds, Request(f)
    PROVE  FilesInv'
<1> DEFINE c == conn[f]
           req == Tail(c.req)
           pong == <<"pong">>
           d == [c EXCEPT !.req = Tail(@)]
           w == [World EXCEPT !.cn[f].req = Tail(@)]
           x == WithConn(World, f, d)
           k == [d EXCEPT !.wire = Append(@, pong)]
           ponged == [w EXCEPT !.cn[f].wire = Append(@, pong)]
<1>1. c.req # <<>> /\ c.role # "closed" /\ IsConn(c) /\ Phase(c)
  BY Here DEF Request, FilesInv, Wires
<1>2. \/ Head(c.req) = "PING" /\ Commit(ponged)
      \/ Head(c.req) # "PING" /\ \E forks : Commit(syncCommand(w, c.master, f, forks))
  BY Zenon DEF Request
<1>3. ConnStep(c, d) /\ d.role = c.role
  BY Zenon, <1>1, RequestSteps
<1>4. Head(c.req) # "PING" => /\ d.role = "none" /\ d.ev = "payload" => d.req = <<>>
                              /\ d.role = "none" => d.ev \in {"none", "payload"}
  <2>1. Head(c.req) # "PING" => /\ c.role = "none" /\ d.ev = "payload" => d.req = <<>>
                                /\ c.role = "none" => d.ev \in {"none", "payload"}
    BY Zenon, <1>1, RequestSteps
  <2> QED
    BY Zenon, <1>3, <2>1
<1>5. pong[1] # "rdb"
  OBVIOUS
<1> HIDE DEF pong
<1>6. Head(c.req) = "PING" => ConnStep(c, k)
  BY Zenon, <1>1, <1>5, RequestSteps
<1>7. w = x
  <2>1. w = [World EXCEPT !.cn[f].req = req] /\ d = [c EXCEPT !.req = req] /\ c = World.cn[f]
    BY Zenon, Here
  <2> HIDE DEF req, d, c, w
  <2> QED
    BY <2>1, Here, Shape DEF WithConn
<1>8. ponged = [w EXCEPT !.cn[f].wire = Append(w.cn[f].wire, pong)]
  BY Zenon
<1> HIDE DEF w
<1>9. Tame(World, x, Conf) /\ IsWorld(x) /\ x.sv = server /\ x.cn[f] = d
  <2> HIDE DEF d, c
  <2> QED
    BY <1>3, EndStep DEF c
<1>10. CASE Head(c.req) = "PING" /\ Commit(ponged)
  <2> DEFINE wire == Append(d.wire, pong)
  <2>1. k = [d EXCEPT !.wire = wire] /\ ponged = [x EXCEPT !.cn[f].wire = wire]
    <3>1. k = [d EXCEPT !.wire = wire]
      BY Zenon
    <3> HIDE DEF d, k, ponged, x
    <3> QED
      BY <1>7, <1>8, <1>9, <3>1
  <2> HIDE DEF d, k, ponged, wire, c
  <2>2. ponged = [World EXCEPT !.cn[f] = k]
    BY <1>9, <2>1, Here, Shape DEF WithConn, IsWorld
  <2> QED
    BY <1>6, <1>10, <2>2, EndStep DEF c
<1>11. ASSUME Head(c.req) # "PING", NEW forks, Commit(syncCommand(w, c.master, f, forks)) PROVE FilesInv'
  <2> DEFINE s == c.master
  <2>1. s = x.cn[f].master
    BY <1>1, <1>3, <1>9 DEF ConnStep
  <2>2. Wires(x)
    BY <1>9 DEF Tame, FilesInv
  <2> HIDE DEF c, d, x, s
  <2>3. Tame(x, syncCommand(x, s, f, forks), Conf)
    BY <1>4, <1>9, <1>11, <2>1, <2>2, SyncCommandTame
  <2>4. Tame(World, syncCommand(x, s, f, forks), Conf)
    BY <1>9, <2>3, TameThen
  <2> QED
    BY <1>7, <1>11, <2>4, TameStep DEF s
<1> QED
  BY <1>2, <1>10, <1>11

LEMMA MasterEndFiles ==
    ASSUME LinkInv, FilesInv, NEW f \in Fds,
           sendBulkToSlave(f) \/ sendReplyToClient(f) \/ SlaveGone(f) \/ DropSlave(f)
    PROVE  FilesInv'
<1> DEFINE c == conn[f]
<1>1. IsConn(c)
  BY Here
<1>2. CASE sendBulkToSlave(f)
  <2> DEFINE b == c.bulk[1]
             d == [c EXCEPT !.wire = Append(@, <<"rdb", b>>), !.bulk = <<>>, !.role = "online"]
  <2>1. Commit([World EXCEPT !.cn[f] = d]) /\ c.role = "bulk"
    BY <1>2 DEF sendBulkToSlave
  <2> HIDE DEF b
  <2>2. ConnStep(c, d)
    BY Zenon, <1>1, <2>1, SendSteps
  <2> HIDE DEF d
  <2> QED
    BY <2>1, <2>2, EndStep
<1>3. CASE sendReplyToClient(f)
  <2> DEFINE d == [c EXCEPT !.wire = @ \o c.out, !.out = <<>>]
  <2>1. Commit([World EXCEPT !.cn[f] = d]) /\ c.role = "online"
    BY <1>3 DEF sendReplyToClient
  <2>2. ConnStep(c, d)
    BY Zenon, <1>1, <2>1, SendSteps
  <2> HIDE DEF d
  <2> QED
    BY <2>1, <2>2, EndStep
<1>4. CASE SlaveGone(f) \/ DropSlave(f)
  <2>1. Commit(CloseMasterEnds(World, {f}))
    BY <1>4 DEF SlaveGone, DropSlave
  <2> QED
    BY <2>1, Here, CloseMasterTame, TameStep
<1> QED
  BY <1>2, <1>3, <1>4

LEMMA FilesAtFirst == ASSUME Init PROVE FilesInv
<1> DEFINE V(s) == [initServer(Conf, s) EXCEPT !.up = s \in Conf.servers]
<1>1. ASSUME NEW s PROVE FileOK(V(s), {EmptyData}, Conf, s) /\ V(s).data = EmptyData
  <2> DEFINE up == s \in Conf.servers
  <2> HIDE DEF up
  <2>1. LET u == [initServer(Conf, s) EXCEPT !.up = up] IN FileOK(u, {EmptyData}, Conf, s) /\ u.data = EmptyData
    BY Zenon, InitKeeps
  <2> QED
    BY Zenon, <2>1 DEF up
<1>2. server = [s \in Servers |-> V(s)]
  BY Zenon DEF Init
<1> HIDE DEF V
<1>3. since = [s \in Servers |-> {EmptyData}] /\ conn = [f \in Fds |-> Closed]
  BY DEF Init
<1>4. World.sv = server /\ World.cn = conn
  BY DEF World
<1>5. Wires(World)
  BY <1>3, <1>4, ClosedPhase DEF Wires
<1>6. ASSUME NEW s \in Servers PROVE FileOK(server[s], since[s], Conf, s) /\ server[s].data \in since[s]
  <2>1. server[s] = V(s) /\ since[s] = {EmptyData}
    BY <1>2, <1>3
  <2> QED
    BY <1>1, <2>1
<1> QED
  BY <1>3, <1>5, <1>6 DEF FilesInv

LEMMA FilesKept ==
    ASSUME LinkInv, FilesInv, [Next]_vars
    PROVE  FilesInv'
<1>1. CASE UNCHANGED vars
  <2>1. World' = World /\ Conf' = Conf /\ server' = server /\ since' = since
    BY <1>1 DEF vars, World, Conf
  <2>2. Wires(World)'
    BY <2>1 DEF Wires, FilesInv
  <2>3. ASSUME NEW s \in Servers PROVE FileOK(server[s], since[s], Conf, s)'
    BY <2>1 DEF FilesInv, FileOK, AofPart, SavePart
  <2> QED
    BY <2>1, <2>2, <2>3 DEF FilesInv
<1>2. ASSUME NEW s \in Servers,
             \/ flushallCommand(s) \/ saveCommand(s) \/ bgsaveCommand(s) \/ bgrewriteaofCommand(s)
             \/ configSetAppendonly(s) \/ shutdownCommand(s) \/ Crash(s) \/ Kill(s) \/ Start(s)
             \/ beforeSleep(s) \/ SomeCron(s) \/ Bio(s) \/ TimeOut(s)
             \/ \E d \in Dbs : WriteCommand(s, d)
             \/ \E host \in {0} \cup Servers : Slaveof(s, host)
             \/ \E how \in {"ok", "error", "killed"} : SaveChild(s, how) \/ RewriteChild(s, how)
      PROVE  FilesInv'
  <2>1. CASE flushallCommand(s) \/ \E d \in Dbs : WriteCommand(s, d)
    BY <2>1, DataFiles
  <2>2. CASE \/ saveCommand(s) \/ bgsaveCommand(s) \/ bgrewriteaofCommand(s) \/ configSetAppendonly(s) \/ Bio(s)
             \/ \E how \in {"ok", "error", "killed"} : SaveChild(s, how) \/ RewriteChild(s, how)
    BY <2>2, OwnFiles
  <2>3. CASE shutdownCommand(s) \/ Crash(s) \/ Kill(s) \/ Start(s)
    BY <2>3, ProcessFiles
  <2>4. CASE SomeCron(s) \/ TimeOut(s)
    BY <2>4, CronFiles
  <2>5. CASE \E host \in {0} \cup Servers : Slaveof(s, host)
    BY <2>5, SlaveofFiles
  <2>6. CASE beforeSleep(s)
    BY <2>6, BeforeSleepFiles
  <2> QED
    BY <1>2, <2>1, <2>2, <2>3, <2>4, <2>5, <2>6
<1>3. ASSUME NEW f \in Fds,
             \/ SyncWithMaster(f) \/ ReadSyncBulkPayload(f) \/ ReadFromMaster(f)
             \/ Request(f) \/ sendBulkToSlave(f) \/ sendReplyToClient(f)
             \/ SlaveGone(f) \/ DropSlave(f)
      PROVE  FilesInv'
  BY <1>3, SlaveEndFiles, LinkFiles, RequestFiles, MasterEndFiles
<1> QED
  BY <1>1, <1>2, <1>3 DEF Next

LEMMA Rebuilding ==
    ASSUME LinkInv, FilesInv
    PROVE  AofRebuilds
<1> SUFFICES ASSUME NEW s \in Servers
             PROVE  LET v == server[s]
                    IN  /\ v.up /\ v.aof = "on" => Rebuilt(v.file \o v.buf) = v.data
                        /\ Running(v.rewrite) /\ v.aof # "off" => Replay(v.rewrite[1].data, 0, v.diff).data = v.data
  BY DEF AofRebuilds
<1> DEFINE v == server[s]
<1>1. AofPart(v, since[s], Conf)
  BY Files DEF FileOK
<1> HIDE DEF v
<1>2. ASSUME NEW data, NEW q, Rebuilds(data, q, v) PROVE Replay(data, 0, q).data = v.data
  BY <1>2 DEF Rebuilds, State
<1>3. v.up /\ v.aof = "on" => Rebuilt(v.file \o v.buf) = v.data
  BY <1>1, <1>2 DEF AofPart, Rebuilt
<1>4. Running(v.rewrite) /\ v.aof # "off" => Replay(v.rewrite[1].data, 0, v.diff).data = v.data
  BY <1>1, <1>2 DEF AofPart, Running
<1> QED
  BY <1>3, <1>4 DEF v

\* What the theorem of the files asks of a configuration
LEMMA Promises ==
    ASSUME LinkInv, FilesInv,
           Conf.fsync = "always" => ~Conf.no_fsync_on_rewrite,
           "appendonly" \in Conf.allowed => Conf.appendonly
    PROVE  Recoverable
<1> SUFFICES ASSUME NEW s \in Servers, server[s].up, server[s].aof = "on"
             PROVE  LET v == server[s]
                    IN  /\ Conf.fsync = "always" => Rebuilt(SubSeq(v.file, 1, v.synced)) \in since[s]
                        /\ ~v.postponed => Rebuilt(v.file) \in since[s]
  BY DEF Recoverable
<1> DEFINE v == server[s]
           T == since[s]
           conf == Conf
<1>1. AofPart(v, T, conf)
  BY Files DEF FileOK
<1>2. v.up /\ v.aof = "on" /\ (conf.fsync = "always" => Syncing(conf)) /\ (MayAppend(conf) => conf.appendonly)
  BY DEF Syncing, MayAppend
<1> HIDE DEF v, T, conf
<1>3. conf.appendonly /\ (~v.postponed => Rebuilt(v.file) \in T)
  BY <1>1, <1>2 DEF AofPart
<1>4. ASSUME conf.fsync = "always" PROVE Rebuilt(SubSeq(v.file, 1, v.synced)) \in T
  <2>1. v.synced = Len(v.file) /\ ~v.postponed
    BY <1>1, <1>2, <1>4 DEF AofPart
  <2>2. PICK S : v.file \in Seq(S)
    BY <1>1 DEF AofPart, IsSeq
  <2>3. SubSeq(v.file, 1, Len(v.file)) = v.file
    BY <2>2
  <2> QED
    BY <1>3, <2>1, <2>3
<1> QED
  BY <1>3, <1>4 DEF v, T, conf

LEMMA Counting ==
    ASSUME LinkInv, FilesInv,
           "appendonly" \in Conf.allowed => Conf.appendonly,
           Conf.appendonly \/ "slaveof" \notin Conf.allowed
    PROVE  DirtyCounts
<1> SUFFICES ASSUME NEW s \in Servers, ~Conf.appendonly, server[s].up, server[s].host = 0,
                    server[s].dirty = 0, ~Running(server[s].save)
             PROVE  Dumped(server[s])
  BY DEF DirtyCounts, Dumped
<1> DEFINE v == server[s]
           conf == Conf
<1>1. SavePart(v, conf, s)
  BY Files DEF FileOK
<1>2. Counts(conf) /\ v.up /\ v.host = 0 /\ v.dirty = 0
  BY DEF Counts, MayAppend
<1> HIDE DEF v, conf
<1>3. Dumped(v)
  BY <1>1, <1>2 DEF SavePart
<1> QED
  BY <1>3 DEF v

\* Whatever the configuration, and whatever steps its servers take: the append
\* only file and its buffer (feedAppendOnlyFile, flushAppendOnlyFile,
\* loadAppendOnlyFile in aof.c) give the data set of a server that is up, and
\* while a child rewrites the file its snapshot and the differences collected
\* since (aofRewriteBufferAppend) do.  Fsyncs are postponed and rewrites fail or
\* overlap with CONFIG SET, FLUSHALL and SYNC in any order.
THEOREM AppendOnlyFilesRebuild ==
    ASSUME \A g \in DOMAIN Families : "handshake" \notin Families[g].allowed
    PROVE  Spec => []AofRebuilds
<1>1. Init => LinkInv /\ FilesInv
  BY LinksAtFirst, FilesAtFirst
<1>2. LinkInv /\ FilesInv /\ [Next]_vars => (LinkInv /\ FilesInv)'
  BY LinksKept, FilesKept
<1>3. LinkInv /\ FilesInv => AofRebuilds
  BY Rebuilding
<1> QED
  BY <1>1, <1>2, <1>3, PTL DEF Spec

\* The files of a server hold what clients were told: besides the above, what
\* was synced is a data set since the last reply when every write is synced, so
\* is what was written when no write is postponed (flushAppendOnlyFile,
\* beforeSleep), and a master with nothing counted in server.dirty has its data
\* in dump.rdb (rdbSave, backgroundSaveDoneHandler, emptyDb).  It leaves out
\* no-appendfsync-on-rewrite with appendfsync always, which does not sync during
\* a rewrite; servers that start without an AOF and turn it on, for which no
\* reply waits; and servers without an AOF that are told to change sides.
THEOREM FilesAreSound ==
    ASSUME \A g \in DOMAIN Families :
              LET conf == Families[g]
              IN  /\ "handshake" \notin conf.allowed
                  /\ conf.fsync = "always" => ~conf.no_fsync_on_rewrite
                  /\ "appendonly" \in conf.allowed => conf.appendonly
                  /\ conf.appendonly \/ "slaveof" \notin conf.allowed
    PROVE  Spec => []FilesSound
<1>1. Init => LinkInv /\ FilesInv
  BY LinksAtFirst, FilesAtFirst
<1>2. LinkInv /\ FilesInv /\ [Next]_vars => (LinkInv /\ FilesInv)'
  BY LinksKept, FilesKept
<1>3. LinkInv /\ FilesInv => FilesSound
  <2> SUFFICES ASSUME LinkInv, FilesInv PROVE FilesSound
    OBVIOUS
  <2>1. /\ Conf.fsync = "always" => ~Conf.no_fsync_on_rewrite
        /\ "appendonly" \in Conf.allowed => Conf.appendonly
        /\ Conf.appendonly \/ "slaveof" \notin Conf.allowed
    BY DEF LinkInv, Conf
  <2> QED
    BY <2>1, Rebuilding, Promises, Counting DEF FilesSound
<1> QED
  BY <1>1, <1>2, <1>3, PTL DEF Spec
=============================================================================
