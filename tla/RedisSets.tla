----------------------------- MODULE RedisSets -----------------------------
(***************************************************************************)
(* The commands on sets, t_set.c.  Where the code draws a random element   *)
(* the command's c.v is the draw, when it is a member.                     *)
(***************************************************************************)
EXTENDS RedisLists

LOCAL INSTANCE FiniteSetsExt

WithSet(s, n, missing, Run(_, _)) == WithType(s, n, "set", missing, Run)
StoreSet(s, n, o) == PutOrDelete(s, n, o, o.set = {})
setTypeRandomElement(o, draw) ==
  IF draw \in o.set THEN draw ELSE CHOOSE e \in o.set : TRUE

saddCommand(s, c) ==
  WithTypeOrNew(s, c.k, setTypeCreate(c.vs[1]), LAMBDA s1, o :
    LET new   == FoldLeft(setTypeAdd, o, c.vs)
        added == Cardinality(new.set) - Cardinality(o.set)
        s2    == Put(s1, c.k, new)
    IN  Reply(IF added > 0 THEN Modified(s2, c.k, added) ELSE s2, added))

sremCommand(s, c) ==
  WithSet(s, c.k, 0, LAMBDA s1, o :
    LET new     == FoldLeft(setTypeRemove, o, c.vs)
        deleted == Cardinality(o.set) - Cardinality(new.set)
    IN  Reply(IF deleted > 0 THEN Modified(StoreSet(s1, c.k, new), c.k, deleted)
              ELSE s1, deleted))

smoveCommand(s, c) ==
  LET moved(s1, src, dst) ==
        Put(Modified(signalModifiedKey(StoreSet(s1, c.k, setTypeRemove(src, c.v)), c.k),
                     c.k2, 1), c.k2, setTypeAdd(dst, c.v))
      move(s1, src, dst) ==
        Reply(IF c.v \in dst.set THEN moved(s1, src, dst)
              ELSE Dirty(moved(s1, src, dst), 1), 1)
      Then(s1, src, dst) ==
        IF src.t = "none" THEN Reply(s1, 0)
        ELSE IF src.t # "set" \/ dst.t \notin {"none", "set"} THEN Reply(s1, "wrongtype")
        ELSE IF c.k = c.k2 THEN Reply(s1, 1)
        ELSE IF c.v \notin src.set THEN Reply(s1, 0)
        ELSE move(s1, src, IF dst.t = "none" THEN setTypeCreate(c.v) ELSE dst)
  IN  Lookup(expireIfNeeded(expireIfNeeded(s, c.k), c.k2), c.k, LAMBDA s1, src :
        Then(s1, src, At(s1, c.k2)))

sismemberCommand(s, c) ==
  WithSet(s, c.k, 0, LAMBDA s1, o : Reply(s1, c.v \in o.set))
scardCommand(s, c) ==
  WithSet(s, c.k, 0, LAMBDA s1, o : Reply(s1, Cardinality(o.set)))

\* Mutant: the clients that WATCH the set are not told
SpopUnsignalled(s, c) ==
  WithSet(s, c.k, Nil, LAMBDA s1, o :
    LET e == setTypeRandomElement(o, c.v)
    IN  Reply(Dirty(Rewrite(StoreSet(s1, c.k, setTypeRemove(o, e)),
                            [op |-> "SREM", k |-> c.k, vs |-> <<e>>]), 1), StringObj(e)))

\* Propagated as the SREM of the element it drew.
spopCommand(s, c) ==
  WithSet(s, c.k, Nil, LAMBDA s1, o :
    LET e == setTypeRandomElement(o, c.v)
    IN  Reply(Modified(Rewrite(StoreSet(s1, c.k, setTypeRemove(o, e)),
                               [op |-> "SREM", k |-> c.k, vs |-> <<e>>]), c.k, 1),
              StringObj(e)))

-----------------------------------------------------------------------------
(* Set algebra.                                                             *)

\* The sources are looked up in order, up to the first that has a wrong type
\* (or is missing, when all are needed).
ReadSets(s, ns, needAll) ==
  LET read(acc, n) == IF acc.stop # "no" THEN acc ELSE
        Lookup(expireIfNeeded(acc.s, n), n, LAMBDA s1, o :
          [s |-> s1,
           stop |-> IF o.t \notin {"none", "set"} THEN "wrongtype"
                    ELSE IF o.t = "none" /\ needAll THEN "missing" ELSE "no",
           sets |-> Append(acc.sets, IF o.t = "set" THEN o.set ELSE {})])
  IN  FoldLeft(read, [s |-> s, stop |-> "no", sets |-> <<>>], ns)

StoreResult(s, n, o) ==
  Modified(IF o.set = {} THEN dbDelete(s, n) ELSE Put(dbDelete(s, n), n, o), n, 1)

AnswerSet(s, store, dst, o) ==
  IF store THEN Reply(StoreResult(s, dst, o), Cardinality(o.set)) ELSE Reply(s, o.set)

sinterGenericCommand(s, ns, store, dst) ==
  LET Inter(sets) == {e \in sets[1] : \A i \in DOMAIN sets : e \in sets[i]}
      Then(r) ==
        CASE r.stop = "wrongtype" -> Reply(r.s, "wrongtype")
          [] r.stop = "missing" ->
               Reply(IF store /\ At(r.s, dst).t # "none"
                     THEN Modified(dbDelete(r.s, dst), dst, 1) ELSE r.s, 0)
          [] OTHER ->
               AnswerSet(r.s, store, dst, SetAddAll(createIntsetObject, Inter(r.sets)))
  IN  Then(ReadSets(s, ns, TRUE))

sunionDiffGenericCommand(s, ns, store, dst, op) ==
  LET Result(first, others) ==
        IF op = "union" THEN SetAddAll(first, others) ELSE [first EXCEPT !.set = @ \ others]
      Then(r) ==
        IF r.stop = "wrongtype" THEN Reply(r.s, "wrongtype")
        ELSE AnswerSet(r.s, store, dst,
               Result(SetAddAll(createIntsetObject, r.sets[1]),
                      UNION {r.sets[i] : i \in 2..Len(r.sets)}))
  IN  Then(ReadSets(s, ns, FALSE))

sinterCommand(s, c)      == sinterGenericCommand(s, c.ks, FALSE, c.k)
sinterstoreCommand(s, c) == sinterGenericCommand(s, c.ks, TRUE, c.k)
sunionCommand(s, c)      == sunionDiffGenericCommand(s, c.ks, FALSE, c.k, "union")
sunionstoreCommand(s, c) == sunionDiffGenericCommand(s, c.ks, TRUE, c.k, "union")
sdiffCommand(s, c)       == sunionDiffGenericCommand(s, c.ks, FALSE, c.k, "diff")
sdiffstoreCommand(s, c)  == sunionDiffGenericCommand(s, c.ks, TRUE, c.k, "diff")

\* SRANDMEMBER key count.  For a count as large as the set the code answers
\* with the union of two keys: this one and the one named like the command.
srandmemberWithCountCommand(s, c) ==
  WithSet(s, c.k, {}, LAMBDA s1, o :
    LET named == {n \in Names : n = c.op}
    IN  IF c.n < 0 THEN Reply(s1, [i \in 1..(-c.n) |-> setTypeRandomElement(o, c.v)])
        ELSE IF c.n >= Cardinality(o.set) /\ c.n > 0
        THEN sunionDiffGenericCommand(s1, SetToSeq(named) \o <<c.k>>, FALSE, c.k, "union")
        ELSE Reply(s1, CHOOSE es \in SUBSET o.set : Cardinality(es) = c.n))

srandmemberCommand(s, c) ==
  WithSet(s, c.k, Nil, LAMBDA s1, o :
    Reply(s1, StringObj(setTypeRandomElement(o, c.v))))
=============================================================================
