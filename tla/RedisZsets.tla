----------------------------- MODULE RedisZsets -----------------------------
(***************************************************************************)
(* The commands on sorted sets, t_zset.c.  Scores are integers and the two *)
(* infinities; c.ns are the scores or the weights of the elements or keys  *)
(* beside them, c.n and c.n2 the bounds of a range, c.ex whether each of   *)
(* them is exclusive.                                                      *)
(***************************************************************************)
EXTENDS RedisHashes

LOCAL INSTANCE FiniteSetsExt

WithZset(s, n, missing, Run(_, _)) == WithType(s, n, "zset", missing, Run)

\* ZADD and ZINCRBY.  An element whose score stays the same is no change.
zaddGenericCommand(s, c, incr) ==
  LET Old(acc, e)   == IF e \in DOMAIN acc.o.zset THEN acc.o.zset[e] ELSE 0
      add(acc, i) ==
        LET e     == c.vs[i]
            score == IF incr THEN RealSum(Old(acc, e), c.ns[i]) ELSE c.ns[i]
            same  == e \in DOMAIN acc.o.zset /\ acc.o.zset[e] = score
        IN  IF incr /\ isnan(Old(acc, e), c.ns[i]) THEN [acc EXCEPT !.nan = TRUE]
            ELSE [acc EXCEPT !.o = ZsetAdd(@, e, score),
                             !.changes = IF same THEN @ ELSE @ + 1]
  IN  IF Len(c.ns) # Len(c.vs) THEN Reply(s, "syntaxerr")
      ELSE WithTypeOrNew(s, c.k, createZset(c.vs[1]), LAMBDA s1, o :
             LET r  == FoldLeft(add, [o |-> o, changes |-> 0, nan |-> FALSE],
                                [i \in DOMAIN c.vs |-> i])
                 s2 == Put(s1, c.k, r.o)
             IN  Reply(IF r.changes > 0 THEN Modified(s2, c.k, r.changes) ELSE s2,
                       IF r.nan THEN "nan"
                       ELSE Cardinality(DOMAIN r.o.zset) - Cardinality(DOMAIN o.zset)))

zaddCommand(s, c)    == zaddGenericCommand(s, c, FALSE)
zincrbyCommand(s, c) == zaddGenericCommand(s, c, TRUE)

\* The elements "gone" leave; the last one takes the key with it.
ZsetDelete(s, n, o, gone) ==
  LET new == ZsetRemove(o, gone)
      s1  == PutOrDelete(s, n, new, DOMAIN new.zset = {})
  IN  Reply(IF gone = {} THEN s ELSE Modified(s1, n, Cardinality(gone)),
            Cardinality(gone))

zremCommand(s, c) ==
  WithZset(s, c.k, 0, LAMBDA s1, o :
    ZsetDelete(s1, c.k, o, ToSet(c.vs) \cap DOMAIN o.zset))

zslParseRange(c) == [min |-> c.n, max |-> c.n2, minex |-> c.ex[1], maxex |-> c.ex[2]]
InRange(o, c) == {e \in DOMAIN o.zset : InScoreRange(zslParseRange(c), o.zset[e])}

zremrangebyscoreCommand(s, c) ==
  WithZset(s, c.k, 0, LAMBDA s1, o : ZsetDelete(s1, c.k, o, InRange(o, c)))

ByRank(o, c) == LET r == RangeOf(Cardinality(DOMAIN o.zset), c.n, c.n2)
                IN  SubSeq(ZsetOrder(o.zset), r.first, r.last)

zremrangebyrankCommand(s, c) ==
  WithZset(s, c.k, 0, LAMBDA s1, o : ZsetDelete(s1, c.k, o, ToSet(ByRank(o, c))))

-----------------------------------------------------------------------------
(* Union and intersection, of sets too: their elements weigh 1.             *)

zunionInterAggregate(target, val, aggregate) ==
  CASE aggregate = "sum" -> IF isnan(target, val) THEN 0 ELSE RealSum(target, val)
    [] aggregate = "min" -> Min({target, val})
    [] aggregate = "max" -> Max({target, val})

\* The smallest source first.
BySize(src) ==
  LET size == [i \in DOMAIN src |-> Cardinality(DOMAIN src[i])]
  IN  SetToSortSeq(DOMAIN src, LAMBDA i, j : size[i] < size[j] \/ (size[i] = size[j] /\ i < j))

Combine(src, c, inter) ==
  LET weighed(e, i) == Saturate((IF c.ns = <<>> THEN 1 ELSE c.ns[i]) * src[i][e])
      fold(e, is) == FoldLeft(LAMBDA acc, i : zunionInterAggregate(acc, weighed(e, i), c.m),
                              weighed(e, is[1]), Tail(is))
      score(e, order) == fold(e, SelectSeq(order, LAMBDA i : e \in DOMAIN src[i]))
      elems == {e \in UNION {DOMAIN src[i] : i \in DOMAIN src} :
                  inter => \A i \in DOMAIN src : e \in DOMAIN src[i]}
  IN  [e \in elems |-> score(e, BySize(src))]

ZsetOf(zset) ==
  [t |-> "zset", zset |-> zset,
   enc |-> IF /\ Cardinality(DOMAIN zset) <= ZsetMaxEntries
              /\ \A e \in DOMAIN zset : string2ll(e) \/ Len(e) <= ZsetMaxValue
           THEN "ziplist" ELSE "skiplist"]

\* The destination is replaced even by nothing.
StoreZset(s, n, o) ==
  LET s1 == IF At(s, n).t = "none" THEN s ELSE Modified(dbDelete(s, n), n, 1)
  IN  Reply(IF DOMAIN o.zset = {} THEN s1 ELSE Modified(Put(s1, n, o), n, 1),
            Cardinality(DOMAIN o.zset))

zunionInterGenericCommand(s, c, inter) ==
  LET read(acc, n) == IF acc.bad THEN acc ELSE
        Lookup(expireIfNeeded(acc.s, n), n, LAMBDA s1, o :
          [s |-> s1, bad |-> o.t \notin {"none", "set", "zset"},
           src |-> Append(acc.src, CASE o.t = "set"  -> [e \in o.set |-> 1]
                                     [] o.t = "zset" -> o.zset
                                     [] OTHER        -> <<>>)])
      Then(r) == IF r.bad THEN Reply(r.s, "wrongtype")
                 ELSE StoreZset(r.s, c.k, ZsetOf(Combine(r.src, c, inter)))
  IN  IF c.ks = <<>> THEN Reply(s, "at least 1 input key")
      ELSE Then(FoldLeft(read, [s |-> s, bad |-> FALSE, src |-> <<>>], c.ks))

zunionstoreCommand(s, c) == zunionInterGenericCommand(s, c, FALSE)
zinterstoreCommand(s, c) == zunionInterGenericCommand(s, c, TRUE)

-----------------------------------------------------------------------------
(* Reading.                                                                 *)

\* ZREVRANGE counts its ranks from the other end.
zrangeGenericCommand(s, c, reverse) ==
  WithZset(s, c.k, <<>>, LAMBDA s1, o :
    LET order == ZsetOrder(o.zset)
        r     == RangeOf(Len(order), c.n, c.n2)
    IN  Reply(s1, SubSeq(IF reverse THEN Reverse(order) ELSE order, r.first, r.last)))

zrangeCommand(s, c)    == zrangeGenericCommand(s, c, FALSE)
zrevrangeCommand(s, c) == zrangeGenericCommand(s, c, TRUE)

\* With LIMIT offset count in c.ns: a negative offset leaves nothing, a
\* negative count is no limit.
genericZrangebyscoreCommand(s, c, reverse) ==
  WithZset(s, c.k, <<>>, LAMBDA s1, o :
    LET range  == SelectSeq(ZsetOrder(o.zset), LAMBDA e : e \in InRange(o, c))
        found  == IF reverse THEN Reverse(range) ELSE range
        offset == IF c.ns = <<>> THEN 0 ELSE c.ns[1]
        last   == IF c.ns = <<>> \/ c.ns[2] < 0 THEN Len(found) ELSE offset + c.ns[2]
    IN  Reply(s1, IF offset < 0 THEN <<>>
                  ELSE SubSeq(found, offset + 1, Min({last, Len(found)}))))

zrangebyscoreCommand(s, c)    == genericZrangebyscoreCommand(s, c, FALSE)
zrevrangebyscoreCommand(s, c) == genericZrangebyscoreCommand(s, c, TRUE)

zcountCommand(s, c) ==
  WithZset(s, c.k, 0, LAMBDA s1, o : Reply(s1, Cardinality(InRange(o, c))))

zcardCommand(s, c) ==
  WithZset(s, c.k, 0, LAMBDA s1, o : Reply(s1, Cardinality(DOMAIN o.zset)))

zscoreCommand(s, c) ==
  WithZset(s, c.k, Nil, LAMBDA s1, o :
    Reply(s1, IF c.v \in DOMAIN o.zset THEN o.zset[c.v] ELSE Nil))

zrankGenericCommand(s, c, reverse) ==
  WithZset(s, c.k, Nil, LAMBDA s1, o :
    LET ahead == {e \in DOMAIN o.zset : IF reverse THEN ZsetLess(o.zset, c.v, e)
                                        ELSE ZsetLess(o.zset, e, c.v)}
    IN  Reply(s1, IF c.v \in DOMAIN o.zset THEN Cardinality(ahead) ELSE Nil))

zrankCommand(s, c)    == zrankGenericCommand(s, c, FALSE)
zrevrankCommand(s, c) == zrankGenericCommand(s, c, TRUE)
=============================================================================
