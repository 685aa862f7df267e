----------------------------- MODULE RedisSort -----------------------------
(***************************************************************************)
(* The SORT command, sort.c.  c.m is "sort", "by" (BY with a pattern) or   *)
(* "nosort" (BY a constant), c.f the hash field of the pattern, <<>> for   *)
(* none; c.get stands for GET with the same pattern, c.alpha, c.desc and   *)
(* c.store for the options of these names, c.n and c.n2 for LIMIT.         *)
(***************************************************************************)
EXTENDS RedisZsets

LOCAL INSTANCE TLC
LOCAL INSTANCE FiniteSetsExt

CONSTANT SortKey(_)     \* the key a pattern stands for, given the element

\* The string, or the hash field, that an element's pattern names.
lookupKeyByPattern(s, e, field) ==
  LET o == At(s, SortKey(e))
  IN  IF field # <<>> THEN addHashFieldToReply(o, field)
      ELSE IF o.t = "string" THEN o ELSE Nil

\* Scores first, then the elements themselves, so that nothing is undefined;
\* a missing weight is 0, or the least of all when sorting ALPHA.
sortCompare(a, b, va, vb, alpha) ==
  LET score(v) == IF v.t = "none" THEN 0 ELSE Number(v.str).n
  IN  IF alpha THEN (IF va.t = "none" \/ vb.t = "none" THEN va.t = "none" /\ vb.t # "none"
                     ELSE StringLess(va.str, vb.str))
      ELSE score(va) < score(vb) \/ (score(va) = score(vb) /\ StringLess(a, b))

\* What is stored, or returned to a script, must not depend on the order of a
\* hash table: it is sorted after all.
Forced(s, c, o) == c.m = "nosort" /\ (c.store \/ s.lua) /\ o.t # "zset"
SortMode(forced, c) == [dontsort |-> c.m = "nosort" /\ ~forced, alpha |-> c.alpha \/ forced]

SortVector(o, reverse) ==
  CASE o.t = "none" -> <<>>
    [] o.t = "list" -> o.list
    [] o.t = "set"  -> SetToSeq(o.set)
    [] o.t = "zset" -> IF reverse THEN Reverse(ZsetOrder(o.zset)) ELSE ZsetOrder(o.zset)

\* The keys of a pattern are looked up, and expire, in the vector's order.
LookupAll(s, vector) == ExpireAll(s, [i \in DOMAIN vector |-> SortKey(vector[i])])
Weights(s, c, es) ==
  [e \in es |-> IF c.m = "by" THEN lookupKeyByPattern(s, e, c.f) ELSE StringObj(e)]

Sorted(vector, weight, c, alpha) ==
  LET less(a, b) == sortCompare(a, b, weight[a], weight[b], alpha)
  IN  SortSeq(vector, LAMBDA a, b : IF c.desc THEN less(b, a) ELSE less(a, b))

Limit(vector, start, count) ==
  SubSeq(vector, start + 1,
         IF count < 0 THEN Len(vector) ELSE Min({start + count, Len(vector)}))

StoreSorted(s, c, output) ==
  IF output # <<>>
  THEN Reply(Dirty(setKey(s, c.k2, FoldLeft(LAMBDA acc, v : listTypePush(acc, v, "tail"),
                                            createZiplistObject, output)),
                   Len(output)), Len(output))
  ELSE IF At(s, c.k2).t # "none" THEN Reply(Modified(dbDelete(s, c.k2), c.k2, 1), 0)
  ELSE Reply(s, 0)

\* With GET the output is what the pattern names, the empty string for nothing.
SortOutput(s, c, range) ==
  LET str(v) == IF v.t = "none" THEN <<>> ELSE v.str
  IN  IF c.get THEN [i \in DOMAIN range |-> str(lookupKeyByPattern(s, range[i], c.f))]
      ELSE range

Answer(s, c, range) ==
  IF c.store THEN StoreSorted(s, c, SortOutput(s, c, range))
  ELSE Reply(s, SortOutput(s, c, range))

SortBy(s, c, mode, vector, weight) ==
  IF /\ ~mode.dontsort /\ ~mode.alpha
     /\ \E e \in ToSet(vector) : weight[e].t # "none" /\ ~Number(weight[e].str).ok
  THEN Reply(s, "scores can't be converted into double")
  ELSE LET Then(range) == Answer(IF c.get THEN LookupAll(s, range) ELSE s, c, range)
       IN  Then(Limit(IF mode.dontsort THEN vector ELSE Sorted(vector, weight, c, mode.alpha),
                      Max({c.n, 0}), c.n2))

SortObject(s, c, mode, vector) ==
  LET Then(s1) == SortBy(s1, c, mode, vector, Weights(s1, c, ToSet(vector)))
  IN  Then(IF c.m = "by" THEN LookupAll(s, vector) ELSE s)

\* A sorted set is converted to a skiplist, SORT being a read or not.
sortCommand(s, c) ==
  LET Then(s1, o, mode) ==
        SortObject(IF o.t = "zset" THEN Put(s1, c.k, [o EXCEPT !.enc = "skiplist"]) ELSE s1,
                   c, mode, SortVector(o, mode.dontsort /\ c.desc))
  IN  Lookup(expireIfNeeded(s, c.k), c.k, LAMBDA s1, o :
        IF o.t \notin {"none", "list", "set", "zset"} THEN Reply(s1, "wrongtype")
        ELSE Then(s1, o, SortMode(Forced(s1, c, o), c)))
=============================================================================
