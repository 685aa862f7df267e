---------------------------- MODULE RedisHashes ----------------------------
(***************************************************************************)
(* The commands on hashes, t_hash.c.  Fields c.f and c.fs, values c.v and c.vs.      *)
(***************************************************************************)
EXTENDS RedisSets

WithHash(s, n, missing, Run(_, _)) == WithType(s, n, "hash", missing, Run)

hashTypeLookupWriteOrCreate(s, n, Run(_, _)) ==
  WithTypeOrNew(s, n, createHashObject, Run)

hsetCommand(s, c) ==
  hashTypeLookupWriteOrCreate(s, c.k, LAMBDA s1, o :
    Reply(Modified(Put(s1, c.k,
            hashTypeSet(hashTypeTryConversion(o, <<c.f, c.v>>), c.f, c.v)), c.k, 1),
          ~hashTypeExists(o, c.f)))

\* The hash is prepared for the field and value before the field is looked
\* for: it may change encoding although nothing is set.
hsetnxCommand(s, c) ==
  hashTypeLookupWriteOrCreate(s, c.k, LAMBDA s1, o :
    LET ready == hashTypeTryConversion(o, <<c.f, c.v>>)
    IN  IF hashTypeExists(o, c.f) THEN Reply(Put(s1, c.k, ready), 0)
        ELSE Reply(Modified(Put(s1, c.k, hashTypeSet(ready, c.f, c.v)), c.k, 1), 1))

\* HMSET of the fields c.fs to the values c.vs: one change, however many.
hmsetCommand(s, c) ==
  IF Len(c.fs) # Len(c.vs) THEN Reply(s, "wrong number of arguments")
  ELSE hashTypeLookupWriteOrCreate(s, c.k, LAMBDA s1, o :
         LET ready == hashTypeTryConversion(o, c.fs \o c.vs)
             new   == FoldLeft(LAMBDA acc, i : hashTypeSet(acc, c.fs[i], c.vs[i]),
                               ready, [i \in DOMAIN c.fs |-> i])
         IN  Reply(Modified(Put(s1, c.k, new), c.k, 1), "ok"))

hashTypeGetObject(o, f) == IF hashTypeExists(o, f) THEN o.hash[f] ELSE <<>>

hincrbyCommand(s, c) ==
  hashTypeLookupWriteOrCreate(s, c.k, LAMBDA s1, o :
    LET old == getLongLongFromObject(hashTypeGetObject(o, c.f))
        new == Wrap(old.n + c.n)
    IN  IF ~old.ok THEN Reply(s1, "hash value is not an integer")
        ELSE IF \/ c.n < 0 /\ old.n < 0 /\ c.n < LongMin - old.n
                \/ c.n > 0 /\ old.n > 0 /\ c.n > LongMax - old.n
        THEN Reply(s1, "overflow")
        ELSE Reply(Modified(Put(s1, c.k, hashTypeSet(o, c.f, ll2string(new))), c.k, 1),
                   new))

\* Unlike INCRBYFLOAT, an infinite sum is stored.  Propagated as an HSET.
hincrbyfloatCommand(s, c) ==
  hashTypeLookupWriteOrCreate(s, c.k, LAMBDA s1, o :
    LET old == getLongDoubleFromObject(hashTypeGetObject(o, c.f))
        new == RealSum(old.n, c.n)
        str == ll2string(new)
    IN  IF ~old.ok THEN Reply(s1, "hash value is not a valid float")
        ELSE Reply(Rewrite(Modified(Put(s1, c.k, hashTypeSet(o, c.f, str)), c.k, 1),
                           [op |-> "HSET", k |-> c.k, f |-> c.f, v |-> str]), new))

addHashFieldToReply(o, f) ==
  IF o.t = "hash" /\ f \in DOMAIN o.hash THEN StringObj(o.hash[f]) ELSE Nil

hgetCommand(s, c) ==
  WithHash(s, c.k, Nil, LAMBDA s1, o : Reply(s1, addHashFieldToReply(o, c.f)))
hmgetCommand(s, c) ==
  LET s1 == expireIfNeeded(s, c.k)
      o  == At(s1, c.k)
  IN  IF o.t \notin {"none", "hash"} THEN Reply(s1, "wrongtype")
      ELSE Reply(s1, [i \in DOMAIN c.fs |-> addHashFieldToReply(o, c.fs[i])])

hdelCommand(s, c) ==
  WithHash(s, c.k, 0, LAMBDA s1, o :
    LET new     == FoldLeft(hashTypeDelete, o, c.fs)
        deleted == Cardinality(DOMAIN o.hash) - Cardinality(DOMAIN new.hash)
    IN  Reply(IF deleted > 0
              THEN Modified(PutOrDelete(s1, c.k, new, DOMAIN new.hash = {}), c.k, deleted)
              ELSE s1, deleted))

hlenCommand(s, c) ==
  WithHash(s, c.k, 0, LAMBDA s1, o : Reply(s1, Cardinality(DOMAIN o.hash)))

\* HKEYS, HVALS and HGETALL.
genericHgetallCommand(s, c) ==
  WithHash(s, c.k, <<>>, LAMBDA s1, o :
    LET fields == SetToSeq(DOMAIN o.hash)
    IN  Reply(s1, CASE c.op = "HKEYS"   -> fields
                    [] c.op = "HVALS"   -> [i \in DOMAIN fields |-> o.hash[fields[i]]]
                    [] c.op = "HGETALL" -> [i \in DOMAIN fields |->
                                              <<fields[i], o.hash[fields[i]]>>]))

hexistsCommand(s, c) ==
  WithHash(s, c.k, 0, LAMBDA s1, o : Reply(s1, hashTypeExists(o, c.f)))
=============================================================================
