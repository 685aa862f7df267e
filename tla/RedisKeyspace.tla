--------------------------- MODULE RedisKeyspace ---------------------------
(***************************************************************************)
(* The keyspace of db.c and its type agnostic commands.                    *)
(*                                                                         *)
(* A command is a function from one execution context to the next.  The    *)
(* context "s" holds the datasets as the command finds them and everything *)
(* a command can do to the rest of the server:                             *)
(*   db, exp     the value and the expire of every key (dict and expires)  *)
(*   id          the selected database of the calling client               *)
(*   role        "slave" when server.masterhost is set or the AOF is       *)
(*               loaded: keys never expire by themselves                   *)
(*   multi, lua  the caller runs inside EXEC, is the Lua client            *)
(*   dirty       how much the command added to server.dirty                *)
(*   touched     the keys signalModifiedKey was called for                 *)
(*   flushed     the databases signalFlushedDb was called for              *)
(*   blocking    the keys clients are blocked for (db->blocking_keys)      *)
(*   ready       server.ready_keys                                         *)
(*   cmd         the command vector call() will propagate                  *)
(*   out         the commands propagated before it                         *)
(*   reply       the replies sent to the caller                            *)
(*   block       what blockForKeys was called with, <<>> when it was not   *)
(***************************************************************************)
EXTENDS RedisObject

CONSTANTS Names, DbNum

Databases == 0..(DbNum - 1)
Keys == Databases \X Names

\* An expire is "none", "live", or "due" once its time has passed.
NewContext(data, id, role, cmd) ==
  [db |-> data.db, exp |-> data.exp, id |-> id, role |-> role, multi |-> FALSE,
   lua |-> FALSE, dirty |-> 0, touched |-> {}, flushed |-> {}, blocking |-> {},
   ready |-> <<>>, cmd |-> cmd, out |-> <<>>, reply |-> <<>>, block |-> <<>>]

Key(s, n) == <<s.id, n>>
At(s, n) == s.db[Key(s, n)]
ExpireOf(s, n) == s.exp[Key(s, n)]

Reply(s, r) == [s EXCEPT !.reply = Append(@, r)]
Dirty(s, n) == [s EXCEPT !.dirty = @ + n]
Rewrite(s, c) == [s EXCEPT !.cmd = c]
signalModifiedKey(s, n) == [s EXCEPT !.touched = @ \cup {Key(s, n)}]
\* signalModifiedKey and server.dirty += n, n > 0, as most commands end.
Modified(s, n, count) == Dirty(signalModifiedKey(s, n), count)

Put(s, n, v) == [s EXCEPT !.db[Key(s, n)] = v]
dbDelete(s, n) == [s EXCEPT !.db[Key(s, n)] = Nil, !.exp[Key(s, n)] = "none"]
removeExpire(s, n) == [s EXCEPT !.exp[Key(s, n)] = "none"]
setExpire(s, n, e) == [s EXCEPT !.exp[Key(s, n)] = e]

-----------------------------------------------------------------------------
(* Lookups.                                                                 *)

DelOf(id, n) == [id |-> id, c |-> [op |-> "DEL", ks |-> <<n>>]]

\* Mutant: an expired key is deleted here only
ExpireSilently(s, n) ==
  IF s.role = "master" /\ ExpireOf(s, n) = "due" THEN dbDelete(s, n) ELSE s

\* A due key is deleted on its first lookup and the DEL goes out at once;
\* clients that WATCH it are not told.
expireIfNeeded(s, n) ==
  IF s.role = "master" /\ ExpireOf(s, n) = "due"
  THEN [dbDelete(s, n) EXCEPT !.out = Append(@, DelOf(s.id, n))]
  ELSE s

ExpireAll(s, ns) == FoldLeft(LAMBDA acc, n : expireIfNeeded(acc, n), s, ns)

\* lookupKeyRead/WriteOrReply and checkType: "missing" answers an absent key.
IfType(s, o, t, missing, Run(_, _)) ==
  IF o.t = "none" THEN Reply(s, missing)
  ELSE IF o.t # t THEN Reply(s, "wrongtype")
  ELSE Run(s, o)
Lookup(s, n, Run(_, _)) == Run(s, At(s, n))
WithType(s, n, t, missing, Run(_, _)) ==
  Lookup(expireIfNeeded(s, n), n, LAMBDA s1, o : IfType(s1, o, t, missing, Run))

\* lookupKeyWrite, and a new object when there is none.
WithTypeOrNew(s, n, new, Run(_, _)) ==
  Lookup(expireIfNeeded(s, n), n, LAMBDA s1, o :
    IfType(s1, IF o.t = "none" THEN new ELSE o, new.t, "nokey", Run))

setKey(s, n, v) ==
  signalModifiedKey(removeExpire(Put(expireIfNeeded(s, n), n, v), n), n)

\* Store v, or delete the key when the aggregate v is empty.
PutOrDelete(s, n, v, empty) == IF empty THEN dbDelete(s, n) ELSE Put(s, n, v)

ExistingIn(s, id) == {n \in Names : s.db[<<id, n>>].t # "none"}

-----------------------------------------------------------------------------
(* Commands on keys.                                                        *)

EmptyDb(s, ids) ==
  [s EXCEPT !.db  = [k \in Keys |-> IF k[1] \in ids THEN Nil ELSE @[k]],
            !.exp = [k \in Keys |-> IF k[1] \in ids THEN "none" ELSE @[k]]]

flushdbCommand(s, c) ==
  Reply(EmptyDb([Dirty(s, Cardinality(ExistingIn(s, s.id)))
                  EXCEPT !.flushed = {s.id}], {s.id}), "ok")

\* FLUSHALL is always propagated: dirty grows by one even when nothing was
\* there.  (The snapshot it takes belongs to the persistence module.)
flushallCommand(s, c) ==
  Reply(EmptyDb([Dirty(s, 1 + Cardinality({k \in Keys : s.db[k].t # "none"}))
                  EXCEPT !.flushed = Databases], Databases), "ok")

delCommand(s, c) ==
  LET one(acc, n) == IF At(acc, n).t = "none" THEN acc
                     ELSE Modified(dbDelete(acc, n), n, 1)
      s1 == FoldLeft(one, s, c.ks)
  IN  Reply(s1, s1.dirty)

existsCommand(s, c) ==
  LET s1 == expireIfNeeded(s, c.k) IN Reply(s1, At(s1, c.k).t # "none")

selectDb(s, id) == [s EXCEPT !.id = id]
selectCommand(s, c) ==
  IF c.n \in Databases THEN Reply(selectDb(s, c.n), "ok")
  ELSE Reply(s, "invalid DB index")

\* RANDOMKEY removes the due keys it picks until it picks another; KEYS
\* removes every due key it lists.  Both walk names in an order of the
\* hash table's; here the choice is c.ks.
randomkeyCommand(s, c) ==
  LET s1 == ExpireAll(s, c.ks)
      left == ExistingIn(s1, s.id)
  IN  Reply(s1, IF left = {} THEN Nil ELSE CHOOSE n \in left : TRUE)

keysCommand(s, c) ==
  LET s1 == ExpireAll(s, c.ks) IN Reply(s1, ExistingIn(s1, s.id))

dbsizeCommand(s, c) == Reply(s, Cardinality(ExistingIn(s, s.id)))

typeCommand(s, c) ==
  LET s1 == expireIfNeeded(s, c.k) IN Reply(s1, At(s1, c.k).t)

renameGenericCommand(s, c, nx) ==
  IF c.k = c.k2 THEN Reply(s, "sameobject")
  ELSE LET s1 == expireIfNeeded(s, c.k)
           o  == At(s1, c.k)
           s2 == expireIfNeeded(s1, c.k2)
           moved == setExpire(Put(dbDelete(s2, c.k2), c.k2, o),
                              c.k2, ExpireOf(s1, c.k))
       IN  IF o.t = "none" THEN Reply(s1, "nokey")
           ELSE IF nx /\ At(s2, c.k2).t # "none" THEN Reply(s2, 0)
           ELSE Reply(Dirty(signalModifiedKey(signalModifiedKey(
                        dbDelete(moved, c.k), c.k), c.k2), 1), "ok")

renameCommand(s, c) == renameGenericCommand(s, c, FALSE)
renamenxCommand(s, c) == renameGenericCommand(s, c, TRUE)

\* The key leaves its database without its expire, and neither name is
\* signalled to the clients that WATCH it.
moveCommand(s, c) ==
  IF c.n \notin Databases THEN Reply(s, "outofrange")
  ELSE IF c.n = s.id THEN Reply(s, "sameobject")
  ELSE LET s1 == expireIfNeeded(s, c.k)
           s2 == [expireIfNeeded([s1 EXCEPT !.id = c.n], c.k) EXCEPT !.id = s.id]
       IN  IF At(s1, c.k).t = "none" THEN Reply(s1, 0)
           ELSE IF s2.db[<<c.n, c.k>>].t # "none" THEN Reply(s2, 0)
           ELSE Reply(Dirty(dbDelete(
                  [s2 EXCEPT !.db[<<c.n, c.k>>] = At(s1, c.k)], c.k), 1), 1)

\* EXPIRE and its three variants; c.when is "live" for a time in the future
\* and "due" for one in the past, which on a master is a DEL.  The key is not
\* looked up with expireIfNeeded: a due key can be given a new time.
expireGenericCommand(s, c) ==
  IF At(s, c.k).t = "none" THEN Reply(s, 0)
  ELSE IF c.when = "due" /\ s.role = "master"
  THEN Reply(Modified(Rewrite(dbDelete(s, c.k), [op |-> "DEL", ks |-> <<c.k>>]),
                      c.k, 1), 1)
  ELSE Reply(Modified(setExpire(s, c.k, c.when), c.k, 1), 1)

ttlGenericCommand(s, c) ==
  Reply(s, IF ExpireOf(s, c.k) = "live" THEN 1 ELSE -1)

\* PERSIST changes the key's expire and signals nobody.
persistCommand(s, c) ==
  IF At(s, c.k).t = "none" \/ ExpireOf(s, c.k) = "none" THEN Reply(s, 0)
  ELSE Reply(Dirty(removeExpire(s, c.k), 1), 1)
=============================================================================
