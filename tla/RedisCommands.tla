--------------------------- MODULE RedisCommands ---------------------------
(***************************************************************************)
(* The command table of redis.c: what each command does to an execution    *)
(* context, and its flags.  The commands on the state of a client (MULTI,  *)
(* WATCH, SUBSCRIBE, EVAL, ...) are in RedisClients.                       *)
(***************************************************************************)
EXTENDS RedisSort

Empty == [db |-> [k \in Keys |-> Nil], exp |-> [k \in Keys |-> "none"]]

Elements(o) == CASE o.t = "none"   -> 0
                 [] o.t = "string" -> Len(o.str)
                 [] o.t = "list"   -> Len(o.list)
                 [] o.t = "set"    -> Cardinality(o.set)
                 [] o.t = "hash"   -> Cardinality(DOMAIN o.hash)
                 [] o.t = "zset"   -> Cardinality(DOMAIN o.zset)

\* A value without its encoding: master and replica need not agree on that.
Value(o) == CASE o.t = "list" -> <<"list", o.list>>
              [] o.t = "set"  -> <<"set", o.set>>
              [] o.t = "hash" -> <<"hash", o.hash>>
              [] o.t = "zset" -> <<"zset", o.zset>>
              [] OTHER        -> <<"string", o>>

-----------------------------------------------------------------------------

StringCommand(s, c) ==
  CASE c.op = "GET" -> getCommand(s, c)           [] c.op = "SET" -> setCommand(s, c)
    [] c.op = "SETNX" -> setnxCommand(s, c)       [] c.op = "SETEX" -> setexCommand(s, c)
    [] c.op = "APPEND" -> appendCommand(s, c)     [] c.op = "STRLEN" -> strlenCommand(s, c)
    [] c.op = "SETBIT" -> setbitCommand(s, c)     [] c.op = "GETBIT" -> getbitCommand(s, c)
    [] c.op = "SETRANGE" -> setrangeCommand(s, c) [] c.op = "GETRANGE" -> getrangeCommand(s, c)
    [] c.op = "MGET" -> mgetCommand(s, c)         [] c.op = "GETSET" -> getsetCommand(s, c)
    [] c.op = "MSET" -> msetCommand(s, c)         [] c.op = "MSETNX" -> msetnxCommand(s, c)
    [] c.op = "INCRBY" -> incrbyCommand(s, c)     [] c.op = "DECRBY" -> decrbyCommand(s, c)
    [] c.op = "INCRBYFLOAT" -> incrbyfloatCommand(s, c)
    [] c.op = "BITOP" -> bitopCommand(s, c)       [] c.op = "BITCOUNT" -> bitcountCommand(s, c)

ListCommand(s, c) ==
  CASE c.op = "LPUSH" -> lpushCommand(s, c)       [] c.op = "RPUSH" -> rpushCommand(s, c)
    [] c.op = "LPUSHX" -> lpushxCommand(s, c)     [] c.op = "RPUSHX" -> rpushxCommand(s, c)
    [] c.op = "LINSERT" -> linsertCommand(s, c)   [] c.op = "LPOP" -> lpopCommand(s, c)
    [] c.op = "RPOP" -> rpopCommand(s, c)         [] c.op = "LLEN" -> llenCommand(s, c)
    [] c.op = "LINDEX" -> lindexCommand(s, c)     [] c.op = "LSET" -> lsetCommand(s, c)
    [] c.op = "LRANGE" -> lrangeCommand(s, c)     [] c.op = "LTRIM" -> ltrimCommand(s, c)
    [] c.op = "LREM" -> lremCommand(s, c)         [] c.op = "RPOPLPUSH" -> rpoplpushCommand(s, c)
    [] c.op = "BLPOP" -> blpopCommand(s, c)       [] c.op = "BRPOP" -> brpopCommand(s, c)
    [] c.op = "BRPOPLPUSH" -> brpoplpushCommand(s, c)

SetCommand(s, c) ==
  CASE c.op = "SADD" -> saddCommand(s, c)         [] c.op = "SREM" -> sremCommand(s, c)
    [] c.op = "SMOVE" -> smoveCommand(s, c)       [] c.op = "SISMEMBER" -> sismemberCommand(s, c)
    [] c.op = "SCARD" -> scardCommand(s, c)       [] c.op = "SPOP" -> spopCommand(s, c)
    [] c.op = "SINTER" -> sinterCommand(s, c)     [] c.op = "SINTERSTORE" -> sinterstoreCommand(s, c)
    [] c.op = "SUNION" -> sunionCommand(s, c)     [] c.op = "SUNIONSTORE" -> sunionstoreCommand(s, c)
    [] c.op = "SDIFF" -> sdiffCommand(s, c)       [] c.op = "SDIFFSTORE" -> sdiffstoreCommand(s, c)
    [] c.op = "SRANDMEMBER" -> IF c.n = 0 THEN srandmemberCommand(s, c)
                               ELSE srandmemberWithCountCommand(s, c)

HashCommand(s, c) ==
  CASE c.op = "HSET" -> hsetCommand(s, c)         [] c.op = "HSETNX" -> hsetnxCommand(s, c)
    [] c.op = "HMSET" -> hmsetCommand(s, c)       [] c.op = "HINCRBY" -> hincrbyCommand(s, c)
    [] c.op = "HINCRBYFLOAT" -> hincrbyfloatCommand(s, c)
    [] c.op = "HGET" -> hgetCommand(s, c)         [] c.op = "HMGET" -> hmgetCommand(s, c)
    [] c.op = "HDEL" -> hdelCommand(s, c)         [] c.op = "HLEN" -> hlenCommand(s, c)
    [] c.op = "HEXISTS" -> hexistsCommand(s, c)
    [] c.op \in {"HKEYS", "HVALS", "HGETALL"} -> genericHgetallCommand(s, c)

ZsetCommand(s, c) ==
  CASE c.op = "ZADD" -> zaddCommand(s, c)         [] c.op = "ZINCRBY" -> zincrbyCommand(s, c)
    [] c.op = "ZREM" -> zremCommand(s, c)
    [] c.op = "ZREMRANGEBYSCORE" -> zremrangebyscoreCommand(s, c)
    [] c.op = "ZREMRANGEBYRANK" -> zremrangebyrankCommand(s, c)
    [] c.op = "ZUNIONSTORE" -> zunionstoreCommand(s, c)
    [] c.op = "ZINTERSTORE" -> zinterstoreCommand(s, c)
    [] c.op = "ZRANGE" -> zrangeCommand(s, c)     [] c.op = "ZREVRANGE" -> zrevrangeCommand(s, c)
    [] c.op = "ZRANGEBYSCORE" -> zrangebyscoreCommand(s, c)
    [] c.op = "ZREVRANGEBYSCORE" -> zrevrangebyscoreCommand(s, c)
    [] c.op = "ZCOUNT" -> zcountCommand(s, c)     [] c.op = "ZCARD" -> zcardCommand(s, c)
    [] c.op = "ZSCORE" -> zscoreCommand(s, c)     [] c.op = "ZRANK" -> zrankCommand(s, c)
    [] c.op = "ZREVRANK" -> zrevrankCommand(s, c)

KeyCommand(s, c) ==
  CASE c.op = "DEL" -> delCommand(s, c)           [] c.op = "EXISTS" -> existsCommand(s, c)
    [] c.op = "RANDOMKEY" -> randomkeyCommand(s, c)
    [] c.op = "SELECT" -> selectCommand(s, c)     [] c.op = "MOVE" -> moveCommand(s, c)
    [] c.op = "RENAME" -> renameCommand(s, c)     [] c.op = "RENAMENX" -> renamenxCommand(s, c)
    [] c.op = "EXPIRE" -> expireGenericCommand(s, c)
    [] c.op = "TTL" -> ttlGenericCommand(s, c)    [] c.op = "PERSIST" -> persistCommand(s, c)
    [] c.op = "KEYS" -> keysCommand(s, c)         [] c.op = "DBSIZE" -> dbsizeCommand(s, c)
    [] c.op = "TYPE" -> typeCommand(s, c)         [] c.op = "SORT" -> sortCommand(s, c)
    [] c.op = "FLUSHDB" -> flushdbCommand(s, c)   [] c.op = "FLUSHALL" -> flushallCommand(s, c)

StringOps == {"GET", "SET", "SETNX", "SETEX", "APPEND", "STRLEN", "SETBIT", "GETBIT",
  "SETRANGE", "GETRANGE", "MGET", "GETSET", "MSET", "MSETNX", "INCRBY", "DECRBY",
  "INCRBYFLOAT", "BITOP", "BITCOUNT"}
ListOps == {"LPUSH", "RPUSH", "LPUSHX", "RPUSHX", "LINSERT", "LPOP", "RPOP", "LLEN",
  "LINDEX", "LSET", "LRANGE", "LTRIM", "LREM", "RPOPLPUSH", "BLPOP", "BRPOP", "BRPOPLPUSH"}
SetOps == {"SADD", "SREM", "SMOVE", "SISMEMBER", "SCARD", "SPOP", "SINTER", "SINTERSTORE",
  "SUNION", "SUNIONSTORE", "SDIFF", "SDIFFSTORE", "SRANDMEMBER"}
HashOps == {"HSET", "HSETNX", "HMSET", "HINCRBY", "HINCRBYFLOAT", "HGET", "HMGET", "HDEL",
  "HLEN", "HEXISTS", "HKEYS", "HVALS", "HGETALL"}
ZsetOps == {"ZADD", "ZINCRBY", "ZREM", "ZREMRANGEBYSCORE", "ZREMRANGEBYRANK", "ZUNIONSTORE",
  "ZINTERSTORE", "ZRANGE", "ZREVRANGE", "ZRANGEBYSCORE", "ZREVRANGEBYSCORE", "ZCOUNT",
  "ZCARD", "ZSCORE", "ZRANK", "ZREVRANK"}

proc(s, c) ==
  CASE c.op \in StringOps -> StringCommand(s, c)
    [] c.op \in ListOps   -> ListCommand(s, c)
    [] c.op \in SetOps    -> SetCommand(s, c)
    [] c.op \in HashOps   -> HashCommand(s, c)
    [] c.op \in ZsetOps   -> ZsetCommand(s, c)
    [] OTHER              -> KeyCommand(s, c)

-----------------------------------------------------------------------------
(* The flags of the table.                                                  *)

\* 'm', refused when there is no memory left.
GrowOps == {"SET", "SETNX", "SETEX", "APPEND", "SETBIT", "SETRANGE", "INCRBY", "DECRBY",
  "INCRBYFLOAT", "GETSET", "MSET", "MSETNX", "LPUSH", "RPUSH", "LPUSHX", "RPUSHX",
  "LINSERT", "LSET", "RPOPLPUSH", "BRPOPLPUSH", "SADD", "ZADD", "ZINCRBY", "HSET",
  "HSETNX", "HMSET", "HINCRBY", "HINCRBYFLOAT"}
StoreOps == {"BITOP", "SINTERSTORE", "SUNIONSTORE", "SDIFFSTORE", "ZUNIONSTORE",
  "ZINTERSTORE", "SORT"}
DenyOom == GrowOps \cup StoreOps
\* 'w': these may change the dataset.
Writes == DenyOom \cup {"DEL", "LPOP", "RPOP", "BLPOP", "BRPOP", "LTRIM", "LREM", "SREM",
  "SMOVE", "SPOP", "ZREM", "ZREMRANGEBYSCORE", "ZREMRANGEBYRANK", "HDEL", "MOVE", "RENAME",
  "RENAMENX", "EXPIRE", "PERSIST", "FLUSHDB", "FLUSHALL"}
\* 'R', and 's' for the ones no script may call.
RandomOps == {"SPOP", "SRANDMEMBER", "RANDOMKEY"}
NoScript == {"BLPOP", "BRPOP", "BRPOPLPUSH", "SPOP", "MULTI", "EXEC", "DISCARD", "WATCH",
  "UNWATCH", "SUBSCRIBE", "UNSUBSCRIBE", "EVAL"}

-----------------------------------------------------------------------------

\* Dataset and replication stream of one command run by call() outside any
\* transaction: "out" then holds what goes to the replicas and the AOF.
propagate(s) ==
  IF s.dirty > 0 THEN [s EXCEPT !.out = Append(@, [id |-> s.id, c |-> s.cmd])] ELSE s
call(s) == propagate(proc(s, s.cmd))

\* A replica, or the loading of an AOF, runs one propagated command.
Apply(data, p) ==
  LET s == proc(NewContext(data, p.id, "slave", p.c), p.c)
  IN  [db |-> s.db, exp |-> s.exp]
=============================================================================
