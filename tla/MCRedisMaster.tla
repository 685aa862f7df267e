--------------------------- MODULE MCRedisMaster ---------------------------
(***************************************************************************)
(* The commands and values RedisMaster is checked with: two names, numbers *)
(* of two or three bits, limits of the compact encodings low enough to be  *)
(* crossed.                                                                *)
(***************************************************************************)
EXTENDS RedisMaster

N == {"a", "b"}
One == <<1>>
X == <<3>>
Long == <<3, 3>>

\* The pattern "x" or another: which key stands for the weight of an element.
MCSortKey(e) == IF e = One THEN "a" ELSE "b"

K(op) == [op : {op}, k : N]
KV(op, vs) == [op : {op}, k : N, v : vs]
KVs(op, vss) == [op : {op}, k : N, vs : vss]
KN(op, ns) == [op : {op}, k : N, n : ns]
KKs(op, kss) == [op : {op}, k : N, ks : kss]
Both == {<<"a", "b">>}
Pairs == {<<"a", "b">>, <<"b">>}

Common == [op : {"DEL"}, ks : Both \cup {<<"a">>}] \cup K("PERSIST")
          \cup [op : {"EXPIRE"}, k : {"a"}, when : {"live", "due"}]
Rename == [op : {"RENAME", "RENAMENX"}, k : N, k2 : N]

Strings ==
  Common \cup K("GET") \cup K("STRLEN") \cup KV("SET", {One, X}) \cup KV("SETNX", {X})
  \cup [op : {"SETEX"}, k : {"b"}, v : {X}, n : {0, 1}]
  \cup KV("APPEND", {One}) \cup KV("GETSET", {One})
  \cup [op : {"SETRANGE"}, k : N, n : {-1, 1}, v : {<<>>, X}]
  \cup [op : {"GETRANGE"}, k : N, n : {-2, 0}, n2 : {-5, 1}]
  \cup [op : {"MGET"}, ks : Both]
  \cup [op : {"MSET", "MSETNX"}, ks : Both, vs : {<<X, One>>, <<X>>}]
  \cup [op : {"LPUSH"}, k : {"b"}, vs : {<<One>>}]
Numbers ==
  Common \cup KV("SET", {X, <<0, 1>>}) \cup KN("INCRBY", {1, -2}) \cup KN("DECRBY", {1, -2})
  \cup [op : {"LPUSH"}, k : {"b"}, vs : {<<One>>}]
Bits ==
  Common \cup KV("SET", {One})
  \cup [op : {"SETBIT"}, k : {"a"}, n : {0, 3, -1}, n2 : {0, 1, 2}]
  \cup KN("GETBIT", {1, 6}) \cup [op : {"BITCOUNT"}, k : N, n : {0}, n2 : {-1}]
  \cup [op : {"BITOP"}, k : {"b"}, m : {"and", "or", "xor", "not"}, ks : Both \cup {<<"a">>}]
  \cup [op : {"LPUSH"}, k : {"b"}, vs : {<<One>>}]

Lists ==
  Common \cup KVs("LPUSH", {<<One>>, <<X, One>>}) \cup KVs("RPUSH", {<<Long>>})
  \cup KV("LPUSHX", {X}) \cup KV("RPUSHX", {Long})
  \cup [op : {"LINSERT"}, k : {"a"}, f : {One, X}, v : {Long}, m : {"before", "after"}]
  \cup K("LPOP") \cup K("RPOP") \cup K("LLEN") \cup KN("LINDEX", {-1, 5})
  \cup [op : {"LSET"}, k : {"a"}, n : {0, -1, 9}, v : {Long}]
  \cup [op : {"LRANGE", "LTRIM"}, k : {"a"}, n : {0, 1, -1}, n2 : {0, -1}]
  \cup [op : {"LREM"}, k : {"a"}, n : {0, 1, -1}, v : {One}]
  \cup [op : {"RPOPLPUSH"}, k : N, k2 : N] \cup [op : {"BRPOPLPUSH"}, k : N, k2 : N, n : {0}]
  \cup [op : {"BLPOP", "BRPOP"}, ks : Pairs, n : {0, -1}]
  \cup KV("SET", {X})

Sets ==
  Common \cup KVs("SADD", {<<One>>, <<X, One>>, <<<<1, 0>>>>}) \cup KVs("SREM", {<<X>>, <<One, X>>})
  \cup [op : {"SMOVE"}, k : N, k2 : N, v : {One, X}] \cup KV("SISMEMBER", {X}) \cup K("SCARD")
  \cup KV("SPOP", {One, X}) \cup [op : {"SRANDMEMBER"}, k : N, v : {One}, n : {0, 1, 5, -2}]
  \cup KKs("SINTERSTORE", Both) \cup KKs("SUNIONSTORE", Both) \cup KKs("SDIFFSTORE", Both)
  \cup KKs("SINTER", Both) \cup KKs("SUNION", Both) \cup KKs("SDIFF", Both)
  \cup KV("SET", {X})

Hashes ==
  Common \cup [op : {"HSET", "HSETNX"}, k : {"a"}, f : {X}, v : {One, Long}]
  \cup [op : {"HSET"}, k : {"a"}, f : {Long}, v : {X}]
  \cup [op : {"HMSET"}, k : N, fs : {<<X, One>>}, vs : {<<One, X>>, <<X>>}]
  \cup [op : {"HINCRBY"}, k : {"a"}, f : {X, Long}, n : {1, -2}]
  \cup [op : {"HINCRBYFLOAT"}, k : {"b"}, f : {One, Long}, n : {2}]
  \cup [op : {"HGET", "HEXISTS"}, k : N, f : {X}] \cup [op : {"HMGET"}, k : {"a"}, fs : {<<X, One>>}]
  \cup [op : {"HDEL"}, k : N, fs : {<<X>>, <<X, One>>, <<Long>>}]
  \cup [op : {"HLEN", "HKEYS", "HVALS", "HGETALL"}, k : N]
  \cup KV("SET", {X})

Zsets ==
  Common \cup [op : {"ZADD"}, k : N, vs : {<<One>>}, ns : {<<1>>, <<2, 1>>}]
  \cup [op : {"ZADD"}, k : {"a"}, vs : {<<X, Long>>}, ns : {<<0, 2>>}]
  \cup [op : {"ZINCRBY"}, k : {"a"}, vs : {<<One>>}, ns : {<<1>>, <<Infinity>>, <<-Infinity>>}]
  \cup KVs("ZREM", {<<X>>, <<X, One>>})
  \cup [op : {"ZREMRANGEBYSCORE", "ZCOUNT"}, k : {"a"}, n : {0}, n2 : {2}, ex : {<<TRUE, FALSE>>}]
  \cup [op : {"ZRANGEBYSCORE", "ZREVRANGEBYSCORE"}, k : {"a"}, n : {0}, n2 : {2},
        ex : {<<FALSE, TRUE>>}, ns : {<<>>, <<1, -1>>, <<-1, 1>>}]
  \cup [op : {"ZREMRANGEBYRANK", "ZRANGE", "ZREVRANGE"}, k : {"a"}, n : {0, -1}, n2 : {0}]
  \cup [op : {"ZUNIONSTORE", "ZINTERSTORE"}, k : {"b"}, ks : Both, ns : {<<>>, <<2, 1>>},
        m : {"sum", "min", "max"}]
  \cup [op : {"ZCARD"}, k : N] \cup [op : {"ZSCORE", "ZRANK", "ZREVRANK"}, k : {"a"}, v : {X}]
  \cup KVs("SADD", {<<X>>}) \cup KV("SET", {X})

Sorts ==
  KVs("RPUSH", {<<One>>, <<X>>}) \cup KVs("SADD", {<<One, <<0>>>>})
  \cup [op : {"ZADD"}, k : N, vs : {<<One, X>>}, ns : {<<2, 1>>}]
  \cup KV("SET", {One}) \cup [op : {"HSET"}, k : {"b"}, f : {X}, v : {One}]
  \cup [op : {"SORT"}, k : {"a"}, k2 : {"b"}, m : {"sort", "by", "nosort"}, f : {<<>>, X},
        get : BOOLEAN, alpha : {FALSE}, desc : BOOLEAN, store : BOOLEAN, n : {0}, n2 : {-1}]
  \cup [op : {"SORT"}, k : {"a"}, k2 : {"b"}, m : {"sort"}, f : {<<>>}, get : {FALSE},
        alpha : {TRUE}, desc : {FALSE}, store : {TRUE}, n : {0, 1, 9}, n2 : {0, 1}]
  \cup [op : {"DEL"}, ks : {<<"a">>, <<"b">>}] \cup [op : {"EXPIRE"}, k : N, when : {"live"}]

KeysFamily ==
  Common \cup Rename \cup KV("SET", {X}) \cup [op : {"SADD"}, k : {"b"}, vs : {<<One>>}]
  \cup [op : {"MOVE"}, k : {"a"}, n : {0, 1, 2}]
  \cup K("EXISTS") \cup K("TYPE") \cup K("TTL") \cup [op : {"SELECT"}, n : {0, 1, 2}]
  \cup [op : {"RANDOMKEY", "KEYS"}, ks : {<<>>, <<"a", "b">>, <<"b">>}]
  \cup [op : {"DBSIZE", "FLUSHDB", "FLUSHALL"}]

MCCommands ==
  [strings |-> Strings, numbers |-> Numbers, bits |-> Bits, lists |-> Lists, sets |-> Sets,
   hashes |-> Hashes, zsets |-> Zsets, sorts |-> Sorts, keys |-> KeysFamily]
=============================================================================
