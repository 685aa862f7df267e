--------------------------- MODULE MCRedisServer ---------------------------
(***************************************************************************)
(* The clients and commands RedisServer is checked with, a family for each *)
(* part of the code.                                                       *)
(***************************************************************************)
EXTENDS RedisServer

LOCAL INSTANCE TLC

CONSTANTS c1, c2, c3, ch1, ch2

MCSortKey(e) == "a"
One == <<1>>
Two == <<1, 0>>

Ops(ops) == [op : ops]
Set(n, v) == [op |-> "SET", k |-> n, v |-> v]
Get(n) == [op |-> "GET", k |-> n]
Push(n, vs) == [op |-> "RPUSH", k |-> n, vs |-> vs]
Del(n) == [op |-> "DEL", ks |-> <<n>>]
Loop == [op |-> "LOOP"]
Eval(cs) == [op |-> "EVAL", cs |-> cs]
Expire(n) == [op |-> "EXPIRE", k |-> n, when |-> "live"]

Family(maxclients, maxqueue, commands, maxmemory, policy) ==
  [maxclients |-> maxclients, maxqueue |-> maxqueue, commands |-> commands,
   maxmemory |-> maxmemory, policy |-> policy]

Blocking == Family(3, 0,
  [op : {"BLPOP"}, ks : {<<"a">>, <<"b", "a">>}, n : {0}]
  \cup [op : {"BRPOPLPUSH"}, k : {"a"}, k2 : {"a", "b"}, n : {1}]
  \cup {Push("a", <<One>>), Push("a", <<One, Two>>), Set("b", One), Del("b")}, 0, "none")

\* What touches a watched key, and what does not.
Watching == Family(2, 1,
  Ops({"MULTI", "EXEC", "DISCARD", "UNWATCH", "BAD", "FLUSHDB"})
  \cup [op : {"WATCH"}, ks : {<<"a", "b">>}] \cup {Set("a", One), Expire("a")}, 0, "none")

\* Transactions of two commands: blocking ones do not block there.
Transactions == Family(2, 2,
  Ops({"MULTI", "EXEC"}) \cup {Push("b", <<One>>), Eval(<<Set("a", Two), Del("b")>>)}
  \cup [op : {"BLPOP"}, ks : {<<"b">>}, n : {0}], 0, "none")

Pubsub == Family(3, 1,
  [op : {"SUBSCRIBE", "UNSUBSCRIBE"}, chs : {{ch1}, {ch1, ch2}}]
  \cup [op : {"PSUBSCRIBE", "PUNSUBSCRIBE"}, chs : {{{ch1, ch2}}}]
  \cup [op : {"PUBLISH"}, ch : {ch1}] \cup Ops({"MULTI", "EXEC"}), 0, "none")

\* Scripts that are slow, before and after they write, and that are refused.
Slow == Family(2, 1,
  {Eval(<<Set("a", One), Loop, Set("b", One)>>), Eval(<<Get("a"), Loop, Push("b", <<One>>)>>),
   Set("a", Two), Expire("a")} \cup Ops({"MULTI", "EXEC", "KILL"}), 0, "none")
Refused == Family(2, 0,
  {Eval(<<[op |-> "RANDOMKEY", ks |-> <<>>], Del("a")>>),
   Eval(<<Del("a"), [op |-> "MULTI"], Del("b")>>), Set("a", Two), Push("b", <<One>>), Expire("a"),
   [op |-> "WATCH", ks |-> <<"b">>]}, 0, "none")

Memory(policy) == Family(1, 1,
  {Set("a", One), Push("b", <<One>>), Push("b", <<Two, One>>), Expire("a"), Get("a"), Del("b"),
   Eval(<<Del("a"), Set("a", Two)>>), Eval(<<Set("a", Two), Push("b", <<One>>)>>),
   [op |-> "WATCH", ks |-> <<"a">>]} \cup Ops({"MULTI", "EXEC"}), 2, policy)

\* A watched key is evicted.
Evicted == Family(2, 1,
  {Set("a", One), Push("b", <<One, Two>>), [op |-> "WATCH", ks |-> <<"a">>]}
  \cup Ops({"MULTI", "EXEC"}), 2, "allkeys")

MCFamilies ==
  [blocking |-> Blocking, watching |-> Watching, transactions |-> Transactions,
   pubsub |-> Pubsub, slow |-> Slow, refused |-> Refused,
   noeviction |-> Memory("noeviction"), volatile |-> Memory("volatile"),
   allkeys |-> Memory("allkeys"), evicted |-> Evicted]

Sym == Permutations(Clients) \cup Permutations(Channels)
=============================================================================
