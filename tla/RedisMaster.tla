---------------------------- MODULE RedisMaster ----------------------------
(***************************************************************************)
(* A master that runs the commands of one client, and a replica that       *)
(* applies what call() propagates.  Time makes expires due; the server     *)
(* deletes due keys when a command looks them up or in activeExpireCycle.  *)
(* The lag between master and replica is the subject of RedisReplication:  *)
(* here the replica applies a command as soon as it is sent.                    *)
(*                                                                         *)
(* "family" is the set of commands a behaviour draws from: commands on     *)
(* different types hardly interact, and a run of all of them together      *)
(* would only multiply the states.                                         *)
(***************************************************************************)
EXTENDS RedisCommands

LOCAL INSTANCE FiniteSetsExt

CONSTANTS
  Commands,        \* a function: the commands of each family
  MaxElements      \* the bound of the model: how large a value may grow

VARIABLES
  family,
  data,            \* the master's [db, exp]
  replica,         \* the replica's
  selected         \* the client's database
vars == <<family, data, replica, selected>>

Bounded(s) == \A k \in Keys : Elements(s.db[k]) <= MaxElements

\* What the command c does now.
Outcome(c) == call(NewContext(data, selected, "master", c))
Feed(out) == FoldLeft(Apply, replica, out)

-----------------------------------------------------------------------------

Init == /\ family \in DOMAIN Commands
        /\ data = Empty /\ replica = Empty /\ selected = 0

\* One command, answered at once: a blocking pop that would wait is not sent.
Command(c) ==
  \E s \in {Outcome(c)} :
    /\ s.block = <<>> /\ Bounded(s)
    /\ data' = [db |-> s.db, exp |-> s.exp]
    /\ replica' = Feed(s.out)
    /\ selected' = s.id
    /\ UNCHANGED family

\* Time passes: an expire becomes due.
Tick(k) ==
  /\ data.exp[k] = "live"
  /\ data' = [data EXCEPT !.exp[k] = "due"]
  /\ UNCHANGED <<family, replica, selected>>

\* serverCron samples a due key.
activeExpireCycle(k) ==
  /\ data.exp[k] = "due"
  /\ \E s \in {expireIfNeeded(NewContext(data, k[1], "master", <<>>), k[2])} :
       /\ data' = [db |-> s.db, exp |-> s.exp]
       /\ replica' = Feed(s.out)
  /\ UNCHANGED <<family, selected>>

Next == \/ \E c \in Commands[family] : Command(c)
        \/ \E k \in Keys : Tick(k) \/ activeExpireCycle(k)

Spec == Init /\ [][Next]_vars

-----------------------------------------------------------------------------
(* Properties.                                                              *)

ReplicaSame == \A k \in Keys : Value(data.db[k]) = Value(replica.db[k])
ReplicaExpires == \A k \in Keys : data.exp[k] = "none" <=> replica.exp[k] = "none"

\* What the master propagates (rewritten commands, DELs of expired keys,
\* nothing for a command that made no change) gives the replica the same
\* values, and a time to live to the same keys.
ReplicaAgrees == ReplicaSame /\ ReplicaExpires

\* What a compact encoding may hold.  HINCRBY and HINCRBYFLOAT set a field
\* without hashTypeTryConversion: a field or a value above the limit is one of
\* theirs, a number or the field of a number.
Compact(o) ==
  LET short(v, max) == Len(v) <= max
      number(v) == getLongDoubleFromObject(v).ok
  IN  /\ (o.t = "list" /\ o.enc = "ziplist") =>
           /\ Len(o.list) <= ListMaxEntries
           /\ \A v \in ToSet(o.list) : string2ll(v) \/ short(v, ListMaxValue)
      /\ (o.t = "set" /\ o.enc = "intset") =>
           Cardinality(o.set) <= SetMaxIntset /\ \A v \in o.set : string2ll(v)
      /\ (o.t = "hash" /\ o.enc = "ziplist") =>
           /\ Cardinality(DOMAIN o.hash) <= HashMaxEntries
           /\ \A f \in DOMAIN o.hash :
                 \/ short(f, HashMaxValue) /\ short(o.hash[f], HashMaxValue)
                 \/ number(o.hash[f])
      /\ (o.t = "zset" /\ o.enc = "ziplist") =>
           /\ Cardinality(DOMAIN o.zset) <= ZsetMaxEntries
           /\ \A e \in DOMAIN o.zset : string2ll(e) \/ short(e, ZsetMaxValue)

\* What commands of every type take for granted of a key they find: an emptied
\* list, set, hash or sorted set is deleted and none is created empty, only
\* existing keys expire, and a compact encoding holds no more, and nothing
\* longer, than redis.conf allows (integers have no length; an intset holds
\* integers only), by whatever command the value came about; but a hash that
\* HINCRBY or HINCRBYFLOAT made may have a long field (t_hash.c, hincrbyCommand).
DatasetSound ==
  \A d \in {data, replica} : \A k \in Keys :
    /\ d.db[k].t \in {"list", "set", "hash", "zset"} => Elements(d.db[k]) > 0
    /\ d.exp[k] # "none" => d.db[k].t # "none"
    /\ Compact(d.db[k])

Gone(k, s) == data.exp[k] = "due" /\ s.db[k] = Nil
Moved(k, c) == c.op = "MOVE" /\ k[2] = c.k

\* Whatever a command changes is signalled to the clients that WATCH it, but
\* for a key that expired and the two keys of MOVE.
WatchSound ==
  \A c \in Commands[family] : \E s \in {Outcome(c)} :
    \A k \in Keys : \/ Value(s.db[k]) = Value(data.db[k])
                    \/ k \in s.touched \/ k[1] \in s.flushed
                    \/ Gone(k, s) \/ Moved(k, c)

ReadIsPure(c, s) ==
  s.dirty = 0 /\ \A k \in Keys : Value(s.db[k]) = Value(data.db[k]) \/ Gone(k, s)
Size(db) == MapThenSumSet(LAMBDA k : Elements(db[k]), Keys)

\* The flags of the command table are true of what the commands do: one
\* without 'w', which a read-only replica runs, is never propagated and deletes
\* expired keys at most; one without 'm', which runs when the memory is
\* exhausted, makes the dataset no larger.
FlagsSound ==
  \A c \in Commands[family] :
    /\ c.op \notin Writes => ReadIsPure(c, Outcome(c))
    /\ c.op \notin DenyOom => Size(Outcome(c).db) <= Size(data.db)

\* What a command does is what the rest of the server is told of it: the
\* clients that watch by signals, replicas and the memory limit by its flags.
EffectsDeclared == WatchSound /\ FlagsSound
=============================================================================
