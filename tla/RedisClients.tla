---------------------------- MODULE RedisClients ----------------------------
(***************************************************************************)
(* Several clients of one server: transactions and WATCH (multi.c),        *)
(* publish and subscribe (pubsub.c), clients blocked on lists (t_list.c),  *)
(* scripts (scripting.c), and what redis.c and networking.c do around a    *)
(* command: refusals, eviction, propagation, the end of a client.          *)
(*                                                                         *)
(* The server runs one command at a time.  What happens between two        *)
(* commands is an action: a key expires, a client comes, goes, or waits    *)
(* too long, a slow script lets the event loop run.                        *)
(*                                                                         *)
(* The execution context of RedisKeyspace gets more fields here:           *)
(*   c, cl        the client that called, and the state of all clients     *)
(*   watched_keys, blocking_keys, channels, patterns                       *)
(*                the lists of clients the server keeps for each of them   *)
(*   script       <<>>, or the script in execution: <<[write, random, err]>> *)
(*   rest         the part of the command that a slow script put off       *)
(*   event        what the step did, for the properties                    *)
(***************************************************************************)
EXTENDS RedisCommands

LOCAL INSTANCE TLC
LOCAL INSTANCE FiniteSetsExt

CONSTANTS
  Clients,
  Channels,
  Families     \* of each family: maxclients, the commands, maxmemory and its
               \* policy, and maxqueue, a bound on the commands in a transaction

VARIABLES
  family,
  data, replica,
  clients,
  server,      \* the server's lists of clients, and ready_keys
  running,     \* <<>>, or the context a slow script runs in
  event
vars == <<family, data, replica, clients, server, running, event>>

NoEvent == [exec |-> {}, served |-> {}, killed |-> FALSE]

createClient ==
  [open |-> TRUE, id |-> 0, flags |-> {}, queue |-> <<>>, watched |-> <<>>,
   chans |-> {}, pats |-> {}, block |-> <<>>, readable |-> TRUE, owed |-> 0]

\* The server as client c finds it.
Context(c) ==
  server @@ [c |-> c, cl |-> clients, script |-> <<>>, rest |-> <<>>, event |-> NoEvent]
         @@ [NewContext(data, clients[c].id, "master", <<>>) EXCEPT
               !.blocking = {k \in Keys : server.blocking_keys[k] # <<>>}]

Caller(s) == s.cl[s.c]
Is(s, flag) == flag \in Caller(s).flags
WithFlags(s, flags) == [s EXCEPT !.cl[s.c].flags = flags]
flagTransaction(s) ==
  IF Is(s, "MULTI") THEN WithFlags(s, Caller(s).flags \cup {"DIRTY_EXEC"}) ELSE s

\* A reply to the request client c made.
Answered(s, c) == [s EXCEPT !.cl[c].owed = @ - 1]
Propagate(s, id, c) == [s EXCEPT !.out = Append(@, [id |-> id, c |-> c])]

-----------------------------------------------------------------------------
(* WATCH, multi.c.                                                          *)

\* With the value the key has, for the properties.
watchForKey(s, n) ==
  LET k == Key(s, n) IN
  IF k \in DOMAIN Caller(s).watched THEN s
  ELSE [s EXCEPT !.watched_keys[k] = Append(@, s.c),
                 !.cl[s.c].watched = (k :> Value(s.db[k])) @@ @]

unwatchAllKeys(s, c) ==
  [s EXCEPT !.watched_keys = [k \in Keys |-> SelectSeq(@[k], LAMBDA d : d # c)],
            !.cl[c].watched = <<>>]

\* Mutant: a client is not told of its own changes
TouchOthers(s, before) ==
  LET hit(k) == k \in s.touched \/ (k[1] \in s.flushed /\ before[k].t # "none")
      dirty  == {c \in Clients \ {s.c} : \E k \in Keys : hit(k) /\ Contains(s.watched_keys[k], c)}
  IN  [s EXCEPT !.touched = {}, !.flushed = {},
                !.cl = [c \in DOMAIN @ |-> IF c \in dirty
                          THEN [@[c] EXCEPT !.flags = @ \cup {"DIRTY_CAS"}] ELSE @[c]]]

\* touchWatchedKey and touchWatchedKeysOnFlush: a flush touches the keys it
\* finds ("before" is the dataset before the command).
touchWatched(s, before) ==
  LET hit(k) == k \in s.touched \/ (k[1] \in s.flushed /\ before[k].t # "none")
      dirty  == {c \in Clients : \E k \in Keys : hit(k) /\ Contains(s.watched_keys[k], c)}
  IN  [s EXCEPT !.touched = {}, !.flushed = {},
                !.cl = [c \in DOMAIN @ |-> IF c \in dirty
                          THEN [@[c] EXCEPT !.flags = @ \cup {"DIRTY_CAS"}] ELSE @[c]]]

EndOfTransaction(s) ==
  unwatchAllKeys([s EXCEPT !.cl[s.c].flags = @ \ {"MULTI", "DIRTY_CAS", "DIRTY_EXEC"},
                           !.cl[s.c].queue = <<>>], s.c)

-----------------------------------------------------------------------------
(* Publish and subscribe, pubsub.c.  A pattern is the set of the channels   *)
(* that it matches.                                                         *)

pubsubSubscribeChannel(s, ch) ==
  IF ch \in Caller(s).chans THEN s
  ELSE [s EXCEPT !.cl[s.c].chans = @ \cup {ch}, !.channels[ch] = Append(@, s.c)]
pubsubUnsubscribeChannel(s, c, ch) ==
  [s EXCEPT !.cl[c].chans = @ \ {ch}, !.channels[ch] = SelectSeq(@, LAMBDA d : d # c)]
pubsubSubscribePattern(s, pat) ==
  IF pat \in Caller(s).pats THEN s
  ELSE [s EXCEPT !.cl[s.c].pats = @ \cup {pat}, !.patterns = Append(@, <<s.c, pat>>)]
pubsubUnsubscribePattern(s, c, pat) ==
  [s EXCEPT !.cl[c].pats = @ \ {pat}, !.patterns = SelectSeq(@, LAMBDA p : p # <<c, pat>>)]

pubsubUnsubscribeAllChannels(s, c) ==
  FoldSet(LAMBDA ch, acc : pubsubUnsubscribeChannel(acc, c, ch), s, s.cl[c].chans)
pubsubUnsubscribeAllPatterns(s, c) ==
  FoldSet(LAMBDA pat, acc : pubsubUnsubscribePattern(acc, c, pat), s, s.cl[c].pats)

\* Without arguments, UNSUBSCRIBE leaves everything.
Unsubscribe(s, chs) ==
  IF chs = {} THEN pubsubUnsubscribeAllChannels(s, s.c)
  ELSE FoldSet(LAMBDA ch, acc : pubsubUnsubscribeChannel(acc, s.c, ch), s, chs)
Punsubscribe(s, pats) ==
  IF pats = {} THEN pubsubUnsubscribeAllPatterns(s, s.c)
  ELSE FoldSet(LAMBDA pat, acc : pubsubUnsubscribePattern(acc, s.c, pat), s, pats)

\* The receivers: a client gets one message for its subscription to the
\* channel and one for each of its patterns that match.
pubsubPublishMessage(s, ch) ==
  s.channels[ch] \o
  LET match == SelectSeq(s.patterns, LAMBDA p : ch \in p[2])
  IN  [i \in DOMAIN match |-> match[i][1]]

Subscribed(s) == Caller(s).chans # {} \/ Caller(s).pats # {}
PubsubOps == {"SUBSCRIBE", "UNSUBSCRIBE", "PSUBSCRIBE", "PUNSUBSCRIBE"}

-----------------------------------------------------------------------------
(* Clients blocked on lists, t_list.c.                                      *)

\* blockForKeys has filled s.block: the client enters the lists of its keys.
Block(s) ==
  IF s.block = <<>> THEN s
  ELSE LET ks == {<<s.block[1].id, n>> : n \in s.block[1].keys} IN
       [s EXCEPT !.block = <<>>, !.cl[s.c].block = s.block, !.blocking = @ \cup ks,
                 !.blocking_keys = [k \in Keys |-> IF k \in ks THEN Append(@[k], s.c) ELSE @[k]]]

unblockClientWaitingData(s, c) ==
  LET lists == [k \in Keys |-> SelectSeq(s.blocking_keys[k], LAMBDA d : d # c)] IN
  [s EXCEPT !.cl[c].block = <<>>, !.blocking_keys = lists,
            !.blocking = {k \in Keys : lists[k] # <<>>}]

\* The client gets the value it waited for, or the value goes to the list
\* BRPOPLPUSH names: unless that is no list, and the value goes back.
serveClientBlockedOnList(s, c, n, target, where, value) ==
  LET pop(op) == Propagate(s, s.id, [op |-> op, k |-> n]) IN
  IF target = <<>> THEN pop(IF where = "head" THEN "LPOP" ELSE "RPOP")
  ELSE LET dst == target[1]
           Then(s1) ==
             IF At(s1, dst).t \notin {"none", "list"}
             THEN Put(s1, n, listTypePush(At(s1, n), value, where))
             ELSE Propagate(rpoplpushHandlePush(Propagate(s1, s.id, [op |-> "RPOP", k |-> n]),
                                                dst, value),
                            s.id, [op |-> "LPUSH", k |-> dst, vs |-> <<value>>])
       IN  Then(expireIfNeeded(s, dst))

\* Mutant: the client that came last is served
ServeLast(s, n) ==
  LET c     == Last(s.blocking_keys[Key(s, n)])
      block == s.cl[c].block[1]
      where == IF block.op = "BLPOP" THEN "head" ELSE "tail"
      o     == At(s, n)
      s1    == Answered(unblockClientWaitingData(Put(s, n, listTypePop(o, where)), c), c)
  IN  [serveClientBlockedOnList(s1, c, n, block.target, where, ListEnd(o, where))
         EXCEPT !.event.served = @ \cup {<<c, Key(s, n)>>}]

\* The client that waits longest for key n, if there is an element.
ServeFirst(s, n) ==
  LET c     == Head(s.blocking_keys[Key(s, n)])
      block == s.cl[c].block[1]
      where == IF block.op = "BLPOP" THEN "head" ELSE "tail"
      o     == At(s, n)
      s1    == Answered(unblockClientWaitingData(Put(s, n, listTypePop(o, where)), c), c)
  IN  [serveClientBlockedOnList(s1, c, n, block.target, where, ListEnd(o, where))
         EXCEPT !.event.served = @ \cup {<<c, Key(s, n)>>}]

\* numclients turns of the loop, which stops when the list is empty.
ServeKey(s, n) ==
  LET serve(acc, c) ==
        IF acc.blocking_keys[Key(s, n)] = <<>> \/ At(acc, n).list = <<>> THEN acc
        ELSE ServeFirst(acc, n)
      Then(s1) == StoreList(s1, n, At(s1, n))
      list(s1) == IF At(s1, n).t # "list" THEN s1
                  ELSE Then(FoldLeft(serve, s1, s1.blocking_keys[Key(s1, n)]))
  IN  list(expireIfNeeded(s, n))

\* The keys made ready while a round of keys is served are the next round.
\* Each round but the last serves a client: Clients rounds are enough.
handleClientsBlockedOnLists(s) ==
  LET key(acc, k) == [ServeKey([acc EXCEPT !.id = k[1]], k[2]) EXCEPT !.id = acc.id]
      round(acc, c) == FoldLeft(key, [acc EXCEPT !.ready = <<>>], acc.ready)
  IN  touchWatched(FoldSet(LAMBDA c, acc : round(acc, c), s, Clients), s.db)

-----------------------------------------------------------------------------
(* Memory, redis.c.                                                         *)

Used(db) == MapThenSumSet(LAMBDA k : Elements(db[k]), Keys)
Conf == Families[family]

\* Keys go, in an order that stands for the LRU clock or for chance, until
\* there is room.  Nobody who watches them is told.
freeMemoryIfNeeded(s, order) ==
  LET over(acc) == /\ s.role = "master" /\ Conf.maxmemory > 0
                   /\ Used(acc.db) > Conf.maxmemory
      victim(acc, k) == /\ acc.db[k].t # "none"
                        /\ \/ Conf.policy = "allkeys"
                           \/ Conf.policy = "volatile" /\ acc.exp[k] # "none"
      evict(acc, k) == IF over(acc) /\ victim(acc, k)
                       THEN [acc EXCEPT !.db[k] = Nil, !.exp[k] = "none",
                                        !.out = Append(@, DelOf(k[1], k[2]))]
                       ELSE acc
      Then(s1) == [s |-> s1, ok |-> ~over(s1)]
  IN  Then(FoldLeft(evict, s, order))

-----------------------------------------------------------------------------
(* The commands on a client, and scripts.  EXEC and EVAL run other commands: *)
(* they are expanded first into a program of plain commands between markers, *)
(* which Step runs one by one.                                              *)

ClientOps == PubsubOps \cup {"MULTI", "DISCARD", "WATCH", "UNWATCH", "PUBLISH", "KILL"}

ClientCommand(s, c) ==
  CASE c.op = "MULTI" -> IF Is(s, "MULTI") THEN s
                         ELSE WithFlags(s, Caller(s).flags \cup {"MULTI"})
    [] c.op = "DISCARD" -> IF Is(s, "MULTI") THEN EndOfTransaction(s) ELSE s
    [] c.op = "WATCH" -> IF Is(s, "MULTI") THEN s ELSE FoldLeft(watchForKey, s, c.ks)
    [] c.op = "UNWATCH" -> unwatchAllKeys(WithFlags(s, Caller(s).flags \ {"DIRTY_CAS"}), s.c)
    [] c.op = "SUBSCRIBE" -> FoldSet(LAMBDA ch, acc : pubsubSubscribeChannel(acc, ch), s, c.chs)
    [] c.op = "UNSUBSCRIBE" -> Unsubscribe(s, c.chs)
    [] c.op = "PSUBSCRIBE" -> FoldSet(LAMBDA pat, acc : pubsubSubscribePattern(acc, pat), s, c.chs)
    [] c.op = "PUNSUBSCRIBE" -> Punsubscribe(s, c.chs)
    [] OTHER -> s

\* luaRedisGenericCommand, with redis.call: a refused command ends the script.
luaRedisGenericCommand(s, c, order) ==
  LET lua   == s.script[1]
      marks(s1) == [s1 EXCEPT !.script[1].random = @ \/ c.op \in RandomOps,
                              !.script[1].write  = @ \/ c.op \in Writes]
      goes(s1, ok) == [s |-> IF ok THEN marks(s1) ELSE [s1 EXCEPT !.script[1].err = TRUE],
                       ok |-> ok]
      room(oom) == goes(oom.s, oom.ok)
  IN  IF lua.err THEN [s |-> s, ok |-> FALSE]
      ELSE IF c.op \in NoScript \/ (c.op \in Writes /\ lua.random) THEN goes(s, FALSE)
      ELSE IF ~lua.write /\ c.op \in DenyOom THEN room(freeMemoryIfNeeded(s, order))
      ELSE goes(s, TRUE)

\* call(): what a command of a script changes counts for the script, which is
\* propagated as a whole; PUBLISH is propagated in any case.
Called(s, c) ==
  LET Then(s1) == touchWatched(
        IF s.lua THEN s1
        ELSE Block(IF s1.dirty > 0 \/ c.op = "PUBLISH" THEN Propagate(s1, s1.id, s1.cmd)
                   ELSE s1), s1.db)
  IN  Then(IF c.op \in ClientOps
           THEN ClientCommand([s EXCEPT !.cmd = c, !.dirty = 0], c)
           ELSE proc(IF s.lua THEN s ELSE [s EXCEPT !.cmd = c, !.dirty = 0], c))

EvalBegin(s) ==
  [s EXCEPT !.script = <<[write |-> FALSE, random |-> FALSE, err |-> FALSE]>>,
            !.lua = TRUE, !.dirty = 0]
\* Mutant: a script that failed half way is not propagated
EvalEndFailed(s, m) ==
  [IF s.dirty > 0 /\ ~s.script[1].err THEN Propagate(s, s.id, [op |-> "EVAL", cs |-> m.cs]) ELSE s
     EXCEPT !.script = <<>>, !.lua = FALSE]

\* The whole script is propagated, or nothing: also when it failed half way.
\* The error path of evalGenericCommand makes the caller readable again.
EvalEnd(s, m) ==
  [IF s.dirty > 0 THEN Propagate(s, s.id, [op |-> "EVAL", cs |-> m.cs]) ELSE s
     EXCEPT !.script = <<>>, !.lua = FALSE,
            !.cl[s.c].readable = @ \/ s.script[1].err]

\* One item of a program.  A slow script stops at LOOP, where the hook lets
\* the event loop run and no longer reads its caller.
Step(s, c, order) ==
  CASE s.rest # <<>> -> [s EXCEPT !.rest = Append(@, c)]
    [] c.op = "LOOP" -> IF s.script[1].err \/ s.role = "slave" THEN s
                        ELSE [s EXCEPT !.rest = <<[op |-> "PAUSE"]>>,
                                       !.cl[s.c].readable = FALSE]
    [] c.op = "PAUSE" -> s
    [] c.op = "execBegin" -> unwatchAllKeys([Propagate(s, s.id, [op |-> "MULTI"])
                                               EXCEPT !.multi = TRUE], s.c)
    [] c.op = "execEnd" -> [EndOfTransaction(Propagate(s, s.id, [op |-> "EXEC"]))
                              EXCEPT !.multi = FALSE, !.event.exec = @ \cup {s.c}]
    [] c.op = "evalBegin" -> EvalBegin(s)
    [] c.op = "evalEnd" -> EvalEnd(s, c)
    [] OTHER -> LET Then(m) == IF m.ok THEN Called(m.s, c) ELSE m.s
                IN  Then(IF s.lua THEN luaRedisGenericCommand(s, c, order)
                         ELSE [s |-> s, ok |-> TRUE])

Expand(cs) ==
  FlattenSeq([i \in DOMAIN cs |->
    IF cs[i].op = "EVAL"
    THEN <<[op |-> "evalBegin"]>> \o cs[i].cs \o <<[op |-> "evalEnd", cs |-> cs[i].cs]>>
    ELSE <<cs[i]>>])

\* execCommand.
execCommand(s) ==
  <<[op |-> "execBegin"]>> \o Expand(Caller(s).queue) \o <<[op |-> "execEnd"]>>

Run(s, program, order) == FoldLeft(LAMBDA acc, c : Step(acc, c, order), s, program)

\* Mutant: a client that blocks is answered, too
FinishAnswers(s) ==
  IF s.rest # <<>> THEN s ELSE handleClientsBlockedOnLists(Answered(s, s.c))

\* The blocked clients are served when the command has ended.  The caller has
\* its answer, unless it waits.
Finish(s) ==
  IF s.rest # <<>> THEN s
  ELSE handleClientsBlockedOnLists(IF Caller(s).block = <<>> THEN Answered(s, s.c) ELSE s)

NotQueued == {"EXEC", "DISCARD", "MULTI", "WATCH"}

\* What is left of processCommand once memory has been seen to.
Dispatch(s, c, order) ==
  IF Subscribed(s) /\ c.op \notin PubsubOps THEN Answered(s, s.c)
  ELSE IF running # <<>> /\ c.op # "KILL" THEN Answered(flagTransaction(s), s.c)
  ELSE IF Is(s, "MULTI") /\ c.op \notin NotQueued
  THEN Answered([s EXCEPT !.cl[s.c].queue = Append(@, c)], s.c)
  ELSE IF c.op = "EXEC" /\ ~Is(s, "MULTI") THEN Answered(s, s.c)
  ELSE IF c.op = "EXEC" /\ (Is(s, "DIRTY_CAS") \/ Is(s, "DIRTY_EXEC"))
  THEN Answered(EndOfTransaction(s), s.c)
  ELSE Finish(Run(s, IF c.op = "EXEC" THEN execCommand(s) ELSE Expand(<<c>>), order))

processCommand(s, c, order) ==
  LET Then(m) == IF c.op \in DenyOom /\ ~m.ok THEN Answered(flagTransaction(m.s), s.c)
                 ELSE Dispatch(m.s, c, order)
  IN  IF c.op = "BAD" THEN Answered(flagTransaction(s), s.c)
      ELSE Then(freeMemoryIfNeeded(s, order))

\* A replica runs the stream: it has no clients to serve, and time is its
\* master's.  MULTI and EXEC only group commands there.
replicaContext(d, id) ==
  [c |-> "replica", cl |-> [c \in {"replica"} |-> createClient], script |-> <<>>, rest |-> <<>>,
   event |-> NoEvent, watched_keys |-> [k \in Keys |-> <<>>]]
  @@ NewContext(d, id, "slave", <<>>)
ApplyStream(p, d) ==
  LET Then(s) == [db |-> s.db, exp |-> s.exp]
  IN  IF p.c.op \in {"MULTI", "EXEC", "PUBLISH"} THEN d
      ELSE Then(Run(replicaContext(d, p.id), Expand(<<p.c>>), <<>>))
Feed(d, out) == FoldLeft(LAMBDA acc, p : ApplyStream(p, acc), d, out)
=============================================================================
