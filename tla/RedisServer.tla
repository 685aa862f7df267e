---------------------------- MODULE RedisServer ----------------------------
(***************************************************************************)
(* The event loop around RedisClients: requests come from any client,      *)
(* clients come and go, serverCron runs between two commands, and a slow   *)
(* script stops half way to let the loop run.                              *)
(*                                                                         *)
(* running is <<>> or what the paused command needs to go on.  While it is *)
(* set only files are looked at: no timer runs, so nothing expires by      *)
(* itself and no client times out.                                         *)
(***************************************************************************)
EXTENDS RedisClients

LOCAL INSTANCE FiniteSetsExt

CONSTANT MaxElements     \* bound: how large a value may grow

Bounded(s) ==
  /\ \A k \in Keys : Elements(s.db[k]) <= MaxElements
  /\ \A c \in Clients : Len(s.cl[c].queue) <= Conf.maxqueue

\* The order keys are evicted in, chosen only where it matters.
Orders == IF Conf.maxmemory > 0 /\ Conf.policy # "noeviction"
          THEN SetToSeqs(Keys) ELSE {SetToSeq(Keys)}

\* The step leaves s behind; the replica gets what was propagated.
Commit(s) ==
  /\ Bounded(s)
  /\ data' = [db |-> s.db, exp |-> s.exp]
  /\ clients' = s.cl
  /\ server' = [f \in DOMAIN server |-> s[f]]
  /\ event' = s.event

-----------------------------------------------------------------------------

Init ==
  /\ family \in DOMAIN Families
  /\ data = Empty /\ replica = Empty
  /\ clients = [c \in Clients |-> [createClient EXCEPT !.open = FALSE]]
  /\ server = [watched_keys |-> [k \in Keys |-> <<>>], blocking_keys |-> [k \in Keys |-> <<>>],
               channels |-> [ch \in Channels |-> <<>>], patterns |-> <<>>, ready |-> <<>>]
  /\ running = <<>> /\ event = NoEvent

acceptCommonHandler(c) ==
  /\ ~clients[c].open
  /\ Cardinality({d \in Clients : clients[d].open}) < Conf.maxclients
  /\ clients' = [clients EXCEPT ![c] = createClient]
  /\ event' = NoEvent
  /\ UNCHANGED <<family, data, replica, server, running>>

Reads(c) == clients[c].open /\ clients[c].readable

\* What is kept of a command that a slow script pauses, and of one that ends.
Pause(s) ==
  running' = IF s.rest = <<>> THEN <<>>
             ELSE <<[c |-> s.c, id |-> s.id, script |-> s.script, rest |-> s.rest,
                     dirty |-> s.dirty, multi |-> s.multi]>>

\* SCRIPT KILL stops the script unless it has written.
Kill(c) == c.op = "KILL" /\ running # <<>> /\ ~running[1].script[1].write

\* readQueryFromClient and processCommand: one request, which a blocked
\* client does not make.
Request(c, cmd, order) ==
  /\ Reads(c) /\ clients[c].block = <<>>
  /\ \E s \in {processCommand([Context(c) EXCEPT !.cl[c].owed = @ + 1], cmd, order)} :
       /\ Commit([s EXCEPT !.cl[c].id = s.id]) /\ replica' = Feed(replica, s.out)
       /\ IF running = <<>> THEN Pause(s)
          ELSE running' = IF Kill(cmd) THEN <<[running[1] EXCEPT !.script[1].err = TRUE]>>
                          ELSE running
  /\ UNCHANGED family

\* The hook returns, and the script goes on or ends in an error.
ScriptResumes(order) ==
  /\ running # <<>>
  /\ LET r == running[1]
         paused == [Context(r.c) EXCEPT !.id = r.id, !.script = r.script, !.dirty = r.dirty,
                                        !.multi = r.multi, !.lua = TRUE]
     IN  \E s \in {Finish(Run(paused, Tail(r.rest), order))} :
           /\ Commit([s EXCEPT !.cl[r.c].id = s.id, !.event.killed = r.script[1].err])
           /\ replica' = Feed(replica, s.out)
           /\ Pause(s)
  /\ UNCHANGED family

\* Mutant: the client stays listed for the keys it watches
FreeWatching(c) ==
  /\ \E s \in {pubsubUnsubscribeAllPatterns(pubsubUnsubscribeAllChannels(
                 unblockClientWaitingData(Context(c), c), c), c)} :
       Commit([s EXCEPT !.cl[c] = [createClient EXCEPT !.open = FALSE]])
  /\ UNCHANGED <<family, replica, running>>

\* freeClient: the end of a client, wherever it waits.
freeClient(c) ==
  /\ \E s \in {pubsubUnsubscribeAllPatterns(pubsubUnsubscribeAllChannels(
                 unwatchAllKeys(unblockClientWaitingData(Context(c), c), c), c), c)} :
       Commit([s EXCEPT !.cl[c] = [createClient EXCEPT !.open = FALSE]])
  /\ UNCHANGED <<family, replica, running>>

\* QUIT, an end of file, an error, CLIENT KILL.
Disconnect(c) == Reads(c) /\ freeClient(c)

\* A pop that waited for its timeout gets a nil; an idle client is closed,
\* unless it is subscribed.
clientsCronHandleTimeout(c) ==
  /\ clients[c].open /\ running = <<>>
  /\ \/ /\ clients[c].block # <<>> /\ clients[c].block[1].timeout
        /\ Commit(Answered(unblockClientWaitingData(Context(c), c), c))
        /\ UNCHANGED <<family, replica, running>>
     \/ /\ clients[c].block = <<>> /\ clients[c].chans = {} /\ clients[c].pats = {}
        /\ freeClient(c)

\* The replica executes the DEL.
activeExpireCycle(k) ==
  /\ running = <<>> /\ data.exp[k] = "due"
  /\ \E s \in {expireIfNeeded([Context(CHOOSE c \in Clients : TRUE) EXCEPT !.id = k[1]], k[2])} :
       Commit(s)
  /\ replica' = [db |-> [replica.db EXCEPT ![k] = Nil], exp |-> [replica.exp EXCEPT ![k] = "none"]]
  /\ UNCHANGED <<family, running>>

Tick(k) ==
  /\ data.exp[k] = "live"
  /\ data' = [data EXCEPT !.exp[k] = "due"]
  /\ event' = NoEvent
  /\ UNCHANGED <<family, replica, clients, server, running>>

Next ==
  \/ \E c \in Clients : \/ acceptCommonHandler(c)
                        \/ Disconnect(c)
                        \/ clientsCronHandleTimeout(c)
                        \/ \E cmd \in Conf.commands, order \in Orders : Request(c, cmd, order)
  \/ \E order \in Orders : ScriptResumes(order)
  \/ \E k \in Keys : activeExpireCycle(k) \/ Tick(k)

Spec == Init /\ [][Next]_vars

-----------------------------------------------------------------------------
(* Properties.                                                              *)

\* The two sides of every list of clients agree: what a client watches, waits
\* for or is subscribed to, it is listed for exactly once, and a client that
\* is gone is listed nowhere.
TwoSides ==
  LET once(list, c, holds) == Cardinality({i \in DOMAIN list : list[i] = c})
                                = IF holds THEN 1 ELSE 0
  IN  \A c \in Clients :
        LET cl == clients[c]
            waits(k) == /\ cl.block # <<>> /\ k[1] = cl.block[1].id
                        /\ k[2] \in cl.block[1].keys
        IN  /\ \A k \in Keys : /\ once(server.watched_keys[k], c, k \in DOMAIN cl.watched)
                               /\ once(server.blocking_keys[k], c, waits(k))
            /\ \A ch \in Channels : once(server.channels[ch], c, ch \in cl.chans)
            /\ \A i, j \in DOMAIN server.patterns : i # j => server.patterns[i] # server.patterns[j]
            /\ cl.pats = {server.patterns[i][2] : i \in {j \in DOMAIN server.patterns :
                                                           server.patterns[j][1] = c}}
            /\ ~cl.open => cl.watched = <<>> /\ cl.block = <<>> /\ cl.chans = {} /\ cl.pats = {}

\* Every request is answered once, by the end of its command; only a blocked
\* pop and the caller of a script in execution wait for their answer.
OneReply ==
  \A c \in Clients :
    clients[c].owed = IF \/ clients[c].block # <<>>
                         \/ running # <<>> /\ running[1].c = c THEN 1 ELSE 0

\* No client is left waiting for a list that is there.
Woken == \A k \in Keys : server.blocking_keys[k] # <<>> /\ running = <<>>
                           => data.db[k].t # "list" /\ server.ready = <<>>

\* Every list of clients is what the clients and the dataset say: nobody is
\* missing in one, forgotten in one, or kept waiting in one for what is there.
ListsAgree == TwoSides /\ Woken

\* Clients that wait for the same key are served in the order they blocked.
ServedInOrder ==
  [][\A e \in event'.served : \A i, j \in DOMAIN server.blocking_keys[e[2]] :
       (i < j /\ server.blocking_keys[e[2]][j] = e[1])
         => ~Contains(server'.blocking_keys[e[2]], server.blocking_keys[e[2]][i])]_vars

\* The stream of commands, transactions, scripts and the pops of served
\* clients rebuilds the dataset.
StreamRebuilds ==
  running = <<>> => \A k \in Keys : Value(data.db[k]) = Value(replica.db[k])

\* A transaction runs only when the keys it watched hold what they held when
\* they were first watched; a key that expired or was evicted is no obstacle.
CheckAndSet ==
  \A c \in event'.exec : \A k \in DOMAIN clients[c].watched :
    running = <<>> => Value(data.db[k]) = clients[c].watched[k] \/ data.db[k] = Nil

\* Nothing changes the dataset while a script is half way, but time.
ScriptIsolated ==
  running # <<>> /\ running' # <<>> /\ running[1].rest = running'[1].rest
    => data'.db = data.db

\* Transactions and scripts see no write of others between what they read and
\* what they write, whatever the event loop serves in between.
Isolated == [][CheckAndSet /\ ScriptIsolated]_vars
=============================================================================
