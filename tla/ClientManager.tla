--------------------------- MODULE ClientManager ---------------------------
(***************************************************************************)
(* The choice of a test machine for a new session and the connections      *)
(* counted per machine (socketServer/libs/webdriver/clientManager.js), as  *)
(* _newSession and finishSession of webdriver.js use them.                 *)
(***************************************************************************)
EXTENDS Integers, FiniteSets, Sequences

CONSTANTS
    Host,       \* the test machines
    NoHost,     \* null: Selenium's default machine is used
    Browser,    \* the browser names consoles ask for
    Session,    \* the sessions that may be opened
    CONFIG      \* client.json: CONFIG[name] is a list of hosts, or an object

(***************************************************************************)
(* An entry of CONFIG is a list of hosts, or an object of lists by version *)
(* whose length is undefined: the list part of an object is empty.  Every  *)
(* caller leaves the version out.                                          *)
(***************************************************************************)
ASSUME ConfigAssumption ==
    /\ NoHost \notin Host
    /\ \A b \in DOMAIN CONFIG : CONFIG[b] \in Seq(Host)

ASSUME SessionAssumption == IsFiniteSet(Session)

VARIABLES
    hostConnectCount,   \* the counts, for the hosts that have one
    host,               \* host[s]: the host in the client of session s
    stage               \* stage[s]: see Stage

\* A session that is over may be finished again: two results of its first window
Stage == {"none", "open", "over", "again"}

vars == <<hostConnectCount, host, stage>>

Init ==
    /\ hostConnectCount = [h \in {} |-> 0]
    /\ host = [s \in Session |-> NoHost]
    /\ stage = [s \in Session |-> "none"]

Counted == DOMAIN hostConnectCount
Count(h) == IF h \in Counted THEN hostConnectCount[h] ELSE 0
SetCount(h, n) ==
    hostConnectCount' = [g \in Counted \cup {h} |-> IF g = h THEN n ELSE hostConnectCount[g]]

(***************************************************************************)
(* getMinConnectClient returns hostList[i].  As long as no host of the     *)
(* list had a count, min is undefined and the next host replaces the       *)
(* target; from the first count on, a host without count is never smaller  *)
(* (a comparison with undefined is false).  So: the first smallest one of  *)
(* the counted hosts, and the last host of the list if none is counted.    *)
(***************************************************************************)
MinConnect(hostList, i) ==
    LET seen == {j \in 1..Len(hostList) : hostList[j] \in Counted} IN
    IF seen = {} THEN i = Len(hostList)
    ELSE /\ i \in seen
         /\ \A j \in seen :
               /\ hostConnectCount[hostList[i]] <= hostConnectCount[hostList[j]]
               /\ j < i => hostConnectCount[hostList[i]] < hostConnectCount[hostList[j]]

\* getClientHost: the chosen host gets one connection more
availableList(b) == IF b \in DOMAIN CONFIG THEN CONFIG[b] ELSE <<>>

getClientHost(b, target) ==
    \/ /\ \E i \in 1..Len(availableList(b)) :
             MinConnect(availableList(b), i) /\ target = availableList(b)[i]
       /\ SetCount(target, Count(target) + 1)
    \/ /\ availableList(b) = <<>>
       /\ target = NoHost
       /\ UNCHANGED hostConnectCount

\* Mutant: the count is reset, not decremented
releaseClientResets(h) ==
    \/ h \in Host /\ SetCount(h, 0)
    \/ h \notin Host /\ UNCHANGED hostConnectCount

\* releaseClient: a count never goes below zero, and a missing one becomes zero
releaseClient(h) ==
    \/ h \in Host /\ SetCount(h, IF Count(h) = 0 THEN 0 ELSE Count(h) - 1)
    \/ h \notin Host /\ UNCHANGED hostConnectCount

OpenSession(s, b) ==
    /\ stage[s] = "none"
    /\ \E target \in Host \cup {NoHost} :
          /\ getClientHost(b, target)
          /\ host' = [host EXCEPT ![s] = target]
    /\ stage' = [stage EXCEPT ![s] = "open"]

\* finishSession: the host is read from the client, in memory or built from its data
FinishSession(s) ==
    /\ stage[s] # "none"
    /\ releaseClient(host[s])
    /\ stage' = [stage EXCEPT ![s] = IF @ = "open" THEN "over" ELSE "again"]
    /\ UNCHANGED host

Next == \E s \in Session : FinishSession(s) \/ \E b \in Browser : OpenSession(s, b)

Spec == Init /\ [][Next]_vars

-----------------------------------------------------------------------------
(***************************************************************************)
(* Counts exist for hosts only and are numbers; an open session has the    *)
(* host it was given.                                                      *)
(***************************************************************************)
TypeOK ==
    /\ Counted \subseteq Host
    /\ hostConnectCount \in [Counted -> Nat]
    /\ host \in [Session -> Host \cup {NoHost}]
    /\ stage \in [Session -> Stage]

Connections(h) == {s \in Session : stage[s] = "open" /\ host[s] = h}

FinishedOnce(h) == \A s \in Session : host[s] = h => stage[s] # "again"

(***************************************************************************)
(* The count of a host is never more than the sessions open on it, so that *)
(* no machine is avoided for sessions that are over; and it is that number *)
(* as long as no session of this host was finished twice, whatever         *)
(* happened to the sessions of other hosts (clientManager.js, retainClient *)
(* and releaseClient; webdriver.js, finishSession).                        *)
(***************************************************************************)
CountsAreConnections ==
    \A h \in Host :
        /\ Count(h) <= Cardinality(Connections(h))
        /\ FinishedOnce(h) => Count(h) = Cardinality(Connections(h))
=============================================================================
