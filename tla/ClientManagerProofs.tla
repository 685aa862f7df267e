------------------------ MODULE ClientManagerProofs ------------------------
(***************************************************************************)
(* Proofs about ClientManager, for every set of machines, every            *)
(* configuration and any number of sessions.                               *)
(***************************************************************************)
EXTENDS ClientManager, FiniteSetTheorems, TLAPS

(***************************************************************************)
(* How the count of a host follows an assignment.                          *)
(***************************************************************************)
LEMMA SetCountEffect ==
    ASSUME NEW h \in Host, NEW n \in Nat, TypeOK, SetCount(h, n)
    PROVE  /\ Counted' \subseteq Host
           /\ hostConnectCount' \in [Counted' -> Nat]
           /\ \A g \in Host : Count(g)' = IF g = h THEN n ELSE Count(g)
<1>1. /\ Counted' = Counted \cup {h}
      /\ \A g \in Counted \cup {h} :
            hostConnectCount'[g] = IF g = h THEN n ELSE hostConnectCount[g]
      /\ hostConnectCount' = [g \in Counted \cup {h} |-> IF g = h THEN n ELSE hostConnectCount[g]]
  BY DEF SetCount, Counted
<1>2. hostConnectCount' \in [Counted \cup {h} -> Nat]
  BY <1>1 DEF TypeOK
<1> QED
  BY <1>1, <1>2 DEF TypeOK, Count

LEMMA CountType == ASSUME TypeOK, NEW h \in Host PROVE Count(h) \in Nat
  BY DEF TypeOK, Count

(***************************************************************************)
(* The sets of connections are finite, so that their sizes add up.         *)
(***************************************************************************)
LEMMA ConnectionsFinite == ASSUME NEW h PROVE IsFiniteSet(Connections(h))
<1>1. Connections(h) \in SUBSET Session
  BY DEF Connections
<1> QED
  BY <1>1, SessionAssumption, FS_Subset

(***************************************************************************)
(* getClientHost returns a machine and counts it, or null.                 *)
(***************************************************************************)
LEMMA ChosenHost ==
    ASSUME NEW b, NEW target, TypeOK, getClientHost(b, target)
    PROVE  \/ target \in Host /\ SetCount(target, Count(target) + 1)
           \/ target = NoHost /\ UNCHANGED hostConnectCount
<1>1. availableList(b) \in Seq(Host)
  BY ConfigAssumption DEF availableList
<1> QED
  BY <1>1 DEF getClientHost

CountOK(h) ==
    /\ Count(h) <= Cardinality(Connections(h))
    /\ FinishedOnce(h) => Count(h) = Cardinality(Connections(h))

Inv == TypeOK /\ \A h \in Host : CountOK(h)

LEMMA InitInv == Init => Inv
<1> SUFFICES ASSUME Init PROVE Inv
  OBVIOUS
<1>1. TypeOK
  BY DEF Init, TypeOK, Counted, Stage
<1>2. \A h \in Host : Connections(h) = {} /\ Count(h) = 0
  BY DEF Init, Connections, Count, Counted
<1>3. Cardinality({}) = 0
  BY FS_EmptySet
<1>4. \A h \in Host : CountOK(h)
  BY <1>2, <1>3 DEF CountOK
<1> QED
  BY <1>1, <1>4 DEF Inv

LEMMA OpenInv ==
    ASSUME Inv, NEW s \in Session, NEW b \in Browser, OpenSession(s, b)
    PROVE  Inv'
<1> USE DEF Inv
<1>1. PICK target \in Host \cup {NoHost} :
         getClientHost(b, target) /\ host' = [host EXCEPT ![s] = target]
  BY DEF OpenSession
<1>2. stage[s] = "none" /\ stage' = [stage EXCEPT ![s] = "open"]
  BY DEF OpenSession
<1>3. /\ host' \in [Session -> Host \cup {NoHost}]
      /\ stage' \in [Session -> Stage]
      /\ host'[s] = target /\ stage'[s] = "open"
      /\ \A r \in Session \ {s} : host'[r] = host[r] /\ stage'[r] = stage[r]
  BY <1>1, <1>2 DEF TypeOK, Stage
<1>4. \A h : s \notin Connections(h)
  BY <1>2 DEF Connections
<1>5. \A h : Connections(h)' = IF h = target THEN Connections(h) \cup {s} ELSE Connections(h)
  BY <1>2, <1>3 DEF Connections
<1>once. \A h \in Host : FinishedOnce(h)' => FinishedOnce(h)
  BY <1>2, <1>3 DEF FinishedOnce
<1>6. CASE target \in Host /\ SetCount(target, Count(target) + 1)
  <2>1. Count(target) + 1 \in Nat
    BY <1>6, CountType
  <2>2. TypeOK'
    BY <1>3, <1>6, <2>1, SetCountEffect DEF TypeOK
  <2>3. ASSUME NEW h \in Host PROVE CountOK(h)'
    <3>1. CountOK(h) /\ Count(h) \in Nat /\ Cardinality(Connections(h)) \in Nat
      BY CountType, ConnectionsFinite, FS_CardinalityType
    <3>2. CASE h = target
      <4>1. Count(h)' = Count(h) + 1
        BY <3>2, <1>6, <2>1, SetCountEffect
      <4>2. Cardinality(Connections(h)') = Cardinality(Connections(h)) + 1
        BY <1>4, <1>5, <3>2, ConnectionsFinite, FS_AddElement
      <4> QED
        BY <4>1, <4>2, <3>1, <1>once DEF CountOK
    <3>3. CASE h # target
      <4>1. Count(h)' = Count(h) /\ Connections(h)' = Connections(h)
        BY <3>3, <1>5, <1>6, <2>1, SetCountEffect
      <4> QED
        BY <4>1, <3>1, <1>once DEF CountOK
    <3> QED
      BY <3>2, <3>3
  <2> QED
    BY <2>2, <2>3
<1>7. CASE target = NoHost /\ UNCHANGED hostConnectCount
  <2>1. \A h \in Host : Connections(h)' = Connections(h) /\ Count(h)' = Count(h)
    BY <1>5, <1>7, ConfigAssumption DEF Count, Counted
  <2>2. \A h \in Host : CountOK(h)'
    BY <2>1, <1>once DEF CountOK
  <2> QED
    BY <2>2, <1>3, <1>7 DEF TypeOK, Counted
<1> QED
  BY <1>1, <1>6, <1>7, ChosenHost

LEMMA FinishInv ==
    ASSUME Inv, NEW s \in Session, FinishSession(s)
    PROVE  Inv'
<1> USE DEF Inv
<1>1. /\ stage[s] # "none"
      /\ stage' = [stage EXCEPT ![s] = IF stage[s] = "open" THEN "over" ELSE "again"]
      /\ host' = host /\ releaseClient(host[s])
  BY DEF FinishSession
<1>2. /\ stage' \in [Session -> Stage]
      /\ stage'[s] = IF stage[s] = "open" THEN "over" ELSE "again"
      /\ \A r \in Session \ {s} : stage'[r] = stage[r]
      /\ host[s] \in Host \cup {NoHost}
  BY <1>1 DEF TypeOK, Stage
<1>3. stage[s] = "open" => s \in Connections(host[s])
  BY DEF Connections
<1>4. \A h : Connections(h)' = IF h = host[s] THEN Connections(h) \ {s} ELSE Connections(h)
  BY <1>1, <1>2 DEF Connections
<1>5. \A h \in Host : FinishedOnce(h)' => FinishedOnce(h)
  BY <1>1, <1>2 DEF FinishedOnce
<1>6. stage[s] # "open" =>
         \A h : h = host[s] => ~ FinishedOnce(h)' /\ s \notin Connections(h)
  BY <1>1, <1>2 DEF FinishedOnce, Connections
<1>7. CASE host[s] \in Host
  <2> DEFINE m == IF Count(host[s]) = 0 THEN 0 ELSE Count(host[s]) - 1
  <2>1. SetCount(host[s], m) /\ m \in Nat
    BY <1>1, <1>7, CountType, ConfigAssumption DEF releaseClient
  <2>2. TypeOK'
    BY <1>1, <1>2, <1>7, <2>1, SetCountEffect DEF TypeOK
  <2>3. ASSUME NEW h \in Host PROVE CountOK(h)'
    <3>1. CountOK(h) /\ Count(h) \in Nat /\ Cardinality(Connections(h)) \in Nat
      BY CountType, ConnectionsFinite, FS_CardinalityType
    <3>2. CASE h = host[s] /\ stage[s] = "open"
      <4>1. Count(h)' = m
        BY <3>2, <2>1, <1>7, SetCountEffect
      <4>2. Cardinality(Connections(h) \ {s}) = Cardinality(Connections(h)) - 1
        BY <3>2, <1>3, ConnectionsFinite, FS_RemoveElement
      <4>3. Cardinality(Connections(h)) # 0
        BY <3>2, <1>3, ConnectionsFinite, FS_EmptySet
      <4>4. Connections(h)' = Connections(h) \ {s}
        BY <3>2, <1>4
      <4> QED
        BY <4>1, <4>2, <4>3, <4>4, <3>1, <3>2, <1>5 DEF CountOK
    <3>3. CASE h = host[s] /\ stage[s] # "open"
      <4>1. Count(h)' = m /\ Connections(h)' = Connections(h)
        BY <3>3, <2>1, <1>4, <1>6, <1>7, SetCountEffect
      <4> QED
        BY <4>1, <3>1, <3>3, <1>6 DEF CountOK
    <3>4. CASE h # host[s]
      <4>1. Count(h)' = Count(h) /\ Connections(h)' = Connections(h)
        BY <3>4, <2>1, <1>4, <1>7, SetCountEffect
      <4> QED
        BY <4>1, <3>1, <1>5 DEF CountOK
    <3> QED
      BY <3>2, <3>3, <3>4
  <2> QED
    BY <2>2, <2>3
<1>8. CASE host[s] = NoHost
  <2>1. UNCHANGED hostConnectCount
    BY <1>1, <1>8, ConfigAssumption DEF releaseClient
  <2>2. \A h \in Host : Connections(h)' = Connections(h) /\ Count(h)' = Count(h)
    BY <1>4, <1>8, <2>1, ConfigAssumption DEF Count, Counted
  <2>3. \A h \in Host : CountOK(h)'
    BY <2>2, <1>5 DEF CountOK
  <2> QED
    BY <2>1, <2>3, <1>1, <1>2 DEF TypeOK, Counted
<1> QED
  BY <1>2, <1>7, <1>8

(***************************************************************************)
(* The count of every machine is at most the number of sessions open on    *)
(* it, and exactly that number as long as none of its sessions is finished *)
(* twice, for every configuration and any number of sessions.              *)
(***************************************************************************)
THEOREM CountsCorrect == Spec => []CountsAreConnections
<1>1. Inv /\ [Next]_vars => Inv'
  <2> SUFFICES ASSUME Inv, [Next]_vars PROVE Inv'
    OBVIOUS
  <2>1. CASE UNCHANGED vars
    BY <2>1 DEF vars, Inv, TypeOK, Counted, CountOK, FinishedOnce, Count, Connections
  <2>2. CASE Next
    BY <2>2, OpenInv, FinishInv DEF Next
  <2> QED
    BY <2>1, <2>2
<1>2. Inv => CountsAreConnections
  BY DEF Inv, CountOK, CountsAreConnections
<1> QED
  BY <1>1, <1>2, InitInv, PTL DEF Spec
=============================================================================
