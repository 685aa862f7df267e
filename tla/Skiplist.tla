------------------------------ MODULE Skiplist ------------------------------
(***************************************************************************)
(* The skip list of sorted sets (t_zset.c): nodes in the order of score    *)
(* and object, linked on one or more levels; a link has its span, the      *)
(* number of nodes it passes, from which ranks are computed.               *)
(*                                                                         *)
(* A node is known by its object, the header by 0; Nil is no node.         *)
(***************************************************************************)
EXTENDS Integers, Sequences, SequencesExt

CONSTANTS Objects, MaxLevel

Nil == -1
Header == 0
zslCreateNode(level, score) ==
  [score |-> score, back |-> Nil, level |-> [i \in 1..level |-> [forward |-> Nil, span |-> 0]]]
zslCreate == [level |-> 1, length |-> 0, tail |-> Nil,
              node |-> [n \in {Header} |-> zslCreateNode(MaxLevel, 0)]]
Forward(z, n, i) == z.node[n].level[i].forward
Span(z, n, i) == z.node[n].level[i].span

\* From the header, from the top level down, forward while Go says so of the
\* next node and the number of nodes up to it: where that ends on every level.
Descend(z, Go(_, _)) ==
  LET walk[i \in 1..MaxLevel, x \in Nat, traversed \in Nat] ==
        LET n == Forward(z, x, i)
            t == traversed + Span(z, x, i)
        IN  IF n # Nil /\ Go(n, t) THEN walk[i, n, t] ELSE [x |-> x, rank |-> traversed]
      end[i \in 1..MaxLevel] ==
        IF i >= z.level THEN walk[i, Header, 0] ELSE walk[i, end[i + 1].x, end[i + 1].rank]
  IN  end

\* The order of nodes; objects have the order of their numbers.
Before(z, n, score, obj) == z.node[n].score < score \/ (z.node[n].score = score /\ n < obj)

zslInsert(z, score, obj, level) ==
  LET update == Descend(z, LAMBDA n, t : Before(z, n, score, obj))
      before == update[1].rank
      opened == [z EXCEPT !.level = IF level > @ THEN level ELSE @,
                          !.node[Header].level = [i \in DOMAIN @ |->
                             IF i > z.level /\ i <= level THEN [@[i] EXCEPT !.span = z.length] ELSE @[i]]]
      up(i) == IF i > z.level THEN [x |-> Header, rank |-> 0] ELSE update[i]
      \* the links on levels above the new node's get longer
      Relinked(n) ==
        [opened.node[n] EXCEPT !.level = [i \in DOMAIN @ |->
           IF i > opened.level \/ up(i).x # n THEN @[i]
           ELSE IF i > level THEN [@[i] EXCEPT !.span = @ + 1]
           ELSE [forward |-> obj, span |-> before - up(i).rank + 1]]]
      new == [score |-> score, back |-> IF update[1].x = Header THEN Nil ELSE update[1].x,
              level |-> [i \in 1..level |->
                [forward |-> Forward(opened, up(i).x, i),
                 span |-> Span(opened, up(i).x, i) - (before - up(i).rank)]]]
      after == new.level[1].forward
      nodes == [n \in DOMAIN z.node \cup {obj} |-> IF n = obj THEN new ELSE Relinked(n)]
  IN  [opened EXCEPT !.length = @ + 1, !.tail = IF after = Nil THEN obj ELSE @,
                     !.node = IF after = Nil THEN nodes ELSE [nodes EXCEPT ![after].back = obj]]

\* The node x, with what precedes it on every level.
zslDeleteNode(z, x, update) ==
  LET gone == z.node[x]
      Unlinked(n, i) ==
        LET l == z.node[n].level[i]
        IN  IF i > z.level \/ update[i].x # n THEN l
            ELSE IF l.forward = x
            THEN [forward |-> gone.level[i].forward, span |-> l.span + gone.level[i].span - 1]
            ELSE [l EXCEPT !.span = @ - 1]
      after == gone.level[1].forward
      nodes == [n \in DOMAIN z.node \ {x} |->
                  [z.node[n] EXCEPT !.level = [i \in DOMAIN @ |-> Unlinked(n, i)],
                                    !.back = IF n = after THEN gone.back ELSE @]]
      used == {i \in 1..z.level : i = 1 \/ nodes[Header].level[i].forward # Nil}
  IN  [z EXCEPT !.node = nodes, !.length = @ - 1,
                !.tail = IF after = Nil THEN gone.back ELSE @,
                !.level = CHOOSE i \in used : \A j \in used : j <= i]

zslDelete(z, score, obj) ==
  LET update == Descend(z, LAMBDA n, t : Before(z, n, score, obj))
      x == Forward(z, update[1].x, 1)
  IN  IF x = obj /\ z.node[x].score = score THEN zslDeleteNode(z, x, update) ELSE z

\* The nodes from x on, while In holds of them and their rank.
While(z, x, rank, In(_, _)) ==
  LET nodes[n \in Nat \cup {Nil}, r \in Nat] ==
        IF n = Nil THEN <<>> ELSE IF ~In(n, r) THEN <<>>
        ELSE <<n>> \o nodes[Forward(z, n, 1), r + 1]
  IN  nodes[x, rank]
DeleteAll(z, update, nodes) == FoldLeft(LAMBDA z1, x : zslDeleteNode(z1, x, update), z, nodes)

zslValueGteMin(v, range) == IF range.minex THEN v > range.min ELSE v >= range.min
zslValueLteMax(v, range) == IF range.maxex THEN v < range.max ELSE v <= range.max

zslDeleteRangeByScore(z, range) ==
  LET update == Descend(z, LAMBDA n, t : ~zslValueGteMin(z.node[n].score, range))
  IN  DeleteAll(z, update, While(z, Forward(z, update[1].x, 1), 0,
                                 LAMBDA n, r : zslValueLteMax(z.node[n].score, range)))
zslDeleteRangeByRank(z, start, end) ==
  LET update == Descend(z, LAMBDA n, t : t < start)
  IN  DeleteAll(z, update, While(z, Forward(z, update[1].x, 1), update[1].rank + 1,
                                 LAMBDA n, r : r <= end))

zslGetRank(z, score, obj) ==
  LET end == Descend(z, LAMBDA n, t : Before(z, n, score, obj) \/ (z.node[n].score = score /\ n = obj))
      at == {i \in 1..z.level : end[i].x = obj}
  IN  IF at = {} THEN 0 ELSE end[CHOOSE i \in at : \A j \in at : j <= i].rank
zslGetElementByRank(z, rank) ==
  LET end == Descend(z, LAMBDA n, t : t <= rank)
      at == {i \in 1..z.level : end[i].rank = rank}
  IN  IF at = {} THEN Nil ELSE end[CHOOSE i \in at : \A j \in at : j <= i].x

\* Part of the list may be in the range: the last node and the first are tried.
zslIsInRange(z, range) ==
  LET first == Forward(z, Header, 1)
  IN  /\ range.min <= range.max /\ (range.min = range.max => ~range.minex /\ ~range.maxex)
      /\ z.tail # Nil /\ first # Nil
      /\ zslValueGteMin(z.node[z.tail].score, range) /\ zslValueLteMax(z.node[first].score, range)
zslFirstInRange(z, range) ==
  LET x == Forward(z, Descend(z, LAMBDA n, t : ~zslValueGteMin(z.node[n].score, range))[1].x, 1)
  IN  IF ~zslIsInRange(z, range) THEN Nil
      ELSE IF zslValueLteMax(z.node[x].score, range) THEN x ELSE Nil
zslLastInRange(z, range) ==
  LET x == Descend(z, LAMBDA n, t : zslValueLteMax(z.node[n].score, range))[1].x
  IN  IF ~zslIsInRange(z, range) THEN Nil
      ELSE IF zslValueGteMin(z.node[x].score, range) THEN x ELSE Nil
=============================================================================
