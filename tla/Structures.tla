----------------------------- MODULE Structures -----------------------------
(***************************************************************************)
(* The data structures of Redis under any sequence of operations: what the *)
(* encodings of the values of RedisObject stand on.  Each behaviour is the *)
(* life of one structure of one kind, next to the set, the sequence or the *)
(* function it stands for.                                                 *)
(***************************************************************************)
EXTENDS Integers, Sequences, FiniteSets, SequencesExt

CONSTANTS Limit, BigLen, MaxLength, HeaderSize, Objects, MaxLevel,
          DictKeys, InitialSize, ForceRatio, MinFill
CONSTANTS Values, Bodies, Scores, MaxEntries   \* what is stored, and how much of it

I == INSTANCE Intset
Z == INSTANCE Ziplist
S == INSTANCE Skiplist
D == INSTANCE Dict

\* What the parameters must be: MCRedisParts assumes it
StructuresAssumption ==
  /\ Limit \in Seq(Nat \ {0}) /\ Limit # <<>>
  /\ \A v \in Values : \E e \in DOMAIN Limit : I!Fits(v, e)
  /\ BigLen \in Nat /\ MaxLength \in Nat /\ HeaderSize \in Nat
  /\ Bodies \subseteq Nat \ {0, 1}     \* a byte that is lost is one of a value
  /\ Objects \subseteq Nat \ {0} /\ MaxLevel \in Nat \ {0}
  /\ DictKeys \subseteq Nat /\ InitialSize \in Nat \ {0}
  /\ ForceRatio \in Nat /\ MinFill \in 0..100

VARIABLES
  kind,     \* of structure
  is,       \* its state
  of,       \* what it stands for
  iter      \* of a dictionary: the iterator, the keys it has returned (any of them
            \* twice?) and those that were there all the time; <<>> for none
vars == <<kind, is, of, iter>>

Empty == [intset |-> I!intsetNew, ziplist |-> Z!ziplistNew, skiplist |-> S!zslCreate,
          dict |-> D!dictCreate]
Init ==
  /\ kind \in DOMAIN Empty /\ is = Empty[kind] /\ iter = <<>>
  /\ of = IF kind = "ziplist" THEN <<>> ELSE {}
Becomes(k, s, meaning) == kind = k /\ is' = s /\ of' = meaning /\ UNCHANGED kind

-----------------------------------------------------------------------------
(* Sets of integers.                                                        *)

AddValue(v) == Becomes("intset", I!intsetAdd(is, v), of \cup {v}) /\ UNCHANGED iter
RemoveValue(v) == Becomes("intset", I!intsetRemove(is, v), of \ {v}) /\ UNCHANGED iter

-----------------------------------------------------------------------------
(* Lists.  A value is a number that no other entry has.                     *)

\* The one operation that damages what is stored already (README, section 3)
LastLost == [of EXCEPT ![Len(of)] = Z!Lost]
InsertEntry(i, body) ==
  /\ kind = "ziplist" /\ Len(of) < MaxEntries /\ i <= Len(of) + 1
  /\ \E v \in 1..MaxEntries :
       /\ \A j \in DOMAIN of : of[j] # v
       /\ \A u \in 1..(v - 1) : \E j \in DOMAIN of : of[j] = u
       /\ Becomes("ziplist", Z!ziplistInsert(is, i, body, v),
                  InsertAt(IF Z!LosesBytes(is, i, body) THEN LastLost ELSE of, i, v))
  /\ UNCHANGED iter
DeleteEntries(i, num) ==
  /\ kind = "ziplist" /\ i <= Len(of)
  /\ Becomes("ziplist", Z!ziplistDelete(is, i, num),
             SubSeq(of, 1, i - 1) \o SubSeq(of, i + num, Len(of)))
  /\ UNCHANGED iter
ListLength == Becomes("ziplist", Z!AfterLen(is), of) /\ UNCHANGED iter

-----------------------------------------------------------------------------
(* Sorted sets: <<score, object>>, every object once.                       *)

InsertNode(score, obj, level) ==
  /\ kind = "skiplist" /\ \A p \in of : p[2] # obj
  /\ Becomes("skiplist", S!zslInsert(is, score, obj, level), of \cup {<<score, obj>>})
  /\ UNCHANGED iter
DeleteNode(score, obj) ==
  /\ kind = "skiplist" /\ UNCHANGED iter
  /\ Becomes("skiplist", S!zslDelete(is, score, obj), of \ {<<score, obj>>})

Ranges == [min : Scores, max : Scores, minex : BOOLEAN, maxex : BOOLEAN]
InRange(p, range) == S!zslValueGteMin(p[1], range) /\ S!zslValueLteMax(p[1], range)
Sorted == SetToSortSeq(of, LAMBDA p, q : p[1] < q[1] \/ (p[1] = q[1] /\ p[2] < q[2]))
DeleteRangeByScore(range) ==
  /\ kind = "skiplist" /\ UNCHANGED iter
  /\ Becomes("skiplist", S!zslDeleteRangeByScore(is, range), {p \in of : ~InRange(p, range)})
DeleteRangeByRank(start, end) ==
  /\ kind = "skiplist" /\ UNCHANGED iter
  /\ Becomes("skiplist", S!zslDeleteRangeByRank(is, start, end),
             {Sorted[i] : i \in {j \in 1..Cardinality(of) : j < start \/ j > end}})

-----------------------------------------------------------------------------
(* Hash tables.  While there is an iterator keys are added, and only the    *)
(* one it has returned is deleted.                                          *)

AddKey(key, canResize) ==
  Becomes("dict", D!dictAdd(is, key, canResize), of \cup {key}) /\ UNCHANGED iter
FindKey(key) == Becomes("dict", D!dictFind(is, key), of) /\ UNCHANGED iter
DeleteKey(key) ==
  /\ kind = "dict" /\ iter # <<>> => iter[1].it.entry = key
  /\ Becomes("dict", D!dictDelete(is, key), of \ {key})
  /\ iter' = IF iter = <<>> THEN iter
             ELSE <<[iter[1] EXCEPT !.seen = @ \ {key}, !.stay = @ \ {key}]>>
ResizeTable(canResize) ==
  /\ kind = "dict" /\ D!htNeedsResize(is)
  /\ Becomes("dict", D!dictResize(is, canResize), of) /\ UNCHANGED iter
\* Between events, when no iterator is at work.
RehashTable ==
  /\ kind = "dict" /\ iter = <<>> /\ D!dictIsRehashing(is)
  /\ Becomes("dict", D!dictRehash(is), of) /\ UNCHANGED iter

StartIterator ==
  /\ kind = "dict" /\ iter = <<>> /\ UNCHANGED <<kind, is, of>>
  /\ iter' = <<[it |-> D!dictGetSafeIterator, seen |-> {}, twice |-> FALSE, stay |-> of, over |-> FALSE]>>
NextKey ==
  /\ kind = "dict" /\ iter # <<>> /\ ~iter[1].over
  /\ LET it == iter[1].it
         first == it.index = -1 /\ it.table = 1
         next == D!dictNext(is, it)
     IN  /\ Becomes("dict", [is EXCEPT !.iterators = IF first THEN 1 ELSE @], of)
         /\ iter' = <<[iter[1] EXCEPT !.it = next, !.over = next.entry = -1,
                                      !.twice = @ \/ next.entry \in iter[1].seen,
                                      !.seen = @ \cup ({next.entry} \ {-1})]>>
ReleaseIterator ==
  /\ kind = "dict" /\ iter # <<>>
  /\ Becomes("dict", [is EXCEPT !.iterators = 0], of) /\ iter' = <<>>

Next ==
  \/ \E v \in Values : AddValue(v) \/ RemoveValue(v)
  \/ \E i \in 1..MaxEntries, body \in Bodies : InsertEntry(i, body)
  \/ \E i, num \in 1..MaxEntries : DeleteEntries(i, num)
  \/ ListLength
  \/ \E score \in Scores, obj \in Objects :
       DeleteNode(score, obj) \/ \E level \in 1..MaxLevel : InsertNode(score, obj, level)
  \/ \E range \in Ranges : DeleteRangeByScore(range)
  \/ \E start, end \in 1..Cardinality(Objects) : DeleteRangeByRank(start, end)
  \/ \E key \in DictKeys : \/ FindKey(key) \/ DeleteKey(key)
                           \/ \E canResize \in BOOLEAN : AddKey(key, canResize)
  \/ \E canResize \in BOOLEAN : ResizeTable(canResize)
  \/ RehashTable \/ StartIterator \/ NextKey \/ ReleaseIterator

Spec == Init /\ [][Next]_vars

-----------------------------------------------------------------------------
(* Properties.                                                              *)

IntsetSound ==
  /\ ToSet(is.contents) = of
  /\ \A i \in 1..(Len(is.contents) - 1) : is.contents[i] < is.contents[i + 1]
  /\ \A v \in Values : I!intsetFind(is, v) <=> v \in of

ZiplistSound ==
  LET n == Len(of)
      raw(i) == IF i = 0 THEN 0 ELSE Z!zipRawEntryLength(is.entries[i])
  IN  /\ [i \in DOMAIN is.entries |-> is.entries[i].value] = of
      /\ \A i \in 1..n : /\ is.entries[i].prev = raw(i - 1)
                         /\ is.entries[i].size >= Z!zipPrevEncodeLength(raw(i - 1))
      /\ is.bytes = Z!Offset(is, n + 1) + 1
      /\ is.tail = Z!Offset(is, IF n = 0 THEN 1 ELSE n)
      /\ Z!ziplistLen(is) = n
      /\ \A k \in 1..n : Z!ziplistIndexBack(is, k) = n - k + 1

SkiplistSound ==
  LET n == Cardinality(of)
      id(i) == IF i = 0 THEN S!Nil ELSE Sorted[i][2]
      inside(range) == {i \in 1..n : InRange(Sorted[i], range)}
  IN  /\ is.length = n /\ is.tail = id(n)
      /\ is.level = CHOOSE l \in 1..MaxLevel :
           /\ \A i \in 1..n : Len(is.node[id(i)].level) <= l
           /\ l = 1 \/ \E i \in 1..n : Len(is.node[id(i)].level) = l
      /\ \A i \in 1..n : /\ is.node[id(i)].back = id(i - 1)
                         /\ S!zslGetRank(is, Sorted[i][1], id(i)) = i
                         /\ S!zslGetElementByRank(is, i) = id(i)
      /\ S!zslGetElementByRank(is, n + 1) = S!Nil
      /\ \A range \in Ranges :
           /\ S!zslFirstInRange(is, range) =
                id(IF inside(range) = {} THEN 0 ELSE CHOOSE i \in inside(range) : \A j \in inside(range) : i <= j)
           /\ S!zslLastInRange(is, range) =
                id(IF inside(range) = {} THEN 0 ELSE CHOOSE i \in inside(range) : \A j \in inside(range) : i >= j)

DictSound ==
  /\ \A key \in DictKeys : is.ht[1].size > 0 => Len(D!Found(is, key)) = IF key \in of THEN 1 ELSE 0
  /\ D!dictSize(is) = Cardinality(of)
  /\ D!dictIsRehashing(is) => \A i \in 0..(is.rehashidx - 1) : is.ht[1].table[i] = <<>>


\* A safe iterator returns no key twice, and in the end every key that was
\* there all the time, though keys are added, the one it is at is deleted and
\* the table starts to grow or shrink (dict.c, dictNext).
IterationComplete ==
  iter # <<>> =>
    /\ ~iter[1].twice
    /\ iter[1].over => iter[1].stay \subseteq iter[1].seen
=============================================================================
