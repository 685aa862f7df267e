-------------------------------- MODULE Dict --------------------------------
(***************************************************************************)
(* dict.c: a hash table that grows and shrinks in steps: while it is       *)
(* rehashed there are two tables, and every operation moves a bucket, but  *)
(* not while a safe iterator is at work.                                   *)
(*                                                                         *)
(* A bucket is the sequence of its keys; keys are their own hash values.   *)
(***************************************************************************)
EXTENDS Integers, Sequences, FiniteSets, SequencesExt

CONSTANTS DictKeys, InitialSize, ForceRatio, MinFill   \* MinFill in percent

NoTable == [size |-> 0, used |-> 0, table |-> <<>>]
Table(size) == [size |-> size, used |-> 0, table |-> [i \in 0..(size - 1) |-> <<>>]]
dictCreate == [ht |-> <<NoTable, NoTable>>, rehashidx |-> -1, iterators |-> 0]
dictIsRehashing(d) == d.rehashidx # -1
dictSize(d) == d.ht[1].used + d.ht[2].used

RECURSIVE dictNextPower(_, _)
dictNextPower(i, size) == IF i >= size THEN i ELSE dictNextPower(2 * i, size)

dictExpand(d, size) ==
  LET new == Table(dictNextPower(InitialSize, size))
  IN  IF dictIsRehashing(d) \/ d.ht[1].used > size THEN d
      ELSE IF d.ht[1].size = 0 THEN [d EXCEPT !.ht[1] = new]
      ELSE [d EXCEPT !.ht[2] = new, !.rehashidx = 0]

\* One step: the next bucket that is not empty goes to the new table, key by
\* key; when there is none left the new table replaces the old one.
Index(t, key) == key % t.size
Chained(t, key) == [t EXCEPT !.table[Index(t, key)] = <<key>> \o @, !.used = @ + 1]
dictRehash(d) ==
  LET full == {i \in d.rehashidx..(d.ht[1].size - 1) : d.ht[1].table[i] # <<>>}
      idx == CHOOSE i \in full : \A j \in full : i <= j
      keys == d.ht[1].table[idx]
  IN  IF ~dictIsRehashing(d) THEN d
      ELSE IF d.ht[1].used = 0
      THEN [d EXCEPT !.ht = <<d.ht[2], NoTable>>, !.rehashidx = -1]
      ELSE [d EXCEPT !.ht = <<[d.ht[1] EXCEPT !.table[idx] = <<>>, !.used = @ - Len(keys)],
                              FoldLeft(Chained, d.ht[2], keys)>>,
                     !.rehashidx = idx + 1]
StepAlways(d) == dictRehash(d)     \* Mutant: iterators do not stop the rehashing
dictRehashStep(d) == IF d.iterators = 0 THEN dictRehash(d) ELSE d

\* canResize: off while a child process saves.
dictResize(d, canResize) ==
  IF ~canResize \/ dictIsRehashing(d) THEN d
  ELSE dictExpand(d, IF d.ht[1].used < InitialSize THEN InitialSize ELSE d.ht[1].used)
htNeedsResize(d) ==
  LET size == d.ht[1].size + d.ht[2].size
  IN  size > InitialSize /\ dictSize(d) > 0 /\ (dictSize(d) * 100) \div size < MinFill
dictExpandIfNeeded(d, canResize) ==
  LET t == d.ht[1]
  IN  IF dictIsRehashing(d) THEN d
      ELSE IF t.size = 0 THEN dictExpand(d, InitialSize)
      ELSE IF t.used >= t.size /\ (canResize \/ t.used \div t.size > ForceRatio)
      THEN dictExpand(d, 2 * (IF t.size > t.used THEN t.size ELSE t.used))
      ELSE d

\* The tables that are searched, and the one a key is found in.
Searched(d) == IF dictIsRehashing(d) THEN <<1, 2>> ELSE <<1>>
Holds(d, i, key) == d.ht[i].size > 0 /\ Contains(d.ht[i].table[Index(d.ht[i], key)], key)
Found(d, key) == SelectSeq(Searched(d), LAMBDA i : Holds(d, i, key))

dictAdd(d, key, canResize) ==
  LET expanded == dictExpandIfNeeded(dictRehashStep(d), canResize)
      last == Searched(expanded)[Len(Searched(expanded))]
  IN  IF Found(expanded, key) # <<>> THEN expanded
      ELSE [expanded EXCEPT !.ht[last] = Chained(@, key)]
dictFind(d, key) == IF d.ht[1].size = 0 THEN d ELSE dictRehashStep(d)
dictDelete(d, key) ==
  LET e == dictFind(d, key)
      i == Found(e, key)[1]
  IN  IF Found(e, key) = <<>> THEN e
      ELSE [e EXCEPT !.ht[i].table[Index(e.ht[i], key)] = Remove(@, key), !.ht[i].used = @ - 1]

-----------------------------------------------------------------------------
(* Safe iterators: [table, index, entry, next], -1 for no entry.            *)

dictGetSafeIterator == [table |-> 1, index |-> -1, entry |-> -1, next |-> -1]
NextOf(d, key) ==
  LET t == d.ht[Found(d, key)[1]]
      bucket == t.table[Index(t, key)]
      i == CHOOSE n \in DOMAIN bucket : bucket[n] = key
  IN  IF i < Len(bucket) THEN bucket[i + 1] ELSE -1

RECURSIVE dictNext(_, _)
dictNext(d, it) ==
  LET index == it.index + 1
      over == index >= d.ht[it.table].size
      Entry(it1) == IF it1.entry = -1 THEN dictNext(d, it1)
                    ELSE [it1 EXCEPT !.next = NextOf(d, it1.entry)]
      Bucket(table, i) ==
        LET bucket == d.ht[table].table[i]
        IN  Entry([it EXCEPT !.table = table, !.index = i,
                             !.entry = IF bucket = <<>> THEN -1 ELSE Head(bucket)])
  IN  IF it.entry # -1 THEN Entry([it EXCEPT !.entry = it.next])
      ELSE IF ~over THEN Bucket(it.table, index)
      ELSE IF dictIsRehashing(d) /\ it.table = 1 THEN Bucket(2, 0)
      ELSE [it EXCEPT !.index = index]
=============================================================================
