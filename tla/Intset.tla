------------------------------- MODULE Intset -------------------------------
(***************************************************************************)
(* intset.c: a set of integers, sorted, of one width: that of the widest   *)
(* value there ever was.  Widths are 1..Len(Limit), the smallest first; a  *)
(* value v fits into width e if -Limit[e] <= v < Limit[e].                 *)
(***************************************************************************)
EXTENDS Integers, Sequences, SequencesExt

CONSTANT Limit   \* a sequence of positive numbers

Fits(v, e) == -Limit[e] <= v /\ v < Limit[e]
intsetValueEncoding(v) == CHOOSE e \in DOMAIN Limit : Fits(v, e) /\ \A n \in 1..(e - 1) : ~Fits(v, n)

\* What is read back after a value was stored with a width.
Stored(v, e) == ((v + Limit[e]) % (2 * Limit[e])) - Limit[e]
intsetGet(is, pos) == is.contents[pos + 1]
intsetNew == [encoding |-> 1, contents |-> <<>>]

\* Found, and the position where the value is or belongs: binary search.
intsetSearch(is, value) ==
  LET length == Len(is.contents)
      search[min \in 0..length, max \in -1..length] ==
        LET mid == (min + max) \div 2
        IN  IF max < min THEN [found |-> FALSE, pos |-> min]
            ELSE IF value > intsetGet(is, mid) THEN search[mid + 1, max]
            ELSE IF value < intsetGet(is, mid) THEN search[min, mid - 1]
            ELSE [found |-> TRUE, pos |-> mid]
  IN  IF length = 0 THEN [found |-> FALSE, pos |-> 0]
      ELSE IF value > intsetGet(is, length - 1) THEN [found |-> FALSE, pos |-> length]
      ELSE IF value < intsetGet(is, 0) THEN [found |-> FALSE, pos |-> 0]
      ELSE search[0, length - 1]

\* A value that needs a larger width is the smallest or the largest of all.
intsetUpgradeAndAdd(is, value) ==
  LET e == intsetValueEncoding(value)
      upgraded == [i \in DOMAIN is.contents |-> Stored(is.contents[i], e)]
  IN  [encoding |-> e,
       contents |-> IF value < 0 THEN <<Stored(value, e)>> \o upgraded
                    ELSE upgraded \o <<Stored(value, e)>>]

intsetAdd(is, value) ==
  LET at == intsetSearch(is, value)
  IN  IF intsetValueEncoding(value) > is.encoding THEN intsetUpgradeAndAdd(is, value)
      ELSE IF at.found THEN is
      ELSE [is EXCEPT !.contents = InsertAt(@, at.pos + 1, Stored(value, is.encoding))]

intsetFind(is, value) ==
  intsetValueEncoding(value) <= is.encoding /\ intsetSearch(is, value).found
intsetRemove(is, value) ==
  IF intsetFind(is, value)
  THEN [is EXCEPT !.contents = RemoveAt(@, intsetSearch(is, value).pos + 1)] ELSE is
=============================================================================
