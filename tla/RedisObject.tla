---------------------------- MODULE RedisObject ----------------------------
(***************************************************************************)
(* The values of the Redis keyspace, as object.c, util.c and the type API  *)
(* at the head of t_list.c, t_set.c, t_hash.c and t_zset.c handle them.    *)
(*                                                                         *)
(* A string is a sequence of bytes of BitsPerByte = 2 bits: 0 and 1 are    *)
(* the digits (numbers are written in base 2), 2 is the minus sign, 3 any  *)
(* other letter.  An aggregate is a record with its type, its encoding     *)
(* and its abstract value: a sequence, a set, or a function.  The bytes of *)
(* a ziplist or of a hash table are the subject of the encoding modules;   *)
(* what is kept here is when the code changes the encoding.                *)
(***************************************************************************)
EXTENDS Integers, Sequences, FiniteSets, SequencesExt

LOCAL INSTANCE FiniteSetsExt

CONSTANTS
  LongMax,                   \* LLONG_MAX
  MaxReal,                   \* above it a long double is infinite
  MaxStringLen,              \* 512 MB
  ListMaxEntries, ListMaxValue, SetMaxIntset,
  HashMaxEntries, HashMaxValue, ZsetMaxEntries, ZsetMaxValue

BitsPerByte == 2
Minus == 2
LongMin == -LongMax - 1

ASSUME ObjectAssumption ==
  /\ LongMax \in Nat /\ MaxReal \in Nat /\ LongMax + 1 < MaxReal
  /\ MaxStringLen \in Nat \ {0}

-----------------------------------------------------------------------------
(* Numbers and strings.                                                     *)

Infinity == MaxReal + 1

Digits[n \in 0..Infinity] ==
  IF n < 2 THEN <<n>> ELSE Append(Digits[n \div 2], n % 2)

ll2string(n) == IF n < 0 THEN <<Minus>> \o Digits[-n] ELSE Digits[n]

\* The number a string denotes, whatever its range; "ok" is FALSE when some
\* byte is not part of the number.  The empty string denotes 0.
Digit(b) == b < 2
ValueOf(digits) == FoldLeft(LAMBDA acc, d : 2 * acc + d, 0, digits)
Number(s) ==
  IF s # <<>> /\ s[1] = Minus
  THEN [ok |-> Len(s) > 1 /\ \A i \in 2..Len(s) : Digit(s[i]), n |-> -ValueOf(Tail(s))]
  ELSE [ok |-> \A i \in DOMAIN s : Digit(s[i]), n |-> ValueOf(s)]
Within(number, range) == [ok |-> number.ok /\ number.n \in range, n |-> number.n]

\* strtoll: leading zeros pass, a number out of range does not.
getLongLongFromObject(s) == Within(Number(s), LongMin..LongMax)

\* strtold: any number, infinity included.
getLongDoubleFromObject(s) == Within(Number(s), (-Infinity)..Infinity)

\* Numbers saturate.  The sum of the two infinities is not a number.
Saturate(n) == IF n > MaxReal THEN Infinity
               ELSE IF n < -MaxReal THEN -Infinity ELSE n
isnan(a, b) == {a, b} = {Infinity, -Infinity}
RealSum(a, b) == IF a \in {Infinity, -Infinity} THEN a
                 ELSE IF b \in {Infinity, -Infinity} THEN b ELSE Saturate(a + b)

\* string2ll is the strict parser: only what ll2string prints.
string2ll(s) == \E n \in LongMin..LongMax : ll2string(n) = s

\* The byte order of memcmp, a prefix first.
StringLess(a, b) ==
  \/ \E i \in DOMAIN b : /\ i <= Len(a) /\ a[i] < b[i]
                         /\ \A j \in 1..(i - 1) : a[j] = b[j]
  \/ (Len(a) < Len(b) /\ SubSeq(b, 1, Len(a)) = a)

sdsgrowzero(s, len) == [i \in 1..(IF len > Len(s) THEN len ELSE Len(s)) |->
                          IF i <= Len(s) THEN s[i] ELSE 0]

\* Bit "bit" of byte b, the most significant first.
BitOf(b, bit) == (b \div 2^(BitsPerByte - 1 - bit)) % 2
WithBit(b, bit, on) == b + (on - BitOf(b, bit)) * 2^(BitsPerByte - 1 - bit)
BitCount(b) == (b % 2) + (b \div 2)

\* One byte of BITOP: the operation applied to the bits of the sources.
CombineBytes(op, bytes) ==
  LET bit(i) == CASE op = "not" -> 1 - BitOf(bytes[1], i)
                  [] op = "and" -> IF \A j \in DOMAIN bytes : BitOf(bytes[j], i) = 1
                                   THEN 1 ELSE 0
                  [] op = "or"  -> IF \E j \in DOMAIN bytes : BitOf(bytes[j], i) = 1
                                   THEN 1 ELSE 0
                  [] op = "xor" -> Cardinality({j \in DOMAIN bytes :
                                                  BitOf(bytes[j], i) = 1}) % 2
  IN  2 * bit(0) + bit(1)

-----------------------------------------------------------------------------
(* Objects.                                                                 *)

Nil          == [t |-> "none"]
StringObj(s) == [t |-> "string", str |-> s]
createZiplistObject == [t |-> "list", enc |-> "ziplist", list |-> <<>>]
createHashObject    == [t |-> "hash", enc |-> "ziplist", hash |-> <<>>]

setTypeCreate(v) ==
  [t |-> "set", enc |-> IF string2ll(v) THEN "intset" ELSE "hashtable", set |-> {}]
createIntsetObject == [t |-> "set", enc |-> "intset", set |-> {}]

createZset(element) ==
  [t    |-> "zset",
   enc  |-> IF ZsetMaxEntries = 0 \/ ZsetMaxValue < Len(element)
            THEN "skiplist" ELSE "ziplist",
   zset |-> <<>>]

-----------------------------------------------------------------------------
(* Lists.                                                                   *)

listTypeTryConversion(o, v) ==
  IF o.enc = "ziplist" /\ ~string2ll(v) /\ Len(v) > ListMaxValue
  THEN [o EXCEPT !.enc = "linkedlist"] ELSE o

listTypePush(o, v, where) ==
  [listTypeTryConversion(o, v) EXCEPT
     !.enc  = IF @ = "ziplist" /\ Len(o.list) >= ListMaxEntries THEN "linkedlist" ELSE @,
     !.list = IF where = "head" THEN <<v>> \o @ ELSE Append(@, v)]

ListEnd(o, where) == IF where = "head" THEN Head(o.list) ELSE Last(o.list)
listTypePop(o, where) ==
  [o EXCEPT !.list = IF where = "head" THEN Tail(@) ELSE Front(@)]

\* The elements from start to end, negative indexes counting from the tail:
\* 1-based bounds, the first greater than the second when nothing is left.
FromTail(len, i) == IF i < 0 THEN len + i ELSE i
RangeOf(len, start, end) ==
  [first |-> Max({FromTail(len, start), 0}) + 1,
   last  |-> Min({FromTail(len, end), len - 1}) + 1]

-----------------------------------------------------------------------------
(* Sets.                                                                    *)

\* Mutant: the size is compared before the element is added
SetTypeAddLate(o, v) ==
  [o EXCEPT !.set = @ \cup {v},
            !.enc = IF @ = "intset" /\ (~string2ll(v) \/ Cardinality(o.set) > SetMaxIntset)
                    THEN "hashtable" ELSE @]

setTypeAdd(o, v) ==
  LET set == o.set \cup {v} IN
  [o EXCEPT !.set = set,
            !.enc = IF /\ @ = "intset"
                       /\ \/ ~string2ll(v)
                          \/ (v \notin o.set /\ Cardinality(set) > SetMaxIntset)
                    THEN "hashtable" ELSE @]
setTypeRemove(o, v) == [o EXCEPT !.set = @ \ {v}]
SetAddAll(o, vs) == FoldSet(LAMBDA v, acc : setTypeAdd(acc, v), o, vs)

-----------------------------------------------------------------------------
(* Hashes: a function from fields to values.                                *)

hashTypeTryConversion(o, args) ==
  IF o.enc = "ziplist" /\ \E i \in DOMAIN args : Len(args[i]) > HashMaxValue
  THEN [o EXCEPT !.enc = "hashtable"] ELSE o

hashTypeExists(o, f) == f \in DOMAIN o.hash
hashTypeSet(o, f, v) ==
  LET hash == [g \in DOMAIN o.hash \cup {f} |-> IF g = f THEN v ELSE o.hash[g]] IN
  [o EXCEPT !.hash = hash,
            !.enc  = IF @ = "ziplist" /\ Cardinality(DOMAIN hash) > HashMaxEntries
                     THEN "hashtable" ELSE @]
hashTypeDelete(o, f) ==
  [o EXCEPT !.hash = [g \in DOMAIN o.hash \ {f} |-> o.hash[g]]]

-----------------------------------------------------------------------------
(* Sorted sets: a function from elements to scores.                         *)

ZsetAdd(o, e, score) ==
  LET zset == [x \in DOMAIN o.zset \cup {e} |-> IF x = e THEN score ELSE o.zset[x]]
  IN  [o EXCEPT !.zset = zset,
                !.enc  = IF /\ @ = "ziplist" /\ e \notin DOMAIN o.zset
                            /\ \/ Cardinality(DOMAIN zset) > ZsetMaxEntries
                               \/ Len(e) > ZsetMaxValue
                         THEN "skiplist" ELSE @]
ZsetRemove(o, es) == [o EXCEPT !.zset = [x \in DOMAIN o.zset \ es |-> o.zset[x]]]

\* The elements by score, then by name: the order of the skiplist.
ZsetLess(z, a, b) == z[a] < z[b] \/ (z[a] = z[b] /\ StringLess(a, b))
ZsetOrder(z) == SetToSortSeq(DOMAIN z, LAMBDA a, b : ZsetLess(z, a, b))

InScoreRange(spec, score) ==
  /\ IF spec.minex THEN score > spec.min ELSE score >= spec.min
  /\ IF spec.maxex THEN score < spec.max ELSE score <= spec.max
=============================================================================
