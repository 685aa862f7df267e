---------------------------- MODULE RedisStrings ----------------------------
(***************************************************************************)
(* The commands on strings (t_string.c) and on bitmaps (bitops.c).         *)
(* A command's arguments are the fields of the record c: its keys c.k,     *)
(* c.k2 and c.ks, a byte string c.v or several c.vs, integers c.n and c.n2 *)
(* (already parsed), a mode c.m.                                           *)
(***************************************************************************)
EXTENDS RedisKeyspace

LOCAL INSTANCE FiniteSetsExt

checkStringLength(len) == len <= MaxStringLen

WithString(s, n, missing, Run(_, _)) ==
  WithType(s, n, "string", missing, LAMBDA s1, o : Run(s1, o.str))

-----------------------------------------------------------------------------

setGenericCommand(s, c, nx, expire) ==
  LET s1   == IF nx THEN expireIfNeeded(s, c.k) ELSE s
      set  == Dirty(setKey(s1, c.k, StringObj(c.v)), 1)
  IN  IF expire /\ c.n <= 0 THEN Reply(s, "invalid expire")
      ELSE IF nx /\ At(s1, c.k).t # "none" THEN Reply(s1, 0)
      ELSE Reply(IF expire THEN setExpire(set, c.k, "live") ELSE set,
                 IF nx THEN 1 ELSE "ok")

setCommand(s, c)   == setGenericCommand(s, c, FALSE, FALSE)
setnxCommand(s, c) == setGenericCommand(s, c, TRUE, FALSE)
setexCommand(s, c) == setGenericCommand(s, c, FALSE, TRUE)

getCommand(s, c) ==
  WithString(s, c.k, Nil, LAMBDA s1, str : Reply(s1, StringObj(str)))

getsetCommand(s, c) ==
  LET s1 == getCommand(s, c)
  IN  IF At(s1, c.k).t \notin {"none", "string"} THEN s1
      ELSE Dirty(setKey(s1, c.k, StringObj(c.v)), 1)

setrangeCommand(s, c) ==
  LET end == c.n + Len(c.v)
      over(str) == [i \in 1..Max({end, Len(str)}) |->
                      IF i \in (c.n + 1)..end THEN c.v[i - c.n]
                      ELSE sdsgrowzero(str, end)[i]]
  IN  IF c.n < 0 THEN Reply(s, "offset is out of range")
      ELSE WithTypeOrNew(s, c.k, StringObj(<<>>), LAMBDA s1, o :
             IF c.v = <<>> THEN Reply(s1, Len(o.str))
             ELSE IF ~checkStringLength(end) THEN Reply(s1, "too long")
             ELSE Reply(Modified(Put(s1, c.k, StringObj(over(o.str))), c.k, 1),
                        Len(over(o.str))))

\* An end before the first byte is the first byte: GETRANGE k -9 -5 is not
\* empty.
getrangeCommand(s, c) ==
  WithString(s, c.k, <<>>, LAMBDA s1, str :
    LET r == RangeOf(Len(str), c.n, Max({c.n2, -Len(str)}))
    IN  Reply(s1, SubSeq(str, r.first, r.last)))

mgetCommand(s, c) ==
  LET s1 == ExpireAll(s, c.ks)
  IN  Reply(s1, [i \in DOMAIN c.ks |->
                   LET o == At(s1, c.ks[i])
                   IN  IF o.t = "string" THEN o ELSE Nil])

msetGenericCommand(s, c, nx) ==
  LET s1 == IF nx THEN ExpireAll(s, c.ks) ELSE s
      set(acc, i) == setKey(acc, c.ks[i], StringObj(c.vs[i]))
  IN  IF Len(c.ks) # Len(c.vs) THEN Reply(s, "wrong number of arguments")
      ELSE IF nx /\ \E i \in DOMAIN c.ks : At(s1, c.ks[i]).t # "none"
      THEN Reply(s1, 0)
      ELSE Reply(Dirty(FoldLeft(set, s1, [i \in DOMAIN c.ks |-> i]), Len(c.ks)),
                 IF nx THEN 1 ELSE "ok")

msetCommand(s, c)   == msetGenericCommand(s, c, FALSE)
msetnxCommand(s, c) == msetGenericCommand(s, c, TRUE)

-----------------------------------------------------------------------------
(* Numbers.  dbOverwrite keeps the key's expire.                            *)

Wrap(n) == LET width == LongMax - LongMin + 1
           IN  LongMin + ((n - LongMin) % width)

incrDecrCommand(s, c, incr) ==
  WithTypeOrNew(s, c.k, StringObj(<<>>), LAMBDA s1, o :
    LET old == getLongLongFromObject(o.str)
        new == Wrap(old.n + incr)
    IN  IF ~old.ok THEN Reply(s1, "not an integer")
        ELSE IF \/ incr < 0 /\ old.n < 0 /\ incr < LongMin - old.n
                \/ incr > 0 /\ old.n > 0 /\ incr > LongMax - old.n
        THEN Reply(s1, "overflow")
        ELSE Reply(Modified(Put(s1, c.k, StringObj(ll2string(new))), c.k, 1), new))

incrbyCommand(s, c) == incrDecrCommand(s, c, c.n)
\* The negation of LLONG_MIN is LLONG_MIN.
decrbyCommand(s, c) == incrDecrCommand(s, c, Wrap(-c.n))

\* Propagated as the SET of the result.
incrbyfloatCommand(s, c) ==
  WithTypeOrNew(s, c.k, StringObj(<<>>), LAMBDA s1, o :
    LET old == getLongDoubleFromObject(o.str)
        new == RealSum(old.n, c.n)
        str == ll2string(new)
    IN  IF ~old.ok THEN Reply(s1, "not a float")
        ELSE IF new \in {Infinity, -Infinity} THEN Reply(s1, "NaN or Infinity")
        ELSE Reply(Rewrite(Modified(Put(s1, c.k, StringObj(str)), c.k, 1),
                           [op |-> "SET", k |-> c.k, v |-> str]), new))

appendCommand(s, c) ==
  WithTypeOrNew(s, c.k, StringObj(<<>>), LAMBDA s1, o :
    LET str == o.str \o c.v
    IN  IF At(s1, c.k).t # "none" /\ ~checkStringLength(Len(str))
        THEN Reply(s1, "too long")
        ELSE Reply(Modified(Put(s1, c.k, StringObj(str)), c.k, 1), Len(str)))

strlenCommand(s, c) ==
  WithString(s, c.k, 0, LAMBDA s1, str : Reply(s1, Len(str)))

-----------------------------------------------------------------------------
(* Bitmaps.                                                                 *)

getBitOffsetFromArgument(n) == n \in 0..(MaxStringLen * BitsPerByte - 1)
ByteOf(n) == n \div BitsPerByte + 1
BitIn(str, n) == IF ByteOf(n) > Len(str) THEN 0
                 ELSE BitOf(str[ByteOf(n)], n % BitsPerByte)

setbitCommand(s, c) ==
  IF ~getBitOffsetFromArgument(c.n) \/ c.n2 \notin {0, 1}
  THEN Reply(s, "bit is not an integer or out of range")
  ELSE WithTypeOrNew(s, c.k, StringObj(<<>>), LAMBDA s1, o :
         LET grown == sdsgrowzero(o.str, ByteOf(c.n))
             str == [grown EXCEPT ![ByteOf(c.n)] = WithBit(@, c.n % BitsPerByte, c.n2)]
         IN  Reply(Modified(Put(s1, c.k, StringObj(str)), c.k, 1), BitIn(o.str, c.n)))

getbitCommand(s, c) ==
  IF ~getBitOffsetFromArgument(c.n) THEN Reply(s, "bit offset out of range")
  ELSE WithString(s, c.k, 0, LAMBDA s1, str : Reply(s1, BitIn(str, c.n)))

popcount(str) == FoldLeft(LAMBDA acc, b : acc + BitCount(b), 0, str)

\* The result is as long as the longest source; server.dirty grows even when
\* there was neither a source nor a destination.
bitopCommand(s, c) ==
  LET read(acc, i) == IF acc.bad THEN acc ELSE
        Lookup(expireIfNeeded(acc.s, c.ks[i]), c.ks[i], LAMBDA s1, o :
          [s |-> s1, bad |-> o.t \notin {"none", "string"},
           src |-> Append(acc.src, IF o.t = "string" THEN o.str ELSE <<>>)])
      combine(src, maxlen) ==
        [j \in 1..maxlen |-> CombineBytes(c.m,
           [i \in DOMAIN src |-> sdsgrowzero(src[i], j)[j]])]
      store(s1, res) ==
        Reply(Dirty(IF res # <<>> THEN setKey(s1, c.k, StringObj(res))
                    ELSE IF At(s1, c.k).t # "none"
                    THEN signalModifiedKey(dbDelete(s1, c.k), c.k) ELSE s1, 1), Len(res))
      Then(all) ==
        IF all.bad THEN Reply(all.s, "wrongtype")
        ELSE store(all.s, combine(all.src, Max({Len(all.src[i]) : i \in DOMAIN all.src})))
  IN  IF c.m = "not" /\ Len(c.ks) # 1 THEN Reply(s, "single source key")
      ELSE Then(FoldLeft(read, [s |-> s, bad |-> FALSE, src |-> <<>>],
                         [i \in DOMAIN c.ks |-> i]))

bitcountCommand(s, c) ==
  WithString(s, c.k, 0, LAMBDA s1, str :
    LET r == RangeOf(Len(str), c.n, Max({c.n2, -Len(str)}))
    IN  Reply(s1, popcount(SubSeq(str, r.first, r.last))))
=============================================================================
