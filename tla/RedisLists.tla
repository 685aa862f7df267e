----------------------------- MODULE RedisLists -----------------------------
(***************************************************************************)
(* The commands on lists, t_list.c.  A blocking pop that finds no list     *)
(* leaves in s.block what the client waits for; a push that creates a list *)
(* some client waits for leaves its key in s.ready.  Who is served, and    *)
(* when, is handleClientsBlockedOnLists of RedisClients.                    *)
(***************************************************************************)
EXTENDS RedisStrings

LOCAL INSTANCE FiniteSetsExt

WithList(s, n, missing, Run(_, _)) == WithType(s, n, "list", missing, Run)

\* The value goes back to the database, and an emptied list is deleted.
StoreList(s, n, o) == PutOrDelete(s, n, o, o.list = <<>>)

signalListAsReady(s, n) ==
  IF Key(s, n) \in s.blocking /\ ~Contains(s.ready, Key(s, n))
  THEN [s EXCEPT !.ready = Append(@, Key(s, n))] ELSE s

-----------------------------------------------------------------------------

pushGenericCommand(s, c, where) ==
  WithTypeOrNew(s, c.k, createZiplistObject, LAMBDA s1, o :
    LET new == FoldLeft(LAMBDA acc, v : listTypePush(acc, v, where), o, c.vs)
        s2  == IF At(s1, c.k).t = "none" THEN signalListAsReady(s1, c.k) ELSE s1
    IN  Reply(Modified(Put(s2, c.k, new), c.k, Len(c.vs)), Len(new.list)))

lpushCommand(s, c) == pushGenericCommand(s, c, "head")
rpushCommand(s, c) == pushGenericCommand(s, c, "tail")

listTypeInsert(o, i, v, where) ==
  [o EXCEPT !.list = InsertAt(@, IF where = "tail" THEN i + 1 ELSE i, v)]

\* LPUSHX, RPUSHX, and LINSERT when ref is TRUE.  LINSERT prepares the list
\* for the value before it knows whether the pivot is there.
pushxGenericCommand(s, c, ref, where) ==
  LET store(s1, o) == Reply(Modified(Put(s1, c.k, o), c.k, 1), Len(o.list))
      convert(o) == [o EXCEPT !.enc = IF @ = "ziplist" /\ Len(o.list) > ListMaxEntries
                                      THEN "linkedlist" ELSE @]
      insert(s1, o) ==
        IF Contains(o.list, c.f)
        THEN store(s1, convert(listTypeInsert(o, Min({i \in DOMAIN o.list : o.list[i] = c.f}),
                                              c.v, where)))
        ELSE Reply(Put(s1, c.k, o), -1)
  IN  WithList(s, c.k, 0, LAMBDA s1, o :
        IF ref THEN insert(s1, listTypeTryConversion(o, c.v))
        ELSE store(s1, listTypePush(o, c.v, where)))

lpushxCommand(s, c) == pushxGenericCommand(s, c, FALSE, "head")
rpushxCommand(s, c) == pushxGenericCommand(s, c, FALSE, "tail")
linsertCommand(s, c) ==
  pushxGenericCommand(s, c, TRUE, IF c.m = "after" THEN "tail" ELSE "head")

llenCommand(s, c) == WithList(s, c.k, 0, LAMBDA s1, o : Reply(s1, Len(o.list)))

IndexOf(list, n) == IF n < 0 THEN Len(list) + n + 1 ELSE n + 1

lindexCommand(s, c) ==
  WithList(s, c.k, Nil, LAMBDA s1, o :
    LET i == IndexOf(o.list, c.n)
    IN  Reply(s1, IF i \in DOMAIN o.list THEN StringObj(o.list[i]) ELSE Nil))

lsetCommand(s, c) ==
  WithList(s, c.k, "nokey", LAMBDA s1, o :
    LET ready == listTypeTryConversion(o, c.v)
        i     == IndexOf(o.list, c.n)
    IN  IF i \notin DOMAIN o.list THEN Reply(Put(s1, c.k, ready), "outofrange")
        ELSE Reply(Modified(Put(s1, c.k, [ready EXCEPT !.list[i] = c.v]), c.k, 1), "ok"))

popGenericCommand(s, c, where) ==
  WithList(s, c.k, Nil, LAMBDA s1, o :
    Reply(Modified(StoreList(s1, c.k, listTypePop(o, where)), c.k, 1),
          StringObj(ListEnd(o, where))))

lpopCommand(s, c) == popGenericCommand(s, c, "head")
rpopCommand(s, c) == popGenericCommand(s, c, "tail")

lrangeCommand(s, c) ==
  WithList(s, c.k, <<>>, LAMBDA s1, o :
    LET r == RangeOf(Len(o.list), c.n, c.n2)
    IN  Reply(s1, SubSeq(o.list, r.first, r.last)))

\* Modified even when nothing is cut.
ltrimCommand(s, c) ==
  WithList(s, c.k, "ok", LAMBDA s1, o :
    LET r == RangeOf(Len(o.list), c.n, c.n2)
        new == [o EXCEPT !.list = SubSeq(@, r.first, r.last)]
    IN  Reply(Modified(StoreList(s1, c.k, new), c.k, 1), "ok"))

\* The first c.n occurrences, the last -c.n when negative, all when zero.
lremCommand(s, c) ==
  WithList(s, c.k, 0, LAMBDA s1, o :
    LET found == {i \in DOMAIN o.list : o.list[i] = c.v}
        rank(i) == IF c.n >= 0 THEN Cardinality({j \in found : j <= i})
                   ELSE Cardinality({j \in found : j >= i})
        gone == {i \in found : c.n = 0 \/ rank(i) <= (IF c.n < 0 THEN -c.n ELSE c.n)}
        kept == SetToSortSeq(DOMAIN o.list \ gone, <)
        new  == [o EXCEPT !.list = [i \in DOMAIN kept |-> o.list[kept[i]]]]
        s2   == StoreList(s1, c.k, new)
    IN  Reply(IF gone = {} THEN s2 ELSE Modified(s2, c.k, Cardinality(gone)),
              Cardinality(gone)))

-----------------------------------------------------------------------------
(* Moving an element between lists.                                         *)

rpoplpushHandlePush(s, dst, value) ==
  LET old == At(s, dst)
      s1  == IF old.t = "none" THEN signalListAsReady(s, dst) ELSE s
      new == IF old.t = "none" THEN createZiplistObject ELSE old
  IN  Reply(signalModifiedKey(Put(s1, dst, listTypePush(new, value, "head")), dst),
            StringObj(value))

\* The source keeps its place while it is empty: it is deleted only after
\* the push, which may have been to itself.
rpoplpushCommand(s, c) ==
  WithList(s, c.k, Nil, LAMBDA s1, o :
    Lookup(expireIfNeeded(s1, c.k2), c.k2, LAMBDA s2, dst :
      IF dst.t \notin {"none", "list"} THEN Reply(s2, "wrongtype")
      ELSE Lookup(rpoplpushHandlePush(Put(s2, c.k, listTypePop(o, "tail")), c.k2,
                                      ListEnd(o, "tail")), c.k,
                  LAMBDA s3, src : Modified(StoreList(s3, c.k, src), c.k, 1))))

-----------------------------------------------------------------------------
(* Blocking pops.                                                           *)

\* The timeout is a number of seconds, 0 for ever.
getTimeoutFromObjectOrReply(n) == n >= 0

blockForKeys(s, ks, c, target) ==
  [s EXCEPT !.block = <<[id |-> s.id, keys |-> ToSet(ks), op |-> c.op, target |-> target,
                         timeout |-> c.n > 0]>>]

\* The first key that holds a list is popped, and the command is propagated
\* as a plain LPOP or RPOP of it.  Inside EXEC it never waits.
blockingPopGenericCommand(s, c, where) ==
  LET pop(acc, n, o) ==
        Reply(Rewrite(Modified(StoreList(acc, n, listTypePop(o, where)), n, 1),
                      [op |-> IF where = "head" THEN "LPOP" ELSE "RPOP", k |-> n]),
              <<n, ListEnd(o, where)>>)
      try(acc, n) ==
        IF acc.reply # s.reply THEN acc
        ELSE Lookup(expireIfNeeded(acc, n), n, LAMBDA s1, o :
               IF o.t = "none" THEN s1
               ELSE IF o.t # "list" THEN Reply(s1, "wrongtype")
               ELSE pop(s1, n, o))
      Then(tried) ==
        IF tried.reply # s.reply THEN tried
        ELSE IF s.multi THEN Reply(tried, Nil)
        ELSE blockForKeys(tried, c.ks, c, <<>>)
  IN  IF ~getTimeoutFromObjectOrReply(c.n) THEN Reply(s, "timeout is negative")
      ELSE Then(FoldLeft(try, s, c.ks))

blpopCommand(s, c) == blockingPopGenericCommand(s, c, "head")
brpopCommand(s, c) == blockingPopGenericCommand(s, c, "tail")

brpoplpushCommand(s, c) ==
  IF ~getTimeoutFromObjectOrReply(c.n) THEN Reply(s, "timeout is negative")
  ELSE Lookup(expireIfNeeded(s, c.k), c.k, LAMBDA s1, o :
         IF o.t = "none"
         THEN IF s.multi THEN Reply(s1, Nil)
              ELSE blockForKeys(s1, <<c.k>>, c, <<c.k2>>)
         ELSE IF o.t # "list" THEN Reply(s1, "wrongtype")
         ELSE rpoplpushCommand(s1, c))
=============================================================================
