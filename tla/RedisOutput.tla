---------------------------- MODULE RedisOutput ----------------------------
(***************************************************************************)
(* What the server has to say to its clients: the static buffer and the    *)
(* list of objects of each client, as networking.c fills, shares, sends    *)
(* and limits them, with what SYNC and a snapshot do to them               *)
(* (replication.c).                                                        *)
(*                                                                         *)
(* A byte is <<m, i>>, the i-th of message m: every message is another     *)
(* one, so that bytes lost, repeated or exchanged show.  Objects of the    *)
(* lists are shared between clients, and with the keyspace.                *)
(***************************************************************************)
EXTENDS Integers, Sequences, FiniteSets, SequencesExt, TLC

CONSTANTS
    Clients,
    Connected,      \* which of them are connected: one of these sets
    Kind,           \* Kind[c]: "normal", "pubsub" (subscribed) or "slave"
    ReplyChunk,     \* REDIS_REPLY_CHUNK_BYTES, of the buffer and of a grown object
    MaxWrite,       \* REDIS_MAX_WRITE_PER_EVENT
    StringSize,     \* what zmalloc_size_sds adds to the length
    ItemSize,       \* the size of a list node and an object
    Limits,         \* Limits[kind]: hard, soft and seconds, 0 for no limit
    PipelinedSync,  \* a slave may send SYNC while it is owed a reply
    Sizes,          \* the lengths of messages
    Rooms,          \* how much the socket takes in one event
    MaxMessages, MaxTime    \* bounds

\* What the parameters must be: MCRedisParts assumes it
OutputAssumption ==
    /\ {ReplyChunk, MaxWrite} \subseteq Nat \ {0} /\ {StringSize, ItemSize} \subseteq Nat
    /\ Sizes \cup Rooms \subseteq Nat \ {0} /\ PipelinedSync \in BOOLEAN

VARIABLES
    objects,    \* the string objects in memory: bytes, refcount, and if they have bytes yet
    clients,
    value,      \* the object a key holds
    saving,     \* a child saves a snapshot
    messages,   \* how many there were
    unixtime

vars == <<objects, clients, value, saving, messages, unixtime>>

Message(m, n) == [i \in 1..n |-> <<m, i>>]

\* owed: the bytes the client is to get next, for the properties
createClient ==
    [open |-> TRUE, buf |-> <<>>, reply |-> <<>>, reply_bytes |-> 0, sentlen |-> 0,
     handler |-> "none", flags |-> {}, replstate |-> "none", reached |-> 0, owed |-> <<>>]

-----------------------------------------------------------------------------
(* Objects.  The state of a step in execution is [objects, clients].       *)

State == [objects |-> objects, clients |-> clients]
Free(s) == CHOOSE id \in 1..(Cardinality(DOMAIN s.objects) + 1) : id \notin DOMAIN s.objects
Bytes(s, id) == s.objects[id].bytes
zmalloc_size_sds(bytes) == Len(bytes) + StringSize

WithObject(s, id, o) ==
    [s EXCEPT !.objects = [i \in DOMAIN @ \cup {id} |-> IF i = id THEN o ELSE @[i]]]
createObject(s, bytes, set) ==
    WithObject(s, Free(s), [bytes |-> bytes, set |-> set, refcount |-> 1])
incrRefCount(s, id) == [s EXCEPT !.objects[id].refcount = @ + 1]
decrRefCount(s, id) ==
    IF s.objects[id].refcount > 1 THEN [s EXCEPT !.objects[id].refcount = @ - 1]
    ELSE [s EXCEPT !.objects = [i \in DOMAIN @ \ {id} |-> @[i]]]

Owe(s, c, bytes) == [s EXCEPT !.clients[c].owed = @ \o bytes]
Closing(s, c) == "close_after_reply" \in s.clients[c].flags

-----------------------------------------------------------------------------
(* The limits.                                                             *)

getClientOutputBufferMemoryUsage(s, c) ==
    s.clients[c].reply_bytes + ItemSize * Len(s.clients[c].reply)

Over(s, c, limit) == limit > 0 /\ getClientOutputBufferMemoryUsage(s, c) >= limit

\* Both limits, and since when the soft one was seen to be exceeded
checkClientOutputBufferLimits(s, c) ==
    LET limit == Limits[Kind[c]]
        reached == s.clients[c].reached
        soft == Over(s, c, limit.soft)
        long == soft /\ reached # 0 /\ unixtime - reached > limit.seconds
    IN  [s EXCEPT !.clients[c].reached = IF ~ soft THEN 0 ELSE IF @ = 0 THEN unixtime ELSE @,
                  !.clients[c].flags = IF long \/ Over(s, c, limit.hard)
                                       THEN @ \cup {"close_asap"} ELSE @]

asyncClose(s, c) ==
    IF s.clients[c].reply_bytes = 0 \/ "close_asap" \in s.clients[c].flags THEN s
    ELSE checkClientOutputBufferLimits(s, c)

-----------------------------------------------------------------------------
(* Adding to the output.                                                   *)

\* The first bytes install the handler, if the client may get them now
prepareClientToWrite(s, c) ==
    LET cl == s.clients[c] IN
    IF cl.buf = <<>> /\ cl.reply = <<>> /\ cl.replstate \in {"none", "online"}
    THEN [s EXCEPT !.clients[c].handler = "reply"] ELSE s

\* Mutant: the last object grows for all who share it
dupNever(s, c) == s

\* The last object of the list, copied if others refer to it
dupLastObjectIfNeeded(s, c) ==
    LET tail == Last(s.clients[c].reply)
        copy == Free(s)
    IN  IF s.objects[tail].refcount = 1 THEN s
        ELSE [decrRefCount(createObject(s, Bytes(s, tail), TRUE), tail)
                EXCEPT !.clients[c].reply = Append(Front(@), copy)]

\* The last object grows by the bytes of another
Glue(s, c, bytes) ==
    LET own == dupLastObjectIfNeeded(s, c)
        tail == Last(own.clients[c].reply)
    IN  [own EXCEPT !.objects[tail].bytes = @ \o bytes,
                    !.clients[c].reply_bytes = @ + Len(bytes)]

addReplyObjectToList(s, c, id) ==
    LET list == s.clients[c].reply
        tail == s.objects[Last(list)]
        fits == list # <<>> /\ tail.set /\ Len(tail.bytes) + Len(Bytes(s, id)) <= ReplyChunk
    IN  asyncClose(IF fits THEN Glue(s, c, Bytes(s, id))
                   ELSE [incrRefCount(s, id) EXCEPT
                           !.clients[c].reply = Append(@, id),
                           !.clients[c].reply_bytes = @ + zmalloc_size_sds(Bytes(s, id))], c)

\* addReply: the object's bytes go to the static buffer, or it joins the list
addReply(s, c, id) ==
    LET cl == s.clients[c]
        ready == prepareClientToWrite(Owe(s, c, Bytes(s, id)), c)
    IN  IF Closing(s, c) THEN prepareClientToWrite(s, c)
        ELSE IF cl.reply = <<>> /\ Len(cl.buf) + Len(Bytes(s, id)) <= ReplyChunk
        THEN [ready EXCEPT !.clients[c].buf = @ \o Bytes(s, id)]
        ELSE addReplyObjectToList(ready, c, id)

\* addReplySds and addReplyString: bytes nobody else refers to
addReplyString(s, c, bytes) ==
    LET id == Free(s) IN decrRefCount(addReply(createObject(s, bytes, TRUE), c, id), id)

\* The place of a length not known yet
addDeferredMultiBulkLength(s, c) ==
    [createObject(prepareClientToWrite(s, c), <<>>, FALSE)
       EXCEPT !.clients[c].reply = Append(@, Free(s))]

\* The length is known: what follows is glued to it
setDeferredMultiBulkLength(s, c, i, bytes) ==
    LET list == s.clients[c].reply
        len == list[i]
        set == [s EXCEPT !.objects[len].bytes = bytes, !.objects[len].set = TRUE,
                         !.clients[c].reply_bytes = @ + zmalloc_size_sds(bytes)]
        next == list[i + 1]
        glued == [set EXCEPT !.objects[len].bytes = @ \o Bytes(s, next),
                             !.clients[c].reply = RemoveAt(@, i + 1),
                             !.clients[c].reply_bytes = @ - StringSize]
    IN  asyncClose(IF i < Len(list) THEN decrRefCount(glued, next) ELSE set, c)

\* listDup: the objects are shared.  sentlen stays what it was
copyClientOutputBuffer(s, dst, src) ==
    LET from == s.clients[src]
        shared == FoldLeft(incrRefCount, FoldLeft(decrRefCount, s, s.clients[dst].reply), from.reply)
    IN  Owe([shared EXCEPT !.clients[dst].reply = from.reply, !.clients[dst].buf = from.buf,
                           !.clients[dst].reply_bytes = from.reply_bytes], dst, from.owed)

freeClient(s, c) ==
    [FoldLeft(decrRefCount, s, s.clients[c].reply) EXCEPT
       !.clients[c] = [createClient EXCEPT !.open = FALSE]]

-----------------------------------------------------------------------------
(* Sending.                                                                *)

\* The client gets these bytes.  Others than those it is owed it never forgets
Deliver(s, c, bytes) ==
    LET owed == s.clients[c].owed IN
    [s EXCEPT !.clients[c].owed =
                IF IsPrefix(bytes, owed) THEN SubSeq(owed, Len(bytes) + 1, Len(owed))
                ELSE bytes \o owed]

\* The bytes that write is given next: of the static buffer before the list
Chunk(s, c) ==
    LET cl == s.clients[c] IN
    IF cl.buf # <<>> THEN cl.buf ELSE IF cl.reply # <<>> THEN Bytes(s, Head(cl.reply)) ELSE <<>>

\* Mutant: what left the list is still counted
AfterChunkCounted(s, c) ==
    IF s.clients[c].buf # <<>> THEN [s EXCEPT !.clients[c].buf = <<>>, !.clients[c].sentlen = 0]
    ELSE [decrRefCount(s, Head(s.clients[c].reply)) EXCEPT
            !.clients[c].sentlen = 0, !.clients[c].reply = Tail(@)]

\* All of a chunk was sent
AfterChunk(s, c) ==
    LET sent == [s EXCEPT !.clients[c].sentlen = 0] IN
    IF s.clients[c].buf # <<>> THEN [sent EXCEPT !.clients[c].buf = <<>>]
    ELSE [decrRefCount(sent, Head(s.clients[c].reply)) EXCEPT !.clients[c].reply = Tail(@),
            !.clients[c].reply_bytes = @ - zmalloc_size_sds(Chunk(s, c))]

\* The loop of sendReplyToClient: the socket takes room bytes more, total
\* were written
RECURSIVE Write(_, _, _, _)
Write(s, c, room, total) ==
    LET left == Len(Chunk(s, c)) - s.clients[c].sentlen
        n == IF room < left THEN room ELSE left
        from == s.clients[c].sentlen
        wrote == [Deliver(s, c, SubSeq(Chunk(s, c), from + 1, from + n))
                    EXCEPT !.clients[c].sentlen = @ + n]
    IN  IF n <= 0 \/ total > MaxWrite THEN s
        ELSE Write(IF n = left THEN AfterChunk(wrote, c) ELSE wrote, c, room - n, total + n)

\* Nothing is left to send: the handler goes, and the client if it is to
AllSent(s, c) ==
    IF Chunk(s, c) # <<>> THEN s
    ELSE IF Closing(s, c) THEN freeClient(s, c)
    ELSE [s EXCEPT !.clients[c].handler = "none", !.clients[c].sentlen = 0]

-----------------------------------------------------------------------------
(* The steps.                                                              *)

Commit(s) == objects' = s.objects /\ clients' = s.clients

Say == messages < MaxMessages /\ messages' = messages + 1
Said(n) == Message(messages + 1, n)
\* Who sends commands; one that is a slave sends none
Open(c) == clients[c].open /\ ~ Closing(State, c) /\ clients[c].replstate = "none"

Init ==
    /\ objects = 1 :> [bytes |-> Message(0, 3), set |-> TRUE, refcount |-> 1]
    /\ value = 1
    /\ \E present \in Connected :
          clients = [c \in Clients |-> [createClient EXCEPT !.open = c \in present]]
    /\ saving = FALSE /\ messages = 0 /\ unixtime = 1

\* A command answers with a string of its own
Reply(c) ==
    /\ Open(c) /\ Say
    /\ \E n \in Sizes : Commit(addReplyString(State, c, Said(n)))
    /\ UNCHANGED <<value, saving, unixtime>>

\* A command answers with an object of the keyspace
Get(c) ==
    /\ Open(c) /\ Say
    /\ Commit(addReply(State, c, value))
    /\ UNCHANGED <<value, saving, unixtime>>

\* The keyspace lets its object go for another of its length
Set ==
    /\ Say
    /\ Commit(decrRefCount(createObject(State, Said(Len(Bytes(State, value))), TRUE), value))
    /\ value' = Free(State)
    /\ UNCHANGED <<saving, unixtime>>

\* A command answers with k strings, and says how many when it knows it
Keys(c) ==
    /\ Open(c) /\ Say
    /\ \E k \in 0..2, n \in Sizes :
          LET length == addDeferredMultiBulkLength(Owe(State, c, Said(1)), c)
              bytes(i) == [j \in 1..n |-> <<messages + 1, i * n + j + 1>>]
              add(s, i) == addReplyString(s, c, bytes(i))
              all == FoldLeft(add, length, [i \in 1..k |-> i])
          IN  Commit(setDeferredMultiBulkLength(all, c, Len(length.clients[c].reply), Said(1)))
    /\ UNCHANGED <<value, saving, unixtime>>

\* QUIT or a protocol error: an answer, and then the end
Quit(c) ==
    /\ Open(c) /\ Say
    /\ Commit([addReplyString(State, c, Said(1)) EXCEPT
                 !.clients[c].flags = @ \cup {"close_after_reply"}])
    /\ UNCHANGED <<value, saving, unixtime>>

\* Who gets what is published or propagated; a slave, once its snapshot was begun
Receivers ==
    {c \in Clients : clients[c].open /\ \/ Kind[c] = "pubsub"
                                        \/ clients[c].replstate \in {"wait_end", "bulk", "online"}}

\* PUBLISH, and replicationFeedSlaves: one object for all
Broadcast ==
    /\ Say /\ Receivers # {}
    /\ \E n \in Sizes :
          LET id == Free(State)
              add(s, c) == addReply(s, c, id)
          IN  Commit(decrRefCount(FoldLeft(add, createObject(State, Said(n), TRUE),
                                           SetToSeq(Receivers)), id))
    /\ UNCHANGED <<value, saving, unixtime>>

sendReplyToClient(c) ==
    /\ clients[c].open /\ clients[c].handler = "reply"
    /\ \E room \in Rooms : Commit(AllSent(Write(State, c, room, 0), c))
    /\ UNCHANGED <<value, saving, messages, unixtime>>

\* An error of read or write, an end of file, CLIENT KILL
Disconnect(c) ==
    /\ clients[c].open
    /\ Commit(freeClient(State, c))
    /\ UNCHANGED <<value, saving, messages, unixtime>>

\* serverCron
freeClientsInAsyncFreeQueue ==
    LET queue == {c \in Clients : "close_asap" \in clients[c].flags} IN
    /\ queue # {}
    /\ Commit(FoldLeft(freeClient, State, SetToSeq(queue)))
    /\ UNCHANGED <<value, saving, messages, unixtime>>

\* Nobody looks at the clock but for an output that is over its soft limit
Tick ==
    /\ unixtime < MaxTime /\ \E c \in Clients : clients[c].reached # 0
    /\ unixtime' = unixtime + 1
    /\ UNCHANGED <<objects, clients, value, saving, messages>>

-----------------------------------------------------------------------------
(* Slaves.                                                                 *)

Waiting(state) == {c \in Clients : clients[c].replstate = state}

\* syncCommand.  A slave begins with an empty list, and shares the snapshot
\* another one waits for with what was said since
SYNC(c) ==
    /\ Open(c) /\ Kind[c] = "slave"
    /\ PipelinedSync \/ clients[c].buf = <<>> \/ clients[c].reply # <<>>
    /\ IF clients[c].reply # <<>>
       THEN Say /\ Commit(addReplyString(State, c, Said(1))) /\ UNCHANGED saving
       ELSE /\ IF ~ saving THEN Commit([State EXCEPT !.clients[c].replstate = "wait_end"])
               ELSE IF Waiting("wait_end") = {}
               THEN Commit([State EXCEPT !.clients[c].replstate = "wait_start"])
               ELSE \E d \in Waiting("wait_end") :
                      Commit([copyClientOutputBuffer(State, c, d) EXCEPT
                                !.clients[c].replstate = "wait_end"])
            /\ saving' = TRUE
            /\ UNCHANGED messages
    /\ UNCHANGED <<value, unixtime>>

\* BGSAVE for its own sake
rdbSaveBackground ==
    /\ ~ saving
    /\ saving' = TRUE
    /\ UNCHANGED <<objects, clients, value, messages, unixtime>>

\* updateSlavesWaitingBgsave: the child is done, or failed
updateSlavesWaitingBgsave ==
    /\ saving
    /\ \/ Commit([State EXCEPT !.clients = [c \in Clients |->
             CASE @[c].replstate = "wait_start" -> [@[c] EXCEPT !.replstate = "wait_end"]
               [] @[c].replstate = "wait_end" ->
                    [@[c] EXCEPT !.replstate = "bulk", !.handler = "bulk"]
               [] @[c].replstate \notin {"wait_start", "wait_end"} -> @[c]]])
       \/ Commit([FoldLeft(freeClient, State, SetToSeq(Waiting("wait_end"))) EXCEPT
                    !.clients = [c \in Clients |->
                       IF @[c].replstate = "wait_start"
                       THEN [@[c] EXCEPT !.replstate = "wait_end"] ELSE @[c]]])
    /\ saving' = (Waiting("wait_start") # {})
    /\ UNCHANGED <<value, messages, unixtime>>

\* Mutant: the handler is left to the next reply
SendBulkNoHandler(c) ==
    /\ clients[c].open /\ clients[c].replstate = "bulk"
    /\ Commit([State EXCEPT !.clients[c].replstate = "online", !.clients[c].handler = "none"])
    /\ UNCHANGED <<value, saving, messages, unixtime>>

\* sendBulkToSlave, when the last of the snapshot is sent
sendBulkToSlave(c) ==
    /\ clients[c].open /\ clients[c].replstate = "bulk"
    /\ Commit([State EXCEPT !.clients[c].replstate = "online", !.clients[c].handler = "reply"])
    /\ UNCHANGED <<value, saving, messages, unixtime>>

Next ==
    \/ \E c \in Clients :
          \/ Reply(c) \/ Get(c) \/ Keys(c) \/ Quit(c) \/ SYNC(c)
          \/ sendReplyToClient(c) \/ sendBulkToSlave(c) \/ Disconnect(c)
    \/ Set \/ Broadcast \/ freeClientsInAsyncFreeQueue \/ Tick
    \/ rdbSaveBackground \/ updateSlavesWaitingBgsave

Spec == Init /\ [][Next]_vars

-----------------------------------------------------------------------------
(* Properties.                                                             *)

Here == {c \in Clients : clients[c].open}
Pending(c) ==
    LET list == clients[c].reply
        bytes == clients[c].buf \o FlattenSeq([i \in DOMAIN list |-> Bytes(State, list[i])])
    IN  SubSeq(bytes, clients[c].sentlen + 1, Len(bytes))

(***************************************************************************)
(* Every client gets what it was told, each byte once and in order, from   *)
(* whichever of its two buffers and however the socket cuts it: what was   *)
(* sent and what is pending make up what was said (networking.c, addReply, *)
(* sendReplyToClient).                                                     *)
(***************************************************************************)
InOrder == \A c \in Here : Pending(c) = clients[c].owed

(***************************************************************************)
(* reply_bytes is the "Tot bytes of objects in reply list" (redis.h:392):  *)
(* the limits are about it, and it is adjusted in nine places.             *)
(***************************************************************************)
ReplyBytesExact ==
    \A c \in Here :
       clients[c].reply_bytes =
         FoldLeft(LAMBDA sum, id : sum + zmalloc_size_sds(Bytes(State, id)), 0, clients[c].reply)

(***************************************************************************)
(* An object lives as long as a list or a key holds it and no longer: its  *)
(* count is the number of its holders (networking.c, addReply,             *)
(* copyClientOutputBuffer, dupLastObjectIfNeeded, freeClient).             *)
(***************************************************************************)
RefsCounted ==
    LET order == SetToSeq(Clients)
        lists == FlattenSeq([i \in DOMAIN order |-> clients[order[i]].reply])
        holders(id) == Cardinality({i \in DOMAIN lists : lists[i] = id})
    IN  /\ {value} \cup ToSet(lists) \subseteq DOMAIN objects
        /\ \A id \in DOMAIN objects :
              objects[id].refcount = holders(id) + IF value = id THEN 1 ELSE 0

(***************************************************************************)
(* A client with something pending is served: it has the write handler,    *)
(* which nothing but the first byte of an output that was empty installs   *)
(* (networking.c, prepareClientToWrite), unless it is a slave that waits   *)
(* for its snapshot; when the snapshot was sent it has it again            *)
(* (replication.c, sendBulkToSlave).                                       *)
(***************************************************************************)
HandlerInstalled ==
    \A c \in Here :
       clients[c].owed # <<>> /\ clients[c].replstate \in {"none", "online"}
         => clients[c].handler = "reply"

(***************************************************************************)
(* And a slave gets nothing of the stream before the snapshot it is to be  *)
(* applied to: no handler sends its output (replication.c, syncCommand:    *)
(* "We need a fresh reply buffer registering the differences").            *)
(***************************************************************************)
NothingBeforeBulk ==
    \A c \in Here :
       clients[c].replstate \in {"wait_start", "wait_end", "bulk"} => clients[c].handler # "reply"

(***************************************************************************)
(* "A client is immediately disconnected once the hard limit is reached"   *)
(* (redis.conf:510): one that is over it is to be closed.  Slaves apart:   *)
(* one that joins a snapshot gets another's output without a check.        *)
(***************************************************************************)
Marked(c) == "close_asap" \in clients[c].flags
HardLimit ==
    \A c \in Here : Over(State, c, Limits[Kind[c]].hard) /\ Kind[c] # "slave" => Marked(c)
=============================================================================
