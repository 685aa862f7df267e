----------------------------- MODULE RedisQuery -----------------------------
(***************************************************************************)
(* How the bytes a client sends become commands: the query buffer of       *)
(* networking.c, one client seen from the event loop.                      *)
(*                                                                         *)
(* The bytes come in pieces of any length, which have nothing to do with   *)
(* the requests they belong to.  What is parsed of an incomplete request   *)
(* is kept in the client, and what it does not need leaves the buffer.     *)
(* While the client is blocked its bytes are read and not looked at.       *)
(***************************************************************************)
EXTENDS Integers, Sequences, SequencesExt

CONSTANTS
    Streams,        \* what a client may send: requests, and what follows them
    IobufLen,       \* REDIS_IOBUF_LEN, the most that one call of read gets
    InlineMaxSize,  \* REDIS_INLINE_MAX_SIZE, of a line that has not ended
    MbulkBigArg,    \* REDIS_MBULK_BIG_ARG, from which an argument is not copied
    MaxQuerybufLen, \* client_max_querybuf_len
    MaxMultibulk,   \* the most arguments of a request
    MaxBulk,        \* the longest argument
    Quit, Block     \* the names of QUIT, and of a command that blocks its client

\* What the sizes must be for the parser to make sense: MCRedisParts assumes it
SizesAssumption ==
    /\ {IobufLen, MbulkBigArg, MaxMultibulk, MaxBulk} \subseteq Nat \ {0}
    /\ InlineMaxSize >= MbulkBigArg + IobufLen + 2 /\ MaxQuerybufLen >= InlineMaxSize

VARIABLES
    stream,     \* what this client sends
    unread,     \* the bytes the server has not read
    client,     \* its state: the fields of redisClient that are about queries
    executed,   \* the commands executed, with their arguments
    unblocked,  \* how often server.unblocked_clients lists the client
    fired,      \* poll found bytes to read, and they were not read since
    open        \* the client is connected, and not freed

vars == <<stream, unread, client, executed, unblocked, fired, open>>

-----------------------------------------------------------------------------
(* Bytes.  A character stands for itself, "nul" for the byte zero.         *)

Crlf == <<"\r", "\n">>
Numerals == [d \in 0..9 |-> <<"0", "1", "2", "3", "4", "5", "6", "7", "8", "9">>[d + 1]]
Decimal[n \in Nat] == IF n < 10 THEN <<Numerals[n]>> ELSE Append(Decimal[n \div 10], Numerals[n % 10])

\* Mutant: the caller's limit is not a number any more
string2llBelow(s, most) ==
    {n \in -10..(most - 1) : s = IF n < 0 THEN <<"-">> \o Decimal[-n] ELSE Decimal[n]}

\* The number s is, as a set: empty if it is none, or more than the caller takes
string2ll(s, most) ==
    {n \in -10..most : s = IF n < 0 THEN <<"-">> \o Decimal[-n] ELSE Decimal[n]}

\* strchr: where ch is from position "from" on, 0 if a byte zero comes before it
strchr(s, ch, from) ==
    LET at == {i \in from..Len(s) : s[i] \in {ch, "nul"}}
        first == CHOOSE i \in at : \A j \in at : i <= j
    IN  IF at = {} \/ s[first] # ch THEN 0 ELSE first

\* strstr(s, "\r\n")
EndOfLine(s) ==
    LET at == {i \in 1..(Len(s) - 1) : s[i] = "\r" /\ s[i + 1] = "\n"}
        first == CHOOSE i \in at : \A j \in at : i <= j
    IN  IF at = {} \/ \E i \in 1..first : s[i] = "nul" THEN 0 ELSE first

\* sdsrange(s, pos, -1)
From(s, pos) == SubSeq(s, pos + 1, Len(s))

\* sdssplitlen at spaces, without the empty words
Words(s) ==
    LET step(acc, ch) == IF ch = " " THEN Append(acc, <<>>)
                         ELSE [acc EXCEPT ![Len(acc)] = Append(@, ch)]
    IN  SelectSeq(FoldLeft(step, << <<>> >>, s), LAMBDA w : w # <<>>)

-----------------------------------------------------------------------------
(* The parser.  A function gets and gives the client; field ok is what the *)
(* C function returns.                                                     *)

createClient ==
    [querybuf |-> <<>>, reqtype |-> "none", multibulklen |-> 0, bulklen |-> -1,
     argv |-> <<>>, flags |-> {}, ok |-> TRUE, run |-> <<>>]

resetClient(c) ==
    [c EXCEPT !.argv = <<>>, !.reqtype = "none", !.multibulklen = 0, !.bulklen = -1]

Failed(c) == [c EXCEPT !.ok = FALSE]

\* The error reply of the callers is left out: closing says it
setProtocolError(c, pos) ==
    Failed([c EXCEPT !.flags = @ \cup {"close_after_reply"}, !.querybuf = From(@, pos)])

processInlineBuffer(c) ==
    LET newline == EndOfLine(c.querybuf) IN
    IF newline = 0
    THEN IF Len(c.querybuf) > InlineMaxSize THEN setProtocolError(c, 0) ELSE Failed(c)
    ELSE [c EXCEPT !.argv = Words(SubSeq(c.querybuf, 1, newline - 1)),
                   !.querybuf = From(@, newline + 1), !.ok = TRUE]

\* The end of the loop over the arguments
Trim(c, pos) == [c EXCEPT !.querybuf = From(@, pos), !.ok = c.multibulklen = 0]

\* A large argument that is all there is in the buffer takes the buffer itself
Whole(c, pos) ==
    pos = 0 /\ c.bulklen >= MbulkBigArg /\ Len(c.querybuf) = c.bulklen + 2

\* The loop over the arguments, from position pos of the buffer
RECURSIVE Arguments(_, _)

\* The length of the next argument; a large one is moved to the start
BulkLength(c, pos) ==
    LET newline == strchr(c.querybuf, "\r", pos + 1)
        length == string2ll(SubSeq(c.querybuf, pos + 2, newline - 1), MaxBulk) \cap Nat
        n == CHOOSE m \in length : TRUE
    IN  CASE newline = 0 ->
               Trim(IF Len(c.querybuf) > InlineMaxSize THEN setProtocolError(c, 0) ELSE c, pos)
          [] newline = Len(c.querybuf) -> Trim(c, pos)
          [] newline \in 1..(Len(c.querybuf) - 1) ->
               IF c.querybuf[pos + 1] # "$" \/ length = {} THEN setProtocolError(c, pos)
               ELSE IF n >= MbulkBigArg
               THEN Arguments([c EXCEPT !.bulklen = n, !.querybuf = From(@, newline + 1)], 0)
               ELSE Arguments([c EXCEPT !.bulklen = n], newline + 1)

BulkArgument(c, pos) ==
    LET end == pos + c.bulklen + 2
        got == [c EXCEPT !.argv = Append(@, SubSeq(c.querybuf, pos + 1, pos + c.bulklen)),
                         !.bulklen = -1, !.multibulklen = @ - 1]
    IN  IF Len(c.querybuf) < end THEN Trim(c, pos)
        ELSE IF Whole(c, pos) THEN Arguments([got EXCEPT !.querybuf = <<>>], 0)
        ELSE Arguments(got, end)

Arguments(c, pos) ==
    IF c.multibulklen = 0 THEN Trim(c, pos)
    ELSE IF c.bulklen = -1 THEN BulkLength(c, pos) ELSE BulkArgument(c, pos)

processMultibulkBuffer(c) ==
    LET newline == strchr(c.querybuf, "\r", 1)
        count == string2ll(SubSeq(c.querybuf, 2, newline - 1), MaxMultibulk)
        n == CHOOSE m \in count : TRUE
    IN  CASE c.multibulklen # 0 -> Arguments(c, 0)
          [] c.multibulklen = 0 /\ newline = 0 ->
               IF Len(c.querybuf) > InlineMaxSize THEN setProtocolError(c, 0) ELSE Failed(c)
          [] c.multibulklen = 0 /\ newline = Len(c.querybuf) /\ newline # 0 -> Failed(c)
          [] c.multibulklen = 0 /\ newline \in 1..(Len(c.querybuf) - 1) ->
               IF count = {} THEN setProtocolError(c, 0)
               ELSE IF n <= 0 THEN [c EXCEPT !.querybuf = From(@, newline + 1), !.ok = TRUE]
               ELSE Arguments([c EXCEPT !.multibulklen = n], newline + 1)

\* A command is executed.  QUIT closes, and does not let the client be reset
processCommand(c) ==
    LET name == c.argv[1]
        ran == [c EXCEPT !.run = Append(@, c.argv), !.ok = TRUE]
    IN  CASE name = Quit -> Failed([ran EXCEPT !.flags = @ \cup {"close_after_reply"}])
          [] name = Block -> [ran EXCEPT !.flags = @ \cup {"blocked"}]
          [] name \notin {Quit, Block} -> ran

RECURSIVE processInputBuffer(_)

\* A request is complete: execute it, and go on with what follows
Execute(c) ==
    LET done == IF c.argv = <<>> THEN c ELSE processCommand(c)
    IN  processInputBuffer(IF done.ok THEN resetClient(done) ELSE done)

processInputBuffer(c) ==
    LET type == IF c.reqtype # "none" THEN c.reqtype
                ELSE IF c.querybuf[1] = "*" THEN "multibulk" ELSE "inline"
        known == [c EXCEPT !.reqtype = type]
        parsed == IF type = "inline" THEN processInlineBuffer(known)
                  ELSE processMultibulkBuffer(known)
    IN  IF c.querybuf = <<>> \/ c.flags \cap {"blocked", "close_after_reply"} # {} THEN c
        ELSE IF parsed.ok THEN Execute(parsed) ELSE parsed

-----------------------------------------------------------------------------
(* The handlers.                                                           *)

Init ==
    /\ stream \in Streams
    /\ unread = stream.bytes
    /\ client = createClient
    /\ executed = <<>> /\ unblocked = 0 /\ fired = FALSE /\ open = TRUE

\* The client after its buffer was processed: what was run is recorded
Processed(c) ==
    LET new == processInputBuffer(c) IN
    /\ client' = [new EXCEPT !.run = <<>>, !.ok = TRUE]
    /\ executed' = executed \o new.run

\* freeClient: a blocked client is unblocked, and one entry of the list of
\* unblocked clients is removed
Freed ==
    LET entries == unblocked + IF "blocked" \in client.flags THEN 1 ELSE 0
        listed == client.flags \cap {"blocked", "unblocked"} # {}
    IN  /\ open' = FALSE
        /\ unblocked' = IF listed THEN entries - 1 ELSE entries
        /\ client' = createClient
        /\ UNCHANGED <<stream, unread, executed, fired>>

\* Mutant: without the line end that follows the argument
RemainingOfArgument == client.bulklen - Len(client.querybuf)

\* How many bytes are asked for: of a large argument, no more than belong to it
Remaining == client.bulklen + 2 - Len(client.querybuf)
readlen ==
    IF /\ client.reqtype = "multibulk" /\ client.multibulklen # 0
       /\ client.bulklen >= MbulkBigArg /\ Remaining < IobufLen
    THEN Remaining ELSE IobufLen

readQueryFromClient ==
    /\ open /\ fired
    /\ \E n \in 1..Len(unread) :
          /\ n <= readlen
          /\ LET c == [client EXCEPT !.querybuf = @ \o SubSeq(unread, 1, n)] IN
             IF Len(c.querybuf) > MaxQuerybufLen THEN Freed
             ELSE /\ Processed(c)
                  /\ unread' = From(unread, n) /\ fired' = FALSE
                  /\ UNCHANGED <<stream, unblocked, open>>

\* The connection ends: the client is gone or killed, or its last reply was sent
Disconnect == open /\ Freed

\* unblockClientWaitingData: another client pushes, or the time is over
unblockClientWaitingData ==
    /\ open /\ "blocked" \in client.flags
    /\ client' = [client EXCEPT !.flags = (@ \ {"blocked"}) \cup {"unblocked"}]
    /\ unblocked' = unblocked + 1
    /\ UNCHANGED <<stream, unread, executed, fired, open>>

\* The next client of server.unblocked_clients, before the loop sleeps
beforeSleep ==
    /\ open /\ ~ fired /\ unblocked > 0
    /\ unblocked' = unblocked - 1
    /\ Processed([client EXCEPT !.flags = @ \ {"unblocked"}])
    /\ UNCHANGED <<stream, unread, fired, open>>

\* The loop sleeps until there is something to read
aeApiPoll ==
    /\ open /\ ~ fired /\ unblocked = 0 /\ unread # <<>>
    /\ fired' = TRUE
    /\ UNCHANGED <<stream, unread, client, executed, unblocked, open>>

Next ==
    \/ readQueryFromClient \/ Disconnect
    \/ unblockClientWaitingData \/ beforeSleep \/ aeApiPoll

Spec == Init /\ [][Next]_vars

-----------------------------------------------------------------------------
(* Properties.  A stream says which requests it is made of, and whether    *)
(* something follows them that is none.                                    *)

\* The requests that are to be executed: all of them, up to a QUIT
Requests ==
    LET commands == SelectSeq(stream.requests, LAMBDA r : r # <<>>)
        quits == {i \in DOMAIN commands : commands[i][1] = Quit}
    IN  IF quits = {} THEN commands
        ELSE SubSeq(commands, 1, CHOOSE i \in quits : \A j \in quits : i <= j)
Quits == \E i \in DOMAIN Requests : Requests[i][1] = Quit
Closing == "close_after_reply" \in client.flags

(***************************************************************************)
(* However the bytes were cut into pieces, the commands executed are the   *)
(* requests sent, in their order and with their arguments, whatever bytes  *)
(* these hold; and when all was read and nothing blocks the client, none   *)
(* of them is missing (networking.c, processInputBuffer; t_list.c,         *)
(* unblockClientWaitingData).                                              *)
(***************************************************************************)
ExecutedAsSent ==
    /\ IsPrefix(executed, Requests)
    /\ open /\ unread = <<>> /\ unblocked = 0 /\ "blocked" \notin client.flags
         => executed = Requests

(***************************************************************************)
(* read is never asked for no byte at all: it would answer 0, which means  *)
(* that the client is gone (networking.c, readQueryFromClient).            *)
(***************************************************************************)
ReadsSomething == open => readlen > 0

(***************************************************************************)
(* The server gives a connection up only after QUIT, or for a request that *)
(* is none and after all that came before it (networking.c,                *)
(* setProtocolError; tests/unit/protocol.tcl).                             *)
(***************************************************************************)
ClosedForAReason ==
    Closing => executed = Requests /\ (Quits \/ stream.malformed)

(***************************************************************************)
(* And it does give it up: a request that is none is found out as soon as  *)
(* all of it was read (tests/unit/protocol.tcl, "Protocol desync").        *)
(***************************************************************************)
MalformedIsRefused ==
    open /\ unread = <<>> /\ unblocked = 0 /\ "blocked" \notin client.flags
      => (stream.malformed => Closing)
=============================================================================
