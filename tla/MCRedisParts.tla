---------------------------- MODULE MCRedisParts ----------------------------
(***************************************************************************)
(* Three parts of Redis that share no state: the query buffer of a client, *)
(* the output of some, and the data structures.  A behaviour is about one  *)
(* of them, part; the variables of the others stay Idle.                   *)
(***************************************************************************)
EXTENDS Integers, Sequences, SequencesExt, FiniteSets, TLC

CONSTANTS
    IobufLen, InlineMaxSize, MbulkBigArg, MaxQuerybufLen, MaxMultibulk, MaxBulk,
    MaxRequests,                                        \* of a query
    ReplyChunk, MaxWrite, StringSize, ItemSize, PipelinedSync, Sizes, Rooms,
    MaxMessages, MaxTime,                               \* of the output
    BigLen, MaxLength, HeaderSize, MaxLevel, InitialSize, ForceRatio, MinFill,
    MaxEntries                                          \* of the structures

VARIABLES
    part,
    stream, unread, client, executed, unblocked, fired, open,
    objects, clients, value, saving, messages, unixtime,
    kind, is, of, iter

ofQuery == <<stream, unread, client, executed, unblocked, fired, open>>
ofOutput == <<objects, clients, value, saving, messages, unixtime>>
ofStructure == <<kind, is, of, iter>>
vars == <<part, ofQuery, ofOutput, ofStructure>>

-----------------------------------------------------------------------------
(* What a client sends: up to MaxRequests requests, as the protocol writes *)
(* them and as a line, and then nothing, a request that is not complete,   *)
(* or what is no request.                                                  *)

Crlf == <<"\r", "\n">>
Digit(n) == <<ToString(n)>>
Quit == <<"q">>
Block == <<"b">>
a == <<"a">>
\* Eight bytes that look like a request
large == <<"*", "1">> \o Crlf \o <<"$", "1">> \o Crlf

Arguments == {<<Quit>>, <<Block>>, <<a, <<>>, Crlf>>, <<large, a>>, << <<"nul">>, large>>}

Bulk(arg) == <<"$">> \o Digit(Len(arg)) \o Crlf \o arg \o Crlf
Multibulk(args) ==
    <<"*">> \o Digit(Len(args)) \o Crlf \o FlattenSeq([i \in DOMAIN args |-> Bulk(args[i])])

\* What is sent, and the request it is (<<>> if there is nothing to execute)
Sent(args) == [bytes |-> Multibulk(args), request |-> args]
Inline == [bytes |-> <<" ", "a", " ", " ", "b">> \o Crlf, request |-> <<a, <<"b">> >>]
Nothing == {[bytes |-> b, request |-> <<>>] :
               b \in {Crlf, <<"*", "0">> \o Crlf, <<"*", "-", "1">> \o Crlf}}
Pieces == {Sent(args) : args \in Arguments} \cup {Inline} \cup Nothing

One == <<"*", "1">> \o Crlf
Partial == {<<>>, <<"a">>, <<"*", "1", "\r">>, One \o <<"$", "1">> \o Crlf \o a,
            SubSeq(Multibulk(<<a, large>>), 1, 20)}

\* No request, whatever follows: a wrong count, a wrong length, a line without an end
Wrong == {<<"*", "x">> \o Crlf, <<"*", "9">> \o Crlf, One \o <<"a">> \o Crlf,
          One \o <<"$", "-", "1">> \o Crlf, One \o <<"$", "9">> \o Crlf}
Endless == [i \in 1..(InlineMaxSize + 1) |-> "1"]
Malformed == {b \o Multibulk(<<a>>) : b \in Wrong}
             \cup {b \o Endless : b \in {<<>>, <<"nul">>, <<"*">>, One \o <<"$">>}}

Stream(pieces, end, malformed) ==
    [bytes |-> FlattenSeq([i \in DOMAIN pieces |-> pieces[i].bytes]) \o end,
     requests |-> [i \in DOMAIN pieces |-> pieces[i].request], malformed |-> malformed]
Ends == (Partial \X {FALSE}) \cup (Malformed \X {TRUE})

Streams ==
    {Stream(p, e[1], e[2]) :
       p \in UNION {[1..n -> Pieces] : n \in 0..MaxRequests}, e \in Ends}

Query == INSTANCE RedisQuery

-----------------------------------------------------------------------------
(* Who gets output: two of a subscriber and two slaves, with the limits of *)
(* each kind.                                                              *)

Client(sort, n) == <<sort, n>>
Clients == {Client("pubsub", 1), Client("slave", 1), Client("slave", 2)}
Connected == {Clients \ {c} : c \in {Client("pubsub", 1), Client("slave", 2)}}
Kind == [c \in Clients |-> c[1]]
Limits == [pubsub |-> [hard |-> 6, soft |-> 5, seconds |-> 0],
           slave |-> [hard |-> 6, soft |-> 0, seconds |-> 0]]

Output == INSTANCE RedisOutput

-----------------------------------------------------------------------------
(* Structures of small widths, lengths and sizes, with values at and next  *)
(* to every limit.                                                         *)

Limit == <<2, 4, 8>>
Values == {-8, -4, -3, -1, 0, 1, 2, 3, 7}
Bodies == {2, 7, 20}
Objects == 1..3
Scores == 1..3
DictKeys == 0..3

Structure == INSTANCE Structures

ASSUME PartsAssumption ==
    Query!SizesAssumption /\ Output!OutputAssumption /\ Structure!StructuresAssumption

-----------------------------------------------------------------------------
Idle == "idle"
NoQuery ==
    /\ stream = Idle /\ unread = Idle /\ client = Idle /\ executed = Idle
    /\ unblocked = Idle /\ fired = Idle /\ open = Idle
NoOutput ==
    /\ objects = Idle /\ clients = Idle /\ value = Idle
    /\ saving = Idle /\ messages = Idle /\ unixtime = Idle
NoStructure == kind = Idle /\ is = Idle /\ of = Idle /\ iter = Idle

Init ==
    \/ part = "query" /\ Query!Init /\ NoOutput /\ NoStructure
    \/ part = "output" /\ Output!Init /\ NoQuery /\ NoStructure
    \/ part = "structure" /\ Structure!Init /\ NoQuery /\ NoOutput

Next ==
    \/ part = "query" /\ Query!Next /\ UNCHANGED <<part, ofOutput, ofStructure>>
    \/ part = "output" /\ Output!Next /\ UNCHANGED <<part, ofQuery, ofStructure>>
    \/ part = "structure" /\ Structure!Next /\ UNCHANGED <<part, ofQuery, ofOutput>>

Spec == Init /\ [][Next]_vars

-----------------------------------------------------------------------------
(* The properties of the parts.                                            *)

\* The commands executed are the requests sent, however the bytes were cut, and
\* read is never asked for none of them (networking.c, readQueryFromClient).
ExecutedAsSent == part = "query" => Query!ExecutedAsSent /\ Query!ReadsSomething

\* A connection is given up after QUIT, or for what is no request and after what
\* came before it, and then it is given up (networking.c, setProtocolError).
ClosedForAReason == part = "query" => Query!ClosedForAReason /\ Query!MalformedIsRefused

\* What was sent to a client and what is pending make up what it was told
\* (networking.c, addReply, sendReplyToClient).
InOrder == part = "output" => Output!InOrder

\* What is counted is what there is: the bytes of a reply list, the holders of an
\* object, and who is over the hard limit (networking.c, addReplyObjectToList,
\* dupLastObjectIfNeeded, asyncCloseClientOnOutputBufferLimitReached).
OutputCounted ==
    part = "output" => Output!ReplyBytesExact /\ Output!RefsCounted /\ Output!HardLimit

\* A client with something pending has the write handler, and a slave that waits
\* for its snapshot has not (networking.c, prepareClientToWrite; replication.c,
\* sendBulkToSlave).
ServedWhenDue == part = "output" => Output!HandlerInstalled /\ Output!NothingBeforeBulk


\* A safe iterator returns every key that stays, and none twice (dict.c, dictNext).
IterationComplete == part = "structure" => Structure!IterationComplete
=============================================================================
