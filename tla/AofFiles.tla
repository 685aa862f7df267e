------------------------------ MODULE AofFiles ------------------------------
(***************************************************************************)
(* The file descriptors of the append only file, which the main thread     *)
(* opens, replaces and closes (aof.c) while the threads of bio.c sync and  *)
(* close what they were told.  A descriptor that is closed is given to the *)
(* next file or client.                                                    *)
(***************************************************************************)
EXTENDS BackgroundJobs, FiniteSetsExt

CONSTANTS
    Fds,            \* the descriptors there are
    MaxFiles,       \* bound: how often a file or a socket is opened
    StartMayFail    \* startAppendOnly may find a rewrite already going on

Files == 1..MaxFiles
FileJobs == Fds \X Files   \* a descriptor, and what it was opened for
Closed == 0
None == -1

ASSUME FilesAssumption ==
    /\ Fds \subseteq Nat /\ MaxFiles \in Nat /\ StartMayFail \in BOOLEAN
    /\ {"close", "fsync"} \subseteq Type /\ Job = FileJobs

VARIABLES
    table,      \* what a descriptor refers to
    opened,     \* how many files were opened
    aof_state,  \* "on" or "off"; waiting for the first rewrite is on
    aof_fd,     \* server.aof_fd, and what it was opened for
    aof_file,
    clients,    \* the descriptors of clients
    rewriting,  \* a child rewrites the append only file
    todo        \* the jobs that the handler the main thread is in has yet to create

fileVars == <<table, opened, aof_state, aof_fd, aof_file, clients, rewriting, todo>>
allVars == <<vars, fileVars>>

Free == {fd \in Fds : table[fd] = Closed}
Lowest(set) == Min(set)
New == opened + 1
Between == At("idle") /\ todo = <<>>
On == aof_state = "on"

FilesInit ==
    /\ Init
    /\ table = [fd \in Fds |-> Closed] /\ opened = 0
    /\ aof_state = "off" /\ aof_fd = None /\ aof_file = Closed
    /\ clients = {} /\ rewriting = FALSE /\ todo = <<>>

\* The next job of a handler is created
CreateNext ==
    /\ todo # <<>>
    /\ bioCreateBackgroundJob(Head(todo)[1], Head(todo)[2])
    /\ todo' = Tail(todo)
    /\ UNCHANGED <<table, opened, aof_state, aof_fd, aof_file, clients, rewriting>>

acceptTcpHandler ==
    /\ Between /\ Free # {} /\ opened < MaxFiles
    /\ table' = [table EXCEPT ![Lowest(Free)] = New]
    /\ clients' = clients \cup {Lowest(Free)}
    /\ opened' = New
    /\ UNCHANGED <<vars, aof_state, aof_fd, aof_file, rewriting, todo>>

freeClient ==
    /\ Between
    /\ \E fd \in clients : table' = [table EXCEPT ![fd] = Closed] /\ clients' = clients \ {fd}
    /\ UNCHANGED <<vars, opened, aof_state, aof_fd, aof_file, rewriting, todo>>

rewriteAppendOnlyFileBackground ==
    /\ Between /\ ~ rewriting
    /\ rewriting' = TRUE
    /\ UNCHANGED <<vars, table, opened, aof_state, aof_fd, aof_file, clients, todo>>

\* A rewrite must begin; if one goes on already the file is closed again, and
\* aof_fd stays what it was
startAppendOnly ==
    /\ Between /\ ~ On /\ Free # {} /\ opened < MaxFiles
    /\ rewriting => StartMayFail
    /\ aof_fd' = Lowest(Free) /\ aof_file' = New /\ opened' = New
    /\ IF rewriting THEN UNCHANGED <<table, aof_state>>
       ELSE table' = [table EXCEPT ![Lowest(Free)] = New] /\ aof_state' = "on"
    /\ rewriting' = TRUE
    /\ UNCHANGED <<vars, clients, todo>>

\* The file is flushed (flushAppendOnlyFile, which may come just before),
\* synced and closed; the child is killed
stopAppendOnly ==
    /\ Between /\ On
    /\ table' = [table EXCEPT ![aof_fd] = Closed]
    /\ aof_state' = "off" /\ aof_fd' = None /\ aof_file' = Closed /\ rewriting' = FALSE
    /\ UNCHANGED <<vars, opened, clients, todo>>

\* flushAppendOnlyFile, every second: unless a sync is still in progress
flushAppendOnlyFile ==
    /\ Between /\ On /\ answer["fsync"] = 0
    /\ todo' = << <<"fsync", <<aof_fd, table[aof_fd]>> >> >>
    /\ UNCHANGED <<vars, table, opened, aof_state, aof_fd, aof_file, clients, rewriting>>

\* Mutant: the server goes on with the file it has told to close
RewriteDoneKept ==
    /\ Between /\ rewriting /\ aof_fd # None /\ Free # {} /\ opened < MaxFiles
    /\ LET newfd == Lowest(Free) IN
       /\ table' = [table EXCEPT ![newfd] = New]
       /\ todo' = << <<"fsync", <<newfd, New>> >>, <<"close", <<aof_fd, aof_file>> >> >>
    /\ opened' = New /\ rewriting' = FALSE
    /\ UNCHANGED <<vars, aof_state, aof_fd, aof_file, clients>>

\* backgroundRewriteDoneHandler, when there is a descriptor: the new file
\* takes the place of the old one, which a thread is to close
RewriteDoneOn ==
    /\ Between /\ rewriting /\ aof_fd # None /\ Free # {} /\ opened < MaxFiles
    /\ LET newfd == Lowest(Free) IN
       /\ table' = [table EXCEPT ![newfd] = New]
       /\ aof_fd' = newfd /\ aof_file' = New
       /\ todo' = << <<"fsync", <<newfd, New>> >>, <<"close", <<aof_fd, aof_file>> >> >>
    /\ opened' = New /\ rewriting' = FALSE
    /\ UNCHANGED <<vars, aof_state, clients>>

\* and when there is none: the new file is closed; the file that loses its
\* name is opened before, so that a thread closes it
RewriteDoneOff ==
    /\ Between /\ rewriting /\ aof_fd = None /\ Cardinality(Free) >= 2 /\ opened < MaxFiles
    /\ LET oldfd == Lowest(Free \ {Lowest(Free)}) IN
       /\ table' = [table EXCEPT ![oldfd] = New]
       /\ todo' = << <<"close", <<oldfd, New>> >> >>
    /\ opened' = New /\ rewriting' = FALSE
    /\ UNCHANGED <<vars, aof_state, aof_fd, aof_file, clients>>

\* The file is not there: nothing loses its name
RewriteDoneFirst ==
    /\ Between /\ rewriting /\ aof_fd = None /\ Free # {}
    /\ rewriting' = FALSE
    /\ UNCHANGED <<vars, table, opened, aof_state, aof_fd, aof_file, clients, todo>>

\* The child failed, or its file cannot be opened, written or renamed
RewriteFailed ==
    /\ Between /\ rewriting
    /\ rewriting' = FALSE
    /\ UNCHANGED <<vars, table, opened, aof_state, aof_fd, aof_file, clients, todo>>

\* A thread does its job: close, or fsync, which changes no descriptor
Done(t) ==
    /\ Perform(t)
    /\ table' = IF t = "close" THEN [table EXCEPT ![hand[t][1]] = Closed] ELSE table
    /\ UNCHANGED <<opened, aof_state, aof_fd, aof_file, clients, rewriting, todo>>

\* The other steps of bio.c
OtherStep(t) ==
    /\ \/ InCall(t) \/ SpuriousWakeup(t) \/ (todo = <<>> /\ bioPendingJobsOfType(t))
       \/ ThreadLock(t) \/ Wait(t) \/ Take(t) \/ Remove(t) \/ Discount(t)
    /\ UNCHANGED fileVars

FilesNext ==
    \/ CreateNext \/ acceptTcpHandler \/ freeClient
    \/ rewriteAppendOnlyFileBackground \/ startAppendOnly \/ stopAppendOnly
    \/ flushAppendOnlyFile
    \/ RewriteDoneOn \/ RewriteDoneOff \/ RewriteDoneFirst \/ RewriteFailed
    \/ \E t \in Type : Done(t) \/ OtherStep(t)

FilesSpec == FilesInit /\ [][FilesNext]_allVars

-----------------------------------------------------------------------------
(* Properties.                                                             *)

(***************************************************************************)
(* While the append only file is on, its descriptor refers to it: neither  *)
(* a thread nor a handler closed it, and no client has it (aof.c,          *)
(* backgroundRewriteDoneHandler, stopAppendOnly).                          *)
(***************************************************************************)
AofDescriptor == On => table[aof_fd] = aof_file

(***************************************************************************)
(* A thread closes the file that lost its name, never a descriptor that    *)
(* was given to a client meanwhile (aof.c, "Asynchronously close the       *)
(* overwritten AOF").                                                      *)
(***************************************************************************)
ClosesItsFile == thread["close"] = "working" => table[hand["close"][1]] = hand["close"][2]

(***************************************************************************)
(* Descriptors are used by their owners alone: the server writes to its    *)
(* file, and a thread closes the file it was told to, although a number    *)
(* goes to the next that asks as soon as it is closed.                     *)
(***************************************************************************)
DescriptorsOwned == AofDescriptor /\ ClosesItsFile
=============================================================================
