---------------------------- MODULE SessionStore ----------------------------
(***************************************************************************)
(* The Redis database as socketServer/libs/redis/session.js uses it: three *)
(* kinds of keys per session, hashes that HMSET merges field by field, and *)
(* the KEYS patterns the module asks for.  The commands are operators on   *)
(* the database value; the modules that EXTEND this one decide when each   *)
(* command runs.                                                           *)
(***************************************************************************)
EXTENDS Naturals, FiniteSets

CONSTANTS
    Session,    \* the session ids Selenium hands out
    MaxWin      \* bound: windows a session's browser can open

ASSUME MaxWinAssumption == MaxWin \in Nat \ {0}

Win == 1..MaxWin
Root == 1        \* the handle of the browser's first window
NoParent == 0    \* parentId of the root page: undefined in the row

GlobalDataKey(s) == <<s, "globalData", 0>>
ClientKey(s) == <<s, "client", 0>>
WinKey(s, w) == <<s, "win", w>>

WinKeyOf(s) == {WinKey(s, w) : w \in Win}
KeyOf(s) == {GlobalDataKey(s), ClientKey(s)} \cup WinKeyOf(s)
Key == UNION {KeyOf(s) : s \in Session}

(***************************************************************************)
(* The hash of a window.  result and errors say whether the fields         *)
(* testResult and errorList exist: their text never matters.               *)
(***************************************************************************)
Row == [parent : Win \cup {NoParent},
        stat : {"running", "done"},
        result : BOOLEAN,
        errors : BOOLEAN]

\* Mutant: addWin stores an empty errorList
NewRowWithList(p) == [parent |-> p, stat |-> "running", result |-> FALSE, errors |-> TRUE]

NewRow(p) == [parent |-> p, stat |-> "running", result |-> FALSE, errors |-> FALSE]
NoRow == NewRow(NoParent)   \* filler of records that carry no row

(***************************************************************************)
(* globalData and client hold one string each; rows are kept apart so that *)
(* a database has one type of value per component.                         *)
(***************************************************************************)
Database == [keys : SUBSET Key, row : [Session -> [Win -> Row]]]

EmptyDatabase == [keys |-> {}, row |-> [s \in Session |-> [w \in Win |-> NoRow]]]

Exists(d, k) == k \in d.keys

\* KEYS s<id>*, KEYS s<id>:w* and KEYS *
SessionKeys(d, s) == d.keys \cap KeyOf(s)
WindowKeys(d, s) == d.keys \cap WinKeyOf(s)
AllKeys(d) == d.keys

\* SET of a string value
Put(d, k) == [d EXCEPT !.keys = @ \cup {k}]

(***************************************************************************)
(* HMSET: fields present in the command replace those of the hash, the     *)
(* others stay; parent and stat are present in every command.              *)
(***************************************************************************)
Merge(old, new) ==
    [new EXCEPT !.result = @ \/ old.result, !.errors = @ \/ old.errors]

PutRow(d, s, w, r) ==
    [keys |-> d.keys \cup {WinKey(s, w)},
     row |-> [d.row EXCEPT ![s][w] =
                IF Exists(d, WinKey(s, w)) THEN Merge(@, r) ELSE r]]

\* DEL of a set of keys; a deleted hash has no fields left
Delete(d, ks) ==
    [keys |-> d.keys \ ks,
     row |-> [s \in Session |-> [w \in Win |->
                IF WinKey(s, w) \in ks THEN NoRow ELSE d.row[s][w]]]]

RowOf(d, s, w) == d.row[s][w]
=============================================================================
