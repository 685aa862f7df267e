----------------------------- MODULE MCSentinel -----------------------------
(***************************************************************************)
(* One or two sentinels, a master and two slaves or three.  What the clock *)
(* decides varies one thing at a time, from a timer that detects every     *)
(* failure and loses no time.                                              *)
(***************************************************************************)
EXTENDS Sentinel

Early == [down |-> {}, off |-> {}, old |-> {}, quiet |-> {}, over |-> {"start", "tilt", "retry"},
          odd |-> FALSE, exit |-> "ok"]
With(over) == [Early EXCEPT !.over = @ \cup over]
Suspects(ns) == [Early EXCEPT !.down = ns]

\* The master crashes, and is detected without a mistake.
reliable == [sentinels |-> 1..2, nodes |-> 1..3, quorum |-> 2, parallel |-> 1, can |-> 1..2, informed |-> FALSE,
             times |-> {Early}, faults |-> {"crash"}, crash |-> {1}, script |-> FALSE]
informed == [reliable EXCEPT !.informed = TRUE]
alone == [informed EXCEPT !.sentinels = {1}, !.quorum = 1]
\* A master or a slave that is only slow is taken for down.
mistaken == [informed EXCEPT !.quorum = 1, !.faults = {},
               !.times = {Early, Suspects({1}), [Suspects({2}) EXCEPT !.old = {1}]}]
\* A step of the failover takes too long, and commands are lost.
overdue == [alone EXCEPT !.faults = {"loss", "force"},
              !.times = {Suspects({1}), With({"promotion"}), With({"reconf"}), With({"failover"})}]
\* Two slaves are to follow the promoted one, one after the other.
parallel == [alone EXCEPT !.nodes = 1..4, !.times = {Suspects({1}), With({"reconf"})}]
\* The promoted slave crashes too.
second == [alone EXCEPT !.faults = {"crash", "restart"}, !.crash = {1, 2}, !.parallel = 2,
             !.times = {Early, With({"xdown"})}]
\* An administrator forces a failover, and resets the sentinel.
resets == [alone EXCEPT !.faults = {"force", "reset"}, !.times = {Early, [Early EXCEPT !.off = {2}]}]
\* A sentinel starts again, with another runid, before or in a failover; one
\* is not heard of for a while.
restarts == [informed EXCEPT !.faults = {"sentinel"}]
forgets == [alone EXCEPT !.faults = {"crash", "sentinel"}]
quiet == [informed EXCEPT !.faults = {"crash", "quiet"}, !.parallel = 2,
            !.times = {[With({"quarter"}) EXCEPT !.quiet = {1}]}]
\* The clock jumps, and the scripts fail.
scripts == [alone EXCEPT !.faults = {"force"}, !.script = TRUE,
              !.times = {Early, [Early EXCEPT !.odd = TRUE], [Early EXCEPT !.exit = "none"],
                         [Suspects({2}) EXCEPT !.exit = "retry"]}]
MCFamilies == [reliable |-> reliable, mistaken |-> mistaken, overdue |-> overdue, parallel |-> parallel, second |-> second,
               resets |-> resets, restarts |-> restarts,
               forgets |-> forgets, quiet |-> quiet, scripts |-> scripts]
MCNodes == 1..4
Priorities == [n \in MCNodes |-> 1]
=============================================================================
