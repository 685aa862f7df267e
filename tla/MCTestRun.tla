----------------------------- MODULE MCTestRun -----------------------------
(***************************************************************************)
(* Instances of TestRun for TLC: which window opens how many others.       *)
(***************************************************************************)
EXTENDS TestRunProperties, TLC

\* The test of the first window opens two pages
OpensTwo == [w \in Win |-> IF w = Root THEN 2 ELSE 0]

\* A chain: the first window opens a page that opens another
OpensChain == [w \in Win |-> IF w < MaxWin THEN 1 ELSE 0]

\* The first window opens two pages, of which the first opens one of its own
OpensTree == [w \in Win |-> IF w = Root THEN 2 ELSE IF w = 2 THEN 1 ELSE 0]
=============================================================================
