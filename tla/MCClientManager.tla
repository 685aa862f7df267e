-------------------------- MODULE MCClientManager --------------------------
(***************************************************************************)
(* Instances of ClientManager for TLC.                                     *)
(***************************************************************************)
EXTENDS ClientManager, TLC

CONSTANTS h1, h2, h3

\* Lists that share machines; every machine is the last of a list, which alone is
\* how a machine without a count is ever chosen
SharedConfig == ("chrome" :> <<h1, h2>>) @@ ("firefox" :> <<h3, h2, h1>>) @@ ("ie" :> <<h3>>)

Browsers == DOMAIN SharedConfig
=============================================================================
