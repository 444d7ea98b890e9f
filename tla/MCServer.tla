------------------------------- MODULE MCServer -------------------------------
(***************************************************************************)
(* Values for the constants of Server: one firm, one account, one client;  *)
(* the deployments that differ in what they select.                        *)
(***************************************************************************)
EXTENDS Server

CONSTANTS c1, f1, clerk

ClientFirms == c1 :> f1
Roles == clerk :> "accountant"
AccountFirms == clerk :> f1

Usual == [stubMode |-> FALSE, provider |-> "openai", apiKey |-> TRUE, summaryKey |-> "valid"]

DeploymentsTried ==
  {Usual, [Usual EXCEPT !.apiKey = FALSE], [Usual EXCEPT !.provider = "other"],
   [Usual EXCEPT !.summaryKey = "unset"]}

=============================================================================
