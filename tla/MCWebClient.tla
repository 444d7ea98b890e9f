----------------------------- MODULE MCWebClient -----------------------------
(***************************************************************************)
(* Values for the constants of WebClient: one user of each role, with the  *)
(* pages their roles lead to.                                              *)
(***************************************************************************)
EXTENDS WebClient, TLC

CONSTANTS admin, accountant

LandingPages == admin :> "firm" @@ accountant :> "home"

=============================================================================
