-------------------------------- MODULE MCSeed --------------------------------
(***************************************************************************)
(* Values for the constants of Seed: a client of each state the demo has.  *)
(***************************************************************************)
EXTENDS Seed, TLC

CONSTANTS fresh, stale, none

BaseEmails == fresh :> 1 @@ stale :> 2 @@ none :> 1
LateEmails == fresh :> 0 @@ stale :> 1 @@ none :> 0

=============================================================================
