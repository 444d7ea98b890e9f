-------------------------------- MODULE MCApi --------------------------------
(***************************************************************************)
(* Values for the constants of Api: a firm with one client, its accountant *)
(* and its admin; a firm with another client; a firm without any; and the  *)
(* superuser.                                                              *)
(***************************************************************************)
EXTENDS Api

CONSTANTS c1, c2, f1, f2, f3, clerk, admin, super

ClientFirms == c1 :> f1 @@ c2 :> f2
Roles == clerk :> "accountant" @@ admin :> "firm_admin" @@ super :> "superuser"
AccountFirms == clerk :> f1 @@ admin :> f1 @@ super :> NoFirm

=============================================================================
