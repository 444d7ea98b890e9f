---------------------------- MODULE SummaryPromise ----------------------------
(***************************************************************************)
(* What the service promises of the stored summary of each client, without *)
(* prompts, budgets, keys or caches: the row moves in one step from one    *)
(* prefix of the inbox to another that is at least as long, and the number *)
(* it claims to cover is the number it covers.  README.md: "Staleness is   *)
(* derived: new_emails_count = total - analyzed".                          *)
(***************************************************************************)
EXTENDS Integers

CONSTANT Clients

VARIABLES
  received,  \* emails in the client's inbox
  claimed,   \* the number of emails the row says it analyzed
  accounted  \* the emails its payload reflects or knowingly dropped

pvars == <<received, claimed, accounted>>

PromiseInit ==
  /\ received = [c \in Clients |-> 0]
  /\ claimed = [c \in Clients |-> 0]
  /\ accounted = [c \in Clients |-> {}]

Receive(c) ==
  /\ received' = [received EXCEPT ![c] = @ + 1]
  /\ UNCHANGED <<claimed, accounted>>

Regenerate(c) ==
  \E k \in 1 .. received[c] :
    /\ k >= claimed[c]
    /\ claimed' = [claimed EXCEPT ![c] = k]
    /\ accounted' = [accounted EXCEPT ![c] = 1 .. k]
    /\ UNCHANGED received

PromiseNext == \E c \in Clients : Receive(c) \/ Regenerate(c)

PromiseSpec == PromiseInit /\ [][PromiseNext]_pvars

=============================================================================
