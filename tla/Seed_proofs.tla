----------------------------- MODULE Seed_proofs -----------------------------
(***************************************************************************)
(* Type correctness of the seed script beside its users, that reset        *)
(* removes the old world as a whole or not at all, and that a completed    *)
(* run shows the states it announces: for any dataset, any number of users *)
(* and any number of runs.                                                 *)
(***************************************************************************)
EXTENDS Seed, TLAPS

-----------------------------------------------------------------------------
(* A run in progress has a number.                                         *)
RunNumbered == step \notin Stopped => run \in 1 .. MaxRuns

(* email_summaries.client_id is a foreign key.                             *)
SummariesHaveClients == \A id \in Ids : analyzed[id] # 0 => id \in exists

(* Once DELETE FROM clients has succeeded, reset holds every client, and   *)
(* every summary there is.                                                 *)
WipeDecided ==
  step = "commit" =>
    /\ deleted.clients = exists
    /\ \A id \in exists : analyzed[id] # 0 => id \in deleted.summaries

SeedInv == TypeOK /\ RunNumbered /\ SummariesHaveClients /\ WipeDecided

-----------------------------------------------------------------------------
(* Doing nothing is a state of a refresh.                                  *)
LEMMA IdleRefresh == [phase |-> "idle"] \in RefreshState
BY DEF RefreshState

(* What a refresh carries at each phase.                                   *)
LEMMA RefreshCarries ==
  ASSUME TypeOK, NEW w \in Workers
  PROVE  /\ refresh[w].phase \in {"listed", "selected"} =>
              refresh[w].client \in Ids /\ refresh[w].total \in Nat
         /\ refresh[w].phase = "selected" => refresh[w].seen \in Nat
<1>1. refresh[w] \in RefreshState
  BY DEF TypeOK
<1> QED BY <1>1 DEF RefreshState

(* The seed's world has ids of this run.                                   *)
LEMMA WorldIds ==
  ASSUME run \in 1 .. MaxRuns
  PROVE  World \subseteq Ids
BY DEF World, Ids

(* A refresh that may be written has a client, and so has its summary.     *)
LEMMA AcceptedHasClient ==
  ASSUME SeedInv, NEW w \in Workers, refresh[w].phase = "selected", Accepted(w)
  PROVE  refresh[w].client \in exists
<1>1. refresh[w].client \in Ids
  BY RefreshCarries DEF SeedInv
<1> QED BY <1>1 DEF Accepted, SeedInv, SummariesHaveClients

(* Between DELETE FROM clients and the COMMIT no refresh gets through.     *)
LEMMA NoWriteAtCommit ==
  ASSUME SeedInv, NEW w \in Workers, Write(w)
  PROVE  step # "commit"
<1>1. refresh[w].client \in exists
  BY AcceptedHasClient DEF Write
<1> QED BY <1>1 DEF Write, Waits, SeedInv, WipeDecided

(* What a refresh is about to write is a number.                           *)
LEMMA CountIsNat ==
  ASSUME TypeOK, NEW w \in Workers, refresh[w].phase = "selected"
  PROVE  Counted(w) \in Nat
<1>1. refresh[w].client \in Ids /\ refresh[w].total \in Nat
  BY RefreshCarries
<1> QED BY <1>1 DEF Counted, TypeOK

-----------------------------------------------------------------------------
(* The first of the three facts: initially the invariant holds.            *)
LEMMA SeedInvInit == Init => SeedInv
<1> SUFFICES ASSUME Init PROVE SeedInv
  OBVIOUS
<1>1. TypeOK
  BY SeedAssumption, IdleRefresh DEF Init, TypeOK, Stopped, Nothing
<1> QED
  BY <1>1 DEF Init, SeedInv, RunNumbered, Stopped, SummariesHaveClients, WipeDecided

(* The steps that end the script roll its transaction back.                *)
LEMMA DiesKeeps ==
  ASSUME SeedInv, Dies
  PROVE  SeedInv'
<1>1. refresh' \in [Workers -> RefreshState]
  BY IdleRefresh DEF Dies, SeedInv, TypeOK
<1>2. TypeOK'
  BY <1>1 DEF Dies, database, SeedInv, TypeOK, Stopped, Nothing
<1> QED
  BY <1>2 DEF Dies, database, SeedInv, RunNumbered, Stopped, SummariesHaveClients, WipeDecided

(* The second: every step keeps it.                                        *)
LEMMA SeedInvNext == SeedInv /\ [Next]_vars => SeedInv'
<1> SUFFICES ASSUME SeedInv, [Next]_vars PROVE SeedInv'
  OBVIOUS
<1> USE DEF SeedInv
<1>1. CASE Start
  <2>1. TypeOK'
    BY <1>1, SeedAssumption DEF Start, TypeOK, database
  <2> QED
    BY <1>1, <2>1, SeedAssumption
    DEF Start, TypeOK, database, RunNumbered, Stopped, SummariesHaveClients, WipeDecided
<1>2. CASE DeleteSummaries
  <2>1. TypeOK'
    BY <1>2 DEF DeleteSummaries, TypeOK, database
  <2> QED
    BY <1>2, <2>1
    DEF DeleteSummaries, database, RunNumbered, Stopped, SummariesHaveClients, WipeDecided
<1>3. CASE DeleteClients
  <2>1. CASE {id \in exists : analyzed[id] # 0} \subseteq deleted.summaries
    <3>1. /\ step' = "commit" /\ step = "clients"
          /\ deleted' = [deleted EXCEPT !.clients = exists]
          /\ UNCHANGED <<run, todo, database, refresh, touched>>
      BY <1>3, <2>1 DEF DeleteClients
    <3>2. deleted'.clients = exists /\ deleted'.summaries = deleted.summaries
      BY <3>1 DEF TypeOK
    <3>3. TypeOK'
      BY <3>1 DEF TypeOK, database
    <3>4. WipeDecided'
      BY <2>1, <3>1, <3>2 DEF database, WipeDecided
    <3> QED
      BY <3>1, <3>3, <3>4 DEF database, RunNumbered, Stopped, SummariesHaveClients
  <2>2. CASE ~({id \in exists : analyzed[id] # 0} \subseteq deleted.summaries)
    BY <1>3, <2>2, DiesKeeps DEF DeleteClients
  <2> QED BY <2>1, <2>2
<1>4. CASE CommitReset
  <2>1. deleted.clients = exists /\ \A id \in exists : analyzed[id] # 0 => id \in deleted.summaries
    BY <1>4 DEF CommitReset, WipeDecided
  <2>2. exists' = {} /\ \A id \in Ids : analyzed'[id] = 0
    BY <1>4, <2>1 DEF CommitReset, SummariesHaveClients
  <2>3. TypeOK'
    BY <1>4, <2>2 DEF CommitReset, TypeOK, Nothing
  <2> QED
    BY <1>4, <2>2, <2>3
    DEF CommitReset, RunNumbered, Stopped, SummariesHaveClients, WipeDecided
<1>5. CASE InsertPeople
  <2>1. TypeOK'
    BY <1>5, WorldIds DEF InsertPeople, TypeOK, RunNumbered, Stopped
  <2> QED
    BY <1>5, <2>1 DEF InsertPeople, RunNumbered, Stopped, SummariesHaveClients, WipeDecided
<1>6. CASE InsertEmails
  <2>1. inbox' \in [Ids -> Nat]
    <3>1. \A id \in Ids : id[2] \in Clients
      BY DEF Ids
    <3>2. \A id \in Ids : inbox[id] + (IF id \in World THEN Base[id[2]] ELSE 0) \in Nat
      BY <3>1, SeedAssumption DEF TypeOK
    <3> QED BY <1>6, <3>2 DEF InsertEmails
  <2>2. TypeOK'
    BY <1>6, <2>1 DEF InsertEmails, TypeOK
  <2> QED
    BY <1>6, <2>2 DEF InsertEmails, RunNumbered, Stopped, SummariesHaveClients, WipeDecided
<1>7. CASE InsertLateEmails
  <2>1. inbox' \in [Ids -> Nat]
    <3>1. \A id \in Ids : id[2] \in Clients
      BY DEF Ids
    <3>2. \A id \in Ids : inbox[id] + (IF id \in World THEN Late[id[2]] ELSE 0) \in Nat
      BY <3>1, SeedAssumption DEF TypeOK
    <3> QED BY <1>7, <3>2 DEF InsertLateEmails
  <2>2. TypeOK'
    BY <1>7, <2>1 DEF InsertLateEmails, TypeOK, Stopped
  <2> QED
    BY <1>7, <2>2 DEF InsertLateEmails, RunNumbered, Stopped, SummariesHaveClients, WipeDecided
<1>8. CASE Killed
  BY <1>8, DiesKeeps DEF Killed, Stopped
<1>9. ASSUME NEW w \in Workers, NEW id \in exists, List(w, id),
             UNCHANGED <<script, database, touched>>
      PROVE  SeedInv'
  <2>1. id \in Ids /\ inbox[id] \in Nat
    BY <1>9 DEF TypeOK
  <2>2. [phase |-> "listed", client |-> id, total |-> inbox[id]] \in RefreshState
    BY <2>1 DEF RefreshState
  <2>3. TypeOK'
    BY <1>9, <2>2 DEF List, TypeOK, script, database
  <2> QED
    BY <1>9, <2>3 DEF script, database, RunNumbered, Stopped, SummariesHaveClients, WipeDecided
<1>10. CASE SeedLists
  BY <1>9, <1>10 DEF SeedLists, List, Workers
<1>11. CASE \E u \in Users : \E id \in Ids : UserLists(u, id)
  BY <1>9, <1>11 DEF UserLists, List, Workers
<1>12. ASSUME NEW w \in Workers, Select(w) PROVE SeedInv'
  <2>1. refresh[w].client \in Ids /\ refresh[w].total \in Nat
    BY <1>12, RefreshCarries DEF Select
  <2>2. [phase |-> "selected", client |-> refresh[w].client, total |-> refresh[w].total,
         seen |-> analyzed[refresh[w].client]] \in RefreshState
    BY <2>1 DEF RefreshState, TypeOK
  <2>3. TypeOK'
    BY <1>12, <2>2 DEF Select, TypeOK, script, database
  <2> QED
    BY <1>12, <2>3
    DEF Select, script, database, RunNumbered, Stopped, SummariesHaveClients, WipeDecided
<1>13. ASSUME NEW w \in Workers, Write(w) PROVE SeedInv'
  <2>1. refresh[w].client \in Ids /\ refresh[w].client \in exists
    BY <1>13, RefreshCarries, AcceptedHasClient DEF Write
  <2>2. Counted(w) \in Nat
    BY <1>13, CountIsNat DEF Write
  <2>3. /\ run' = run /\ step' = step /\ exists' = exists /\ inbox' = inbox
        /\ deleted' = deleted /\ step # "commit"
    BY <1>13, NoWriteAtCommit DEF Write
  <2>4. /\ analyzed' \in [Ids -> Nat]
        /\ \A id \in Ids : id # refresh[w].client => analyzed'[id] = analyzed[id]
    BY <1>13, <2>2 DEF Write, TypeOK
  <2>5. refresh' \in [Workers -> RefreshState]
    BY <1>13, IdleRefresh DEF Write, TypeOK
  <2>6. todo' \subseteq Pregenerate /\ touched' \subseteq Ids
    BY <1>13, <2>1 DEF Write, TypeOK
  <2>7. TypeOK'
    BY <2>3, <2>4, <2>5, <2>6 DEF TypeOK
  <2>8. SummariesHaveClients'
    BY <2>1, <2>3, <2>4 DEF SummariesHaveClients
  <2> QED
    BY <2>3, <2>7, <2>8 DEF RunNumbered, Stopped, WipeDecided
<1>14. ASSUME NEW w \in Workers,
              refresh' = [refresh EXCEPT ![w] = [phase |-> "idle"]],
              UNCHANGED <<script, database, touched>>
       PROVE  SeedInv'
  <2>1. TypeOK'
    BY <1>14, IdleRefresh DEF TypeOK, script, database
  <2> QED
    BY <1>14, <2>1 DEF script, database, RunNumbered, Stopped, SummariesHaveClients, WipeDecided
<1>15. ASSUME NEW w \in Workers, WriteFails(w) PROVE SeedInv'
  <2>1. CASE w = Seeder
    BY <1>15, <2>1, DiesKeeps DEF WriteFails
  <2>2. CASE w # Seeder
    BY <1>14, <1>15, <2>2 DEF WriteFails
  <2> QED BY <2>1, <2>2
<1>16. CASE \E u \in Users : UserFails(u)
  BY <1>14, <1>16 DEF UserFails, Workers
<1>17. CASE UNCHANGED vars
  BY <1>17 DEF vars, database, TypeOK, RunNumbered, Stopped, SummariesHaveClients, WipeDecided
<1> QED
  BY <1>1, <1>2, <1>3, <1>4, <1>5, <1>6, <1>7, <1>8, <1>10, <1>11, <1>12, <1>13, <1>15,
     <1>16, <1>17
  DEF Next, SeedStep, RefreshStep

-----------------------------------------------------------------------------
(* So it holds in every behaviour.                                         *)
LEMMA SeedInvariant == Spec => []SeedInv
<1> QED BY SeedInvInit, SeedInvNext, PTL DEF Spec

(***************************************************************************)
(* The variables of the script and its database keep their types.          *)
(***************************************************************************)
THEOREM SeedTypeCorrect == Spec => []TypeOK
<1>1. SeedInv => TypeOK
  BY DEF SeedInv
<1> QED BY <1>1, SeedInvariant, PTL

(* Only the COMMIT of reset removes clients.                               *)
LEMMA OnlyResetRemoves ==
  ASSUME SeedInv, [Next]_vars, exists \ exists' # {}
  PROVE  CommitReset
<1>1. CASE Start
  BY <1>1 DEF Start, database
<1>2. CASE Dies
  BY <1>2 DEF Dies, database
<1>3. CASE DeleteSummaries \/ DeleteClients \/ InsertPeople \/ InsertEmails \/ InsertLateEmails
  BY <1>2, <1>3
  DEF DeleteSummaries, DeleteClients, InsertPeople, InsertEmails, InsertLateEmails, database
<1>4. CASE SeedLists
  BY <1>4 DEF SeedLists, database
<1>5. ASSUME NEW w \in Workers, RefreshStep(w) PROVE exists' = exists
  BY <1>5 DEF RefreshStep, Select, Write, WriteFails, Dies, database
<1>6. ASSUME NEW u \in Users, UserFails(u) \/ \E id \in Ids : UserLists(u, id)
      PROVE  exists' = exists
  BY <1>6 DEF UserFails, UserLists, database
<1>7. CASE UNCHANGED vars
  BY <1>7 DEF vars, database
<1> QED
  BY <1>1, <1>2, <1>3, <1>4, <1>5, <1>6, <1>7 DEF Next, SeedStep, Killed

(***************************************************************************)
(* reset removes the old world with its emails and summaries, or nothing,  *)
(* although its DELETE statements interleave with the users' refreshes.    *)
(***************************************************************************)
THEOREM ResetWipesWhole == Spec => WipedWhole
<1>1. SeedInv /\ SeedInv' /\ [Next]_vars =>
        [(exists \ exists' # {}) =>
           /\ exists' = {}
           /\ \A id \in Ids : inbox'[id] = 0 /\ analyzed'[id] = 0]_vars
  <2> SUFFICES ASSUME SeedInv, SeedInv', [Next]_vars, exists \ exists' # {}
               PROVE  exists' = {} /\ \A id \in Ids : inbox'[id] = 0 /\ analyzed'[id] = 0
    OBVIOUS
  <2>1. CommitReset
    BY OnlyResetRemoves
  <2>2. exists' = {} /\ \A id \in Ids : inbox'[id] = 0
    BY <2>1 DEF CommitReset, SeedInv, WipeDecided
  <2>3. \A id \in Ids : analyzed'[id] = 0
    BY <2>2 DEF SeedInv, SummariesHaveClients
  <2> QED BY <2>2, <2>3
<1> QED BY <1>1, SeedInvariant, PTL DEF Spec, WipedWhole

-----------------------------------------------------------------------------
(* What a completed run leaves rests on what each run has done so far.     *)

BeforePeople == {"summaries", "clients", "commit"}

(* Ids are drawn by InsertPeople, and nobody refreshes a client of this    *)
(* run before its emails are committed.                                    *)
RunsInOrder ==
  /\ \A id \in exists : id[1] <= run
  /\ \A w \in Workers : refresh[w].phase # "idle" => refresh[w].client[1] <= run
  /\ step \in BeforePeople => \A id \in exists : id[1] < run
  /\ step \in BeforePeople \cup {"people", "emails"} =>
       \A w \in Workers : refresh[w].phase # "idle" => refresh[w].client[1] < run

(* The script refreshes what it has yet to generate.                       *)
SeederOnTask ==
  refresh[Seeder].phase # "idle" =>
    /\ step = "generate"
    /\ refresh[Seeder].client[1] = run /\ refresh[Seeder].client[2] \in todo

(* What the transactions of this run have committed.                       *)
Rebuilt ==
  /\ step = "people" => exists = {} /\ \A id \in Ids : inbox[id] = 0
  /\ step = "emails" =>
       exists = World /\ \A id \in Ids : inbox[id] = 0 /\ analyzed[id] = 0
  /\ step = "generate" => exists = World /\ \A id \in World : inbox[id] = Base[id[2]]
  /\ step = "done" =>
       exists = World /\ \A id \in World : inbox[id] = Base[id[2]] + Late[id[2]]

(* Until the late emails arrive, whoever refreshes a client of this run    *)
(* counts the emails of the dataset; the script's own clients have a row   *)
(* once they are off its list, and the others only from users.             *)
Generated ==
  step = "generate" =>
    /\ \A w \in Workers : refresh[w].phase # "idle" /\ refresh[w].client \in World =>
         refresh[w].total = Base[refresh[w].client[2]]
    /\ \A id \in World :
         /\ analyzed[id] \in {0, Base[id[2]]}
         /\ id[2] \in Pregenerate \ todo => analyzed[id] # 0
         /\ id \notin touched /\ analyzed[id] # 0 => id[2] \in Pregenerate \ todo

LeftAlone ==
  step = "done" => \A id \in World \ touched :
    analyzed[id] = IF id[2] \in Pregenerate THEN Base[id[2]] ELSE 0

WorldInv == RunsInOrder /\ SeederOnTask /\ Rebuilt /\ Generated /\ LeftAlone

-----------------------------------------------------------------------------
(* Before the first run nothing is claimed.                                *)
LEMMA WorldInvInit == Init => WorldInv
BY SeedAssumption
DEF Init, WorldInv, RunsInOrder, SeederOnTask, Rebuilt, Generated, LeftAlone, BeforePeople,
    Workers

(* A step of one refresh leaves the others alone.                          *)
LEMMA Replaced ==
  ASSUME TypeOK, NEW w \in Workers, NEW new, refresh' = [refresh EXCEPT ![w] = new]
  PROVE  refresh'[w] = new /\ \A v \in Workers : v # w => refresh'[v] = refresh[v]
BY DEF TypeOK

(* A script that dies leaves no refresh of its own behind.                 *)
LEMMA DiesKeepsWorld ==
  ASSUME SeedInv, WorldInv, Dies
  PROVE  WorldInv'
<1>1. /\ refresh'[Seeder].phase = "idle"
      /\ \A v \in Workers : refresh'[v].phase # "idle" => refresh'[v] = refresh[v]
  <2>1. /\ refresh'[Seeder] = [phase |-> "idle"]
        /\ \A v \in Workers : v # Seeder => refresh'[v] = refresh[v]
    BY Replaced DEF Dies, SeedInv, Workers
  <2> QED BY <2>1
<1>2. run' = run /\ exists' = exists /\ step' = "dead"
  BY DEF Dies, database
<1> QED
  BY <1>1, <1>2
  DEF WorldInv, RunsInOrder, SeederOnTask, Rebuilt, Generated, LeftAlone, BeforePeople

(* A refresh that ends without a write leaves the world as it is.          *)
LEMMA GivesUpKeepsWorld ==
  ASSUME SeedInv, WorldInv, NEW w \in Workers,
         refresh' = [refresh EXCEPT ![w] = [phase |-> "idle"]],
         UNCHANGED <<script, database, touched>>
  PROVE  WorldInv'
<1>1. \A v \in Workers : refresh'[v].phase # "idle" => refresh'[v] = refresh[v]
  BY Replaced DEF SeedInv
<1>2. World' = World
  BY DEF script, World
<1> QED
  BY <1>1, <1>2
  DEF WorldInv, RunsInOrder, SeederOnTask, Rebuilt, Generated, LeftAlone, script, database,
      Workers

(* A refresh in progress carries an id and a count.                        *)
LEMMA RefreshPhase ==
  ASSUME TypeOK
  PROVE  \A w \in Workers : refresh[w].phase # "idle" =>
           refresh[w].client \in Ids /\ refresh[w].total \in Nat
<1> SUFFICES ASSUME NEW w \in Workers, refresh[w].phase # "idle"
             PROVE  refresh[w].client \in Ids /\ refresh[w].total \in Nat
  OBVIOUS
<1>1. refresh[w] \in RefreshState
  BY DEF TypeOK
<1>2. refresh[w].phase \in {"listed", "selected"}
  BY <1>1 DEF RefreshState
<1> QED BY <1>2, RefreshCarries

(* A write of the script takes a client off its list, one of a user marks  *)
(* it as touched; either stores the count of the dataset until the late    *)
(* emails arrive.                                                          *)
LEMMA WriteKeepsWorld ==
  ASSUME SeedInv, WorldInv, NEW w \in Workers, Write(w)
  PROVE  WorldInv'
<1> DEFINE id == refresh[w].client
<1> USE DEF SeedInv, WorldInv
<1>1. id \in Ids /\ id \in exists /\ refresh[w].phase = "selected"
  BY RefreshCarries, AcceptedHasClient DEF Write
<1>2. /\ refresh'[w].phase = "idle"
      /\ \A v \in Workers : refresh'[v].phase # "idle" => v # w /\ refresh'[v] = refresh[v]
  <2>1. /\ refresh'[w] = [phase |-> "idle"]
        /\ \A v \in Workers : v # w => refresh'[v] = refresh[v]
    BY Replaced DEF Write
  <2> QED BY <2>1
<1>3. UNCHANGED <<run, step, exists, inbox>> /\ World' = World
  BY DEF Write, World
<1>4. analyzed'[id] = Counted(w) /\ \A o \in Ids : o # id => analyzed'[o] = analyzed[o]
  BY <1>1 DEF Write, TypeOK
<1>5. RunsInOrder'
  BY <1>2, <1>3 DEF RunsInOrder
<1>6. SeederOnTask'
  BY <1>2, <1>3 DEF Write, SeederOnTask, Workers
<1>7. step # "emails"
  <2> SUFFICES ASSUME step = "emails" PROVE FALSE
    OBVIOUS
  <2>1. id[1] = run /\ id[1] < run /\ run \in Nat
    BY <1>1, SeedAssumption DEF Rebuilt, RunsInOrder, World, TypeOK
  <2> QED BY <2>1
<1>8. Rebuilt'
  BY <1>3, <1>7 DEF Rebuilt
<1>9. Generated'
  <2> SUFFICES ASSUME step = "generate" PROVE Generated'
    BY <1>3 DEF Generated
  <2>1. id \in World /\ World \subseteq Ids /\ id[2] \in Clients
    BY <1>1, WorldIds DEF Rebuilt, RunNumbered, Stopped, World
  <2>2. refresh[w].total = Base[id[2]] /\ Base[id[2]] \in Nat \ {0}
    BY <1>1, <2>1, SeedAssumption DEF Generated
  <2>3. Counted(w) = Base[id[2]]
    <3>1. CASE refresh[w].total = refresh[w].seen
      <4>1. analyzed[id] # 0
        BY <2>2, <3>1 DEF Write, Accepted
      <4> QED BY <2>1, <3>1, <4>1 DEF Counted, Generated
    <3>2. CASE refresh[w].total # refresh[w].seen
      BY <2>2, <3>2 DEF Counted
    <3> QED BY <3>1, <3>2
  <2>4. \A v \in Workers : refresh'[v].phase # "idle" /\ refresh'[v].client \in World =>
          refresh'[v].total = Base[refresh'[v].client[2]]
    BY <1>2 DEF Generated
  <2>5. CASE w = Seeder
    <3>1. todo' = todo \ {id[2]} /\ touched' = touched /\ id[2] \in todo
      BY <1>1, <2>5 DEF Write, SeederOnTask
    <3>2. id[2] \in Pregenerate /\ \A o \in World : o[2] = id[2] => o = id
      BY <2>1, <3>1 DEF TypeOK, World
    <3>3. ASSUME NEW o \in World
          PROVE  /\ analyzed'[o] \in {0, Base[o[2]]}
                 /\ o[2] \in Pregenerate \ todo' => analyzed'[o] # 0
                 /\ o \notin touched' /\ analyzed'[o] # 0 => o[2] \in Pregenerate \ todo'
      <4>1. CASE o = id
        BY <1>4, <2>2, <2>3, <3>1, <3>2, <4>1
      <4>2. CASE o # id
        BY <1>4, <2>1, <3>1, <3>2, <4>2 DEF Generated
      <4> QED BY <4>1, <4>2
    <3> QED BY <1>3, <2>4, <3>3 DEF Generated
  <2>6. CASE w # Seeder
    <3>1. todo' = todo /\ touched' = touched \cup {id}
      BY <2>6 DEF Write
    <3>2. ASSUME NEW o \in World
          PROVE  /\ analyzed'[o] \in {0, Base[o[2]]}
                 /\ o[2] \in Pregenerate \ todo' => analyzed'[o] # 0
                 /\ o \notin touched' /\ analyzed'[o] # 0 => o[2] \in Pregenerate \ todo'
      <4>1. CASE o = id
        BY <1>4, <2>2, <2>3, <3>1, <4>1
      <4>2. CASE o # id
        BY <1>4, <2>1, <3>1, <4>2 DEF Generated
      <4> QED BY <4>1, <4>2
    <3> QED BY <1>3, <2>4, <3>2 DEF Generated
  <2> QED BY <2>5, <2>6
<1>10. LeftAlone'
  <2> SUFFICES ASSUME step = "done", NEW o \in World \ touched'
               PROVE  analyzed'[o] = IF o[2] \in Pregenerate THEN Base[o[2]] ELSE 0
    BY <1>3 DEF LeftAlone
  <2>1. w # Seeder
    BY <1>1 DEF SeederOnTask
  <2>2. o # id /\ o \notin touched /\ o \in Ids
    BY <1>1, <2>1 DEF Write, Rebuilt, TypeOK
  <2> QED BY <1>4, <2>2 DEF LeftAlone
<1> QED BY <1>5, <1>6, <1>8, <1>9, <1>10

(* Each transaction of the script, and each step of a refresh.             *)
LEMMA WorldInvNext == SeedInv /\ WorldInv /\ [Next]_vars => WorldInv'
<1> SUFFICES ASSUME SeedInv, WorldInv, [Next]_vars PROVE WorldInv'
  OBVIOUS
<1> USE DEF SeedInv, WorldInv
<1>1. CASE Start
  <2>1. run' = run + 1 /\ run \in Nat /\ step' = "summaries" /\ step \in Stopped
        /\ refresh' = refresh /\ exists' = exists
    BY <1>1, SeedAssumption DEF Start, database, TypeOK
  <2>2. \A id \in exists : id[1] \in Nat
    BY SeedAssumption DEF TypeOK, Ids
  <2>3. \A w \in Workers : refresh[w].phase # "idle" => refresh[w].client[1] \in Nat
    BY RefreshPhase DEF Ids
  <2>4. refresh[Seeder].phase = "idle"
    BY <2>1 DEF SeederOnTask, Stopped
  <2> QED
    BY <2>1, <2>2, <2>3, <2>4
    DEF RunsInOrder, SeederOnTask, Rebuilt, Generated, LeftAlone, BeforePeople
<1>2. CASE DeleteSummaries
  BY <1>2
  DEF DeleteSummaries, database, RunsInOrder, SeederOnTask, Rebuilt, Generated, LeftAlone,
      BeforePeople
<1>3. CASE DeleteClients
  <2>1. CASE Dies
    BY <2>1, DiesKeepsWorld
  <2>2. CASE ~Dies
    BY <1>3, <2>2
    DEF DeleteClients, database, RunsInOrder, SeederOnTask, Rebuilt, Generated, LeftAlone,
        BeforePeople
  <2> QED BY <2>1, <2>2
<1>4. CASE CommitReset
  <2>1. step = "commit" /\ step' = "people" /\ run' = run /\ refresh' = refresh
        /\ exists' = {} /\ \A id \in Ids : inbox'[id] = 0
    BY <1>4 DEF CommitReset, WipeDecided
  <2> QED
    BY <2>1 DEF RunsInOrder, SeederOnTask, Rebuilt, Generated, LeftAlone, BeforePeople
<1>5. CASE InsertPeople
  <2>1. step = "people" /\ step' = "emails" /\ exists = {} /\ exists' = World
        /\ UNCHANGED <<run, inbox, analyzed, refresh>>
    BY <1>5 DEF InsertPeople, Rebuilt
  <2>2. World' = World /\ run \in Nat /\ \A id \in World : id[1] = run
    BY <2>1, SeedAssumption DEF World, TypeOK
  <2>3. \A id \in Ids : inbox'[id] = 0 /\ analyzed'[id] = 0
    BY <2>1 DEF Rebuilt, SummariesHaveClients
  <2> QED
    BY <2>1, <2>2, <2>3
    DEF RunsInOrder, SeederOnTask, Rebuilt, Generated, LeftAlone, BeforePeople
<1>6. CASE InsertEmails
  <2>1. step = "emails" /\ step' = "generate" /\ exists = World
        /\ todo' = Pregenerate /\ UNCHANGED <<run, exists, analyzed, refresh, touched>>
    BY <1>6 DEF InsertEmails, Rebuilt
  <2>2. World' = World /\ run \in Nat /\ World \subseteq Ids
        /\ \A id \in World : id[1] = run /\ id[2] \in Clients
    BY <2>1, WorldIds, SeedAssumption DEF World, TypeOK, RunNumbered, Stopped
  <2>3. \A id \in World : Base[id[2]] \in Nat
    BY <2>2, SeedAssumption
  <2>4. \A id \in World : inbox'[id] = Base[id[2]] /\ analyzed[id] = 0
    BY <1>6, <2>1, <2>2, <2>3 DEF InsertEmails, Rebuilt
  <2>5. \A w \in Workers : refresh[w].phase # "idle" => refresh[w].client \notin World
    <3> SUFFICES ASSUME NEW w \in Workers, refresh[w].phase # "idle"
                 PROVE  refresh[w].client \notin World
      OBVIOUS
    <3>1. refresh[w].client[1] < run /\ refresh[w].client[1] \in Nat
      BY <2>1, RefreshPhase DEF RunsInOrder, Ids
    <3> QED BY <2>2, <3>1
  <2>6. RunsInOrder' /\ SeederOnTask'
    BY <2>1 DEF RunsInOrder, SeederOnTask, BeforePeople
  <2>7. Rebuilt' /\ LeftAlone'
    BY <2>1, <2>2, <2>4 DEF Rebuilt, LeftAlone
  <2>8. Generated'
    BY <2>1, <2>2, <2>4, <2>5 DEF Generated
  <2> QED BY <2>6, <2>7, <2>8
<1>7. CASE InsertLateEmails
  <2>1. step = "generate" /\ step' = "done" /\ todo = {} /\ exists = World
        /\ UNCHANGED <<run, todo, exists, analyzed, refresh, touched>>
    BY <1>7 DEF InsertLateEmails, Rebuilt
  <2>2. World' = World /\ World \subseteq Ids /\ \A id \in World : id[2] \in Clients
    BY <2>1, WorldIds DEF World, RunNumbered, Stopped
  <2>3. \A id \in World : inbox'[id] = Base[id[2]] + Late[id[2]]
    BY <1>7, <2>1, <2>2 DEF InsertLateEmails, Rebuilt
  <2>4. refresh[Seeder].phase = "idle"
    BY <2>1 DEF SeederOnTask
  <2>5. \A id \in World \ touched :
          analyzed[id] = IF id[2] \in Pregenerate THEN Base[id[2]] ELSE 0
    BY <2>1 DEF Generated
  <2> QED
    BY <2>1, <2>2, <2>3, <2>4, <2>5
    DEF RunsInOrder, SeederOnTask, Rebuilt, Generated, LeftAlone, BeforePeople
<1>8. CASE Killed
  BY <1>8, DiesKeepsWorld DEF Killed
<1>9. ASSUME NEW w \in Workers, NEW id \in exists, List(w, id),
             w = Seeder => step = "generate" /\ id[1] = run /\ id[2] \in todo,
             UNCHANGED <<script, database, touched>>
      PROVE  WorldInv'
  <2>1. /\ refresh'[w] = [phase |-> "listed", client |-> id, total |-> inbox[id]]
        /\ \A v \in Workers : v # w => refresh'[v] = refresh[v]
    BY <1>9, Replaced DEF List
  <2>2. refresh'[w].client = id /\ refresh'[w].total = inbox[id]
    BY <2>1
  <2>3. id \in Ids /\ inbox[id] # 0 /\ id[1] <= run
    BY <1>9 DEF List, TypeOK, RunsInOrder
  <2>4. step \notin {"people", "emails"}
    BY <1>9, <2>3 DEF Rebuilt
  <2>5. step \in BeforePeople => id[1] < run
    BY <1>9 DEF RunsInOrder
  <2>6. step = "generate" => id \in World /\ inbox[id] = Base[id[2]]
    BY <1>9 DEF Rebuilt
  <2>7. UNCHANGED <<run, step, todo, exists, inbox, analyzed, touched>> /\ World' = World
    BY <1>9 DEF script, database, World
  <2>8. RunsInOrder'
    BY <2>1, <2>2, <2>3, <2>4, <2>5, <2>7 DEF RunsInOrder
  <2>9. SeederOnTask'
    BY <1>9, <2>1, <2>2, <2>7 DEF SeederOnTask, Workers
  <2>10. Generated'
    BY <2>1, <2>2, <2>6, <2>7 DEF Generated
  <2> QED
    BY <2>7, <2>8, <2>9, <2>10 DEF Rebuilt, LeftAlone
<1>10. CASE SeedLists
  <2>1. PICK c \in todo : List(Seeder, <<run, c>>)
    BY <1>10 DEF SeedLists
  <2> QED
    BY <1>9, <1>10, <2>1 DEF SeedLists, List, Workers
<1>11. CASE \E u \in Users : \E id \in Ids : UserLists(u, id)
  <2>1. PICK u \in Users, id \in Ids : UserLists(u, id)
    BY <1>11
  <2> QED
    BY <1>9, <2>1, SeedAssumption DEF UserLists, List, Workers
<1>12. ASSUME NEW w \in Workers, Select(w) PROVE WorldInv'
  <2>1. /\ refresh'[w] = [phase |-> "selected", client |-> refresh[w].client,
                          total |-> refresh[w].total, seen |-> analyzed[refresh[w].client]]
        /\ \A v \in Workers : v # w => refresh'[v] = refresh[v]
    BY <1>12, Replaced DEF Select
  <2>2. /\ refresh[w].phase # "idle"
        /\ \A v \in Workers :
             /\ refresh'[v].phase # "idle" => refresh[v].phase # "idle"
             /\ refresh[v].phase # "idle" =>
                  refresh'[v].client = refresh[v].client /\ refresh'[v].total = refresh[v].total
    BY <1>12, <2>1 DEF Select
  <2>3. UNCHANGED <<run, step, todo, exists, inbox, analyzed, touched>> /\ World' = World
    BY <1>12 DEF Select, script, database, World
  <2>4. RunsInOrder' /\ SeederOnTask'
    BY <2>2, <2>3 DEF RunsInOrder, SeederOnTask, Workers
  <2>5. Generated'
    BY <2>2, <2>3 DEF Generated
  <2> QED
    BY <2>3, <2>4, <2>5 DEF Rebuilt, LeftAlone
<1>13. ASSUME NEW w \in Workers, Write(w) PROVE WorldInv'
  BY <1>13, WriteKeepsWorld
<1>14. ASSUME NEW w \in Workers, WriteFails(w) PROVE WorldInv'
  <2>1. CASE w = Seeder
    BY <1>14, <2>1, DiesKeepsWorld DEF WriteFails
  <2>2. CASE w # Seeder
    BY <1>14, <2>2, GivesUpKeepsWorld DEF WriteFails
  <2> QED BY <2>1, <2>2
<1>15. CASE \E u \in Users : UserFails(u)
  BY <1>15, GivesUpKeepsWorld DEF UserFails, Workers
<1>16. CASE UNCHANGED vars
  BY <1>16
  DEF vars, World, RunsInOrder, SeederOnTask, Rebuilt, Generated, LeftAlone, BeforePeople
<1> QED
  BY <1>1, <1>2, <1>3, <1>4, <1>5, <1>6, <1>7, <1>8, <1>10, <1>11, <1>12, <1>13, <1>14,
     <1>15, <1>16
  DEF Next, SeedStep, RefreshStep

-----------------------------------------------------------------------------
(***************************************************************************)
(* A run that ends well leaves one world, complete, in which every client  *)
(* no user has touched is in the state the script prints for it, whatever  *)
(* died before it and whatever users refresh meanwhile.                    *)
(***************************************************************************)
THEOREM DoneIsAsAnnounced == Spec => []DoneShowsEveryState
<1>1. SeedInv /\ WorldInv => DoneShowsEveryState
  <2> SUFFICES ASSUME SeedInv, WorldInv, step = "done",
                      NEW id \in World \ touched
               PROVE  Shown(id) = Announced(id[2])
    BY DEF DoneShowsEveryState, WorldInv, Rebuilt
  <2>1. id[2] \in Clients
    BY DEF World
  <2>2. Base[id[2]] \in Nat \ {0} /\ Late[id[2]] \in Nat
    BY <2>1, SeedAssumption
  <2>3. inbox[id] = Base[id[2]] + Late[id[2]]
    BY DEF WorldInv, Rebuilt
  <2>4. analyzed[id] = IF id[2] \in Pregenerate THEN Base[id[2]] ELSE 0
    BY DEF WorldInv, LeftAlone
  <2>5. CASE id[2] \notin Pregenerate
    BY <2>4, <2>5 DEF Shown, Announced
  <2>6. CASE id[2] \in Pregenerate /\ Late[id[2]] = 0
    BY <2>2, <2>3, <2>4, <2>6 DEF Shown, Announced
  <2>7. CASE id[2] \in Pregenerate /\ Late[id[2]] # 0
    BY <2>2, <2>3, <2>4, <2>7 DEF Shown, Announced
  <2> QED BY <2>2, <2>5, <2>6, <2>7
<1> QED
  BY <1>1, SeedInvariant, WorldInvInit, WorldInvNext, PTL DEF Spec

=============================================================================
