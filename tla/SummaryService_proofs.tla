------------------------ MODULE SummaryService_proofs ------------------------
(***************************************************************************)
(* Theorems about SummaryService, for every value of its constants.        *)
(***************************************************************************)
EXTENDS SummaryService, ContextWindow_proofs, FiniteSetTheorems, TLAPS

-----------------------------------------------------------------------------
(* Facts about the operators *)

(* The maximum of two numbers is one of them, and not below either.        *)
LEMMA MaxOfTwo ==
  ASSUME NEW a \in Nat, NEW b \in Nat
  PROVE  /\ Max({a, b}) \in {a, b}
         /\ Max({a, b}) >= a
         /\ Max({a, b}) >= b
<1>1. \E x \in {a, b} : \A y \in {a, b} : x >= y
  <2>1. CASE a >= b  BY <2>1
  <2>2. CASE ~(a >= b)  BY <2>2
  <2> QED  BY <2>1, <2>2
<1> QED  BY <1>1 DEF Max

(* A prefix of a sequence.                                                 *)
LEMMA PrefixType ==
  ASSUME NEW S, NEW s \in Seq(S), NEW n \in 0 .. Len(s)
  PROVE  SubSeq(s, 1, n) \in Seq(S) /\ Len(SubSeq(s, 1, n)) = n
<1>1. \A i \in 1 .. n : s[i] \in S
  OBVIOUS
<1> QED  BY <1>1

(* A prompt is made of emails of the inbox.                                *)
LEMMA PromptWithinInbox ==
  ASSUME NEW bodies \in Seq(Nat), NEW analyzed \in Nat, NEW hasPrior
  PROVE  LET context == BuildRefreshContext(bodies, analyzed, hasPrior)
         IN  /\ context.selected \subseteq context.source
             /\ context.source = SourceStart(context.incremental, analyzed) .. Len(bodies)
             /\ context.source \subseteq 1 .. Len(bodies)
             /\ context.incremental <=> IsIncremental(Len(bodies), analyzed, hasPrior)
  BY DEF BuildRefreshContext, SourceStart

(* What the model is given, and returns, has its type.                     *)
LEMMA DraftType ==
  ASSUME NEW bodies \in Seq(Nat), NEW prior \in Blob
  PROVE  Draft(bodies, prior) \in Payload
<1> DEFINE context == BuildRefreshContext(bodies, Analyzed(prior), prior # NoRow)
<1>1. Analyzed(prior) \in Nat
  BY ServiceAssumption DEF Analyzed, Blob, Row
<1>2. /\ context.selected \subseteq context.source
      /\ context.source \subseteq 1 .. Len(bodies)
      /\ context.incremental => prior # NoRow
  BY <1>1, PromptWithinInbox DEF IsIncremental
<1>3. context.selected \in SUBSET Nat /\ context.source \ context.selected \in SUBSET Nat
  BY <1>2
<1>4. context.incremental => prior.ciphertext.payload \in Payload
  BY <1>2 DEF Blob, Row, Ciphertext
<1> HIDE DEF context
<1> QED  BY <1>3, <1>4 DEF Draft, Carried, Payload, context

(* Encrypting gives a row, and so does the UPDATE of some of its columns.  *)
LEMMA RowTypes ==
  /\ \A c \in Clients, payload \in Payload, total \in Nat :
       (nonce \in Nat /\ activeKey \in Nat) => NewRow(payload, c, total) \in Row
  /\ \A seen \in Row, new \in Row, stored \in Row : Written(seen, new, stored) \in Row
<1>1. ASSUME NEW c \in Clients, NEW payload \in Payload, NEW total \in Nat,
             nonce \in Nat, activeKey \in Nat
      PROVE  NewRow(payload, c, total) \in Row
  <2>1. Encrypt(payload, c) \in Ciphertext
    BY <1>1 DEF Encrypt, Ciphertext
  <2> QED  BY <2>1, <1>1 DEF NewRow, Row
<1>2. ASSUME NEW seen \in Row, NEW new \in Row, NEW stored \in Row
      PROVE  Written(seen, new, stored) \in Row
  BY <1>2 DEF Written, Row
<1> QED  BY <1>1, <1>2

-----------------------------------------------------------------------------
(* Type correctness *)

\* The fields of a request in each phase.
LEMMA GetFields ==
  ASSUME TypeOK, NEW r \in Readers
  PROVE  /\ gets[r].phase \in {"counted", "missed", "read", "answered"} =>
              /\ gets[r].client \in Clients
              /\ gets[r].total \in Nat
              /\ gets[r].floor \in Nat
         /\ gets[r].phase \in {"read", "answered"} => gets[r].blob \in Blob
  BY DEF TypeOK, GetState

(* The fields a refresh carries, phase by phase.                           *)
LEMMA PostFields ==
  ASSUME TypeOK, NEW p \in Refreshers
  PROVE  /\ posts[p].phase \in {"listed", "prompted", "selected", "committed"} =>
              posts[p].client \in Clients
         /\ posts[p].phase \in {"listed", "prompted"} => posts[p].total \in Nat
         /\ posts[p].phase = "prompted" => posts[p].draft \in Payload
         /\ posts[p].phase = "selected" => posts[p].seen \in Blob /\ posts[p].new \in Row
         /\ posts[p].phase = "committed" => posts[p].version \in Nat
  BY DEF TypeOK, PostState

(***************************************************************************)
(* TypeOK is not inductive by itself: an UPDATE copies columns of the      *)
(* stored row, so the row its SELECT saw must still be there, and a prompt *)
(* reads the emails listed, so they must be.                               *)
(***************************************************************************)
SeenRowStillStored ==
  \A p \in Refreshers :
    (posts[p].phase = "selected" /\ posts[p].seen # NoRow) =>
      rows[posts[p].client] # NoRow

ListedEmailsStillThere ==
  \A p \in Refreshers :
    posts[p].phase \in {"listed", "prompted"} =>
      posts[p].total \in 1 .. Len(inbox[posts[p].client])

TypeInv == TypeOK /\ SeenRowStillStored /\ ListedEmailsStillThere

(* What a COMMIT writes is a row.                                          *)
LEMMA RowToCommitType ==
  ASSUME TypeInv, NEW p \in Refreshers, posts[p].phase = "selected", ~InsertConflict(p)
  PROVE  /\ posts[p].client \in Clients
         /\ RowToCommit(p) \in Row
<1>1. /\ posts[p].client \in Clients
      /\ posts[p].seen \in Blob
      /\ posts[p].new \in Row
  BY PostFields DEF TypeInv
<1>2. posts[p].seen # NoRow => rows[posts[p].client] \in Row
  BY <1>1 DEF TypeInv, TypeOK, SeenRowStillStored, Blob
<1> QED  BY <1>1, <1>2, RowTypes DEF RowToCommit, Blob

(* Initially the types hold.                                               *)
LEMMA TypeInit == Init => TypeInv
  BY DEF Init, TypeInv, TypeOK, SeenRowStillStored, ListedEmailsStillThere, GetState, PostState, Blob

(* Every step keeps the types.                                             *)
LEMMA TypeStep == TypeInv /\ [Next]_vars => TypeInv'
<1> SUFFICES ASSUME TypeInv, [Next]_vars PROVE TypeInv'
  OBVIOUS
<1> USE DEF TypeInv, TypeOK, SeenRowStillStored, ListedEmailsStillThere
<1>1. ASSUME NEW r \in Readers, NEW c \in Clients, GetStart(r, c) PROVE TypeInv'
  BY <1>1 DEF GetStart, GetState
<1>2. ASSUME NEW r \in Readers, GetCached(r) PROVE TypeInv'
  <2>1. ASSUME CacheHit(r) PROVE gets' \in [Readers -> GetState]
    BY <1>2, <2>1, GetFields DEF GetCached, CacheHit, Respond, GetState
  <2>2. ASSUME CacheMiss(r) PROVE gets' \in [Readers -> GetState]
    <3>1. gets'[r] = [phase |-> "missed", client |-> gets[r].client,
                      total |-> gets[r].total, floor |-> gets[r].floor]
      BY <1>2, <2>2 DEF GetCached, CacheMiss, GetState
    <3>2. gets'[r] \in GetState
      BY <1>2, <3>1, GetFields DEF GetCached, GetState
    <3> QED  BY <2>2, <3>2 DEF CacheMiss
  <2> QED  BY <1>2, <2>1, <2>2 DEF GetCached
<1>3. ASSUME NEW r \in Readers, GetRow(r) PROVE TypeInv'
  BY <1>3 DEF GetRow, GetState
<1>4. ASSUME NEW r \in Readers, GetFill(r) PROVE TypeInv'
  BY <1>4 DEF GetFill, Respond, GetState
<1>5. ASSUME NEW r \in Readers, AbortGet(r) PROVE TypeInv'
  BY <1>5 DEF AbortGet, GetState
<1>6. ASSUME NEW p \in Refreshers, NEW c \in Clients, PostStart(p, c) PROVE TypeInv'
  BY <1>6 DEF PostStart, PostState
<1>7. ASSUME NEW p \in Refreshers, PostPrompt(p) PROVE TypeInv'
  <2> DEFINE c == posts[p].client
             bodies == SubSeq(inbox[c], 1, posts[p].total)
             draft == Draft(bodies, rows[c])
  <2>1. /\ c \in Clients
        /\ inbox[c] \in Seq(Nat)
        /\ posts[p].total \in 1 .. Len(inbox[c])
    BY <1>7, PostFields DEF PostPrompt
  <2>2. bodies \in Seq(Nat)
    BY <2>1, PrefixType
  <2>3. draft \in Payload
    BY <2>1, <2>2, DraftType
  <2> HIDE DEF draft
  <2>4. posts' \in [Refreshers -> PostState]
    BY <1>7, <2>1, <2>3 DEF PostPrompt, PostState, draft
  <2>5. \A q \in Refreshers : posts'[q].phase = "selected" => posts'[q] = posts[q]
    BY <1>7 DEF PostPrompt
  <2>6. posts'[p].phase = "prompted" =>
          posts'[p].total = posts[p].total /\ posts'[p].client = c
    BY <1>7 DEF PostPrompt
  <2>7. \A q \in Refreshers \ {p} : posts'[q] = posts[q]
    BY <1>7 DEF PostPrompt
  <2>8. posts'[p].phase \in {"prompted", "failed"}
    BY <1>7 DEF PostPrompt
  <2> QED  BY <1>7, <2>4, <2>5, <2>6, <2>7, <2>8 DEF PostPrompt
<1>8. ASSUME NEW p \in Refreshers, PostLlmFails(p) PROVE TypeInv'
  BY <1>8 DEF PostLlmFails, PostState
<1>9. ASSUME NEW p \in Refreshers, PostGenerate(p) PROVE TypeInv'
  <2> DEFINE c == posts[p].client
             new == NewRow(posts[p].draft, c, posts[p].total)
  <2>1. /\ c \in Clients
        /\ posts[p].draft \in Payload
        /\ posts[p].total \in Nat
    BY <1>9, PostFields DEF PostGenerate
  <2>2. new \in Row /\ rows[c] \in Blob
    BY <2>1, RowTypes
  <2> HIDE DEF new
  <2>3. posts' = [posts EXCEPT ![p] = [phase |-> "selected", client |-> c,
                                       seen |-> rows[c], new |-> new]]
    BY <1>9 DEF PostGenerate, new
  <2>4. posts' \in [Refreshers -> PostState]
    BY <2>1, <2>2, <2>3 DEF PostState
  <2>5. SeenRowStillStored'
    BY <1>9, <2>3 DEF PostGenerate
  <2> QED  BY <1>9, <2>4, <2>5 DEF PostGenerate
<1>10. ASSUME NEW p \in Refreshers, PostCommit(p) PROVE TypeInv'
  <2> DEFINE c == posts[p].client
             row == RowToCommit(p)
  <2>1. c \in Clients /\ row \in Row
    BY <1>10, RowToCommitType DEF PostCommit
  <2> HIDE DEF row
  <2>2. /\ rows' = [rows EXCEPT ![c] = row]
        /\ history' = [history EXCEPT ![c] = Append(@, row)]
        /\ posts' = [posts EXCEPT ![p] = [phase |-> "committed", client |-> c,
                                          version |-> Len(history[c]) + 1]]
        /\ UNCHANGED <<inbox, cache, gets, nonce, activeKey, acked>>
    BY <1>10 DEF PostCommit, row
  <2>3. posts' \in [Refreshers -> PostState]
    BY <2>1, <2>2 DEF PostState
  <2>4. rows' \in [Clients -> Blob] /\ history' \in [Clients -> Seq(Row)]
    BY <2>1, <2>2 DEF Blob
  <2>5. SeenRowStillStored'
    BY <2>1, <2>2, ServiceAssumption
  <2> QED  BY <2>2, <2>3, <2>4, <2>5
<1>17. ASSUME NEW p \in Refreshers, PostConflict(p) PROVE TypeInv'
  BY <1>17 DEF PostConflict, PostState
<1>11. ASSUME NEW p \in Refreshers, PostInvalidate(p) PROVE TypeInv'
  <2> DEFINE c == posts[p].client
  <2>1. c \in Clients /\ posts[p].version \in Nat
    BY <1>11, PostFields DEF PostInvalidate
  <2>2. acked' \in [Clients -> Nat]
    BY <1>11, <2>1, MaxOfTwo DEF PostInvalidate
  <2>3. cache' \in [Clients -> Blob \cup {NoBlob}]
    BY <1>11, <2>1 DEF PostInvalidate
  <2>4. posts' \in [Refreshers -> PostState]
    BY <1>11 DEF PostInvalidate, PostState
  <2>5. \A q \in Refreshers : posts'[q].phase = "selected" => posts'[q] = posts[q]
    BY <1>11 DEF PostInvalidate
  <2> QED  BY <1>11, <2>2, <2>3, <2>4, <2>5 DEF PostInvalidate
<1>12. ASSUME NEW p \in Refreshers, AbortPost(p) PROVE TypeInv'
  BY <1>12 DEF AbortPost, PostState
<1>13. ASSUME NEW c \in Clients, ReceiveEmail(c) PROVE TypeInv'
  <2>1. PICK chars \in Bodies : inbox' = [inbox EXCEPT ![c] = Append(@, chars)]
    BY <1>13 DEF ReceiveEmail
  <2>2. inbox[c] \in Seq(Nat) /\ chars \in Nat
    BY ServiceAssumption
  <2>3. inbox' \in [Clients -> Seq(Nat)]
    BY <2>1, <2>2
  <2>4. \A d \in Clients : Len(inbox[d]) \in Nat /\ Len(inbox'[d]) >= Len(inbox[d])
    BY <2>1, <2>2
  <2>5. UNCHANGED <<rows, cache, gets, posts, nonce, activeKey, history, acked>>
    BY <1>13 DEF ReceiveEmail
  <2>6. \A q \in Refreshers : posts[q].phase \in {"listed", "prompted"} =>
          posts[q].client \in Clients
    BY PostFields
  <2>7. ListedEmailsStillThere'
    BY <2>3, <2>4, <2>5, <2>6
  <2> QED  BY <2>3, <2>5, <2>7
<1>14. ASSUME NEW c \in Clients, Expire(c) PROVE TypeInv'
  BY <1>14 DEF Expire
<1>15. ASSUME Restart PROVE TypeInv'
  BY <1>15, ServiceAssumption DEF Restart, GetState, PostState
<1>16. CASE UNCHANGED vars
  BY <1>16 DEF vars
<1> QED
  BY <1>1, <1>2, <1>3, <1>4, <1>5, <1>6, <1>7, <1>8, <1>9, <1>10, <1>11, <1>12,
     <1>13, <1>14, <1>15, <1>16, <1>17 DEF Next, GetStep, PostStep

(***************************************************************************)
(* Every request, row, blob and counter keeps its shape in every           *)
(* interleaving of the handlers, with any faults and any restarts.         *)
(***************************************************************************)
THEOREM TypeCorrect == Spec => []TypeOK
<1>1. TypeInv => TypeOK
  BY DEF TypeInv
<1> QED  BY <1>1, TypeInit, TypeStep, PTL DEF Spec

(* So they hold in every behaviour.                                        *)
LEMMA TypeInvariant == Spec => []TypeInv
  BY TypeInit, TypeStep, PTL DEF Spec

-----------------------------------------------------------------------------
(* What is committed, cached, read and acknowledged *)

\* Redis holds committed rows.
CacheCommitted ==
  \A c \in Clients : cache[c] \in {NoBlob, NoRow} \cup CommittedSince(c, 1)

\* The table holds the last of the rows committed.
RowIsLastCommitted ==
  \A c \in Clients :
    \/ history[c] = <<>> /\ rows[c] = NoRow
    \/ Len(history[c]) > 0 /\ rows[c] = history[c][Len(history[c])]

\* A refresh that answered, or is about to, has committed.
AckedCommitted ==
  /\ \A c \in Clients : acked[c] <= Len(history[c])
  /\ \A p \in Refreshers : posts[p].phase = "committed" =>
       posts[p].version <= Len(history[posts[p].client])

\* What a reader holds was committed, and not before what it must see.
GoodRead(g) ==
  /\ g.phase \in {"counted", "missed", "read"} => g.floor <= Len(history[g.client])
  /\ g.phase \in {"read", "answered"} => g.blob \in {NoRow} \cup CommittedSince(g.client, 1)
  /\ (g.phase = "read" /\ g.floor > 0) => g.blob \in CommittedSince(g.client, g.floor)

ReadCommitted == \A r \in Readers : GoodRead(gets[r])

CommitInv == CacheCommitted /\ RowIsLastCommitted /\ AckedCommitted /\ ReadCommitted

\* Committing keeps what was committed and adds the new row at the end.
LEMMA CommitGrowsHistory ==
  ASSUME TypeInv, NEW p \in Refreshers, PostCommit(p), NEW c \in Clients
  PROVE  /\ Len(history[c]) <= Len(history'[c])
         /\ \A v \in Nat \ {0} : CommittedSince(c, v) \subseteq CommittedSince(c, v)'
<1> DEFINE d == posts[p].client
           row == RowToCommit(p)
<1>1. d \in Clients /\ row \in Row /\ history[c] \in Seq(Row)
  BY RowToCommitType DEF PostCommit, TypeInv, TypeOK
<1>2. history' = [history EXCEPT ![d] = Append(@, row)]
  BY DEF PostCommit
<1> HIDE DEF row
<1>3. CASE c = d
  <2>1. history'[c] = Append(history[c], row)
    BY <1>1, <1>2, <1>3 DEF TypeInv, TypeOK
  <2>2. /\ Len(history'[c]) = Len(history[c]) + 1
        /\ \A i \in 1 .. Len(history[c]) : history'[c][i] = history[c][i]
    BY <1>1, <2>1
  <2> QED  BY <1>1, <2>2 DEF CommittedSince
<1>4. CASE c # d
  BY <1>1, <1>2, <1>4 DEF CommittedSince, TypeInv, TypeOK
<1> QED  BY <1>3, <1>4

(* Initially nothing is committed, carried or acknowledged.                *)
LEMMA CommitInit == Init => CommitInv
  BY DEF Init, CommitInv, CacheCommitted, RowIsLastCommitted, AckedCommitted, ReadCommitted, GoodRead

\* A step of one reader, to a state that is good itself.
LEMMA ReaderStep ==
  ASSUME TypeInv, CommitInv, NEW r \in Readers, NEW g, GoodRead(g),
         gets' = [gets EXCEPT ![r] = g], UNCHANGED <<rows, posts, history, acked>>
  PROVE  RowIsLastCommitted' /\ AckedCommitted' /\ ReadCommitted'
<1>1. \A q \in Readers : gets'[q] \in {g, gets[q]}
  BY DEF TypeInv, TypeOK
<1>2. ReadCommitted'
  BY <1>1 DEF CommitInv, ReadCommitted, GoodRead, CommittedSince
<1> QED  BY <1>2 DEF CommitInv, RowIsLastCommitted, AckedCommitted

(* Every step keeps what is known of committed rows.                       *)
LEMMA CommitStep == TypeInv /\ CommitInv /\ [Next]_vars => CommitInv'
<1> SUFFICES ASSUME TypeInv, CommitInv, [Next]_vars PROVE CommitInv'
  OBVIOUS
<1> USE DEF CommitInv, TypeInv
<1>1. ASSUME NEW r \in Readers, NEW c \in Clients, GetStart(r, c) PROVE CommitInv'
  <2> DEFINE g == [phase |-> "counted", client |-> c,
                   total |-> Len(inbox[c]), floor |-> acked[c]]
  <2>1. GoodRead(g)
    BY <1>1 DEF GoodRead, AckedCommitted
  <2> HIDE DEF g
  <2>2. gets' = [gets EXCEPT ![r] = g] /\ UNCHANGED <<rows, cache, posts, history, acked>>
    BY <1>1 DEF GetStart, g
  <2> QED  BY <2>1, <2>2, ReaderStep DEF CacheCommitted, CommittedSince
<1>2. ASSUME NEW r \in Readers, NEW g,
             UNCHANGED <<rows, posts, history, acked>>, gets' = [gets EXCEPT ![r] = g],
             CacheCommitted', GoodRead(g)
      PROVE  CommitInv'
  BY <1>2, ReaderStep
<1>3. ASSUME NEW r \in Readers, GetCached(r) PROVE CommitInv'
  <2>1. gets[r].client \in Clients
    BY <1>3, GetFields DEF GetCached
  <2>2. gets'[r].phase = "answered" =>
          gets'[r].blob \in {NoRow} \cup CommittedSince(gets'[r].client, 1)
    <3>1. CASE CacheHit(r)
      BY <1>3, <2>1, <3>1 DEF CacheHit, Respond, TypeOK, CacheCommitted
    <3>2. CASE CacheMiss(r)
      BY <3>2 DEF CacheMiss, TypeOK
    <3> QED  BY <1>3, <3>1, <3>2 DEF GetCached
  <2>3. gets'[r].phase = "missed" =>
          gets'[r].client = gets[r].client /\ gets'[r].floor = gets[r].floor
    <3>1. CASE CacheHit(r)
      BY <3>1 DEF CacheHit, Respond, TypeOK
    <3>2. CASE CacheMiss(r)
      BY <1>3, <3>2 DEF GetCached, CacheMiss, TypeOK, GetState
    <3> QED  BY <1>3, <3>1, <3>2 DEF GetCached
  <2>4. gets'[r].phase \in {"answered", "failed", "missed"}
    <3>1. CASE CacheHit(r)
      BY <3>1 DEF CacheHit, Respond, TypeOK
    <3>2. CASE CacheMiss(r)
      BY <1>3, <3>2 DEF GetCached, CacheMiss, TypeOK, GetState
    <3> QED  BY <1>3, <3>1, <3>2 DEF GetCached
  <2>5. GoodRead(gets'[r])
    BY <1>3, <2>2, <2>3, <2>4 DEF GetCached, ReadCommitted, GoodRead
  <2>6. gets' = [gets EXCEPT ![r] = gets'[r]] /\ UNCHANGED <<rows, cache, posts, history, acked>>
    BY <1>3 DEF GetCached, CacheHit, CacheMiss, Respond, TypeOK
  <2> QED  BY <1>2, <2>5, <2>6 DEF CacheCommitted, CommittedSince
<1>4. ASSUME NEW r \in Readers, GetRow(r) PROVE CommitInv'
  <2> DEFINE d == gets[r].client
             g == [phase |-> "read", client |-> d, total |-> gets[r].total,
                   floor |-> gets[r].floor, blob |-> rows[d]]
  <2>1. /\ d \in Clients
        /\ gets[r].floor \in Nat
        /\ gets[r].floor <= Len(history[d])
    BY <1>4, GetFields DEF GetRow, ReadCommitted, GoodRead
  <2>2. GoodRead(g)
    <3>1. CASE history[d] = <<>> /\ rows[d] = NoRow
      <4>1. gets[r].floor = 0
        BY <2>1, <3>1
      <4> QED  BY <2>1, <3>1, <4>1 DEF GoodRead
    <3>2. CASE Len(history[d]) > 0 /\ rows[d] = history[d][Len(history[d])]
      <4>1. Len(history[d]) \in Nat /\ Len(history[d]) > 0
        BY <2>1, <3>2 DEF TypeOK
      <4>2. \A v \in Nat : v <= Len(history[d]) => rows[d] \in CommittedSince(d, v)
        BY <3>2, <4>1 DEF CommittedSince
      <4> QED  BY <2>1, <4>1, <4>2 DEF GoodRead
    <3> QED  BY <2>1, <3>1, <3>2 DEF RowIsLastCommitted
  <2> HIDE DEF g
  <2>3. gets' = [gets EXCEPT ![r] = g] /\ UNCHANGED <<rows, cache, posts, history, acked>>
    BY <1>4 DEF GetRow, g
  <2> QED  BY <1>2, <2>2, <2>3 DEF CacheCommitted, CommittedSince
<1>5. ASSUME NEW r \in Readers, GetFill(r) PROVE CommitInv'
  <2>1. /\ gets[r].client \in Clients
        /\ gets[r].blob \in {NoRow} \cup CommittedSince(gets[r].client, 1)
    BY <1>5, GetFields DEF GetFill, ReadCommitted, GoodRead
  <2>2. CacheCommitted'
    BY <1>5, <2>1 DEF GetFill, TypeOK, CacheCommitted, CommittedSince
  <2>3. /\ gets'[r].phase \in {"answered", "failed"}
        /\ gets'[r].phase = "answered" =>
             gets'[r].client = gets[r].client /\ gets'[r].blob = gets[r].blob
    BY <1>5 DEF GetFill, Respond, TypeOK
  <2>4. GoodRead(gets'[r])
    BY <2>1, <2>3 DEF GoodRead
  <2>5. gets' = [gets EXCEPT ![r] = gets'[r]] /\ UNCHANGED <<rows, posts, history, acked>>
    BY <1>5 DEF GetFill, Respond, TypeOK
  <2> QED  BY <1>2, <2>2, <2>4, <2>5
<1>13. ASSUME NEW r \in Readers, AbortGet(r) PROVE CommitInv'
  <2>1. GoodRead([phase |-> "failed"])
    BY DEF GoodRead
  <2> QED  BY <1>2, <1>13, <2>1 DEF AbortGet, CacheCommitted, CommittedSince
<1>6. ASSUME NEW p \in Refreshers,
             \/ \E c \in Clients : PostStart(p, c)
             \/ PostPrompt(p) \/ PostLlmFails(p) \/ PostGenerate(p) \/ PostConflict(p)
             \/ AbortPost(p)
      PROVE  CommitInv'
  <2>1. UNCHANGED <<rows, cache, gets, history, acked>>
    BY <1>6 DEF PostStart, PostPrompt, PostLlmFails, PostGenerate, PostConflict, AbortPost
  <2>2. \A q \in Refreshers : posts'[q].phase = "committed" => posts'[q] = posts[q]
    BY <1>6 DEF TypeOK, PostStart, PostPrompt, PostLlmFails, PostGenerate, PostConflict,
       AbortPost
  <2> QED  BY <2>1, <2>2 DEF CacheCommitted, RowIsLastCommitted, AckedCommitted,
     ReadCommitted, GoodRead, CommittedSince
<1>7. ASSUME NEW p \in Refreshers, PostCommit(p) PROVE CommitInv'
  <2> DEFINE d == posts[p].client
             row == RowToCommit(p)
  <2>1. d \in Clients /\ row \in Row
    BY <1>7, RowToCommitType DEF PostCommit
  <2>2. \A c \in Clients :
          /\ Len(history[c]) <= Len(history'[c])
          /\ \A v \in Nat \ {0} : CommittedSince(c, v) \subseteq CommittedSince(c, v)'
    BY <1>7, CommitGrowsHistory
  <2> HIDE DEF row
  <2>3. /\ rows' = [rows EXCEPT ![d] = row]
        /\ history' = [history EXCEPT ![d] = Append(@, row)]
        /\ posts' = [posts EXCEPT ![p] = [phase |-> "committed", client |-> d,
                                          version |-> Len(history[d]) + 1]]
        /\ UNCHANGED <<cache, gets, acked>>
    BY <1>7 DEF PostCommit, row
  <2>4. CacheCommitted'
    BY <2>2, <2>3 DEF CacheCommitted
  <2>5. RowIsLastCommitted'
    BY <2>1, <2>3 DEF RowIsLastCommitted, TypeOK
  <2>6. AckedCommitted'
    BY <2>1, <2>2, <2>3, PostFields DEF AckedCommitted, TypeOK
  <2>7. ASSUME NEW r \in Readers PROVE GoodRead(gets[r])'
    <3>1. gets' = gets
      BY <2>3
    <3>2. CASE gets[r].phase \in {"counted", "missed", "read", "answered"}
      <4>1. gets[r].client \in Clients /\ gets[r].floor \in Nat
        BY <3>2, GetFields
      <4> QED  BY <2>2, <3>1, <4>1 DEF ReadCommitted, GoodRead, TypeOK
    <3>3. CASE gets[r].phase \notin {"counted", "missed", "read", "answered"}
      BY <3>1, <3>3 DEF GoodRead
    <3> QED  BY <3>2, <3>3
  <2> QED  BY <2>4, <2>5, <2>6, <2>7 DEF ReadCommitted
<1>8. ASSUME NEW p \in Refreshers, PostInvalidate(p) PROVE CommitInv'
  <2>1. /\ posts[p].client \in Clients
        /\ posts[p].version \in Nat
        /\ posts[p].version <= Len(history[posts[p].client])
    BY <1>8, PostFields DEF PostInvalidate, AckedCommitted
  <2>2. \A c \in Clients : acked'[c] <= Len(history[c])
    BY <1>8, <2>1, MaxOfTwo DEF PostInvalidate, AckedCommitted, TypeOK
  <2>3. CacheCommitted'
    <3>1. \A c \in Clients : cache'[c] \in {NoBlob, cache[c]}
      BY <1>8, <2>1 DEF PostInvalidate, TypeOK
    <3> QED  BY <1>8, <3>1 DEF PostInvalidate, CacheCommitted, CommittedSince
  <2>4. AckedCommitted'
    BY <1>8, <2>2 DEF PostInvalidate, AckedCommitted, TypeOK
  <2> QED  BY <1>8, <2>3, <2>4 DEF PostInvalidate, RowIsLastCommitted, ReadCommitted,
     GoodRead, CommittedSince
<1>9. ASSUME NEW c \in Clients, ReceiveEmail(c) PROVE CommitInv'
  BY <1>9 DEF ReceiveEmail,
     CacheCommitted, RowIsLastCommitted, AckedCommitted, ReadCommitted,
     GoodRead, CommittedSince
<1>10. ASSUME NEW c \in Clients, Expire(c) PROVE CommitInv'
  BY <1>10 DEF Expire, TypeOK,
     CacheCommitted, RowIsLastCommitted, AckedCommitted, ReadCommitted,
     GoodRead, CommittedSince
<1>11. ASSUME Restart PROVE CommitInv'
  BY <1>11 DEF Restart,
     CacheCommitted, RowIsLastCommitted, AckedCommitted, ReadCommitted,
     GoodRead, CommittedSince
<1>12. CASE UNCHANGED vars
  BY <1>12 DEF vars,
     CacheCommitted, RowIsLastCommitted, AckedCommitted, ReadCommitted,
     GoodRead, CommittedSince
<1> QED
  BY <1>1, <1>2, <1>3, <1>4, <1>5, <1>6, <1>7, <1>8, <1>9, <1>10, <1>11, <1>12,
     <1>13 DEF Next, GetStep, PostStep

(* So it holds in every behaviour.                                         *)
LEMMA CommitInvariant == Spec => []CommitInv
  BY CommitInit, CommitStep, TypeInvariant, PTL DEF Spec

(***************************************************************************)
(* In every interleaving of reads and refreshes, with any Redis and        *)
(* database faults and restarts, Redis never holds a summary that was not  *)
(* committed to Postgres.                                                  *)
(***************************************************************************)
THEOREM CacheOnlyCommitted == Spec => []CacheHoldsCommittedRow
<1>1. TypeInv /\ CommitInv => CacheHoldsCommittedRow
  BY DEF TypeInv, TypeOK, CommitInv, CacheCommitted, CacheHoldsCommittedRow, CommittedSince, Range
<1> QED  BY <1>1, TypeInvariant, CommitInvariant, PTL

(***************************************************************************)
(* A read that misses the cache never returns a summary older than one a   *)
(* refresh had answered with before the read began.                        *)
(***************************************************************************)
THEOREM MissesAreCurrent == Spec => []MissSeesAcknowledgedRefresh
<1>1. CommitInv => MissSeesAcknowledgedRefresh
  BY DEF CommitInv, ReadCommitted, GoodRead, MissSeesAcknowledgedRefresh
<1> QED  BY <1>1, CommitInvariant, PTL

-----------------------------------------------------------------------------
(* Reading what a refresh has stored *)

\* What is cached is no older than the last refresh that has answered.
CurrentEntry(c) ==
  acked[c] > 0 => cache[c] \in {NoBlob} \cup CommittedSince(c, acked[c])

(***************************************************************************)
(* A read that has its row holds one no older than any refresh that has    *)
(* answered by now, not only those that had when it began: it is what it   *)
(* caches that later reads will see.                                       *)
(***************************************************************************)
CurrentRead(g) ==
  /\ g.phase \in {"counted", "missed", "read"} => g.floor <= acked[g.client]
  /\ (g.phase = "read" /\ acked[g.client] > 0) =>
       g.blob \in CommittedSince(g.client, acked[g.client])
  /\ (g.phase = "answered" /\ g.floor > 0) => g.blob \in CommittedSince(g.client, g.floor)

CurrentInv ==
  /\ \A c \in Clients : CurrentEntry(c)
  /\ \A r \in Readers : CurrentRead(gets[r])

(* What was committed since a version was committed since an earlier one.  *)
LEMMA SinceEarlier ==
  ASSUME NEW c, NEW v \in Nat, NEW w \in Nat, v <= w, Len(history[c]) \in Nat
  PROVE  CommittedSince(c, w) \subseteq CommittedSince(c, v)
<1>1. w .. Len(history[c]) \subseteq v .. Len(history[c])
  OBVIOUS
<1> QED  BY <1>1 DEF CommittedSince

(* A step of one reader, to a state that is current itself.                *)
LEMMA CurrentReaderStep ==
  ASSUME TypeInv, CurrentInv, NEW r \in Readers, NEW g, CurrentRead(g),
         gets' = [gets EXCEPT ![r] = g], UNCHANGED <<history, acked>>,
         \A c \in Clients : CurrentEntry(c)'
  PROVE  CurrentInv'
<1>1. \A q \in Readers : gets'[q] \in {g, gets[q]}
  BY DEF TypeInv, TypeOK
<1>2. \A q \in Readers : CurrentRead(gets[q])'
  BY <1>1 DEF CurrentInv, CurrentRead, CommittedSince
<1> QED  BY <1>2 DEF CurrentInv

(* An answer given from a current blob is current.                         *)
LEMMA CurrentAnswer ==
  ASSUME TypeInv, NEW r \in Readers, NEW blob,
         gets[r].client \in Clients, gets[r].floor \in Nat,
         gets[r].floor <= acked[gets[r].client], Respond(r, blob),
         acked[gets[r].client] > 0 =>
           blob \in CommittedSince(gets[r].client, acked[gets[r].client])
  PROVE  /\ gets' = [gets EXCEPT ![r] = gets'[r]]
         /\ CurrentRead(gets'[r])
<1> DEFINE c == gets[r].client
<1>1. acked[c] \in Nat /\ Len(history[c]) \in Nat
  BY DEF TypeInv, TypeOK
<1>2. /\ gets' = [gets EXCEPT ![r] = gets'[r]]
      /\ gets'[r].phase \in {"answered", "failed"}
      /\ gets'[r].phase = "answered" =>
           /\ gets'[r].client = c
           /\ gets'[r].floor = gets[r].floor
           /\ gets'[r].blob = blob
  BY DEF Respond, TypeInv, TypeOK
<1>3. gets[r].floor > 0 => blob \in CommittedSince(c, gets[r].floor)
  BY <1>1, SinceEarlier
<1> QED  BY <1>2, <1>3 DEF CurrentRead

\* The cache_delete of a refresh that answers is not lost.
DeleteArrives ==
  \A p \in Refreshers : PostInvalidate(p) => cache'[posts[p].client] = NoBlob

(* While no fill overlaps an invalidation and none is lost, what is cached *)
(* and what is read stays current in every step.                           *)
LEMMA CurrentStep ==
  TypeInv /\ CommitInv /\ NoFillOverlap /\ CurrentInv /\ [Next]_vars /\ [DeleteArrives]_vars =>
    CurrentInv'
<1> SUFFICES ASSUME TypeInv, CommitInv, NoFillOverlap, CurrentInv, [Next]_vars,
                    [DeleteArrives]_vars
             PROVE  CurrentInv'
  OBVIOUS
<1>1. ASSUME NEW r \in Readers, NEW c \in Clients, GetStart(r, c) PROVE CurrentInv'
  <2> DEFINE g == [phase |-> "counted", client |-> c,
                   total |-> Len(inbox[c]), floor |-> acked[c]]
  <2>1. CurrentRead(g)
    BY <1>1 DEF CurrentRead, TypeInv, TypeOK
  <2> HIDE DEF g
  <2>2. gets' = [gets EXCEPT ![r] = g] /\ UNCHANGED <<cache, history, acked>>
    BY <1>1 DEF GetStart, g
  <2>3. \A d \in Clients : CurrentEntry(d)'
    BY <2>2 DEF CurrentInv, CurrentEntry, CommittedSince
  <2> QED  BY <2>1, <2>2, <2>3, CurrentReaderStep
<1>2. ASSUME NEW r \in Readers, GetCached(r) PROVE CurrentInv'
  <2> DEFINE c == gets[r].client
  <2>1. /\ c \in Clients /\ gets[r].floor \in Nat
        /\ gets[r].floor <= acked[c]
    BY <1>2, GetFields DEF GetCached, CurrentInv, CurrentRead, TypeInv
  <2>2. UNCHANGED <<cache, history, acked>>
    BY <1>2 DEF GetCached
  <2>3. \A d \in Clients : CurrentEntry(d)'
    BY <2>2 DEF CurrentInv, CurrentEntry, CommittedSince
  <2>4. CASE CacheHit(r)
    <3>1. acked[c] > 0 => cache[c] \in CommittedSince(c, acked[c])
      BY <2>1, <2>4 DEF CacheHit, CurrentInv, CurrentEntry
    <3>2. gets' = [gets EXCEPT ![r] = gets'[r]] /\ CurrentRead(gets'[r])
      BY <2>1, <2>4, <3>1, CurrentAnswer DEF CacheHit
    <3> QED  BY <2>2, <2>3, <3>2, CurrentReaderStep
  <2>5. CASE CacheMiss(r)
    <3>1. /\ gets' = [gets EXCEPT ![r] = gets'[r]]
          /\ gets'[r].phase = "missed"
          /\ gets'[r].client = c
          /\ gets'[r].floor = gets[r].floor
      BY <1>2, <2>5 DEF GetCached, CacheMiss, TypeInv, TypeOK, GetState
    <3>2. CurrentRead(gets'[r])
      BY <2>1, <3>1 DEF CurrentRead
    <3> QED  BY <2>2, <2>3, <3>1, <3>2, CurrentReaderStep
  <2> QED  BY <1>2, <2>4, <2>5 DEF GetCached
<1>3. ASSUME NEW r \in Readers, GetRow(r) PROVE CurrentInv'
  <2> DEFINE c == gets[r].client
             g == [phase |-> "read", client |-> c, total |-> gets[r].total,
                   floor |-> gets[r].floor, blob |-> rows[c]]
  <2>1. /\ c \in Clients /\ gets[r].floor \in Nat
        /\ gets[r].floor <= acked[c]
        /\ acked[c] \in Nat /\ acked[c] <= Len(history[c])
        /\ history[c] \in Seq(Row)
    BY <1>3, GetFields DEF GetRow, CurrentInv, CurrentRead, TypeInv, TypeOK, CommitInv,
       AckedCommitted
  <2>2. acked[c] > 0 => rows[c] \in CommittedSince(c, acked[c])
    <3> SUFFICES ASSUME acked[c] > 0 PROVE rows[c] \in CommittedSince(c, acked[c])
      OBVIOUS
    <3>1. Len(history[c]) \in Nat /\ Len(history[c]) > 0
      BY <2>1
    <3>2. rows[c] = history[c][Len(history[c])]
      BY <2>1, <3>1 DEF CommitInv, RowIsLastCommitted
    <3> QED  BY <2>1, <3>1, <3>2 DEF CommittedSince
  <2>3. CurrentRead(g)
    BY <2>1, <2>2 DEF CurrentRead
  <2> HIDE DEF g
  <2>4. gets' = [gets EXCEPT ![r] = g] /\ UNCHANGED <<cache, history, acked>>
    BY <1>3 DEF GetRow, g
  <2>5. \A d \in Clients : CurrentEntry(d)'
    BY <2>4 DEF CurrentInv, CurrentEntry, CommittedSince
  <2> QED  BY <2>3, <2>4, <2>5, CurrentReaderStep
<1>4. ASSUME NEW r \in Readers, GetFill(r) PROVE CurrentInv'
  <2> DEFINE c == gets[r].client
             blob == gets[r].blob
  <2>1. /\ c \in Clients /\ gets[r].floor \in Nat
        /\ gets[r].floor <= acked[c]
        /\ acked[c] > 0 => blob \in CommittedSince(c, acked[c])
    BY <1>4, GetFields DEF GetFill, CurrentInv, CurrentRead, TypeInv
  <2>2. gets' = [gets EXCEPT ![r] = gets'[r]] /\ CurrentRead(gets'[r])
    BY <1>4, <2>1, CurrentAnswer DEF GetFill
  <2>3. cache' = [cache EXCEPT ![c] = blob] \/ UNCHANGED cache
    BY <1>4 DEF GetFill
  <2>4. UNCHANGED <<history, acked>>
    BY <1>4 DEF GetFill
  <2>5. \A d \in Clients : CurrentEntry(d)'
    <3>1. \A d \in Clients \ {c} : cache'[d] = cache[d]
      BY <2>3 DEF TypeInv, TypeOK
    <3>2. cache'[c] \in {blob, cache[c]}
      BY <2>1, <2>3 DEF TypeInv, TypeOK
    <3> HIDE DEF blob
    <3> QED  BY <2>1, <2>4, <3>1, <3>2 DEF CurrentInv, CurrentEntry, CommittedSince
  <2> QED  BY <2>2, <2>4, <2>5, CurrentReaderStep
<1>5. ASSUME NEW r \in Readers, AbortGet(r) PROVE CurrentInv'
  <2>1. CurrentRead([phase |-> "failed"])
    BY DEF CurrentRead
  <2>2. gets' = [gets EXCEPT ![r] = [phase |-> "failed"]] /\ UNCHANGED <<cache, history, acked>>
    BY <1>5 DEF AbortGet
  <2>3. \A d \in Clients : CurrentEntry(d)'
    BY <2>2 DEF CurrentInv, CurrentEntry, CommittedSince
  <2> QED  BY <2>1, <2>2, <2>3, CurrentReaderStep
<1>6. ASSUME UNCHANGED <<gets, history, acked>>,
             \A c \in Clients : cache'[c] \in {NoBlob, cache[c]}
      PROVE  CurrentInv'
  BY <1>6 DEF CurrentInv, CurrentEntry, CurrentRead, CommittedSince
<1>7. ASSUME NEW p \in Refreshers,
             \/ \E c \in Clients : PostStart(p, c)
             \/ PostPrompt(p) \/ PostLlmFails(p) \/ PostGenerate(p) \/ PostConflict(p)
             \/ AbortPost(p)
      PROVE  CurrentInv'
  BY <1>6, <1>7 DEF PostStart, PostPrompt, PostLlmFails, PostGenerate, PostConflict, AbortPost
<1>8. ASSUME NEW p \in Refreshers, PostCommit(p) PROVE CurrentInv'
  <2>1. \A c \in Clients, v \in Nat \ {0} : CommittedSince(c, v) \subseteq CommittedSince(c, v)'
    BY <1>8, CommitGrowsHistory
  <2>2. UNCHANGED <<cache, gets, acked>>
    BY <1>8 DEF PostCommit
  <2>3. \A c \in Clients : acked[c] \in Nat
    BY DEF TypeInv, TypeOK
  <2>4. \A c \in Clients : CurrentEntry(c)'
    BY <2>1, <2>2, <2>3 DEF CurrentInv, CurrentEntry
  <2>5. ASSUME NEW r \in Readers PROVE CurrentRead(gets[r])'
    <3>1. CurrentRead(gets[r])
      BY DEF CurrentInv
    <3>2. gets[r].phase \in {"counted", "missed", "read", "answered"} =>
            gets[r].client \in Clients /\ gets[r].floor \in Nat
      BY GetFields DEF TypeInv
    <3> QED  BY <2>1, <2>2, <2>3, <3>1, <3>2 DEF CurrentRead
  <2> QED  BY <2>4, <2>5 DEF CurrentInv
<1>9. ASSUME NEW p \in Refreshers, PostInvalidate(p) PROVE CurrentInv'
  <2> DEFINE c == posts[p].client
  <2>1. c \in Clients /\ posts[p].version \in Nat /\ posts[p].phase = "committed"
    BY <1>9, PostFields DEF PostInvalidate, TypeInv
  <2>2. /\ cache' \in {cache, [cache EXCEPT ![c] = NoBlob]}
        /\ acked' = [acked EXCEPT ![c] = Max({@, posts[p].version})]
        /\ UNCHANGED <<gets, history>>
    BY <1>9 DEF PostInvalidate
  <2>3. /\ acked'[c] \in Nat /\ acked'[c] >= acked[c]
        /\ \A d \in Clients \ {c} : acked'[d] = acked[d] /\ cache'[d] = cache[d]
    BY <2>1, <2>2, MaxOfTwo DEF TypeInv, TypeOK
  <2>6. cache'[c] = NoBlob
    <3>1. posts' # posts
      BY <1>9, <2>1 DEF PostInvalidate, TypeInv, TypeOK
    <3> QED  BY <1>9, <3>1 DEF DeleteArrives, vars
  <2>4. \A d \in Clients : CurrentEntry(d)'
    BY <2>2, <2>3, <2>6 DEF CurrentInv, CurrentEntry, CommittedSince
  <2>5. ASSUME NEW r \in Readers PROVE CurrentRead(gets[r])'
    <3>1. CurrentRead(gets[r])
      BY DEF CurrentInv
    <3>2. gets[r].phase \in {"counted", "missed", "read", "answered"} =>
            /\ gets[r].client \in Clients /\ gets[r].floor \in Nat
            /\ acked[gets[r].client] \in Nat
      BY GetFields DEF TypeInv, TypeOK
    <3>3. gets[r].phase = "read" => gets[r].client # c
      BY <2>1 DEF NoFillOverlap
    <3>4. gets[r].phase \in {"counted", "missed", "read"} =>
            gets[r].floor <= acked'[gets[r].client]
      BY <2>3, <3>1, <3>2 DEF CurrentRead
    <3> QED  BY <2>2, <2>3, <3>1, <3>2, <3>3, <3>4 DEF CurrentRead, CommittedSince
  <2> QED  BY <2>4, <2>5 DEF CurrentInv
<1>10. ASSUME NEW c \in Clients, ReceiveEmail(c) \/ Expire(c) PROVE CurrentInv'
  BY <1>6, <1>10 DEF ReceiveEmail, Expire, TypeInv, TypeOK
<1>11. ASSUME Restart PROVE CurrentInv'
  BY <1>11 DEF Restart, CurrentInv, CurrentEntry, CurrentRead, CommittedSince
<1>12. CASE UNCHANGED vars
  BY <1>6, <1>12 DEF vars
<1> QED
  BY <1>1, <1>2, <1>3, <1>4, <1>5, <1>7, <1>8, <1>9, <1>10, <1>11, <1>12
  DEF Next, GetStep, PostStep

(***************************************************************************)
(* A GET returns less than what a refresh had answered before it began in  *)
(* two ways only: a read is between its SELECT and its cache_set while a   *)
(* refresh of the client is between COMMIT and cache_delete, or a          *)
(* cache_delete is lost.  Failed reads and writes of the cache, requests   *)
(* that die half way and restarts are not what breaks it.                  *)
(***************************************************************************)
THEOREM StaleReadsHaveTwoCauses ==
  Spec => ([]NoFillOverlap /\ [][DeleteArrives]_vars => []ReadYourRefresh)
<1>1. Init => CurrentInv
  BY DEF Init, CurrentInv, CurrentEntry, CurrentRead
<1>2. TypeInv /\ CommitInv /\ NoFillOverlap /\ CurrentInv /\ [Next]_vars /\ [DeleteArrives]_vars =>
        CurrentInv'
  BY CurrentStep
<1>3. CurrentInv => ReadYourRefresh
  BY DEF CurrentInv, CurrentRead, ReadYourRefresh
<1> QED  BY <1>1, <1>2, <1>3, TypeInvariant, CommitInvariant, PTL DEF Spec

(***************************************************************************)
(* So, where Redis does what it is told, a GET that begins after a refresh *)
(* has answered returns what that one or a later one stored, for as long   *)
(* as no fill overlaps an invalidation.                                    *)
(***************************************************************************)
THEOREM QuietFillsReadable ==
  ASSUME RedisFaults = FALSE
  PROVE  Spec => QuietFillsReadYourRefresh
<1>1. TypeInv /\ [Next]_vars => [DeleteArrives]_vars
  <2> SUFFICES ASSUME TypeInv, NEW p \in Refreshers, PostInvalidate(p)
               PROVE  cache'[posts[p].client] = NoBlob
    BY DEF DeleteArrives
  <2>1. posts[p].client \in Clients
    BY PostFields DEF PostInvalidate, TypeInv
  <2> QED  BY <2>1 DEF PostInvalidate, TypeInv, TypeOK
<1> QED
  BY <1>1, StaleReadsHaveTwoCauses, TypeInvariant, PTL DEF Spec, QuietFillsReadYourRefresh

-----------------------------------------------------------------------------
(* Rows and the inbox *)

DraftCovers(payload) == payload.emails \cup payload.dropped

(***************************************************************************)
(* What a prompt accounts for: never more than the listed emails and the   *)
(* prior summary; exactly the listed emails when the prior summary         *)
(* accounts for exactly the emails it counts and the provider reads it.    *)
(***************************************************************************)
LEMMA DraftCoverage ==
  ASSUME NEW bodies \in Seq(Nat), NEW prior \in Blob
  PROVE  /\ DraftCovers(Draft(bodies, prior)) \subseteq
              (1 .. Len(bodies)) \cup (IF prior = NoRow THEN {} ELSE Covered(prior))
         /\ (ProviderReadsPrior /\ (prior = NoRow \/ Covered(prior) = 1 .. prior.analyzed)) =>
              DraftCovers(Draft(bodies, prior)) = 1 .. Len(bodies)
<1> DEFINE context == BuildRefreshContext(bodies, Analyzed(prior), prior # NoRow)
           draft == Draft(bodies, prior)
<1>1. Analyzed(prior) \in Nat
  BY ServiceAssumption DEF Analyzed, Blob, Row
<1>2. /\ context.selected \subseteq context.source
      /\ context.source = SourceStart(context.incremental, Analyzed(prior)) .. Len(bodies)
      /\ context.source \subseteq 1 .. Len(bodies)
      /\ context.incremental <=> IsIncremental(Len(bodies), Analyzed(prior), prior # NoRow)
  BY <1>1, PromptWithinInbox
<1> HIDE DEF context
<1>3. CASE context.incremental
  <2>1. prior # NoRow /\ Analyzed(prior) = prior.analyzed /\ prior.analyzed < Len(bodies)
    BY <1>2, <1>3 DEF IsIncremental, Analyzed
  <2>2. DraftCovers(draft) =
          IF ProviderReadsPrior THEN Covered(prior) \cup context.source ELSE context.source
    BY <1>2, <1>3 DEF Draft, Carried, DraftCovers, Covered, context
  <2>3. context.source = (prior.analyzed + 1) .. Len(bodies)
    BY <1>2, <1>3, <2>1 DEF SourceStart
  <2>4. (ProviderReadsPrior /\ Covered(prior) = 1 .. prior.analyzed) =>
          DraftCovers(draft) = 1 .. Len(bodies)
    BY <1>1, <2>1, <2>2, <2>3
  <2> QED  BY <1>2, <2>1, <2>2, <2>4
<1>4. CASE ~context.incremental
  <2>1. DraftCovers(draft) = context.source
    BY <1>2, <1>4 DEF Draft, Carried, DraftCovers, context
  <2>2. context.source = 1 .. Len(bodies)
    BY <1>2, <1>4 DEF SourceStart
  <2> QED  BY <2>1, <2>2
<1> QED  BY <1>3, <1>4

WithinInbox(row, c) ==
  /\ row.analyzed \in 1 .. Len(inbox[c])
  /\ Covered(row) \subseteq 1 .. Len(inbox[c])

InboxInv ==
  /\ \A c \in Clients : rows[c] # NoRow => WithinInbox(rows[c], c)
  /\ \A p \in Refreshers :
       /\ posts[p].phase = "prompted" =>
            DraftCovers(posts[p].draft) \subseteq 1 .. Len(inbox[posts[p].client])
       /\ posts[p].phase = "selected" => WithinInbox(posts[p].new, posts[p].client)

\* A step that adds neither a row, a draft nor a row to be written.
LEMMA InboxQuiet ==
  ASSUME TypeInv, InboxInv, UNCHANGED <<inbox, rows>>,
         \A p \in Refreshers :
           posts'[p].phase \in {"prompted", "selected"} => posts'[p] = posts[p]
  PROVE  InboxInv'
  BY DEF InboxInv, WithinInbox

(* Every step keeps drafts and rows within the inbox.                      *)
LEMMA InboxStep == TypeInv /\ InboxInv /\ [Next]_vars => InboxInv'
<1> SUFFICES ASSUME TypeInv, InboxInv, [Next]_vars PROVE InboxInv'
  OBVIOUS
<1>1. ASSUME NEW r \in Readers,
             \/ \E c \in Clients : GetStart(r, c)
             \/ GetStep(r) \/ AbortGet(r)
      PROVE  InboxInv'
  BY <1>1, InboxQuiet DEF GetStart, GetStep, GetCached, GetRow, GetFill, AbortGet
<1>2. ASSUME NEW p \in Refreshers,
             \/ \E c \in Clients : PostStart(p, c)
             \/ PostLlmFails(p) \/ PostConflict(p) \/ PostInvalidate(p) \/ AbortPost(p)
      PROVE  InboxInv'
  BY <1>2, InboxQuiet DEF TypeInv, TypeOK, PostStart, PostLlmFails, PostConflict,
     PostInvalidate, AbortPost
<1>3. ASSUME NEW p \in Refreshers, PostPrompt(p) PROVE InboxInv'
  <2> DEFINE c == posts[p].client
             bodies == SubSeq(inbox[c], 1, posts[p].total)
             draft == Draft(bodies, rows[c])
  <2>1. /\ c \in Clients
        /\ inbox[c] \in Seq(Nat)
        /\ rows[c] \in Blob
        /\ posts[p].total \in 1 .. Len(inbox[c])
    BY <1>3, PostFields DEF PostPrompt, TypeInv, TypeOK, ListedEmailsStillThere
  <2>2. bodies \in Seq(Nat) /\ Len(bodies) = posts[p].total
    BY <2>1, PrefixType
  <2>3. DraftCovers(draft) \subseteq 1 .. Len(inbox[c])
    <3>1. DraftCovers(draft) \subseteq
            (1 .. Len(bodies)) \cup (IF rows[c] = NoRow THEN {} ELSE Covered(rows[c]))
      BY <2>1, <2>2, DraftCoverage
    <3>2. 1 .. Len(bodies) \subseteq 1 .. Len(inbox[c])
      BY <2>1, <2>2
    <3>3. rows[c] # NoRow => Covered(rows[c]) \subseteq 1 .. Len(inbox[c])
      BY <2>1 DEF InboxInv, WithinInbox
    <3> HIDE DEF bodies, draft
    <3> QED  BY <3>1, <3>2, <3>3
  <2> HIDE DEF draft
  <2>4. posts'[p].phase = "prompted" => posts'[p].draft = draft /\ posts'[p].client = c
    BY <1>3 DEF PostPrompt, TypeInv, TypeOK, draft
  <2>5. posts'[p].phase \in {"prompted", "failed"}
    BY <1>3 DEF PostPrompt, TypeInv, TypeOK
  <2>6. \A q \in Refreshers \ {p} : posts'[q] = posts[q]
    BY <1>3 DEF PostPrompt, TypeInv, TypeOK
  <2>7. UNCHANGED <<inbox, rows>>
    BY <1>3 DEF PostPrompt
  <2> QED  BY <2>3, <2>4, <2>5, <2>6, <2>7 DEF InboxInv, WithinInbox
<1>4. ASSUME NEW p \in Refreshers, PostGenerate(p) PROVE InboxInv'
  <2> DEFINE c == posts[p].client
             new == NewRow(posts[p].draft, c, posts[p].total)
  <2>1. posts[p].total \in 1 .. Len(inbox[c])
    BY <1>4 DEF PostGenerate, TypeInv, ListedEmailsStillThere
  <2>2. WithinInbox(new, c)
    BY <1>4, <2>1 DEF PostGenerate, InboxInv, WithinInbox, NewRow, Encrypt, Covered, DraftCovers
  <2> HIDE DEF new
  <2>3. posts' = [posts EXCEPT ![p] = [phase |-> "selected", client |-> c,
                                       seen |-> rows[c], new |-> new]]
    BY <1>4 DEF PostGenerate, new
  <2>4. UNCHANGED <<inbox, rows>>
    BY <1>4 DEF PostGenerate
  <2> QED  BY <2>2, <2>3, <2>4 DEF InboxInv, WithinInbox, TypeInv, TypeOK
<1>5. ASSUME NEW p \in Refreshers, PostCommit(p) PROVE InboxInv'
  <2> DEFINE c == posts[p].client
             row == RowToCommit(p)
  <2>1. /\ c \in Clients
        /\ posts[p].new \in Row
        /\ posts[p].seen # NoRow => rows[c] # NoRow
        /\ WithinInbox(posts[p].new, c)
        /\ rows[c] # NoRow => WithinInbox(rows[c], c)
    BY <1>5, PostFields DEF PostCommit, TypeInv, SeenRowStillStored, InboxInv
  <2>2. /\ Covered(row) = Covered(posts[p].new)
        /\ row.analyzed = posts[p].new.analyzed \/ (rows[c] # NoRow /\ row.analyzed = rows[c].analyzed)
    BY <2>1 DEF RowToCommit, Written, Covered, Row
  <2>3. WithinInbox(row, c)
    BY <2>1, <2>2 DEF WithinInbox
  <2> HIDE DEF row
  <2>4. /\ rows' = [rows EXCEPT ![c] = row]
        /\ posts'[p].phase = "committed"
        /\ \A q \in Refreshers \ {p} : posts'[q] = posts[q]
        /\ UNCHANGED inbox
    BY <1>5 DEF PostCommit, TypeInv, TypeOK, row
  <2> QED  BY <2>3, <2>4 DEF InboxInv, WithinInbox, TypeInv, TypeOK
<1>6. ASSUME NEW c \in Clients, ReceiveEmail(c) PROVE InboxInv'
  <2>1. \A d \in Clients : Len(inbox[d]) \in Nat /\ Len(inbox'[d]) \in Nat
                           /\ Len(inbox[d]) <= Len(inbox'[d])
    BY <1>6, ServiceAssumption DEF ReceiveEmail, TypeInv, TypeOK
  <2>2. \A d \in Clients : 1 .. Len(inbox[d]) \subseteq 1 .. Len(inbox'[d])
    BY <2>1
  <2>3. \A p \in Refreshers : posts[p].phase \in {"prompted", "selected"} =>
          posts[p].client \in Clients
    BY PostFields DEF TypeInv
  <2> QED  BY <1>6, <2>2, <2>3 DEF ReceiveEmail, InboxInv, WithinInbox
<1>7. ASSUME NEW c \in Clients, Expire(c) PROVE InboxInv'
  BY <1>7, InboxQuiet DEF Expire
<1>8. ASSUME Restart PROVE InboxInv'
  BY <1>8, InboxQuiet DEF Restart
<1>9. CASE UNCHANGED vars
  BY <1>9, InboxQuiet DEF vars
<1> QED
  BY <1>1, <1>2, <1>3, <1>4, <1>5, <1>6, <1>7, <1>8, <1>9 DEF Next, PostStep

(***************************************************************************)
(* However refreshes of a client overlap, fail or are cut short, the row   *)
(* never counts or reflects an email that has not arrived.                 *)
(***************************************************************************)
THEOREM RowsStayWithinInbox == Spec => []RowWithinInbox
<1>1. Init => InboxInv
  BY DEF Init, InboxInv
<1>2. InboxInv => RowWithinInbox
  BY DEF InboxInv, WithinInbox, RowWithinInbox
<1> QED  BY <1>1, <1>2, InboxStep, TypeInvariant, PTL DEF Spec

-----------------------------------------------------------------------------
(* Count and payload *)

Accounted(row) == Covered(row) = 1 .. row.analyzed

(***************************************************************************)
(* The strengthening of CountMatchesPayload: every row ever committed, so  *)
(* every row a reader may still hold, accounts for what it counts, so does *)
(* every draft and every row about to be written, and the row an upsert    *)
(* selected is still the one stored.  The last part is what needs          *)
(* NoUpsertOverlap.                                                        *)
(***************************************************************************)
CountInv ==
  /\ \A c \in Clients : \A i \in 1 .. Len(history[c]) : Accounted(history[c][i])
  /\ \A p \in Refreshers :
       /\ posts[p].phase = "prompted" =>
            DraftCovers(posts[p].draft) = 1 .. posts[p].total
       /\ posts[p].phase = "selected" =>
            /\ Accounted(posts[p].new)
            /\ posts[p].seen = rows[posts[p].client]

(* A step that neither writes a row nor prepares one is harmless.          *)
LEMMA CountQuiet ==
  ASSUME CountInv, UNCHANGED <<rows, history>>,
         \A p \in Refreshers :
           posts'[p].phase \in {"prompted", "selected"} => posts'[p] = posts[p]
  PROVE  CountInv'
  BY DEF CountInv

\* An UPDATE of the row that was selected writes the new row whole.
LEMMA WrittenToSeen ==
  ASSUME NEW seen \in Row, NEW new \in Row
  PROVE  Written(seen, new, seen) = new
  BY DEF Written, Row

(* Without overlapping upserts every step keeps count and payload together.*)
LEMMA CountStep ==
  ASSUME ProviderReadsPrior
  PROVE  TypeInv /\ CommitInv /\ NoUpsertOverlap /\ CountInv /\ [Next]_vars => CountInv'
<1> SUFFICES ASSUME TypeInv, CommitInv, NoUpsertOverlap, CountInv, [Next]_vars
             PROVE  CountInv'
  OBVIOUS
<1>1. ASSUME NEW r \in Readers,
             \/ \E c \in Clients : GetStart(r, c)
             \/ GetStep(r) \/ AbortGet(r)
      PROVE  CountInv'
  BY <1>1, CountQuiet DEF GetStart, GetStep, GetCached, GetRow, GetFill, AbortGet
<1>2. ASSUME NEW p \in Refreshers,
             \/ \E c \in Clients : PostStart(p, c)
             \/ PostLlmFails(p) \/ PostConflict(p) \/ PostInvalidate(p) \/ AbortPost(p)
      PROVE  CountInv'
  BY <1>2, CountQuiet DEF TypeInv, TypeOK, PostStart, PostLlmFails, PostConflict,
     PostInvalidate, AbortPost
<1>3. ASSUME NEW p \in Refreshers, PostPrompt(p) PROVE CountInv'
  <2> DEFINE c == posts[p].client
             bodies == SubSeq(inbox[c], 1, posts[p].total)
             draft == Draft(bodies, rows[c])
  <2>1. /\ c \in Clients
        /\ inbox[c] \in Seq(Nat)
        /\ rows[c] \in Blob
        /\ posts[p].total \in 1 .. Len(inbox[c])
    BY <1>3, PostFields DEF PostPrompt, TypeInv, TypeOK, ListedEmailsStillThere
  <2>2. bodies \in Seq(Nat) /\ Len(bodies) = posts[p].total
    BY <2>1, PrefixType
  <2>3. rows[c] = NoRow \/ Covered(rows[c]) = 1 .. rows[c].analyzed
    <3>1. CASE rows[c] = NoRow
      BY <3>1
    <3>2. CASE Len(history[c]) > 0 /\ rows[c] = history[c][Len(history[c])]
      <4>1. Len(history[c]) \in 1 .. Len(history[c])
        BY <2>1, <3>2 DEF TypeInv, TypeOK
      <4> QED  BY <2>1, <3>2, <4>1 DEF CountInv, Accounted
    <3> QED  BY <2>1, <3>1, <3>2 DEF CommitInv, RowIsLastCommitted
  <2>4. DraftCovers(draft) = 1 .. posts[p].total
    BY <2>1, <2>2, <2>3, DraftCoverage
  <2> HIDE DEF draft
  <2>5. posts'[p].phase = "prompted" =>
          posts'[p].draft = draft /\ posts'[p].total = posts[p].total
    BY <1>3 DEF PostPrompt, TypeInv, TypeOK, draft
  <2>6. posts'[p].phase \in {"prompted", "failed"}
    BY <1>3 DEF PostPrompt, TypeInv, TypeOK
  <2>7. \A q \in Refreshers \ {p} : posts'[q] = posts[q]
    BY <1>3 DEF PostPrompt, TypeInv, TypeOK
  <2>8. UNCHANGED <<rows, history>>
    BY <1>3 DEF PostPrompt
  <2> QED  BY <2>4, <2>5, <2>6, <2>7, <2>8 DEF CountInv
<1>4. ASSUME NEW p \in Refreshers, PostGenerate(p) PROVE CountInv'
  <2> DEFINE c == posts[p].client
             new == NewRow(posts[p].draft, c, posts[p].total)
  <2>1. Accounted(new)
    BY <1>4 DEF PostGenerate, CountInv, Accounted, NewRow, Encrypt, Covered, DraftCovers
  <2> HIDE DEF new
  <2>2. posts' = [posts EXCEPT ![p] = [phase |-> "selected", client |-> c,
                                       seen |-> rows[c], new |-> new]]
    BY <1>4 DEF PostGenerate, new
  <2>3. UNCHANGED <<rows, history>>
    BY <1>4 DEF PostGenerate
  <2> QED  BY <2>1, <2>2, <2>3 DEF CountInv, TypeInv, TypeOK
<1>5. ASSUME NEW p \in Refreshers, PostCommit(p) PROVE CountInv'
  <2> DEFINE c == posts[p].client
             new == posts[p].new
  <2>1. /\ c \in Clients
        /\ new \in Row
        /\ posts[p].seen \in Blob
        /\ posts[p].seen = rows[c]
        /\ Accounted(new)
        /\ history[c] \in Seq(Row)
    BY <1>5, PostFields DEF PostCommit, TypeInv, TypeOK, CountInv
  <2>2. RowToCommit(p) = new
    BY <2>1, WrittenToSeen DEF RowToCommit, Blob
  <2>3. /\ rows' = [rows EXCEPT ![c] = new]
        /\ history' = [history EXCEPT ![c] = Append(@, new)]
        /\ posts'[p].phase = "committed"
        /\ \A q \in Refreshers \ {p} : posts'[q] = posts[q]
    BY <1>5, <2>2 DEF PostCommit, TypeInv, TypeOK
  <2>4. \A q \in Refreshers \ {p} : posts[q].phase = "selected" => posts[q].client # c
    BY <1>5 DEF PostCommit, NoUpsertOverlap
  <2> HIDE DEF new
  <2>5. ASSUME NEW d \in Clients, NEW i \in 1 .. Len(history'[d])
        PROVE  Accounted(history'[d][i])
    <3>1. CASE d = c
      <4>1. history'[d] = Append(history[c], new)
        BY <2>1, <2>3, <3>1 DEF TypeInv, TypeOK
      <4>2. CASE i = Len(history[c]) + 1
        BY <2>1, <4>1, <4>2
      <4>3. CASE i # Len(history[c]) + 1
        <5>1. i \in 1 .. Len(history[c]) /\ history'[d][i] = history[c][i]
          BY <2>1, <4>1, <4>3
        <5> QED  BY <2>1, <5>1 DEF CountInv
      <4> QED  BY <4>2, <4>3
    <3>2. CASE d # c
      BY <2>1, <2>3, <3>2 DEF CountInv, TypeInv, TypeOK
    <3> QED  BY <3>1, <3>2
  <2>6. ASSUME NEW q \in Refreshers, posts'[q].phase \in {"prompted", "selected"}
        PROVE  /\ posts'[q] = posts[q]
               /\ posts[q].phase = "selected" => rows'[posts[q].client] = rows[posts[q].client]
    <3>1. q # p
      BY <2>3, <2>6
    <3>2. posts'[q] = posts[q]
      BY <2>3, <3>1
    <3>3. posts[q].phase = "selected" => posts[q].client \in Clients /\ posts[q].client # c
      BY <2>4, <3>1, PostFields DEF TypeInv
    <3> QED  BY <2>3, <3>2, <3>3 DEF TypeInv, TypeOK
  <2> QED  BY <2>5, <2>6 DEF CountInv, Accounted, Covered
<1>6. ASSUME NEW c \in Clients, ReceiveEmail(c) \/ Expire(c) PROVE CountInv'
  BY <1>6, CountQuiet DEF ReceiveEmail, Expire
<1>7. ASSUME Restart PROVE CountInv'
  BY <1>7, CountQuiet DEF Restart
<1>8. CASE UNCHANGED vars
  BY <1>8, CountQuiet DEF vars
<1> QED
  BY <1>1, <1>2, <1>3, <1>4, <1>5, <1>6, <1>7, <1>8 DEF Next, PostStep

(* So they stay together in every behaviour without such an overlap.       *)
LEMMA CountInvariant ==
  ASSUME ProviderReadsPrior
  PROVE  Spec => ([]NoUpsertOverlap => []CountInv)
<1>1. Init => CountInv
  BY DEF Init, CountInv
<1>2. TypeInv /\ CommitInv /\ NoUpsertOverlap /\ CountInv /\ [Next]_vars => CountInv'
  BY CountStep
<1> QED  BY <1>1, <1>2, TypeInvariant, CommitInvariant, PTL DEF Spec

(***************************************************************************)
(* Overlapping refreshes of one client, failed ones and cut-short ones     *)
(* keep emails_analyzed_count and the payload together as long as their    *)
(* SELECT-to-COMMIT windows do not overlap, which nothing in the code      *)
(* enforces.                                                               *)
(***************************************************************************)
THEOREM DisjointUpserts ==
  ASSUME ProviderReadsPrior
  PROVE  Spec => DisjointUpsertsKeepCounts
<1>1. TypeInv /\ CommitInv /\ CountInv => CountMatchesPayload
  <2> SUFFICES ASSUME TypeInv, CommitInv, CountInv, NEW c \in Clients, rows[c] # NoRow
               PROVE  Covered(rows[c]) = 1 .. rows[c].analyzed
    BY DEF CountMatchesPayload
  <2>1. Len(history[c]) > 0 /\ rows[c] = history[c][Len(history[c])]
    BY DEF CommitInv, RowIsLastCommitted
  <2>2. Len(history[c]) \in 1 .. Len(history[c])
    BY <2>1 DEF TypeInv, TypeOK
  <2> QED  BY <2>1, <2>2 DEF CountInv, Accounted
<1>2. Spec => ([]NoUpsertOverlap => []CountInv)
  BY CountInvariant
<1> QED
  BY <1>1, <1>2, TypeInvariant, CommitInvariant, PTL DEF DisjointUpsertsKeepCounts

(***************************************************************************)
(* Under the same condition no answer marked fresh hides an email, even    *)
(* when it is served from a cache entry that refreshes have overtaken.     *)
(***************************************************************************)
THEOREM FreshAnswers ==
  ASSUME ProviderReadsPrior
  PROVE  Spec => ([]NoUpsertOverlap => []FreshAnswerHidesNothing)
<1>1. TypeInv /\ CommitInv /\ CountInv => FreshAnswerHidesNothing
  <2> SUFFICES ASSUME TypeInv, CommitInv, CountInv, NEW r \in Readers,
                      gets[r].phase = "answered", ~IsStale(gets[r].total, gets[r].blob)
               PROVE  1 .. gets[r].total \subseteq Covered(gets[r].blob)
    BY DEF FreshAnswerHidesNothing
  <2> DEFINE c == gets[r].client
             blob == gets[r].blob
  <2>1. c \in Clients /\ gets[r].total \in Nat /\ blob \in Blob
    BY GetFields DEF TypeInv
  <2>2. blob # NoRow
    BY DEF IsStale
  <2>3. blob \in CommittedSince(c, 1)
    BY <2>2 DEF CommitInv, ReadCommitted, GoodRead
  <2>4. Covered(blob) = 1 .. blob.analyzed
    BY <2>1, <2>3 DEF CommittedSince, CountInv, Accounted
  <2>5. blob.analyzed \in Nat /\ gets[r].total <= blob.analyzed
    BY <2>1, <2>2 DEF IsStale, NewEmails, Analyzed, Blob, Row
  <2> QED  BY <2>1, <2>4, <2>5
<1>2. Spec => ([]NoUpsertOverlap => []CountInv)
  BY CountInvariant
<1> QED  BY <1>1, <1>2, TypeInvariant, CommitInvariant, PTL

-----------------------------------------------------------------------------
(* Ample budgets *)

Dropless(payload) == payload.dropped = {}

(***************************************************************************)
(* While the whole inbox of a client fits into one prompt, no summary of   *)
(* it on its way, written or stored has dropped an email.  An incremental  *)
(* prompt carries over what the prior summary dropped, so the rows and the *)
(* refreshes in flight keep each other's part of this.                     *)
(***************************************************************************)
AmpleInv ==
  /\ \A c \in Clients :
       (InboxFits(c) /\ rows[c] # NoRow) => Dropless(rows[c].ciphertext.payload)
  /\ \A p \in Refreshers : posts[p].phase \in {"prompted", "selected"} =>
       (InboxFits(posts[p].client) =>
          /\ posts[p].phase = "prompted" => Dropless(posts[p].draft)
          /\ posts[p].phase = "selected" => Dropless(posts[p].new.ciphertext.payload))

(* A draft made of a list that fits, from a summary that dropped nothing,  *)
(* drops nothing.                                                          *)
LEMMA FittingDraft ==
  ASSUME NEW bodies \in Seq(Nat), Fits(bodies), NEW prior \in Blob,
         prior = NoRow \/ Dropless(prior.ciphertext.payload)
  PROVE  Dropless(Draft(bodies, prior))
<1> DEFINE context == BuildRefreshContext(bodies, Analyzed(prior), prior # NoRow)
           carried == Carried(context.incremental, prior)
<1>1. Analyzed(prior) \in Nat
  BY ServiceAssumption DEF Analyzed, Blob, Row
<1>2. context.source \ context.selected = {}
  BY <1>1, FittingPromptIsWhole
<1>3. context.incremental => prior # NoRow
  BY <1>1, PromptWithinInbox DEF IsIncremental
<1> HIDE DEF context
<1>4. carried.dropped = {}
  BY <1>3 DEF Carried, Dropless
<1>5. Draft(bodies, prior).dropped = carried.dropped \cup (context.source \ context.selected)
  BY DEF Draft, context
<1> QED  BY <1>2, <1>4, <1>5 DEF Dropless

\* A step that adds neither a row, a draft nor a row to be written.
LEMMA AmpleQuiet ==
  ASSUME TypeInv, AmpleInv, UNCHANGED rows,
         \A c \in Clients : InboxFits(c)' => InboxFits(c),
         \A p \in Refreshers :
           posts'[p].phase \in {"prompted", "selected"} => posts'[p] = posts[p]
  PROVE  AmpleInv'
<1>1. \A p \in Refreshers : posts[p].phase \in {"prompted", "selected"} =>
        posts[p].client \in Clients
  BY PostFields DEF TypeInv
<1>2. \A c \in Clients :
        (InboxFits(c)' /\ rows'[c] # NoRow) => Dropless(rows'[c].ciphertext.payload)
  BY DEF AmpleInv
<1>3. ASSUME NEW p \in Refreshers, posts'[p].phase \in {"prompted", "selected"},
             InboxFits(posts[p].client)'
      PROVE  /\ posts'[p].phase = "prompted" => Dropless(posts'[p].draft)
             /\ posts'[p].phase = "selected" => Dropless(posts'[p].new.ciphertext.payload)
  <2>1. posts'[p] = posts[p] /\ posts[p].client \in Clients
    BY <1>1, <1>3
  <2>2. InboxFits(posts[p].client)
    BY <1>3, <2>1 DEF InboxFits
  <2> QED  BY <1>3, <2>1, <2>2 DEF AmpleInv
<1> QED  BY <1>2, <1>3 DEF AmpleInv, Dropless

(* Every step keeps it, however requests overlap or fail.                  *)
LEMMA AmpleStep == TypeInv /\ AmpleInv /\ [Next]_vars => AmpleInv'
<1> SUFFICES ASSUME TypeInv, AmpleInv, [Next]_vars PROVE AmpleInv'
  OBVIOUS
<1>1. ASSUME UNCHANGED <<inbox, rows>>,
             \A p \in Refreshers :
               posts'[p].phase \in {"prompted", "selected"} => posts'[p] = posts[p]
      PROVE  AmpleInv'
  <2>1. \A c \in Clients : InboxFits(c)' => InboxFits(c)
    BY <1>1 DEF InboxFits
  <2> QED  BY <1>1, <2>1, AmpleQuiet
<1>2. ASSUME NEW r \in Readers,
             \/ \E c \in Clients : GetStart(r, c)
             \/ GetStep(r) \/ AbortGet(r)
      PROVE  AmpleInv'
  BY <1>1, <1>2 DEF GetStart, GetStep, GetCached, GetRow, GetFill, AbortGet
<1>3. ASSUME NEW p \in Refreshers,
             \/ \E c \in Clients : PostStart(p, c)
             \/ PostLlmFails(p) \/ PostConflict(p) \/ PostInvalidate(p) \/ AbortPost(p)
      PROVE  AmpleInv'
  BY <1>1, <1>3 DEF TypeInv, TypeOK, PostStart, PostLlmFails, PostConflict,
     PostInvalidate, AbortPost
<1>4. ASSUME NEW p \in Refreshers, PostPrompt(p) PROVE AmpleInv'
  <2> DEFINE c == posts[p].client
             bodies == SubSeq(inbox[c], 1, posts[p].total)
             draft == Draft(bodies, rows[c])
  <2>1. /\ c \in Clients
        /\ inbox[c] \in Seq(Nat)
        /\ rows[c] \in Blob
        /\ posts[p].total \in 0 .. Len(inbox[c])
    BY <1>4, PostFields DEF PostPrompt, TypeInv, TypeOK, ListedEmailsStillThere
  <2>2. bodies \in Seq(Nat)
    BY <2>1, PrefixType
  <2>3. InboxFits(c) => Dropless(draft)
    <3> SUFFICES ASSUME InboxFits(c) PROVE Dropless(draft)
      OBVIOUS
    <3>1. Fits(bodies)
      BY <2>1, PrefixFits DEF InboxFits, Fits
    <3>2. rows[c] = NoRow \/ Dropless(rows[c].ciphertext.payload)
      BY <2>1 DEF AmpleInv
    <3> HIDE DEF bodies
    <3> QED  BY <2>1, <2>2, <3>1, <3>2, FittingDraft
  <2> HIDE DEF draft
  <2>4. posts'[p].phase = "prompted" => posts'[p].draft = draft /\ posts'[p].client = c
    BY <1>4 DEF PostPrompt, TypeInv, TypeOK, draft
  <2>5. posts'[p].phase \in {"prompted", "failed"}
    BY <1>4 DEF PostPrompt, TypeInv, TypeOK
  <2>6. \A q \in Refreshers \ {p} : posts'[q] = posts[q]
    BY <1>4 DEF PostPrompt, TypeInv, TypeOK
  <2>7. UNCHANGED <<inbox, rows>>
    BY <1>4 DEF PostPrompt
  <2> QED  BY <2>3, <2>4, <2>5, <2>6, <2>7 DEF AmpleInv, InboxFits, Dropless
<1>5. ASSUME NEW p \in Refreshers, PostGenerate(p) PROVE AmpleInv'
  <2> DEFINE c == posts[p].client
             new == NewRow(posts[p].draft, c, posts[p].total)
  <2>1. new.ciphertext.payload = posts[p].draft
    BY DEF NewRow, Encrypt
  <2>2. InboxFits(c) => Dropless(posts[p].draft)
    BY <1>5 DEF PostGenerate, AmpleInv
  <2> HIDE DEF new
  <2>3. posts' = [posts EXCEPT ![p] = [phase |-> "selected", client |-> c,
                                       seen |-> rows[c], new |-> new]]
    BY <1>5 DEF PostGenerate, new
  <2>4. UNCHANGED <<inbox, rows>>
    BY <1>5 DEF PostGenerate
  <2> QED  BY <2>1, <2>2, <2>3, <2>4 DEF AmpleInv, InboxFits, Dropless, TypeInv, TypeOK
<1>6. ASSUME NEW p \in Refreshers, PostCommit(p) PROVE AmpleInv'
  <2> DEFINE c == posts[p].client
             row == RowToCommit(p)
  <2>1. c \in Clients /\ posts[p].new \in Row
    BY <1>6, PostFields DEF PostCommit, TypeInv
  <2>2. row.ciphertext = posts[p].new.ciphertext
    BY <2>1 DEF RowToCommit, Written, Row
  <2>3. InboxFits(c) => Dropless(row.ciphertext.payload)
    BY <1>6, <2>2 DEF PostCommit, AmpleInv
  <2> HIDE DEF row
  <2>4. /\ rows' = [rows EXCEPT ![c] = row]
        /\ posts'[p].phase = "committed"
        /\ \A q \in Refreshers \ {p} : posts'[q] = posts[q]
        /\ UNCHANGED inbox
    BY <1>6 DEF PostCommit, TypeInv, TypeOK, row
  <2> QED  BY <2>1, <2>3, <2>4 DEF AmpleInv, InboxFits, Dropless, TypeInv, TypeOK
<1>7. ASSUME NEW c \in Clients, ReceiveEmail(c) PROVE AmpleInv'
  <2>1. PICK chars \in Bodies : inbox' = [inbox EXCEPT ![c] = Append(@, chars)]
    BY <1>7 DEF ReceiveEmail
  <2>2. inbox[c] \in Seq(Nat) /\ chars \in Nat
    BY ServiceAssumption DEF TypeInv, TypeOK
  <2>3. InboxFits(c)' => InboxFits(c)
    <3> DEFINE longer == Append(inbox[c], chars)
    <3>1. longer \in Seq(Nat) /\ Len(inbox[c]) \in 0 .. Len(longer)
      BY <2>2
    <3>2. SubSeq(longer, 1, Len(inbox[c])) = inbox[c]
      BY <2>2
    <3> HIDE DEF longer
    <3>3. Fits(longer) => Fits(inbox[c])
      BY <3>1, <3>2, PrefixFits
    <3>4. inbox'[c] = longer
      BY <2>1 DEF longer, TypeInv, TypeOK
    <3> QED  BY <3>3, <3>4 DEF InboxFits, Fits
  <2>4. \A d \in Clients \ {c} : inbox'[d] = inbox[d]
    BY <2>1 DEF TypeInv, TypeOK
  <2>5. \A d \in Clients : InboxFits(d)' => InboxFits(d)
    BY <2>3, <2>4 DEF InboxFits
  <2> QED  BY <1>7, <2>5, AmpleQuiet DEF ReceiveEmail
<1>8. ASSUME NEW c \in Clients, Expire(c) PROVE AmpleInv'
  BY <1>1, <1>8 DEF Expire
<1>9. ASSUME Restart PROVE AmpleInv'
  BY <1>1, <1>9 DEF Restart
<1>10. CASE UNCHANGED vars
  BY <1>1, <1>10 DEF vars
<1> QED
  BY <1>2, <1>3, <1>4, <1>5, <1>6, <1>7, <1>8, <1>9, <1>10 DEF Next, PostStep

(***************************************************************************)
(* What keeps a counted email out of a summary is the budget alone, or two *)
(* upserts that overlap: a client whose inbox fits into one prompt has     *)
(* every email it counts in its summary, through any chain of full and     *)
(* incremental passes, faults and restarts.                                *)
(***************************************************************************)
THEOREM AmpleBudgetSuffices ==
  ASSUME ProviderReadsPrior
  PROVE  Spec => ([]NoUpsertOverlap => []AmpleBudgetReflectsAll)
<1>1. Init => AmpleInv
  BY DEF Init, AmpleInv
<1>2. AmpleInv /\ CountMatchesPayload => AmpleBudgetReflectsAll
  <2> SUFFICES ASSUME AmpleInv, CountMatchesPayload,
                      NEW c \in Clients, InboxFits(c), rows[c] # NoRow
               PROVE  1 .. rows[c].analyzed \subseteq rows[c].ciphertext.payload.emails
    BY DEF AmpleBudgetReflectsAll
  <2>1. Covered(rows[c]) = 1 .. rows[c].analyzed
    BY DEF CountMatchesPayload
  <2>2. rows[c].ciphertext.payload.dropped = {}
    BY DEF AmpleInv, Dropless
  <2> QED  BY <2>1, <2>2 DEF Covered
<1>3. Spec => ([]NoUpsertOverlap => []CountMatchesPayload)
  BY DisjointUpserts DEF DisjointUpsertsKeepCounts
<1> QED  BY <1>1, <1>2, <1>3, AmpleStep, TypeInvariant, PTL DEF Spec

-----------------------------------------------------------------------------
(* Keys *)

\* Encrypted under version 1, for c.
FirstKey(row, c) ==
  row.keyVersion = 1 /\ row.ciphertext.key = 1 /\ row.ciphertext.aad = c

KeyInv ==
  /\ activeKey = 1
  /\ \A c \in Clients : \A i \in 1 .. Len(history[c]) : FirstKey(history[c][i], c)
  /\ \A p \in Refreshers :
       posts[p].phase = "selected" => FirstKey(posts[p].new, posts[p].client)

(* Without rotation every step keeps all that is stored readable.          *)
LEMMA KeyStep ==
  ASSUME MaxRotations = 0
  PROVE  TypeInv /\ CommitInv /\ KeyInv /\ [Next]_vars => KeyInv'
<1> SUFFICES ASSUME TypeInv, CommitInv, KeyInv, [Next]_vars PROVE KeyInv'
  OBVIOUS
<1>1. ASSUME NEW p \in Refreshers, PostGenerate(p) PROVE KeyInv'
  <2> DEFINE c == posts[p].client
             new == NewRow(posts[p].draft, c, posts[p].total)
  <2>1. FirstKey(new, c)
    BY DEF KeyInv, FirstKey, NewRow, Encrypt
  <2> HIDE DEF new
  <2>2. posts' = [posts EXCEPT ![p] = [phase |-> "selected", client |-> c,
                                       seen |-> rows[c], new |-> new]]
    BY <1>1 DEF PostGenerate, new
  <2>3. UNCHANGED <<history, activeKey>>
    BY <1>1 DEF PostGenerate
  <2> QED  BY <2>1, <2>2, <2>3 DEF KeyInv, TypeInv, TypeOK
<1>2. ASSUME NEW p \in Refreshers, PostCommit(p) PROVE KeyInv'
  <2> DEFINE c == posts[p].client
             row == RowToCommit(p)
  <2>1. /\ c \in Clients
        /\ history[c] \in Seq(Row)
        /\ posts[p].new \in Row
        /\ FirstKey(posts[p].new, c)
        /\ posts[p].seen # NoRow => rows[c] # NoRow
    BY <1>2, PostFields DEF PostCommit, TypeInv, TypeOK, SeenRowStillStored, KeyInv
  <2>2. rows[c] # NoRow => FirstKey(rows[c], c)
    <3>1. rows[c] # NoRow => Len(history[c]) \in 1 .. Len(history[c])
                             /\ rows[c] = history[c][Len(history[c])]
      BY <2>1 DEF CommitInv, RowIsLastCommitted
    <3> QED  BY <2>1, <3>1 DEF KeyInv
  <2>3. FirstKey(row, c)
    BY <2>1, <2>2 DEF RowToCommit, Written, FirstKey, Row
  <2> HIDE DEF row
  <2>4. /\ history' = [history EXCEPT ![c] = Append(@, row)]
        /\ posts'[p].phase = "committed"
        /\ \A q \in Refreshers \ {p} : posts'[q] = posts[q]
        /\ activeKey' = activeKey
    BY <1>2 DEF PostCommit, TypeInv, TypeOK, row
  <2>5. ASSUME NEW d \in Clients, NEW i \in 1 .. Len(history'[d])
        PROVE  FirstKey(history'[d][i], d)
    <3>1. CASE d = c
      <4>1. history'[d] = Append(history[c], row)
        BY <2>1, <2>4, <3>1 DEF TypeInv, TypeOK
      <4>2. CASE i = Len(history[c]) + 1
        BY <2>1, <2>3, <3>1, <4>1, <4>2
      <4>3. CASE i # Len(history[c]) + 1
        <5>1. i \in 1 .. Len(history[c]) /\ history'[d][i] = history[c][i]
          BY <2>1, <4>1, <4>3
        <5> QED  BY <2>1, <3>1, <5>1 DEF KeyInv
      <4> QED  BY <4>2, <4>3
    <3>2. CASE d # c
      BY <2>1, <2>4, <3>2 DEF KeyInv, TypeInv, TypeOK
    <3> QED  BY <3>1, <3>2
  <2> QED  BY <2>4, <2>5 DEF KeyInv, FirstKey
<1>3. ASSUME NEW p \in Refreshers,
             \/ \E c \in Clients : PostStart(p, c)
             \/ PostPrompt(p) \/ PostLlmFails(p) \/ PostConflict(p) \/ PostInvalidate(p)
             \/ AbortPost(p)
      PROVE  KeyInv'
  <2>1. UNCHANGED <<history, activeKey>>
    BY <1>3 DEF PostStart, PostPrompt, PostLlmFails, PostConflict, PostInvalidate, AbortPost
  <2>2. \A q \in Refreshers : posts'[q].phase = "selected" => posts'[q] = posts[q]
    BY <1>3 DEF TypeInv, TypeOK, PostStart, PostPrompt, PostLlmFails, PostConflict,
       PostInvalidate, AbortPost
  <2> QED  BY <2>1, <2>2 DEF KeyInv
<1>4. ASSUME NEW r \in Readers,
             \/ \E c \in Clients : GetStart(r, c)
             \/ GetStep(r) \/ AbortGet(r)
      PROVE  KeyInv'
  BY <1>4 DEF KeyInv, GetStart, GetStep, GetCached, GetRow, GetFill, AbortGet
<1>5. ASSUME NEW c \in Clients, ReceiveEmail(c) \/ Expire(c) PROVE KeyInv'
  BY <1>5 DEF KeyInv, ReceiveEmail, Expire
<1>6. ASSUME Restart PROVE KeyInv'
  BY <1>6 DEF KeyInv, Restart
<1>7. CASE UNCHANGED vars
  BY <1>7 DEF KeyInv, vars
<1> QED
  BY <1>1, <1>2, <1>3, <1>4, <1>5, <1>6, <1>7 DEF Next, PostStep

(***************************************************************************)
(* As long as the key is never rotated, every stored and every cached      *)
(* summary decrypts, under the id of the client it is stored for, in every *)
(* interleaving and after any number of restarts.  Run `rotation` shows    *)
(* that one rotation is enough to lose this.                               *)
(***************************************************************************)
THEOREM ReadableWithoutRotation ==
  ASSUME MaxRotations = 0
  PROVE  Spec => []StoredSummariesReadable
<1>1. Init => KeyInv
  BY DEF Init, KeyInv
<1>2. TypeInv /\ CommitInv /\ KeyInv => StoredSummariesReadable
  <2> SUFFICES ASSUME TypeInv, CommitInv, KeyInv, NEW c \in Clients
               PROVE  /\ rows[c] # NoRow => Decrypts(rows[c], c)
                      /\ cache[c] \notin {NoBlob, NoRow} => Decrypts(cache[c], c)
    BY DEF StoredSummariesReadable
  <2>1. \A b \in CommittedSince(c, 1) : Decrypts(b, c)
    BY DEF CommittedSince, KeyInv, FirstKey, Decrypts, Keyring
  <2>2. rows[c] # NoRow => rows[c] \in CommittedSince(c, 1)
    <3>1. rows[c] # NoRow => Len(history[c]) \in 1 .. Len(history[c])
                             /\ rows[c] = history[c][Len(history[c])]
      BY DEF CommitInv, RowIsLastCommitted, TypeInv, TypeOK
    <3> QED  BY <3>1 DEF CommittedSince
  <2>3. cache[c] \in {NoBlob, NoRow} \cup CommittedSince(c, 1)
    BY DEF CommitInv, CacheCommitted
  <2> QED  BY <2>1, <2>2, <2>3
<1>3. TypeInv /\ CommitInv /\ KeyInv /\ [Next]_vars => KeyInv'
  BY KeyStep
<1> QED  BY <1>1, <1>2, <1>3, TypeInvariant, CommitInvariant, PTL DEF Spec

(* What a refresh is based on, and what it is about to write, the running  *)
(* key can read: the prior summary was decrypted by this process.          *)
ReadableInv ==
  \A p \in Refreshers :
    /\ posts[p].phase \in {"prompted", "selected"} =>
         LET stored == rows[posts[p].client]
         IN  stored = NoRow \/ Decrypts(stored, posts[p].client)
    /\ posts[p].phase = "selected" => Decrypts(posts[p].new, posts[p].client)

(* A step that changes neither rows nor key keeps it, if it begins no such *)
(* refresh.                                                                *)
LEMMA ReadableQuiet ==
  ASSUME ReadableInv, UNCHANGED <<rows, activeKey>>,
         \A p \in Refreshers :
           posts'[p].phase \in {"prompted", "selected"} => posts'[p] = posts[p]
  PROVE  ReadableInv'
BY DEF ReadableInv, Decrypts, Keyring

(* A COMMIT writes over a row the running key can read, one it can read.   *)
LEMMA CommitReadable ==
  ASSUME TypeInv, ReadableInv, NEW p \in Refreshers, PostCommit(p)
  PROVE  LET c == posts[p].client
         IN  /\ c \in Clients
             /\ rows[c] = NoRow \/ Decrypts(rows[c], c)
             /\ Decrypts(RowToCommit(p), c)
             /\ rows' = [rows EXCEPT ![c] = RowToCommit(p)]
<1> DEFINE c == posts[p].client
<1>1. /\ c \in Clients
      /\ posts[p].new \in Row /\ posts[p].seen \in Blob
      /\ rows[c] = NoRow \/ Decrypts(rows[c], c)
      /\ Decrypts(posts[p].new, c)
      /\ posts[p].seen # NoRow => rows[c] # NoRow
  BY PostFields DEF PostCommit, TypeInv, SeenRowStillStored, ReadableInv
<1>2. Decrypts(RowToCommit(p), c)
  BY <1>1 DEF RowToCommit, Written, Decrypts, Keyring, Row
<1>3. rows' = [rows EXCEPT ![c] = RowToCommit(p)]
  BY DEF PostCommit
<1> QED BY <1>1, <1>2, <1>3

(* Every step keeps it: a refresh that meets a summary it cannot read      *)
(* fails, and none outlives the process whose key it used.                 *)
LEMMA ReadableStep == TypeInv /\ ReadableInv /\ [Next]_vars => ReadableInv'
<1> SUFFICES ASSUME TypeInv, ReadableInv, [Next]_vars PROVE ReadableInv'
  OBVIOUS
<1>1. ASSUME NEW p \in Refreshers, PostPrompt(p) PROVE ReadableInv'
  <2>1. /\ posts'[p].phase = "prompted" =>
             /\ posts'[p].client = posts[p].client
             /\ rows[posts[p].client] = NoRow
                  \/ Decrypts(rows[posts[p].client], posts[p].client)
        /\ posts'[p].phase # "selected"
        /\ \A q \in Refreshers \ {p} : posts'[q] = posts[q]
        /\ UNCHANGED <<rows, activeKey>>
    BY <1>1 DEF PostPrompt, TypeInv, TypeOK
  <2> QED BY <2>1 DEF ReadableInv, Decrypts, Keyring
<1>2. ASSUME NEW p \in Refreshers, PostGenerate(p) PROVE ReadableInv'
  <2> DEFINE c == posts[p].client
             new == NewRow(posts[p].draft, c, posts[p].total)
  <2>1. Decrypts(new, c)
    BY DEF NewRow, Encrypt, Decrypts, Keyring
  <2> HIDE DEF new
  <2>2. /\ posts' = [posts EXCEPT ![p] = [phase |-> "selected", client |-> c,
                                          seen |-> rows[c], new |-> new]]
        /\ posts[p].phase = "prompted"
        /\ UNCHANGED <<rows, activeKey>>
    BY <1>2 DEF PostGenerate, new
  <2>3. \A q \in Refreshers :
          \/ posts'[q] = posts[q]
          \/ posts'[q].client = c /\ posts'[q].new = new /\ posts[p].phase = "prompted"
    BY <2>2 DEF TypeInv, TypeOK
  <2> QED BY <2>1, <2>2, <2>3 DEF ReadableInv, Decrypts, Keyring
<1>3. ASSUME NEW p \in Refreshers, PostCommit(p) PROVE ReadableInv'
  <2> DEFINE row == RowToCommit(p)
  <2>1. /\ Decrypts(row, posts[p].client)
        /\ \A d \in Clients : rows'[d] = IF d = posts[p].client THEN row ELSE rows[d]
    BY <1>3, CommitReadable DEF TypeInv, TypeOK
  <2>2. /\ posts'[p].phase = "committed"
        /\ \A q \in Refreshers \ {p} : posts'[q] = posts[q]
        /\ activeKey' = activeKey
    BY <1>3 DEF PostCommit, TypeInv, TypeOK
  <2>3. \A q \in Refreshers :
          posts[q].phase \in {"prompted", "selected"} => posts[q].client \in Clients
    BY PostFields DEF TypeInv
  <2> HIDE DEF row
  <2> QED BY <2>1, <2>2, <2>3 DEF ReadableInv, Decrypts, Keyring
<1>4. ASSUME NEW p \in Refreshers,
             \/ \E c \in Clients : PostStart(p, c)
             \/ PostLlmFails(p) \/ PostConflict(p) \/ PostInvalidate(p) \/ AbortPost(p)
      PROVE  ReadableInv'
  BY <1>4, ReadableQuiet DEF TypeInv, TypeOK, PostStart, PostLlmFails, PostConflict,
     PostInvalidate, AbortPost
<1>5. ASSUME NEW r \in Readers,
             \/ \E c \in Clients : GetStart(r, c)
             \/ GetStep(r) \/ AbortGet(r)
      PROVE  ReadableInv'
  BY <1>5, ReadableQuiet DEF GetStart, GetStep, GetCached, GetRow, GetFill, AbortGet
<1>6. ASSUME NEW c \in Clients, ReceiveEmail(c) \/ Expire(c) PROVE ReadableInv'
  BY <1>6, ReadableQuiet DEF ReceiveEmail, Expire
<1>7. ASSUME Restart PROVE ReadableInv'
  BY <1>7 DEF Restart, ReadableInv
<1>8. CASE UNCHANGED vars
  BY <1>8, ReadableQuiet DEF vars
<1> QED
  BY <1>1, <1>2, <1>3, <1>4, <1>5, <1>6, <1>7, <1>8 DEF Next, PostStep

(***************************************************************************)
(* However often the key is rotated, and however refreshes overlap, a      *)
(* summary the running key cannot read stays in the table as it is:        *)
(* _load_prior_summary decrypts it before anything is written.             *)
(***************************************************************************)
THEOREM UnreadableNeverOverwritten == Spec => UnreadableRowsKept
<1> DEFINE Kept ==
      \A c \in Clients : (rows[c] # NoRow /\ ~Decrypts(rows[c], c)) => rows'[c] = rows[c]
<1>1. Init => ReadableInv
  BY DEF Init, ReadableInv
<1>2. TypeInv /\ ReadableInv /\ [Next]_vars => [Kept]_vars
  <2> SUFFICES ASSUME TypeInv, ReadableInv, Next,
                      NEW c \in Clients, rows[c] # NoRow, ~Decrypts(rows[c], c)
               PROVE  rows'[c] = rows[c]
    OBVIOUS
  <2>1. ASSUME NEW p \in Refreshers, PostCommit(p)
        PROVE  rows'[c] = rows[c]
    BY <2>1, CommitReadable DEF TypeInv, TypeOK
  <2>2. ASSUME UNCHANGED rows
        PROVE  rows'[c] = rows[c]
    BY <2>2
  <2>3. ASSUME NEW p \in Refreshers,
               \/ \E d \in Clients : PostStart(p, d)
               \/ PostPrompt(p) \/ PostLlmFails(p) \/ PostGenerate(p) \/ PostConflict(p)
               \/ PostInvalidate(p) \/ AbortPost(p)
        PROVE  UNCHANGED rows
    BY <2>3 DEF PostStart, PostPrompt, PostLlmFails, PostGenerate, PostConflict,
       PostInvalidate, AbortPost
  <2>4. ASSUME NEW r \in Readers,
               \/ \E d \in Clients : GetStart(r, d)
               \/ GetStep(r) \/ AbortGet(r)
        PROVE  UNCHANGED rows
    BY <2>4 DEF GetStart, GetStep, GetCached, GetRow, GetFill, AbortGet
  <2>5. ASSUME NEW d \in Clients, ReceiveEmail(d) \/ Expire(d) PROVE UNCHANGED rows
    BY <2>5 DEF ReceiveEmail, Expire
  <2>6. ASSUME Restart PROVE UNCHANGED rows
    BY <2>6 DEF Restart
  <2> QED BY <2>1, <2>2, <2>3, <2>4, <2>5, <2>6 DEF Next, PostStep
<1>3. TypeInv /\ ReadableInv /\ [Next]_vars => ReadableInv'
  BY ReadableStep
<1> QED BY <1>1, <1>2, <1>3, TypeInvariant, PTL DEF Spec, UnreadableRowsKept

-----------------------------------------------------------------------------
(* Refinement: with one refresher, any number of readers, any faults,      *)
(* restarts and key rotations, SummaryService implements SummaryPromise.   *)

\* A refresh in flight covers at least what the stored row counts.
MonotoneInv ==
  \A p \in Refreshers :
    /\ posts[p].phase \in {"listed", "prompted"} =>
         Analyzed(rows[posts[p].client]) <= posts[p].total
    /\ posts[p].phase = "selected" =>
         Analyzed(rows[posts[p].client]) <= posts[p].new.analyzed

(* Every step keeps it that lets no refresh commit past another.           *)
LEMMA MonotoneStep ==
  TypeInv /\ InboxInv /\ MonotoneInv /\ NoOvertaking' /\ [Next]_vars => MonotoneInv'
<1> SUFFICES ASSUME TypeInv, InboxInv, MonotoneInv, NoOvertaking', [Next]_vars
             PROVE  MonotoneInv'
  OBVIOUS
<1>1. ASSUME NEW p \in Refreshers, NEW c \in Clients, PostStart(p, c) PROVE MonotoneInv'
  <2>1. inbox[c] # <<>> => Analyzed(rows[c]) <= Len(inbox[c])
    BY DEF InboxInv, WithinInbox, Analyzed, TypeInv, TypeOK
  <2> QED  BY <1>1, <2>1 DEF PostStart, MonotoneInv, TypeInv, TypeOK
<1>2. ASSUME NEW p \in Refreshers, PostPrompt(p) PROVE MonotoneInv'
  <2>1. /\ posts'[p].phase \in {"prompted", "failed"}
        /\ posts'[p].phase = "prompted" =>
             posts'[p].client = posts[p].client /\ posts'[p].total = posts[p].total
        /\ \A q \in Refreshers \ {p} : posts'[q] = posts[q]
        /\ rows' = rows
    BY <1>2 DEF PostPrompt, TypeInv, TypeOK
  <2> QED  BY <1>2, <2>1 DEF PostPrompt, MonotoneInv, Analyzed
<1>3. ASSUME NEW p \in Refreshers, PostGenerate(p) PROVE MonotoneInv'
  <2> DEFINE c == posts[p].client
             new == NewRow(posts[p].draft, c, posts[p].total)
  <2>1. new.analyzed = posts[p].total
    BY DEF NewRow
  <2> HIDE DEF new
  <2>2. /\ posts' = [posts EXCEPT ![p] = [phase |-> "selected", client |-> c,
                                          seen |-> rows[c], new |-> new]]
        /\ rows' = rows
    BY <1>3 DEF PostGenerate, new
  <2> QED  BY <1>3, <2>1, <2>2 DEF PostGenerate, MonotoneInv, Analyzed, TypeInv, TypeOK
<1>4. ASSUME NEW p \in Refreshers, PostCommit(p) PROVE MonotoneInv'
  <2>1. /\ posts'[p].phase = "committed" /\ posts'[p].client = posts[p].client
        /\ \A q \in Refreshers \ {p} : posts'[q] = posts[q]
        /\ \A d \in Clients \ {posts[p].client} : rows'[d] = rows[d]
    BY <1>4 DEF PostCommit, TypeInv, TypeOK
  <2>2. \A q \in Refreshers : posts'[q].phase \in {"listed", "prompted", "selected"} =>
          /\ q # p
          /\ posts[q].client \in Clients \ {posts[p].client}
    BY <2>1, PostFields DEF TypeInv, NoOvertaking
  <2> QED  BY <2>1, <2>2 DEF MonotoneInv, Analyzed
<1>5. ASSUME UNCHANGED rows,
             \A p \in Refreshers :
               posts'[p].phase \in {"listed", "prompted", "selected"} => posts'[p] = posts[p]
      PROVE  MonotoneInv'
  BY <1>5 DEF MonotoneInv, Analyzed
<1>6. ASSUME NEW p \in Refreshers,
             PostLlmFails(p) \/ PostConflict(p) \/ PostInvalidate(p) \/ AbortPost(p)
      PROVE  MonotoneInv'
  BY <1>5, <1>6 DEF TypeInv, TypeOK, PostLlmFails, PostConflict, PostInvalidate, AbortPost
<1>7. ASSUME NEW r \in Readers,
             \/ \E c \in Clients : GetStart(r, c)
             \/ GetStep(r) \/ AbortGet(r)
      PROVE  MonotoneInv'
  BY <1>5, <1>7 DEF GetStart, GetStep, GetCached, GetRow, GetFill, AbortGet
<1>8. ASSUME NEW c \in Clients, ReceiveEmail(c) \/ Expire(c) PROVE MonotoneInv'
  BY <1>5, <1>8 DEF ReceiveEmail, Expire
<1>9. ASSUME Restart PROVE MonotoneInv'
  BY <1>5, <1>9 DEF Restart
<1>10. CASE UNCHANGED vars
  BY <1>5, <1>10 DEF vars
<1> QED
  BY <1>1, <1>2, <1>3, <1>4, <1>6, <1>7, <1>8, <1>9, <1>10 DEF Next, PostStep

(* A COMMIT of a client whose refreshes do not overtake each other counts  *)
(* at least what every row before it counted; other steps commit nothing.  *)
LEMMA CountsStep ==
  TypeInv /\ CommitInv /\ MonotoneInv /\ CountsGrow /\ [Next]_vars => CountsGrow'
<1> SUFFICES ASSUME TypeInv, CommitInv, MonotoneInv, CountsGrow, [Next]_vars
             PROVE  CountsGrow'
  OBVIOUS
<1>1. ASSUME NEW p \in Refreshers, PostCommit(p) PROVE CountsGrow'
  <2> DEFINE c == posts[p].client
             row == RowToCommit(p)
             n == Len(history[c])
  <2>1. /\ c \in Clients /\ row \in Row
        /\ \A d \in Clients : history[d] \in Seq(Row)
        /\ posts[p].new \in Row /\ posts[p].new.analyzed \in Nat
        /\ Analyzed(rows[c]) <= posts[p].new.analyzed
        /\ posts[p].seen # NoRow => rows[c] # NoRow
    BY <1>1, RowToCommitType, PostFields
    DEF PostCommit, TypeInv, TypeOK, SeenRowStillStored, MonotoneInv, Row
  <2>2. rows[c] # NoRow => rows[c].analyzed \in Nat /\ Analyzed(rows[c]) = rows[c].analyzed
    BY <2>1 DEF TypeInv, TypeOK, Blob, Row, Analyzed
  <2>3. rows[c] # NoRow => rows[c].analyzed <= row.analyzed
    BY <2>1, <2>2 DEF RowToCommit, Written, Row
  <2>4. n > 0 => rows[c] = history[c][n] /\ rows[c] # NoRow
    BY <2>1, ServiceAssumption DEF CommitInv, RowIsLastCommitted
  <2>5. \A i \in 1 .. n : history[c][i].analyzed <= row.analyzed
    <3> SUFFICES ASSUME NEW i \in 1 .. n PROVE history[c][i].analyzed <= row.analyzed
      OBVIOUS
    <3>1. n \in Nat /\ n \in 1 .. n
      BY <2>1
    <3>2. /\ history[c][i].analyzed \in Nat /\ history[c][n].analyzed \in Nat
          /\ row.analyzed \in Nat
      <4>1. history[c] \in Seq(Row) /\ row \in Row /\ i \in 1 .. n /\ n \in 1 .. n
        BY <2>1, <3>1
      <4> HIDE DEF row
      <4>2. history[c][i] \in Row /\ history[c][n] \in Row
        BY <4>1
      <4> QED BY <4>1, <4>2 DEF Row
    <3>3. history[c][i].analyzed <= history[c][n].analyzed
      BY <2>1, <3>1 DEF CountsGrow
    <3>4. history[c][n].analyzed <= row.analyzed
      BY <2>3, <2>4, <3>1
    <3> HIDE DEF n, row
    <3> QED BY <3>2, <3>3, <3>4
  <2>6. row.analyzed \in Nat
    BY <2>1 DEF Row
  <2> HIDE DEF row
  <2>7. \A d \in Clients : history'[d] = IF d = c THEN Append(history[c], row) ELSE history[d]
    BY <1>1, <2>1 DEF PostCommit, TypeInv, TypeOK, row
  <2>8. ASSUME NEW d \in Clients, NEW j \in 1 .. Len(history'[d]), NEW i \in 1 .. j
        PROVE  history'[d][i].analyzed <= history'[d][j].analyzed
    <3>1. CASE d # c
      BY <2>7, <2>8, <3>1 DEF CountsGrow
    <3>2. CASE d = c
      <4>1. /\ n \in Nat /\ j \in 1 .. n + 1
            /\ \A k \in 1 .. n : history'[d][k] = history[c][k]
            /\ history'[d][n + 1] = row
        <5>1. history'[d] = Append(history[c], row)
          BY <2>7, <3>2
        <5>2. history[c] \in Seq(Row) /\ row \in Row
          BY <2>1 DEF row
        <5>3. j \in 1 .. Len(history'[d])
          BY <2>8
        <5> QED BY <5>1, <5>2, <5>3
      <4>2. CASE j \in 1 .. n
        <5>1. i \in 1 .. n /\ i \in 1 .. j
          BY <2>8, <4>1, <4>2
        <5>2. history[c][i].analyzed <= history[c][j].analyzed
          BY <2>1, <4>2, <5>1 DEF CountsGrow
        <5> QED BY <4>1, <4>2, <5>1, <5>2
      <4>3. CASE j = n + 1 /\ i \in 1 .. n
        BY <2>5, <4>1, <4>3
      <4>4. CASE j = n + 1 /\ i = n + 1
        BY <2>6, <4>1, <4>4
      <4> HIDE DEF n
      <4> QED BY <2>8, <4>1, <4>2, <4>3, <4>4
    <3> QED BY <3>1, <3>2
  <2> QED BY <2>8 DEF CountsGrow
<1>2. ASSUME UNCHANGED history PROVE CountsGrow'
  BY <1>2 DEF CountsGrow
<1>3. ASSUME NEW p \in Refreshers,
             \/ \E c \in Clients : PostStart(p, c)
             \/ PostPrompt(p) \/ PostLlmFails(p) \/ PostGenerate(p) \/ PostConflict(p)
             \/ PostInvalidate(p) \/ AbortPost(p)
      PROVE  UNCHANGED history
  BY <1>3 DEF PostStart, PostPrompt, PostLlmFails, PostGenerate, PostConflict,
     PostInvalidate, AbortPost
<1>4. ASSUME NEW r \in Readers,
             \/ \E c \in Clients : GetStart(r, c)
             \/ GetStep(r) \/ AbortGet(r)
      PROVE  UNCHANGED history
  BY <1>4 DEF GetStart, GetStep, GetCached, GetRow, GetFill, AbortGet
<1>5. ASSUME NEW c \in Clients, ReceiveEmail(c) \/ Expire(c) PROVE UNCHANGED history
  BY <1>5 DEF ReceiveEmail, Expire
<1>6. ASSUME Restart PROVE UNCHANGED history
  BY <1>6 DEF Restart
<1>7. CASE UNCHANGED vars
  BY <1>2, <1>7 DEF vars
<1> QED
  BY <1>1, <1>2, <1>3, <1>4, <1>5, <1>6, <1>7 DEF Next, PostStep

(***************************************************************************)
(* For any number of refreshers, faults, restarts and rotations: as long   *)
(* as no refresh is overtaken, no count is ever taken back (upsert,        *)
(* refresh_summary).                                                       *)
(***************************************************************************)
THEOREM UnovertakenNeverTakenBack == Spec => UnovertakenCountsGrow
<1>1. Init => InboxInv /\ MonotoneInv /\ CountsGrow
  BY DEF Init, InboxInv, MonotoneInv, CountsGrow
<1> QED
  BY <1>1, InboxStep, MonotoneStep, CountsStep, TypeInvariant, CommitInvariant, PTL
  DEF Spec, UnovertakenCountsGrow

(* With one refresh at a time none is overtaken.                           *)
LEMMA OneRefreshNotOvertaken ==
  ASSUME NEW p0, Refreshers = {p0}
  PROVE  NoOvertaking
BY DEF NoOvertaking

-----------------------------------------------------------------------------
received == [c \in Clients |-> Len(inbox[c])]
claimed == [c \in Clients |-> Analyzed(rows[c])]
accounted == [c \in Clients |-> IF rows[c] = NoRow THEN {} ELSE Covered(rows[c])]

LEMMA CommitRegenerates ==
  ASSUME TypeInv, CountInv, InboxInv, MonotoneInv, NEW p \in Refreshers, PostCommit(p)
  PROVE  Promise!Regenerate(posts[p].client)
<1> DEFINE c == posts[p].client
           new == posts[p].new
<1>1. /\ c \in Clients
      /\ new \in Row
      /\ new # NoRow
      /\ posts[p].seen \in Blob
      /\ posts[p].seen = rows[c]
      /\ Accounted(new)
      /\ WithinInbox(new, c)
      /\ Analyzed(rows[c]) <= new.analyzed
  BY PostFields, ServiceAssumption DEF PostCommit, TypeInv, CountInv, InboxInv, MonotoneInv
<1>2. RowToCommit(p) = new
  BY <1>1, WrittenToSeen DEF RowToCommit, Blob
<1>3. rows' = [rows EXCEPT ![c] = new] /\ UNCHANGED inbox
  BY <1>2 DEF PostCommit
<1> HIDE DEF new
<1>4. claimed' = [claimed EXCEPT ![c] = new.analyzed]
  BY <1>1, <1>3 DEF claimed, Analyzed, TypeInv, TypeOK
<1>5. accounted' = [accounted EXCEPT ![c] = 1 .. new.analyzed]
  BY <1>1, <1>3 DEF accounted, Accounted, Covered, TypeInv, TypeOK
<1>6. new.analyzed \in 1 .. received[c] /\ claimed[c] <= new.analyzed
  BY <1>1 DEF received, claimed, WithinInbox
<1>7. UNCHANGED received
  BY <1>3 DEF received
<1> QED
  BY <1>4, <1>5, <1>6, <1>7 DEF Promise!Regenerate, received, claimed, accounted

LEMMA StepKeepsPromise ==
  TypeInv /\ CountInv /\ InboxInv /\ MonotoneInv /\ [Next]_vars =>
    [Promise!PromiseNext]_(Promise!pvars)
<1> SUFFICES ASSUME TypeInv, CountInv, InboxInv, MonotoneInv, [Next]_vars
             PROVE  [Promise!PromiseNext]_(Promise!pvars)
  OBVIOUS
<1>1. ASSUME UNCHANGED <<inbox, rows>> PROVE UNCHANGED Promise!pvars
  BY <1>1 DEF Promise!pvars, Analyzed, Covered
<1>2. ASSUME NEW c \in Clients, ReceiveEmail(c) PROVE Promise!PromiseNext
  <2>1. received' = [received EXCEPT ![c] = @ + 1]
    <3>1. PICK chars \in Bodies : inbox' = [inbox EXCEPT ![c] = Append(@, chars)]
      BY <1>2 DEF ReceiveEmail
    <3>2. inbox[c] \in Seq(Nat) /\ chars \in Nat
      BY ServiceAssumption DEF TypeInv, TypeOK
    <3>3. Len(Append(inbox[c], chars)) = Len(inbox[c]) + 1
      BY <3>2
    <3> QED  BY <3>1, <3>3 DEF received, TypeInv, TypeOK
  <2>2. UNCHANGED <<claimed, accounted>>
    BY <1>2 DEF ReceiveEmail, claimed, accounted, Analyzed, Covered
  <2>3. Promise!Receive(c)
    BY <2>1, <2>2 DEF Promise!Receive, received, claimed, accounted
  <2> QED  BY <2>3 DEF Promise!PromiseNext
<1>3. ASSUME NEW p \in Refreshers, PostCommit(p) PROVE Promise!PromiseNext
  <2>1. posts[p].client \in Clients
    BY <1>3, PostFields DEF PostCommit, TypeInv
  <2> QED  BY <1>3, <2>1, CommitRegenerates DEF Promise!PromiseNext, Promise!Regenerate
<1>4. ASSUME NEW r \in Readers,
             \/ \E c \in Clients : GetStart(r, c)
             \/ GetStep(r) \/ AbortGet(r)
      PROVE  UNCHANGED Promise!pvars
  BY <1>1, <1>4 DEF GetStart, GetStep, GetCached, GetRow, GetFill, AbortGet
<1>5. ASSUME NEW p \in Refreshers,
             \/ \E c \in Clients : PostStart(p, c)
             \/ PostPrompt(p) \/ PostLlmFails(p) \/ PostGenerate(p) \/ PostConflict(p)
             \/ PostInvalidate(p) \/ AbortPost(p)
      PROVE  UNCHANGED Promise!pvars
  BY <1>1, <1>5 DEF PostStart, PostPrompt, PostLlmFails, PostGenerate, PostConflict,
     PostInvalidate, AbortPost
<1>6. ASSUME NEW c \in Clients, Expire(c) PROVE UNCHANGED Promise!pvars
  BY <1>1, <1>6 DEF Expire
<1>7. ASSUME Restart PROVE UNCHANGED Promise!pvars
  BY <1>1, <1>7 DEF Restart
<1>8. CASE UNCHANGED vars
  BY <1>1, <1>8 DEF vars
<1> QED
  BY <1>2, <1>3, <1>4, <1>5, <1>6, <1>7, <1>8 DEF Next, PostStep

(***************************************************************************)
(* With one refresh at a time the stored row only ever moves forward, from *)
(* one fully accounted-for prefix of the inbox to another, whatever is     *)
(* read, cached, lost, restarted or rotated meanwhile.                     *)
(***************************************************************************)
THEOREM OneRefreshAtATime ==
  ASSUME NEW p0, Refreshers = {p0}, ProviderReadsPrior
  PROVE  Spec => KeepsPromise
<1>1. Init => InboxInv /\ MonotoneInv /\ Promise!PromiseInit
  BY DEF Init, InboxInv, MonotoneInv, Promise!PromiseInit, Analyzed
<1>2. NoUpsertOverlap /\ NoOvertaking
  BY OneRefreshNotOvertaken DEF NoUpsertOverlap
<1>3. TypeInv /\ InboxInv /\ MonotoneInv /\ NoOvertaking' /\ [Next]_vars => MonotoneInv'
  BY MonotoneStep
<1>4. Spec => ([]NoUpsertOverlap => []CountInv)
  BY CountInvariant
<1> QED
  BY <1>1, <1>2, <1>3, <1>4, InboxStep, StepKeepsPromise, TypeInvariant, PTL
  DEF Spec, KeepsPromise, Promise!PromiseSpec

(***************************************************************************)
(* With one refresh at a time count and payload always agree: the window   *)
(* between SELECT and COMMIT cannot overlap with itself (upsert).          *)
(***************************************************************************)
THEOREM CountsMatchOneAtATime ==
  ASSUME NEW p0, Refreshers = {p0}, ProviderReadsPrior
  PROVE  Spec => []CountMatchesPayload
<1>1. NoUpsertOverlap
  BY DEF NoUpsertOverlap
<1> QED BY <1>1, DisjointUpserts, PTL DEF DisjointUpsertsKeepCounts

(* With one refresh at a time no count is ever taken back.                 *)
LEMMA CountsGrowOneAtATime ==
  ASSUME NEW p0, Refreshers = {p0}
  PROVE  Spec => []CountsGrow
<1>1. NoOvertaking
  BY OneRefreshNotOvertaken
<1> QED BY <1>1, UnovertakenNeverTakenBack, PTL DEF UnovertakenCountsGrow

=============================================================================
