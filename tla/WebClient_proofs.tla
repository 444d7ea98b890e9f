--------------------------- MODULE WebClient_proofs ---------------------------
(***************************************************************************)
(* For any number of tabs: the client's types; the calls of a tab that     *)
(* signs in (TabInv); that a disabled button waits for its own call; and,  *)
(* as long as answers are punctual, that every screen is the one of its    *)
(* address and every button stops a second call.  For a lone tab also that *)
(* the shell never shows one user while the calls act for another, nor a   *)
(* punctual screen the data of another.                                    *)
(***************************************************************************)
EXTENDS WebClient, TLAPS

-----------------------------------------------------------------------------
(* Type correctness needs to know where tokens come from: every token in   *)
(* use was issued, to a user, and an accepted call carried one.            *)
TokensIssued ==
  /\ token <= issued
  /\ live \subseteq 1 .. issued
  /\ \A k \in 1 .. issued : owner[k] \in Users

IssuedCall ==
  {call \in Call : /\ call.token <= issued
                   /\ call.accepted => call.token # 0
                   /\ call.kind \in {"load", "refresh"} => call.page \in Pages}

CallsIssued == calls \in [Tabs -> [Slots -> IssuedCall \cup {NotInFlight}]]

WebInv == TypeOK /\ TokensIssued /\ CallsIssued

(* A call sent now carries an issued token, or none.                       *)
LEMMA SentIssued ==
  ASSUME WebInv, NEW kind \in {"boot", "login", "me", "load", "refresh"},
         NEW page \in Pages \cup {NoPage},
         kind \in {"load", "refresh"} => page \in Pages
  PROVE  Sent(kind, page) \in IssuedCall
<1>1. token \in 0 .. MaxLogins /\ token <= issued /\ (token \in live => token # 0)
  BY DEF WebInv, TypeOK, TokensIssued
<1>2. Sent(kind, page) \in Call
  BY <1>1 DEF Sent, Call
<1> QED BY <1>1, <1>2 DEF Sent, IssuedCall

(* A slot that is in flight holds such a call.                             *)
LEMMA InFlightIssued ==
  ASSUME WebInv, NEW t \in Tabs, NEW s \in InFlight(t)
  PROVE  /\ s \in Slots
         /\ calls[t][s] \in IssuedCall
         /\ calls[t][s] \in Call
         /\ calls[t][s].page \in Pages \cup {NoPage}
         /\ calls[t][s].kind \in {"load", "refresh"} => calls[t][s].page \in Pages
         /\ calls[t][s].token \in 0 .. issued
         /\ calls[t][s].accepted => owner[calls[t][s].token] \in Users
<1>1. s \in Slots /\ calls[t][s] \in IssuedCall
  BY DEF WebInv, CallsIssued, InFlight
<1>2. calls[t][s] \in Call
  BY <1>1 DEF IssuedCall
<1>3. calls[t][s].page \in Pages \cup {NoPage} /\ calls[t][s].token \in Nat
  BY <1>2 DEF Call
<1>4. calls[t][s].token \in 0 .. issued /\ issued \in Nat
  BY <1>1, <1>3 DEF IssuedCall, WebInv, TypeOK
<1>5. calls[t][s].accepted => calls[t][s].token \in 1 .. issued
  BY <1>1, <1>4 DEF IssuedCall
<1>6. calls[t][s].kind \in {"load", "refresh"} => calls[t][s].page \in Pages
  BY <1>1 DEF IssuedCall
<1> QED BY <1>1, <1>2, <1>3, <1>4, <1>5, <1>6 DEF WebInv, TokensIssued

(* Answering a call, or sending one, keeps the calls issued.               *)
LEMMA AnsweredIssued ==
  ASSUME WebInv, NEW t \in Tabs, NEW s
  PROVE  /\ Answered(t, s) \in [Tabs -> [Slots -> IssuedCall \cup {NotInFlight}]]
         /\ Answered(t, s)[t] \in [Slots -> IssuedCall \cup {NotInFlight}]
BY DEF WebInv, CallsIssued, Answered

(* A call that is sent carries an issued token.                            *)
LEMMA SendIssued ==
  ASSUME WebInv, NEW t \in Tabs, NEW call \in IssuedCall, SendFrom(t, call)
  PROVE  calls' \in [Tabs -> [Slots -> IssuedCall \cup {NotInFlight}]]
BY DEF WebInv, CallsIssued, SendFrom

(* A route leads to a page, through the loading screen or home.            *)
LEMMA RouteIssued ==
  ASSUME WebInv, NEW t \in Tabs, NEW page \in Pages \cup {NoPage}, NEW u \in Users,
         NEW pending \in [Slots -> IssuedCall \cup {NotInFlight}], NEW sent \in IssuedCall,
         Route(t, page, u, pending, sent)
  PROVE  /\ hash' \in [Tabs -> Pages \cup {NoPage}]
         /\ content' \in [Tabs -> Content]
         /\ calls' \in [Tabs -> [Slots -> IssuedCall \cup {NotInFlight}]]
<1>1. Target(page, u) \in Pages
  BY WebAssumption DEF Target
<1>2. Showing("home") \in Content /\ Showing("loading") \in Content
  BY DEF Showing, Content
<1>3. \A free : [pending EXCEPT ![free] = sent] \in [Slots -> IssuedCall \cup {NotInFlight}]
  OBVIOUS
<1>4. /\ hash \in [Tabs -> Pages \cup {NoPage}]
      /\ content \in [Tabs -> Content]
      /\ calls \in [Tabs -> [Slots -> IssuedCall \cup {NotInFlight}]]
  BY DEF WebInv, TypeOK, CallsIssued
<1>5. hash' = [hash EXCEPT ![t] = Target(page, u)]
  BY DEF Route
<1>6. \/ content' = [content EXCEPT ![t] = Showing("home")]
      \/ content' = [content EXCEPT ![t] = Showing("loading")]
  BY DEF Route
<1>7. \E new \in [Slots -> IssuedCall \cup {NotInFlight}] :
        calls' = [calls EXCEPT ![t] = new]
  BY <1>3 DEF Route
<1>8. calls' \in [Tabs -> [Slots -> IssuedCall \cup {NotInFlight}]]
  BY <1>4, <1>7
<1> QED BY <1>1, <1>2, <1>4, <1>5, <1>6, <1>8

(* The calls are what they were typed as.                                  *)
LEMMA CallsTyped ==
  ASSUME NEW c \in [Tabs -> [Slots -> IssuedCall \cup {NotInFlight}]]
  PROVE  c \in [Tabs -> [Slots -> Call \cup {NotInFlight}]]
BY DEF IssuedCall

(* A step that issues no token keeps the invariant if it keeps the types   *)
(* of what a tab shows and only uses issued tokens.                        *)
LEMMA SameTokens ==
  ASSUME WebInv, UNCHANGED <<issued, owner, live>>,
         token' \in {0, token},
         view' \in [Tabs -> {"blank", "login", "app", "closed"}],
         user' \in [Tabs -> Users \cup {NoUser}],
         hash' \in [Tabs -> Pages \cup {NoPage}],
         content' \in [Tabs -> Content],
         signing' \in [Tabs -> BOOLEAN],
         calls' \in [Tabs -> [Slots -> IssuedCall \cup {NotInFlight}]]
  PROVE  WebInv'
<1>1. IssuedCall' = IssuedCall
  BY DEF IssuedCall
<1>2. CallsIssued'
  BY <1>1 DEF CallsIssued
<1>3. token' \in 0 .. MaxLogins /\ token' <= issued
  BY WebAssumption DEF WebInv, TypeOK, TokensIssued
<1>4. TokensIssued'
  BY <1>3 DEF WebInv, TokensIssued
<1>5. calls' \in [Tabs -> [Slots -> Call \cup {NotInFlight}]]
  BY CallsTyped
<1> QED BY <1>2, <1>3, <1>4, <1>5 DEF WebInv, TypeOK

(* What a tab may show.                                                    *)
LEMMA ContentTypes ==
  /\ Showing("empty") \in Content /\ Showing("loading") \in Content
  /\ Showing("home") \in Content /\ Showing("error") \in Content
  /\ \A page \in Pages, for \in Users \cup {NoUser} : Rendered(page, for) \in Content
BY DEF Showing, Rendered, Content, NoCall

(* A button is disabled and enabled again within the same screen.          *)
LEMMA BusyTypes ==
  ASSUME NEW shown \in Content, shown.shows = "page", NEW busy \in Slots \cup {NoCall}
  PROVE  [shown EXCEPT !.busy = busy] \in Content
BY DEF Content

(* A tab whose spinner is replaced by what it loaded, or by an error.      *)
LEMMA LoadKeepsInv ==
  ASSUME WebInv, NEW t \in Tabs, NEW s \in InFlight(t),
         LoadOk(t, s) \/ LoadRefused(t, s) \/ LoadFails(t, s)
  PROVE  WebInv'
<1>1. /\ calls[t][s].page \in Pages
      /\ calls[t][s].accepted => owner[calls[t][s].token] \in Users
  BY InFlightIssued DEF LoadOk, LoadRefused, LoadFails
<1>2. calls' \in [Tabs -> [Slots -> IssuedCall \cup {NotInFlight}]]
  BY AnsweredIssued DEF LoadOk, LoadRefused, LoadFails
<1>3. CASE LoadOk(t, s)
  <2>1. content' \in [Tabs -> Content]
    BY <1>1, <1>3, ContentTypes DEF WebInv, TypeOK, LoadOk
  <2> QED BY <1>2, <1>3, <2>1, SameTokens DEF LoadOk, WebInv, TypeOK, session
<1>4. CASE LoadRefused(t, s)
  BY <1>2, <1>4, SameTokens DEF LoadRefused, Refused, WebInv, TypeOK
<1>5. CASE LoadFails(t, s)
  <2>1. content' \in [Tabs -> Content]
    BY <1>5, ContentTypes DEF WebInv, TypeOK, LoadFails
  <2> QED BY <1>2, <1>5, <2>1, SameTokens DEF LoadFails, WebInv, TypeOK, session
<1> QED BY <1>3, <1>4, <1>5

(* The Regenerate button, from its click to the answer.                    *)
LEMMA ButtonBackType ==
  ASSUME WebInv, NEW t \in Tabs, NEW s, ButtonBack(t, s)
  PROVE  content' \in [Tabs -> Content]
<1>1. content[t] \in Content
  BY DEF WebInv, TypeOK
<1>2. content[t].shows = "page" => [content[t] EXCEPT !.busy = NoCall] \in Content
  BY <1>1, BusyTypes
<1> QED BY <1>1, <1>2 DEF ButtonBack, WebInv, TypeOK

(* The regenerate button sends one call and waits.                         *)
LEMMA RegenerateKeepsInv ==
  ASSUME WebInv, NEW t \in Tabs, Regenerate(t)
  PROVE  WebInv'
<1>1. content[t] \in Content /\ content[t].shows = "page" /\ content[t].page \in ClientPages
  BY DEF Regenerate, OnClientPage, WebInv, TypeOK
<1>2. Slot(t) \in Slots
  <2>1. Free(t) # {} /\ Free(t) \subseteq Slots
    BY DEF Regenerate, Free
  <2> QED BY <2>1 DEF Slot
<1>3. content' \in [Tabs -> Content]
  BY <1>1, <1>2, BusyTypes DEF Regenerate, WebInv, TypeOK
<1>4. Sent("refresh", content[t].page) \in IssuedCall
  BY <1>1, SentIssued DEF Pages
<1>5. calls' \in [Tabs -> [Slots -> IssuedCall \cup {NotInFlight}]]
  BY <1>4, SendIssued DEF Regenerate
<1> QED BY <1>3, <1>5, SameTokens DEF Regenerate, WebInv, TypeOK, session

(* However the call of the button ends, the types hold.                    *)
LEMMA RefreshKeepsInv ==
  ASSUME WebInv, NEW t \in Tabs, NEW s \in InFlight(t),
         RefreshOk(t, s) \/ RefreshRefused(t, s) \/ RefreshFails(t, s)
  PROVE  WebInv'
<1>1. /\ calls[t][s].page \in Pages
      /\ calls[t][s].accepted => owner[calls[t][s].token] \in Users
  BY InFlightIssued DEF RefreshOk, RefreshRefused, RefreshFails
<1>2. calls' \in [Tabs -> [Slots -> IssuedCall \cup {NotInFlight}]]
  BY AnsweredIssued DEF RefreshOk, RefreshRefused, RefreshFails
<1>3. CASE RefreshOk(t, s)
  <2>1. content' \in [Tabs -> Content]
    BY <1>1, <1>3, ContentTypes DEF WebInv, TypeOK, RefreshOk
  <2> QED BY <1>2, <1>3, <2>1, SameTokens DEF RefreshOk, WebInv, TypeOK, session
<1>4. CASE RefreshRefused(t, s)
  <2>1. content' \in [Tabs -> Content]
    BY <1>4, ButtonBackType DEF RefreshRefused
  <2> QED BY <1>2, <1>4, <2>1, SameTokens DEF RefreshRefused, Refused, WebInv, TypeOK
<1>5. CASE RefreshFails(t, s)
  <2>1. content' \in [Tabs -> Content]
    BY <1>5, ButtonBackType DEF RefreshFails
  <2> QED BY <1>2, <1>5, <2>1, SameTokens DEF RefreshFails, WebInv, TypeOK, session
<1> QED BY <1>3, <1>4, <1>5

(* Opening a tab, and the answer to its api.me().                          *)
LEMMA BootKeepsInv ==
  ASSUME WebInv, NEW t \in Tabs, Boot(t)
  PROVE  WebInv'
<1>1. Sent("boot", NoPage) \in IssuedCall
  BY SentIssued
<1>2. calls' \in [Tabs -> [Slots -> IssuedCall \cup {NotInFlight}]]
  BY <1>1 DEF Boot, WebInv, CallsIssued
<1>3. content' \in [Tabs -> Content]
  BY ContentTypes DEF Boot, WebInv, TypeOK
<1> QED BY <1>2, <1>3, SameTokens DEF Boot, WebInv, TypeOK, session

(* Entering the app, after boot or login, keeps the types.                 *)
LEMMA ShowAppTypes ==
  ASSUME WebInv, NEW t \in Tabs, NEW s \in InFlight(t), ShowApp(t, s)
  PROVE  /\ hash' \in [Tabs -> Pages \cup {NoPage}]
         /\ content' \in [Tabs -> Content]
         /\ calls' \in [Tabs -> [Slots -> IssuedCall \cup {NotInFlight}]]
         /\ view' \in [Tabs -> {"blank", "login", "app", "closed"}]
         /\ user' \in [Tabs -> Users \cup {NoUser}]
<1> DEFINE u    == owner[calls[t][s].token]
           page == Target(hash[t], u)
<1>1. u \in Users
  BY InFlightIssued DEF ShowApp
<1>2. page \in Pages
  BY <1>1, WebAssumption DEF Target, WebInv, TypeOK
<1>3. Answered(t, s)[t] \in [Slots -> IssuedCall \cup {NotInFlight}]
  BY AnsweredIssued
<1>4. Sent("load", page) \in IssuedCall
  BY <1>2, SentIssued
<1>5. Route(t, page, u, Answered(t, s)[t], Sent("load", page))
  BY DEF ShowApp
<1>6. /\ hash' \in [Tabs -> Pages \cup {NoPage}]
      /\ content' \in [Tabs -> Content]
      /\ calls' \in [Tabs -> [Slots -> IssuedCall \cup {NotInFlight}]]
  <2> HIDE DEF u, page
  <2> QED BY <1>1, <1>2, <1>3, <1>4, <1>5, RouteIssued
<1>7. view' = [view EXCEPT ![t] = "app"] /\ user' = [user EXCEPT ![t] = u]
  BY DEF ShowApp
<1> QED BY <1>1, <1>6, <1>7 DEF WebInv, TypeOK

(* The answer to the call of boot keeps the types.                         *)
LEMMA BootAnswerKeepsInv ==
  ASSUME WebInv, NEW t \in Tabs, NEW s \in InFlight(t), BootOk(t, s) \/ BootFails(t, s)
  PROVE  WebInv'
<1>1. CASE BootOk(t, s)
  BY <1>1, ShowAppTypes, SameTokens DEF BootOk, session, WebInv, TypeOK
<1>2. CASE BootFails(t, s)
  <2>1. calls' \in [Tabs -> [Slots -> IssuedCall \cup {NotInFlight}]]
    BY <1>2, AnsweredIssued DEF BootFails
  <2> QED BY <1>2, <2>1, SameTokens DEF BootFails, WebInv, TypeOK
<1> QED BY <1>1, <1>2

(* Signing in.                                                             *)
LEMMA SubmitKeepsInv ==
  ASSUME WebInv, NEW t \in Tabs, Submit(t)
  PROVE  WebInv'
<1>1. Sent("login", NoPage) \in IssuedCall
  BY SentIssued
<1>2. calls' \in [Tabs -> [Slots -> IssuedCall \cup {NotInFlight}]]
  BY <1>1, SendIssued DEF Submit
<1> QED BY <1>2, SameTokens DEF Submit, WebInv, TypeOK, session

(* An accepted login issues a token and asks who it is.                    *)
LEMMA LoginOkKeepsInv ==
  ASSUME WebInv, NEW t \in Tabs, NEW s \in InFlight(t), LoginOk(t, s)
  PROVE  WebInv'
<1> DEFINE me == [kind |-> "me", page |-> NoPage, token |-> issued + 1, accepted |-> TRUE]
<1>1. issued \in Nat /\ issued + 1 \in Tokens /\ issued' = issued + 1
  BY WebAssumption DEF LoginOk, Issues, WebInv, TypeOK, Tokens
<1>2. \E u \in Users : owner' = [owner EXCEPT ![issued + 1] = u]
  BY DEF LoginOk, Issues
<1>3. TokensIssued'
  <2>1. token' <= issued' /\ live' \subseteq 1 .. issued'
    BY <1>1 DEF LoginOk, Issues, WebInv, TokensIssued
  <2>2. \A k \in 1 .. issued' : owner'[k] \in Users
    <3>1. PICK u \in Users : owner' = [owner EXCEPT ![issued + 1] = u]
      BY <1>2
    <3>2. owner' \in [Tokens -> Users \cup {NoUser}] /\ owner'[issued + 1] = u
      BY <1>1, <3>1 DEF WebInv, TypeOK
    <3>3. ASSUME NEW k \in 1 .. issued
          PROVE  owner'[k] \in Users
      <4>1. k \in Tokens /\ k # issued + 1
        BY <1>1, <3>3, WebAssumption DEF Tokens
      <4>2. owner[k] \in Users
        BY <3>3 DEF WebInv, TokensIssued
      <4> QED BY <3>1, <4>1, <4>2 DEF WebInv, TypeOK
    <3>4. \A k \in 1 .. issued' : k \in 1 .. issued \/ k = issued + 1
      BY <1>1
    <3> QED BY <3>2, <3>3, <3>4
  <2> QED BY <2>1, <2>2 DEF TokensIssued
<1>4. IssuedCall \subseteq IssuedCall'
  <2>1. \A call \in Call : call.token \in Nat
    BY DEF Call
  <2> QED BY <1>1, <2>1 DEF IssuedCall
<1>5. me \in IssuedCall'
  <2>1. me \in Call
    BY <1>1 DEF Call, Tokens
  <2>2. me.token <= issued'
    BY <1>1
  <2> QED BY <1>1, <2>1, <2>2 DEF IssuedCall
<1>6. calls' = [calls EXCEPT ![t][s] = me]
  BY DEF LoginOk
<1>7. CallsIssued'
  <2> HIDE DEF me
  <2> QED BY <1>4, <1>5, <1>6 DEF WebInv, CallsIssued
<1>8. calls' \in [Tabs -> [Slots -> Call \cup {NotInFlight}]]
  BY <1>7 DEF CallsIssued, IssuedCall
<1>9. TypeOK'
  BY <1>1, <1>2, <1>8 DEF LoginOk, Issues, WebInv, TypeOK, Tokens
<1> QED BY <1>3, <1>7, <1>9 DEF WebInv

(* The other ends of a login keep the types.                               *)
LEMMA SignInAnswerKeepsInv ==
  ASSUME WebInv, NEW t \in Tabs, NEW s \in InFlight(t),
         \/ LoginRefused(t, s) \/ MeOk(t, s) \/ MeRefused(t, s) \/ SignInFails(t, s)
  PROVE  WebInv'
<1>1. CASE MeOk(t, s)
  BY <1>1, ShowAppTypes, SameTokens DEF MeOk, session, WebInv, TypeOK
<1>2. CASE LoginRefused(t, s) \/ MeRefused(t, s) \/ SignInFails(t, s)
  <2>1. calls' \in [Tabs -> [Slots -> IssuedCall \cup {NotInFlight}]]
    BY <1>2, AnsweredIssued DEF LoginRefused, MeRefused, SignInFails
  <2> QED BY <1>2, <2>1, SameTokens
          DEF LoginRefused, MeRefused, SignInFails, Refused, session, WebInv, TypeOK
<1> QED BY <1>1, <1>2

(* The router follows the user.                                            *)
LEMMA NavigateKeepsInv ==
  ASSUME WebInv, NEW t \in Tabs, NEW page \in Pages, Navigate(t, page)
  PROVE  WebInv'
<1>1. CASE user[t] = NoUser
  BY <1>1, SameTokens DEF Navigate, session, WebInv, TypeOK, CallsIssued
<1>2. CASE user[t] # NoUser
  <2>1. user[t] \in Users
    BY <1>2 DEF WebInv, TypeOK
  <2>2. Sent("load", page) \in IssuedCall
    BY SentIssued
  <2>3. calls[t] \in [Slots -> IssuedCall \cup {NotInFlight}]
    BY DEF WebInv, CallsIssued
  <2>4. Route(t, page, user[t], calls[t], Sent("load", page))
    BY <1>2 DEF Navigate
  <2>5. /\ hash' \in [Tabs -> Pages \cup {NoPage}]
        /\ content' \in [Tabs -> Content]
        /\ calls' \in [Tabs -> [Slots -> IssuedCall \cup {NotInFlight}]]
    BY <2>1, <2>2, <2>3, <2>4, RouteIssued
  <2> QED BY <2>5, SameTokens DEF Navigate, session, WebInv, TypeOK
<1> QED BY <1>1, <1>2

(* Logging out only forgets.                                               *)
LEMMA LogoutKeepsInv ==
  ASSUME WebInv, NEW t \in Tabs, Logout(t)
  PROVE  WebInv'
BY SameTokens DEF Logout, WebInv, TypeOK, CallsIssued

(* A token that is no longer accepted was issued all the same.             *)
LEMMA ExpireKeepsInv ==
  ASSUME WebInv, NEW k \in Tokens, Expire(k)
  PROVE  WebInv'
<1>1. IssuedCall' = IssuedCall
  BY DEF Expire, IssuedCall
<1> QED BY <1>1 DEF Expire, tabs, WebInv, TypeOK, TokensIssued, CallsIssued

(***************************************************************************)
(* Whatever the tabs do and in whatever order answers arrive, every part   *)
(* of the client has its type, and only tokens the server issued are ever  *)
(* stored or sent (app/web/app.js).                                        *)
(***************************************************************************)
LEMMA WebInvariant == Spec => []WebInv
<1>1. Init => WebInv
  <2> SUFFICES ASSUME Init PROVE WebInv
    OBVIOUS
  <2>1. TokensIssued
    BY DEF Init, TokensIssued
  <2>2. CallsIssued
    BY DEF Init, CallsIssued
  <2>3. TypeOK
    BY WebAssumption, ContentTypes DEF Init, TypeOK
  <2> QED BY <2>1, <2>2, <2>3 DEF WebInv
<1>2. WebInv /\ [Next]_vars => WebInv'
  <2> SUFFICES ASSUME WebInv, [Next]_vars PROVE WebInv'
    OBVIOUS
  <2>1. ASSUME NEW t \in Tabs, UserStep(t)
        PROVE  WebInv'
    BY <2>1, BootKeepsInv, SubmitKeepsInv, LogoutKeepsInv, RegenerateKeepsInv,
       NavigateKeepsInv DEF UserStep
  <2>2. ASSUME NEW t \in Tabs, NEW s \in InFlight(t), Answer(t, s)
        PROVE  WebInv'
    BY <2>2, LoadKeepsInv, RefreshKeepsInv, BootAnswerKeepsInv, LoginOkKeepsInv,
       SignInAnswerKeepsInv DEF Answer
  <2>3. ASSUME NEW k \in Tokens, Expire(k)
        PROVE  WebInv'
    BY <2>3, ExpireKeepsInv
  <2>4. CASE UNCHANGED vars
    <3>1. IssuedCall' = IssuedCall
      BY <2>4 DEF vars, IssuedCall
    <3> QED BY <2>4, <3>1 DEF vars, WebInv, TypeOK, TokensIssued, CallsIssued
  <2> QED BY <2>1, <2>2, <2>3, <2>4 DEF Next
<1> QED BY <1>1, <1>2, PTL DEF Spec

(* Every part of the client has its type, for any tabs, pages and users.   *)
THEOREM WebTypeCorrect == Spec => []TypeOK
BY WebInvariant, PTL DEF WebInv

-----------------------------------------------------------------------------
(* Signing in, seen from one tab: at most one call of boot or login is in  *)
(* flight, never behind the app, and the app is shown to somebody.         *)
SignIn == {"boot", "login", "me"}

OneSignIn(t) ==
  \A r, s \in Slots : (calls[t][r].kind \in SignIn /\ calls[t][s].kind \in SignIn) => r = s

SignInBehindLogin(t) ==
  \A s \in Slots :
    /\ calls[t][s].kind = "boot" => view[t] = "blank"
    /\ calls[t][s].kind \in {"login", "me"} => view[t] = "login" /\ signing[t]

BlankTabWaits(t) ==
  view[t] \in {"blank", "closed"} =>
    user[t] = NoUser /\ \A s \in Slots : calls[t][s].kind \in {"none", "boot"}

AppHasUser(t) == view[t] = "app" => user[t] # NoUser

TabInv(t) == OneSignIn(t) /\ SignInBehindLogin(t) /\ BlankTabWaits(t) /\ AppHasUser(t)

(* What a lone tab can rely on in addition, since nobody else stores a     *)
(* token: its sign-in carries the stored token or none is stored any more. *)
SignInToken(t) ==
  \A s \in Slots : calls[t][s].kind \in {"boot", "me"} => token \in {0, calls[t][s].token}

Shell(t) == view[t] = "app" => (token # 0 => owner[token] = user[t])

TokenInv(t) == SignInToken(t) /\ Shell(t)

(* The kinds of calls in flight after a call has been answered.            *)
LEMMA AnsweredKinds ==
  ASSUME WebInv, NEW t \in Tabs, NEW s \in Slots, calls' = Answered(t, s)
  PROVE  /\ calls'[t][s].kind = "none"
         /\ \A r \in Slots : r # s => calls'[t][r] = calls[t][r]
BY DEF WebInv, CallsIssued, Answered, NotInFlight

(* A call has the kind it was sent with, and a free slot none.             *)
LEMMA Kinds ==
  ASSUME WebInv, NEW t \in Tabs, NEW s \in Slots
  PROVE  s \in InFlight(t) <=> calls[t][s].kind # "none"
<1>1. \A call \in IssuedCall : call.kind # "none"
  BY DEF IssuedCall, Call
<1> QED BY <1>1 DEF WebInv, CallsIssued, InFlight, NotInFlight

(* Sending a call fills one slot that was free.                            *)
LEMMA SendKinds ==
  ASSUME WebInv, NEW t \in Tabs, NEW call, Free(t) # {}, SendFrom(t, call)
  PROVE  \E s \in Slots : /\ calls[t][s].kind = "none"
                          /\ calls'[t][s] = call
                          /\ \A r \in Slots : r # s => calls'[t][r] = calls[t][r]
<1>1. Slot(t) \in Slots /\ Slot(t) \notin InFlight(t)
  BY DEF Slot, Free
<1>2. calls[t][Slot(t)].kind = "none"
  BY <1>1, Kinds
<1>3. calls' = [calls EXCEPT ![t][Slot(t)] = call]
  BY DEF SendFrom
<1> QED BY <1>1, <1>2, <1>3 DEF WebInv, CallsIssued

(* Routing fills at most one slot, and with the screen's own call.         *)
LEMMA RouteKinds ==
  ASSUME WebInv, NEW t \in Tabs, NEW page, NEW u, NEW sent,
         NEW pending \in [Slots -> IssuedCall \cup {NotInFlight}],
         Route(t, page, u, pending, sent)
  PROVE  \A s \in Slots : calls'[t][s] \in {pending[s], sent}
<1>1. \A free : \A s \in Slots : [pending EXCEPT ![free] = sent][s] \in {pending[s], sent}
  OBVIOUS
<1>2. \E new : /\ calls' = [calls EXCEPT ![t] = new]
               /\ \A s \in Slots : new[s] \in {pending[s], sent}
  BY <1>1 DEF Route
<1> QED BY <1>2 DEF WebInv, CallsIssued

(* After api.me() the shell shows the user the stored token belongs to.    *)
LEMMA ShowAppKeepsShell ==
  ASSUME WebInv, NEW t \in Tabs, TabInv(t), NEW s \in InFlight(t),
         calls[t][s].kind \in {"boot", "me"}, ShowApp(t, s), UNCHANGED session
  PROVE  TabInv(t)' /\ (TokenInv(t) => TokenInv(t)')
<1> DEFINE u    == owner[calls[t][s].token]
           page == Target(hash[t], u)
<1>1. s \in Slots /\ u \in Users
  BY InFlightIssued DEF ShowApp
<1>2. /\ view'[t] = "app"
      /\ user'[t] = u
      /\ Route(t, page, u, Answered(t, s)[t], Sent("load", page))
  BY DEF ShowApp, WebInv, TypeOK
<1>3. Answered(t, s)[t] \in [Slots -> IssuedCall \cup {NotInFlight}]
  BY AnsweredIssued
<1>4. \A r \in Slots : calls'[t][r] \in {Answered(t, s)[t][r], Sent("load", page)}
  <2> HIDE DEF u, page
  <2> QED BY <1>2, <1>3, RouteKinds
<1>5. \A r \in Slots : Answered(t, s)[t][r].kind \notin SignIn
  <2>1. Answered(t, s)[t][s].kind = "none"
    BY <1>1 DEF Answered, NotInFlight, WebInv, CallsIssued
  <2>2. \A r \in Slots : r # s => Answered(t, s)[t][r] = calls[t][r]
    BY <1>1 DEF Answered, WebInv, CallsIssued
  <2>3. \A r \in Slots : r # s => calls[t][r].kind \notin SignIn
    BY <1>1 DEF TabInv, OneSignIn, SignIn
  <2> QED BY <2>1, <2>2, <2>3 DEF SignIn
<1>6. \A r \in Slots : calls'[t][r].kind \notin SignIn
  BY <1>4, <1>5 DEF Sent, SignIn
<1>7. TokenInv(t) => Shell(t)'
  <2>1. TokenInv(t) => token \in {0, calls[t][s].token}
    BY <1>1 DEF TokenInv, SignInToken
  <2> QED BY <1>1, <1>2, <2>1 DEF Shell, session
<1>8. AppHasUser(t)'
  BY <1>1, <1>2, WebAssumption DEF AppHasUser
<1>9. OneSignIn(t)' /\ SignInBehindLogin(t)' /\ SignInToken(t)' /\ BlankTabWaits(t)'
  BY <1>2, <1>6 DEF OneSignIn, SignInBehindLogin, SignInToken, BlankTabWaits, SignIn
<1> QED BY <1>7, <1>8, <1>9 DEF TabInv, TokenInv

(* A screen's call, answered: a 401 takes token and app away together.     *)
LEMMA ScreenAnswerKeepsShell ==
  ASSUME WebInv, NEW t \in Tabs, TabInv(t), NEW s \in InFlight(t),
         \/ LoadOk(t, s) \/ LoadRefused(t, s) \/ LoadFails(t, s)
         \/ RefreshOk(t, s) \/ RefreshRefused(t, s) \/ RefreshFails(t, s)
  PROVE  TabInv(t)' /\ (TokenInv(t) => TokenInv(t)')
<1> USE DEF TabInv, OneSignIn, SignInBehindLogin, BlankTabWaits, AppHasUser, TokenInv, SignInToken,
        Shell
<1>1. s \in Slots /\ calls[t][s].kind \in {"load", "refresh"} /\ calls' = Answered(t, s)
  BY InFlightIssued DEF LoadOk, LoadRefused, LoadFails, RefreshOk, RefreshRefused, RefreshFails
<1>2. /\ calls'[t][s].kind = "none"
      /\ \A r \in Slots : r # s => calls'[t][r] = calls[t][r]
  BY <1>1, AnsweredKinds
<1>3. view[t] \in {"login", "app"}
  BY <1>1 DEF WebInv, TypeOK
<1>4. CASE UNCHANGED <<token, view, user, signing, owner>>
  BY <1>2, <1>4 DEF SignIn
<1>5. CASE token' = 0 /\ view' = [view EXCEPT ![t] = "login"] /\ UNCHANGED <<user, signing, owner>>
  <2>1. view'[t] = "login"
    BY <1>5 DEF WebInv, TypeOK
  <2>2. view[t] = "app" => \A r \in Slots : calls[t][r].kind \notin SignIn
    BY DEF SignIn
  <2> QED BY <1>2, <1>3, <1>5, <2>1, <2>2 DEF SignIn
<1>6. \/ UNCHANGED <<token, view, user, signing, owner>>
      \/ /\ token' = 0 /\ view' = [view EXCEPT ![t] = "login"]
         /\ UNCHANGED <<user, signing, owner>>
  BY DEF LoadOk, LoadRefused, LoadFails, RefreshOk, RefreshRefused, RefreshFails, Refused,
     session
<1> QED BY <1>4, <1>5, <1>6

(* A sign-in call that does not lead to the app.                           *)
LEMMA SignInAnswerKeepsShell ==
  ASSUME WebInv, NEW t \in Tabs, TabInv(t), NEW s \in InFlight(t),
         \/ BootFails(t, s) \/ LoginRefused(t, s) \/ MeRefused(t, s) \/ SignInFails(t, s)
  PROVE  TabInv(t)' /\ (TokenInv(t) => TokenInv(t)')
<1> USE DEF TabInv, OneSignIn, SignInBehindLogin, BlankTabWaits, AppHasUser, TokenInv, SignInToken,
        Shell
<1>1. s \in Slots /\ calls[t][s].kind \in SignIn /\ calls' = Answered(t, s)
  BY InFlightIssued DEF BootFails, LoginRefused, MeRefused, SignInFails, SignIn
<1>2. /\ calls'[t][s].kind = "none"
      /\ \A r \in Slots : r # s => calls'[t][r] = calls[t][r]
  BY <1>1, AnsweredKinds
<1>3. \A r \in Slots : calls'[t][r].kind \notin SignIn
  BY <1>1, <1>2 DEF SignIn
<1>4. view'[t] = "login"
  BY <1>1 DEF BootFails, LoginRefused, MeRefused, SignInFails, Refused, SignIn, session,
     WebInv, TypeOK
<1> QED BY <1>3, <1>4 DEF SignIn

(* The login is accepted: api.me() is sent with the token just stored.     *)
LEMMA LoginOkKeepsShell ==
  ASSUME WebInv, NEW t \in Tabs, TabInv(t), NEW s \in InFlight(t), LoginOk(t, s)
  PROVE  TabInv(t)' /\ (TokenInv(t) => TokenInv(t)')
<1> USE DEF TabInv, OneSignIn, SignInBehindLogin, BlankTabWaits, AppHasUser, TokenInv, SignInToken,
        Shell
<1>1. s \in Slots /\ calls[t][s].kind = "login" /\ view[t] = "login" /\ signing[t]
  BY InFlightIssued DEF LoginOk
<1>2. /\ calls'[t][s].kind = "me" /\ calls'[t][s].token = token'
      /\ \A r \in Slots : r # s => calls'[t][r] = calls[t][r]
  BY <1>1 DEF LoginOk, WebInv, CallsIssued
<1>3. \A r \in Slots : r # s => calls[t][r].kind \notin SignIn
  BY <1>1 DEF SignIn
<1>4. UNCHANGED <<view, user, signing>>
  BY DEF LoginOk
<1> QED BY <1>1, <1>2, <1>3, <1>4 DEF SignIn

(* What the user does keeps the shell right.                               *)
LEMMA UserStepKeepsShell ==
  ASSUME WebInv, NEW t \in Tabs, TabInv(t), UserStep(t)
  PROVE  TabInv(t)' /\ (TokenInv(t) => TokenInv(t)')
<1> USE DEF TabInv, OneSignIn, SignInBehindLogin, BlankTabWaits, AppHasUser, TokenInv, SignInToken,
        Shell
<1>1. CASE Boot(t)
  <2>1. /\ view'[t] = (IF token = 0 THEN "login" ELSE "blank")
        /\ user'[t] = NoUser
        /\ \A s \in Slots :
             calls'[t][s] = IF token # 0 /\ s = 1 THEN Sent("boot", NoPage) ELSE NotInFlight
        /\ token' = token
    BY <1>1 DEF Boot, session, WebInv, TypeOK, CallsIssued
  <2>2. /\ Sent("boot", NoPage).kind = "boot"
        /\ Sent("boot", NoPage).token = token
        /\ NotInFlight.kind = "none"
    BY DEF Sent, NotInFlight
  <2> QED BY <2>1, <2>2 DEF SignIn
<1>2. CASE Submit(t)
  <2>1. /\ view[t] = "login" /\ ~signing[t] /\ signing'[t]
        /\ UNCHANGED <<token, view, user, owner>>
    BY <1>2 DEF Submit, session, WebInv, TypeOK
  <2>2. \A r \in Slots : calls[t][r].kind \notin SignIn
    BY <2>1 DEF SignIn
  <2>3. PICK s \in Slots : /\ calls'[t][s] = Sent("login", NoPage)
                           /\ \A r \in Slots : r # s => calls'[t][r] = calls[t][r]
    BY <1>2, SendKinds DEF Submit
  <2>4. calls'[t][s].kind = "login"
    BY <2>3 DEF Sent
  <2> QED BY <2>1, <2>2, <2>3, <2>4 DEF SignIn
<1>3. CASE Logout(t)
  <2>1. /\ view[t] = "app" /\ view'[t] = "login" /\ token' = 0
        /\ UNCHANGED calls
    BY <1>3 DEF Logout, WebInv, TypeOK
  <2>2. \A r \in Slots : calls[t][r].kind \notin SignIn
    BY <2>1 DEF SignIn
  <2> QED BY <2>1, <2>2 DEF SignIn
<1>4. CASE Regenerate(t)
  <2>1. view[t] = "app" /\ UNCHANGED <<token, view, user, signing, owner>>
    BY <1>4 DEF Regenerate, OnClientPage, session
  <2>2. \A r \in Slots : calls[t][r].kind \notin SignIn
    BY <2>1 DEF SignIn
  <2>3. PICK s \in Slots : /\ calls'[t][s] = Sent("refresh", content[t].page)
                           /\ \A r \in Slots : r # s => calls'[t][r] = calls[t][r]
    BY <1>4, SendKinds DEF Regenerate
  <2>4. calls'[t][s].kind = "refresh"
    BY <2>3 DEF Sent
  <2> QED BY <2>1, <2>2, <2>3, <2>4 DEF SignIn
<1>5. ASSUME NEW page \in Pages, Navigate(t, page)
      PROVE  TabInv(t)' /\ (TokenInv(t) => TokenInv(t)')
  <2>1. UNCHANGED <<token, view, user, signing, owner>>
    BY <1>5 DEF Navigate, session
  <2>2. CASE user[t] = NoUser
    <3>1. UNCHANGED calls
      BY <1>5, <2>2 DEF Navigate
    <3> QED BY <2>1, <3>1 DEF SignIn
  <2>3. CASE user[t] # NoUser
    <3>1. view[t] \notin {"blank", "closed"}
      BY <2>3
    <3>2. calls[t] \in [Slots -> IssuedCall \cup {NotInFlight}]
      BY DEF WebInv, CallsIssued
    <3>3. Route(t, page, user[t], calls[t], Sent("load", page))
      BY <1>5, <2>3 DEF Navigate
    <3>4. \A s \in Slots : calls'[t][s] \in {calls[t][s], Sent("load", page)}
      BY <3>2, <3>3, RouteKinds
    <3>5. Sent("load", page).kind = "load"
      BY DEF Sent
    <3>6. \A s \in Slots : calls'[t][s].kind \in SignIn => calls'[t][s] = calls[t][s]
      BY <3>4, <3>5 DEF SignIn
    <3> QED BY <2>1, <3>1, <3>6 DEF SignIn
  <2> QED BY <2>2, <2>3
<1> QED BY <1>1, <1>2, <1>3, <1>4, <1>5 DEF UserStep

(* What one tab does is not seen by another, but for the token.            *)
LEMMA OtherTab ==
  ASSUME WebInv, NEW t \in Tabs, NEW o \in Tabs, o # t,
         UserStep(t) \/ \E s \in InFlight(t) : Answer(t, s)
  PROVE  /\ view'[o] = view[o] /\ user'[o] = user[o] /\ hash'[o] = hash[o]
         /\ content'[o] = content[o] /\ signing'[o] = signing[o] /\ calls'[o] = calls[o]
<1> USE DEF WebInv, TypeOK
<1>1. CASE Boot(t) \/ Submit(t) \/ Logout(t) \/ Regenerate(t)
  BY <1>1 DEF Boot, Submit, Logout, Regenerate, SendFrom
<1>2. ASSUME NEW page \in Pages, Navigate(t, page)
      PROVE  /\ view'[o] = view[o] /\ user'[o] = user[o] /\ hash'[o] = hash[o]
             /\ content'[o] = content[o] /\ signing'[o] = signing[o] /\ calls'[o] = calls[o]
  BY <1>2 DEF Navigate, Route
<1>3. ASSUME NEW s, LoadOk(t, s) \/ LoadRefused(t, s) \/ LoadFails(t, s)
                    \/ RefreshOk(t, s) \/ RefreshRefused(t, s) \/ RefreshFails(t, s)
      PROVE  /\ view'[o] = view[o] /\ user'[o] = user[o] /\ hash'[o] = hash[o]
             /\ content'[o] = content[o] /\ signing'[o] = signing[o] /\ calls'[o] = calls[o]
  BY <1>3 DEF LoadOk, LoadRefused, LoadFails, RefreshOk, RefreshRefused, RefreshFails,
     Refused, ButtonBack, Answered
<1>4. ASSUME NEW s, BootOk(t, s) \/ MeOk(t, s)
      PROVE  /\ view'[o] = view[o] /\ user'[o] = user[o] /\ hash'[o] = hash[o]
             /\ content'[o] = content[o] /\ signing'[o] = signing[o] /\ calls'[o] = calls[o]
  BY <1>4 DEF BootOk, MeOk, ShowApp, Route
<1>5. ASSUME NEW s, BootFails(t, s) \/ LoginOk(t, s) \/ LoginRefused(t, s)
                    \/ MeRefused(t, s) \/ SignInFails(t, s)
      PROVE  /\ view'[o] = view[o] /\ user'[o] = user[o] /\ hash'[o] = hash[o]
             /\ content'[o] = content[o] /\ signing'[o] = signing[o] /\ calls'[o] = calls[o]
  BY <1>5 DEF BootFails, LoginOk, LoginRefused, MeRefused, SignInFails, Refused, Answered
<1> QED BY <1>1, <1>2, <1>3, <1>4, <1>5 DEF UserStep, Answer

(* A tab's own step, of its user or of an answer, keeps its shell in order.*)
LEMMA OwnStep ==
  ASSUME WebInv, NEW t \in Tabs, TabInv(t),
         UserStep(t) \/ \E s \in InFlight(t) : Answer(t, s)
  PROVE  TabInv(t)' /\ (TokenInv(t) => TokenInv(t)')
<1>1. CASE UserStep(t)
  BY <1>1, UserStepKeepsShell
<1>2. ASSUME NEW s \in InFlight(t), Answer(t, s)
      PROVE  TabInv(t)' /\ (TokenInv(t) => TokenInv(t)')
  <2>1. CASE BootOk(t, s) \/ MeOk(t, s)
    BY <2>1, ShowAppKeepsShell DEF BootOk, MeOk
  <2> QED BY <1>2, <2>1, ScreenAnswerKeepsShell, SignInAnswerKeepsShell, LoginOkKeepsShell
          DEF Answer
<1> QED BY <1>1, <1>2

(* A token that expires is no step of a tab.                               *)
LEMMA NoTabStep ==
  ASSUME (\E k \in Tokens : Expire(k)) \/ UNCHANGED vars
  PROVE  UNCHANGED <<token, owner, tabs>>
BY DEF Expire, vars, tabs

(* Every tab signs in properly, whatever the others do.                    *)
LEMMA TabInvariant == Spec => [](\A t \in Tabs : TabInv(t))
<1>1. Init => \A t \in Tabs : TabInv(t)
  <2> SUFFICES ASSUME Init, NEW t \in Tabs PROVE TabInv(t)
    OBVIOUS
  <2>1. /\ view[t] = "closed" /\ user[t] = NoUser
        /\ \A s \in Slots : calls[t][s].kind = "none"
    BY DEF Init, NotInFlight
  <2> QED
    BY <2>1 DEF TabInv, OneSignIn, SignInBehindLogin, BlankTabWaits, AppHasUser, SignIn
<1>2. WebInv /\ (\A t \in Tabs : TabInv(t)) /\ [Next]_vars => (\A t \in Tabs : TabInv(t))'
  <2> SUFFICES ASSUME WebInv, \A t \in Tabs : TabInv(t), [Next]_vars, NEW o \in Tabs
               PROVE  TabInv(o)'
    OBVIOUS
  <2>1. ASSUME NEW t \in Tabs, UserStep(t) \/ \E s \in InFlight(t) : Answer(t, s)
        PROVE  TabInv(o)'
    <3>1. CASE t = o
      BY <2>1, <3>1, OwnStep
    <3>2. CASE t # o
      BY <2>1, <3>2, OtherTab
      DEF TabInv, OneSignIn, SignInBehindLogin, BlankTabWaits, AppHasUser
    <3> QED BY <3>1, <3>2
  <2>2. CASE (\E k \in Tokens : Expire(k)) \/ UNCHANGED vars
    BY <2>2, NoTabStep
    DEF tabs, TabInv, OneSignIn, SignInBehindLogin, BlankTabWaits, AppHasUser
  <2> QED BY <2>1, <2>2 DEF Next
<1> QED BY <1>1, <1>2, WebInvariant, PTL DEF Spec

(* Nobody but a lone tab touches the stored token.                         *)
LEMMA LoneTabStep ==
  ASSUME NEW t0, Tabs = {t0}
  PROVE  WebInv /\ (\A t \in Tabs : TabInv(t)) /\ TokenInv(t0) /\ [Next]_vars => TokenInv(t0)'
<1> SUFFICES ASSUME WebInv, TabInv(t0), TokenInv(t0), [Next]_vars
             PROVE  TokenInv(t0)'
  OBVIOUS
<1>1. CASE UserStep(t0) \/ \E s \in InFlight(t0) : Answer(t0, s)
  BY <1>1, OwnStep
<1>2. CASE (\E k \in Tokens : Expire(k)) \/ UNCHANGED vars
  BY <1>2, NoTabStep DEF tabs, TokenInv, SignInToken, Shell
<1> QED BY <1>1, <1>2 DEF Next

(***************************************************************************)
(* With one tab, the app is only shown to the user whose token every       *)
(* further call carries, whatever late 401, reload, failed boot or second  *)
(* login came between (showApp, api.request, boot, the login form).        *)
(***************************************************************************)
THEOREM LoneTabShell ==
  ASSUME NEW t0, Tabs = {t0}
  PROVE  Spec => []ShellMatchesToken
<1>1. Init => TokenInv(t0)
  BY DEF Init, TokenInv, SignInToken, Shell, NotInFlight
<1>2. WebInv /\ (\A t \in Tabs : TabInv(t)) /\ TokenInv(t0) /\ [Next]_vars => TokenInv(t0)'
  BY LoneTabStep
<1>3. (\A t \in Tabs : TabInv(t)) /\ TokenInv(t0) => ShellMatchesToken
  BY DEF TabInv, AppHasUser, TokenInv, Shell, ShellMatchesToken
<1> QED BY <1>1, <1>2, <1>3, WebInvariant, TabInvariant, PTL DEF Spec

-----------------------------------------------------------------------------
(* Buttons, late answers or not.                                           *)
ButtonWaits(t) ==
  (content[t].shows = "page" /\ content[t].busy # NoCall) =>
    LET call == calls[t][content[t].busy]
    IN  call.kind = "refresh" /\ call.page = content[t].page

(* A step that leaves the screen alone and every refresh in flight.        *)
LEMMA QuietKeepsButton ==
  ASSUME WebInv, NEW t \in Tabs, ButtonWaits(t), content'[t] = content[t],
         \A s \in Slots : calls[t][s].kind = "refresh" => calls'[t][s] = calls[t][s]
  PROVE  ButtonWaits(t)'
<1>1. (content[t].shows = "page" /\ content[t].busy # NoCall) => content[t].busy \in Slots
  BY DEF WebInv, TypeOK, Content, Showing
<1> QED BY <1>1 DEF ButtonWaits

(* A screen without a disabled button.                                     *)
LEMMA FreshScreenWaitsForNothing ==
  ASSUME NEW t \in Tabs, content'[t].shows = "page" => content'[t].busy = NoCall
  PROVE  ButtonWaits(t)'
BY DEF ButtonWaits

(* An answer to a screen's call: the button it belongs to comes back, or   *)
(* is gone; another one's call is still in flight.                         *)
LEMMA AnswerKeepsButton ==
  ASSUME WebInv, NEW t \in Tabs, ButtonWaits(t), NEW s \in InFlight(t),
         \/ LoadOk(t, s) \/ LoadRefused(t, s) \/ LoadFails(t, s)
         \/ RefreshOk(t, s) \/ RefreshRefused(t, s) \/ RefreshFails(t, s)
  PROVE  ButtonWaits(t)'
<1>1. s \in Slots /\ calls' = Answered(t, s) /\ content[t] \in Content
  BY InFlightIssued
  DEF LoadOk, LoadRefused, LoadFails, RefreshOk, RefreshRefused, RefreshFails, WebInv, TypeOK
<1>2. \A r \in Slots : r # s => calls'[t][r] = calls[t][r]
  BY <1>1, AnsweredKinds
<1>3. CASE LoadOk(t, s) \/ RefreshOk(t, s) \/ LoadFails(t, s)
  <2>1. content'[t] \in {Rendered(calls[t][s].page, owner[calls[t][s].token]), Showing("error")}
    BY <1>3 DEF LoadOk, RefreshOk, LoadFails, WebInv, TypeOK
  <2> QED BY <2>1, FreshScreenWaitsForNothing DEF Rendered, Showing
<1>4. CASE LoadRefused(t, s)
  <2>1. content' = content /\ calls[t][s].kind # "refresh"
    BY <1>4 DEF LoadRefused
  <2> QED BY <1>2, <2>1, QuietKeepsButton
<1>5. CASE RefreshRefused(t, s) \/ RefreshFails(t, s)
  <2>1. content'[t] = IF content[t].shows = "page" /\ content[t].busy = s
                      THEN [content[t] EXCEPT !.busy = NoCall] ELSE content[t]
    BY <1>5 DEF RefreshRefused, RefreshFails, ButtonBack, WebInv, TypeOK
  <2>2. CASE content[t].shows = "page" /\ content[t].busy = s
    BY <1>1, <2>1, <2>2, FreshScreenWaitsForNothing DEF Content
  <2>3. CASE ~(content[t].shows = "page" /\ content[t].busy = s)
    <3>1. content'[t] = content[t]
      BY <2>1, <2>3
    <3>2. (content[t].shows = "page" /\ content[t].busy # NoCall) =>
            content[t].busy \in Slots \ {s}
      BY <1>1, <2>3 DEF Content, Showing
    <3> QED BY <1>2, <3>1, <3>2 DEF ButtonWaits
  <2> QED BY <2>2, <2>3
<1> QED BY <1>3, <1>4, <1>5

(* A click on Regenerate disables the button for the call it sends.        *)
LEMMA RegenerateKeepsButton ==
  ASSUME WebInv, NEW t \in Tabs, Regenerate(t)
  PROVE  ButtonWaits(t)'
<1>1. /\ content[t] \in Content /\ content[t].shows = "page"
      /\ content'[t] = [content[t] EXCEPT !.busy = Slot(t)]
  BY DEF Regenerate, OnClientPage, WebInv, TypeOK
<1>2. content'[t].busy = Slot(t) /\ content'[t].page = content[t].page
  BY <1>1 DEF Content
<1>3. Slot(t) \in Slots
  BY DEF Regenerate, Free, Slot
<1>4. calls'[t][Slot(t)] = Sent("refresh", content[t].page)
  BY <1>3 DEF Regenerate, SendFrom, WebInv, CallsIssued
<1> QED BY <1>2, <1>4 DEF ButtonWaits, Sent

(* A route shows a screen without buttons.                                 *)
LEMMA RouteKeepsButton ==
  ASSUME WebInv, NEW t \in Tabs, NEW page, NEW u, NEW pending, NEW sent,
         Route(t, page, u, pending, sent)
  PROVE  ButtonWaits(t)'
<1>1. content'[t] \in {Showing("home"), Showing("loading")}
  BY DEF Route, WebInv, TypeOK
<1> QED BY <1>1, FreshScreenWaitsForNothing DEF Showing

(* Signing in and out touches no regeneration.                             *)
LEMMA OtherStepsKeepButton ==
  ASSUME WebInv, NEW t \in Tabs, ButtonWaits(t),
         \/ Boot(t) \/ Submit(t) \/ Logout(t)
         \/ \E s \in InFlight(t) : \/ BootFails(t, s) \/ LoginOk(t, s) \/ LoginRefused(t, s)
                                   \/ MeRefused(t, s) \/ SignInFails(t, s)
  PROVE  ButtonWaits(t)'
<1>1. CASE Boot(t)
  <2>1. content'[t] = Showing("empty")
    BY <1>1 DEF Boot, WebInv, TypeOK
  <2> QED BY <2>1, FreshScreenWaitsForNothing DEF Showing
<1>2. CASE Submit(t)
  <2>1. PICK s \in Slots : /\ calls[t][s].kind = "none"
                           /\ \A r \in Slots : r # s => calls'[t][r] = calls[t][r]
    BY <1>2, SendKinds DEF Submit
  <2> QED BY <1>2, <2>1, QuietKeepsButton DEF Submit
<1>3. CASE Logout(t)
  BY <1>3, QuietKeepsButton DEF Logout
<1>4. ASSUME NEW s \in InFlight(t), \/ BootFails(t, s) \/ LoginRefused(t, s)
                                     \/ MeRefused(t, s) \/ SignInFails(t, s)
      PROVE  ButtonWaits(t)'
  <2>1. s \in Slots /\ calls' = Answered(t, s) /\ calls[t][s].kind # "refresh"
        /\ content' = content
    BY <1>4, InFlightIssued DEF BootFails, LoginRefused, MeRefused, SignInFails
  <2>2. \A r \in Slots : r # s => calls'[t][r] = calls[t][r]
    BY <2>1, AnsweredKinds
  <2> QED BY <2>1, <2>2, QuietKeepsButton
<1>5. ASSUME NEW s \in InFlight(t), LoginOk(t, s)
      PROVE  ButtonWaits(t)'
  <2>1. /\ calls[t][s].kind # "refresh" /\ content' = content
        /\ \A r \in Slots : r # s => calls'[t][r] = calls[t][r]
    BY <1>5, InFlightIssued DEF LoginOk, WebInv, CallsIssued
  <2> QED BY <2>1, QuietKeepsButton
<1> QED BY <1>1, <1>2, <1>3, <1>4, <1>5

(***************************************************************************)
(* In any number of tabs, and whatever answers are late: a disabled button *)
(* waits for a call of its own (wireSummary), so that the end of that call *)
(* is all it needs to come back.                                           *)
(***************************************************************************)
THEOREM ButtonsWaitForTheirCalls == Spec => []ButtonWaitsForItsCall
<1>1. Init => \A t \in Tabs : ButtonWaits(t)
  BY DEF Init, ButtonWaits, Showing
<1>2. WebInv /\ (\A t \in Tabs : ButtonWaits(t)) /\ [Next]_vars
      => (\A t \in Tabs : ButtonWaits(t))'
  <2> SUFFICES ASSUME WebInv, \A t \in Tabs : ButtonWaits(t), [Next]_vars, NEW o \in Tabs
               PROVE  ButtonWaits(o)'
    OBVIOUS
  <2>1. ASSUME NEW t \in Tabs, t # o, UserStep(t) \/ \E s \in InFlight(t) : Answer(t, s)
        PROVE  ButtonWaits(o)'
    BY <2>1, OtherTab DEF ButtonWaits
  <2>2. ASSUME NEW page \in Pages, Navigate(o, page)
        PROVE  ButtonWaits(o)'
    <3>1. CASE user[o] = NoUser
      BY <2>2, <3>1, QuietKeepsButton DEF Navigate
    <3>2. CASE user[o] # NoUser
      BY <2>2, <3>2, RouteKeepsButton DEF Navigate
    <3> QED BY <3>1, <3>2
  <2>3. CASE UserStep(o)
    BY <2>2, <2>3, RegenerateKeepsButton, OtherStepsKeepButton DEF UserStep
  <2>4. ASSUME NEW s \in InFlight(o), Answer(o, s)
        PROVE  ButtonWaits(o)'
    <3>1. CASE BootOk(o, s) \/ MeOk(o, s)
      BY <3>1, RouteKeepsButton DEF BootOk, MeOk, ShowApp
    <3> QED BY <2>4, <3>1, AnswerKeepsButton, OtherStepsKeepButton DEF Answer
  <2>5. CASE (\E k \in Tokens : Expire(k)) \/ UNCHANGED vars
    BY <2>5, NoTabStep DEF tabs, ButtonWaits
  <2> QED BY <2>1, <2>3, <2>4, <2>5 DEF Next
<1>3. (\A t \in Tabs : ButtonWaits(t)) => ButtonWaitsForItsCall
  BY DEF ButtonWaits, ButtonWaitsForItsCall
<1> QED BY <1>1, <1>2, <1>3, WebInvariant, PTL DEF Spec

-----------------------------------------------------------------------------
(* Behaviours without late answers, in any number of tabs.                 *)

PunctualIn(t) ==
  \A s \in InFlight(t) :
    calls[t][s].kind \in {"load", "refresh"} =>
      view[t] = "app" /\ calls[t][s].page = hash[t]

ScreenOf(t) ==
  (view[t] = "app" /\ content[t].shows = "page") => content[t].page = hash[t]

(* The call that a screen waits for, or that its button has sent, is the   *)
(* only one: a load behind the spinner, a refresh behind a disabled button.*)
LoadBehindSpinner(t) ==
  \A s \in Slots : calls[t][s].kind = "load" =>
    /\ content[t] = Showing("loading")
    /\ \A r \in Slots : calls[t][r].kind = "load" => r = s

RefreshBehindButton(t) ==
  \A s \in Slots : calls[t][s].kind = "refresh" =>
    content[t].shows = "page" /\ content[t].busy = s

ScreenInv(t) == ScreenOf(t) /\ LoadBehindSpinner(t) /\ RefreshBehindButton(t)

(* What a tab is, of a step that is not about its screen.                  *)
LEMMA QuietKeepsScreen ==
  ASSUME WebInv, NEW t \in Tabs, ScreenInv(t),
         content'[t] = content[t], hash'[t] = hash[t],
         view'[t] = "app" => view[t] = "app" /\ user'[t] = user[t],
         \A s \in Slots : calls'[t][s].kind \in {"load", "refresh"} =>
                             calls'[t][s] = calls[t][s]
  PROVE  ScreenInv(t)'
BY DEF ScreenInv, ScreenOf, LoadBehindSpinner, RefreshBehindButton

(* Without a late answer nothing is in flight for a tab that is not in the *)
(* app, nor for a screen other than the one the address names.             *)
LEMMA ScreenCallsPunctual ==
  ASSUME WebInv, NEW t \in Tabs, PunctualIn(t), NEW s \in Slots,
         calls[t][s].kind \in {"load", "refresh"}
  PROVE  view[t] = "app" /\ calls[t][s].page = hash[t] /\ s \in InFlight(t)
BY Kinds DEF PunctualIn

(* A route starts with an empty screen and at most one call.               *)
LEMMA RouteStartsScreen ==
  ASSUME WebInv, NEW t \in Tabs, NEW page \in Pages \cup {NoPage}, NEW u, NEW sent,
         NEW pending \in [Slots -> IssuedCall \cup {NotInFlight}],
         \E s \in Slots : pending[s] = NotInFlight,
         sent.kind = "load",
         \A s \in Slots : pending[s].kind \notin {"load", "refresh"},
         Route(t, page, u, pending, sent)
  PROVE  ScreenInv(t)'
<1> DEFINE free == CHOOSE s \in Slots : pending[s] = NotInFlight
<1>1. free \in Slots
  OBVIOUS
<1>2. \/ /\ content' = [content EXCEPT ![t] = Showing("home")]
         /\ calls' = [calls EXCEPT ![t] = pending]
      \/ /\ content' = [content EXCEPT ![t] = Showing("loading")]
         /\ calls' = [calls EXCEPT ![t] = [pending EXCEPT ![free] = sent]]
  BY DEF Route
<1> HIDE DEF free
<1>3. CASE /\ content' = [content EXCEPT ![t] = Showing("home")]
           /\ calls' = [calls EXCEPT ![t] = pending]
  <2>1. content'[t] = Showing("home") /\ calls'[t] = pending
    BY <1>3 DEF WebInv, TypeOK
  <2> QED
    BY <2>1 DEF ScreenInv, ScreenOf, LoadBehindSpinner, RefreshBehindButton, Showing
<1>4. CASE /\ content' = [content EXCEPT ![t] = Showing("loading")]
           /\ calls' = [calls EXCEPT ![t] = [pending EXCEPT ![free] = sent]]
  <2>1. /\ content'[t] = Showing("loading") /\ calls'[t][free] = sent
        /\ \A s \in Slots : s # free => calls'[t][s] = pending[s]
    BY <1>1, <1>4 DEF WebInv, TypeOK
  <2>2. \A s \in Slots : calls'[t][s].kind # "refresh" /\ (calls'[t][s].kind = "load" => s = free)
    BY <2>1
  <2> QED
    BY <2>1, <2>2 DEF ScreenInv, ScreenOf, LoadBehindSpinner, RefreshBehindButton, Showing
<1> QED BY <1>2, <1>3, <1>4

(* The answer to a screen's call replaces that screen, or leaves it.       *)
LEMMA AnswerKeepsScreen ==
  ASSUME WebInv, NEW t \in Tabs, TabInv(t), PunctualIn(t), ScreenInv(t), NEW s \in InFlight(t),
         \/ LoadOk(t, s) \/ LoadRefused(t, s) \/ LoadFails(t, s)
         \/ RefreshOk(t, s) \/ RefreshRefused(t, s) \/ RefreshFails(t, s)
  PROVE  ScreenInv(t)'
<1> USE DEF ScreenInv, ScreenOf, LoadBehindSpinner, RefreshBehindButton
<1>1. s \in Slots /\ calls[t][s].kind \in {"load", "refresh"} /\ calls' = Answered(t, s)
      /\ hash' = hash /\ user' = user /\ view[t] = "app"
  BY InFlightIssued
  DEF LoadOk, LoadRefused, LoadFails, RefreshOk, RefreshRefused, RefreshFails, PunctualIn
<1>2. /\ calls'[t][s].kind = "none"
      /\ \A r \in Slots : r # s => calls'[t][r] = calls[t][r]
  BY <1>1, AnsweredKinds
\* It was the only one.
<1>3. \A r \in Slots : calls'[t][r].kind \notin {"load", "refresh"}
  BY <1>1, <1>2 DEF Showing
<1>4. CASE LoadOk(t, s) \/ RefreshOk(t, s)
  <2>1. calls[t][s].page = hash[t]
    BY <1>1 DEF PunctualIn
  <2>2. content'[t] \in {Rendered(calls[t][s].page, owner[calls[t][s].token]), Showing("error")}
    BY <1>4 DEF LoadOk, RefreshOk, WebInv, TypeOK
  <2>3. content'[t].shows = "page" => content'[t].page = hash[t]
    BY <2>1, <2>2 DEF Rendered, Showing
  <2> QED BY <1>1, <1>3, <2>3
<1>5. CASE LoadFails(t, s)
  <2>1. content'[t] = Showing("error")
    BY <1>5 DEF LoadFails, WebInv, TypeOK
  <2>2. content'[t].shows # "page"
    BY <2>1 DEF Showing
  <2> QED BY <1>3, <2>2
<1>6. CASE LoadRefused(t, s)
  BY <1>1, <1>3, <1>6 DEF LoadRefused
<1>7. CASE RefreshRefused(t, s) \/ RefreshFails(t, s)
  <2>1. content[t] \in Content /\ ButtonBack(t, s)
    BY <1>7 DEF RefreshRefused, RefreshFails, WebInv, TypeOK
  <2>2. \/ content'[t] = content[t]
        \/ content'[t] = [content[t] EXCEPT !.busy = NoCall]
    BY <2>1 DEF ButtonBack, WebInv, TypeOK
  <2>3. /\ content'[t].shows = content[t].shows
        /\ content[t].shows = "page" =>
             content'[t].page = content[t].page /\ content'[t].for = content[t].for
    BY <2>1, <2>2 DEF Content
  <2> QED BY <1>1, <1>3, <2>3
<1> QED BY <1>4, <1>5, <1>6, <1>7

(* The button is disabled for the slot its call goes to, and was enabled:  *)
(* nothing else is in flight for this screen.                              *)
LEMMA RegenerateKeepsScreen ==
  ASSUME WebInv, NEW t \in Tabs, ScreenInv(t), Regenerate(t)
  PROVE  ScreenInv(t)'
<1> USE DEF ScreenInv, ScreenOf, LoadBehindSpinner, RefreshBehindButton
<1>1. /\ content[t] \in Content /\ content[t].shows = "page" /\ content[t].busy = NoCall
      /\ hash' = hash /\ user' = user /\ view' = view
  BY DEF Regenerate, OnClientPage, WebInv, TypeOK
<1>2. Slot(t) \in Slots /\ Slot(t) # NoCall
  <2>1. Free(t) # {} /\ Free(t) \subseteq Slots
    BY DEF Regenerate, Free
  <2>2. Slot(t) \in Slots
    BY <2>1 DEF Slot
  <2> QED BY <2>2, WebAssumption DEF Slots, NoCall
<1>3. content'[t] = [content[t] EXCEPT !.busy = Slot(t)]
  BY DEF Regenerate, WebInv, TypeOK
<1>4. /\ content'[t].shows = "page" /\ content'[t].busy = Slot(t)
      /\ content'[t].page = content[t].page /\ content'[t].for = content[t].for
  BY <1>1, <1>3 DEF Content
<1>5. /\ calls'[t][Slot(t)] = Sent("refresh", content[t].page)
      /\ \A r \in Slots : r # Slot(t) => calls'[t][r] = calls[t][r]
  BY <1>2 DEF Regenerate, SendFrom, WebInv, CallsIssued
<1>6. calls'[t][Slot(t)].kind = "refresh"
  BY <1>5 DEF Sent
<1>7. NoCall \notin Slots
  BY WebAssumption DEF Slots, NoCall
<1>8. \A r \in Slots : calls[t][r].kind \notin {"load", "refresh"}
  BY <1>1, <1>7 DEF Showing
<1> QED BY <1>1, <1>4, <1>5, <1>6, <1>8

(* The shell is filled behind the login, where no screen has a call.       *)
LEMMA ShowAppKeepsScreen ==
  ASSUME WebInv, NEW t \in Tabs, TabInv(t), PunctualIn(t), NEW s \in InFlight(t),
         calls[t][s].kind \in {"boot", "me"}, ShowApp(t, s)
  PROVE  ScreenInv(t)'
<1> DEFINE u    == owner[calls[t][s].token]
           page == Target(hash[t], u)
<1>1. s \in Slots /\ u \in Users /\ page \in Pages
  BY InFlightIssued, WebAssumption DEF ShowApp, Target, WebInv, TypeOK
<1>2. view[t] # "app"
  BY <1>1 DEF TabInv, SignInBehindLogin
<1>3. \A r \in Slots : calls[t][r].kind \notin {"load", "refresh"}
  BY <1>2, ScreenCallsPunctual
<1>4. /\ Answered(t, s)[t] \in [Slots -> IssuedCall \cup {NotInFlight}]
      /\ Answered(t, s)[t][s] = NotInFlight
      /\ \A r \in Slots : r # s => Answered(t, s)[t][r] = calls[t][r]
  BY <1>1, AnsweredIssued DEF Answered, WebInv, CallsIssued
<1>5. \A r \in Slots : Answered(t, s)[t][r].kind \notin {"load", "refresh"}
  BY <1>3, <1>4 DEF NotInFlight
<1>6. Route(t, page, u, Answered(t, s)[t], Sent("load", page))
  BY DEF ShowApp
<1>7. Sent("load", page).kind = "load"
  BY DEF Sent
<1> HIDE DEF u, page
<1> QED BY <1>1, <1>4, <1>5, <1>6, <1>7, RouteStartsScreen

(* To leave a screen that has a call in flight is to make its answer late. *)
LEMMA NavigateKeepsScreen ==
  ASSUME WebInv, NEW t \in Tabs, TabInv(t), PunctualIn(t), PunctualIn(t)', WebInv',
         ScreenInv(t), NEW page \in Pages, Navigate(t, page)
  PROVE  ScreenInv(t)'
<1>1. CASE user[t] = NoUser
  <2>1. view[t] # "app" /\ view' = view /\ calls' = calls
    BY <1>1 DEF Navigate, TabInv, AppHasUser
  <2>2. \A r \in Slots : calls'[t][r].kind \notin {"load", "refresh"}
    BY <2>1, ScreenCallsPunctual
  <2> QED
    BY <2>1, <2>2 DEF ScreenInv, ScreenOf, LoadBehindSpinner, RefreshBehindButton
<1>2. CASE user[t] # NoUser
  <2>1. /\ Route(t, page, user[t], calls[t], Sent("load", page))
        /\ Free(t) # {} /\ page # hash[t]
    BY <1>2 DEF Navigate
  <2>2. Target(page, user[t]) = page
    BY WebAssumption DEF Target
  <2>3. hash'[t] = page
    BY <2>1, <2>2 DEF Route, WebInv, TypeOK
  <2>4. \E s \in Slots : calls[t][s] = NotInFlight
    BY <2>1 DEF Free, InFlight
  <2>5. calls[t] \in [Slots -> IssuedCall \cup {NotInFlight}]
    BY DEF WebInv, CallsIssued
  <2>6. \A s \in Slots : calls[t][s] # NotInFlight => calls'[t][s] = calls[t][s]
    <3> DEFINE free == CHOOSE s \in Slots : calls[t][s] = NotInFlight
    <3>1. free \in Slots /\ calls[t][free] = NotInFlight
      BY <2>4
    <3>2. \/ calls' = [calls EXCEPT ![t] = calls[t]]
          \/ calls' = [calls EXCEPT ![t] = [calls[t] EXCEPT ![free] = Sent("load", page)]]
      BY <2>1 DEF Route
    <3> HIDE DEF free
    <3> QED BY <2>5, <3>1, <3>2 DEF WebInv, CallsIssued
  <2>7. ASSUME NEW s \in Slots, calls[t][s].kind \in {"load", "refresh"}
        PROVE  FALSE
    <3>1. s \in InFlight(t) /\ calls[t][s].page = hash[t]
      BY <2>7, ScreenCallsPunctual
    <3>2. calls'[t][s] = calls[t][s] /\ calls'[t][s] # NotInFlight
      BY <2>6, <3>1 DEF InFlight
    <3>3. calls'[t][s].page = hash'[t]
      BY <2>7, <3>2 DEF PunctualIn, InFlight
    <3> QED BY <2>1, <2>3, <3>1, <3>2, <3>3
  <2>8. \A s \in Slots : calls[t][s].kind \notin {"load", "refresh"}
    BY <2>7
  <2>9. Sent("load", page).kind = "load"
    BY DEF Sent
  <2> QED BY <2>1, <2>4, <2>5, <2>8, <2>9, RouteStartsScreen
<1> QED BY <1>1, <1>2

(* The steps that do not write to the screen.                              *)
LEMMA OtherStepsKeepScreen ==
  ASSUME WebInv, NEW t \in Tabs, ScreenInv(t),
         \/ Boot(t) \/ Submit(t) \/ (Logout(t) /\ PunctualIn(t)' /\ WebInv')
         \/ \E s \in InFlight(t) : \/ BootFails(t, s) \/ LoginOk(t, s) \/ LoginRefused(t, s)
                                   \/ MeRefused(t, s) \/ SignInFails(t, s)
  PROVE  ScreenInv(t)'
<1>1. CASE Boot(t)
  <2>1. content'[t] = Showing("empty")
    BY <1>1 DEF Boot, WebInv, TypeOK
  <2>2. \A s \in Slots : calls'[t][s] \in {Sent("boot", NoPage), NotInFlight}
    BY <1>1 DEF Boot, WebInv, CallsIssued
  <2>3. \A s \in Slots : calls'[t][s].kind \notin {"load", "refresh"}
    BY <2>2 DEF Sent, NotInFlight
  <2> QED
    BY <2>1, <2>3
    DEF ScreenInv, ScreenOf, LoadBehindSpinner, RefreshBehindButton, Showing
<1>2. CASE Submit(t)
  <2>1. PICK s \in Slots : /\ calls'[t][s] = Sent("login", NoPage)
                           /\ \A r \in Slots : r # s => calls'[t][r] = calls[t][r]
    BY <1>2, SendKinds DEF Submit
  <2>2. calls'[t][s].kind = "login"
    BY <2>1 DEF Sent
  <2> QED BY <1>2, <2>1, <2>2, QuietKeepsScreen DEF Submit
<1>3. CASE Logout(t) /\ PunctualIn(t)' /\ WebInv'
  <2>1. view'[t] = "login" /\ calls' = calls
    BY <1>3 DEF Logout, WebInv, TypeOK
  <2>2. ASSUME NEW s \in Slots, calls[t][s].kind \in {"load", "refresh"}
        PROVE  FALSE
    <3>1. s \in InFlight(t)
      BY <2>2, Kinds
    <3> QED BY <1>3, <2>1, <2>2, <3>1 DEF PunctualIn, InFlight
  <2> QED
    BY <2>1, <2>2 DEF ScreenInv, ScreenOf, LoadBehindSpinner, RefreshBehindButton
<1>4. ASSUME NEW s \in InFlight(t), BootFails(t, s) \/ LoginRefused(t, s)
                                     \/ MeRefused(t, s) \/ SignInFails(t, s)
      PROVE  ScreenInv(t)'
  <2>1. s \in Slots /\ calls' = Answered(t, s)
    BY <1>4, InFlightIssued DEF BootFails, LoginRefused, MeRefused, SignInFails
  <2>2. /\ calls'[t][s].kind = "none"
        /\ \A r \in Slots : r # s => calls'[t][r] = calls[t][r]
    BY <2>1, AnsweredKinds
  <2>3. /\ content' = content /\ hash' = hash /\ user' = user
        /\ view'[t] = "app" => view[t] = "app"
    BY <1>4 DEF BootFails, LoginRefused, MeRefused, SignInFails, Refused, session, WebInv, TypeOK
  <2> QED BY <2>2, <2>3, QuietKeepsScreen
<1>5. ASSUME NEW s \in InFlight(t), LoginOk(t, s)
      PROVE  ScreenInv(t)'
  <2>1. /\ calls'[t][s].kind = "me"
        /\ \A r \in Slots : r # s => calls'[t][r] = calls[t][r]
    BY <1>5, InFlightIssued DEF LoginOk, WebInv, CallsIssued
  <2> QED BY <1>5, <2>1, QuietKeepsScreen DEF LoginOk
<1> QED BY <1>1, <1>2, <1>3, <1>4, <1>5

(* Under punctual answers every step keeps every screen in order.          *)
LEMMA ScreenInvNext ==
  ASSUME WebInv, WebInv', \A t \in Tabs : TabInv(t), NoLateAnswer, NoLateAnswer',
         \A t \in Tabs : ScreenInv(t), [Next]_vars
  PROVE  \A t \in Tabs : ScreenInv(t)'
<1> SUFFICES ASSUME NEW o \in Tabs PROVE ScreenInv(o)'
  OBVIOUS
<1>1. PunctualIn(o) /\ PunctualIn(o)'
  BY DEF NoLateAnswer, PunctualIn
<1>2. ASSUME NEW t \in Tabs, t # o, UserStep(t) \/ \E s \in InFlight(t) : Answer(t, s)
      PROVE  ScreenInv(o)'
  BY <1>2, OtherTab DEF ScreenInv, ScreenOf, LoadBehindSpinner, RefreshBehindButton
<1>3. CASE UserStep(o)
  BY <1>1, <1>3, RegenerateKeepsScreen, NavigateKeepsScreen, OtherStepsKeepScreen DEF UserStep
<1>4. ASSUME NEW s \in InFlight(o), Answer(o, s)
      PROVE  ScreenInv(o)'
  <2>1. CASE BootOk(o, s) \/ MeOk(o, s)
    BY <1>1, <2>1, ShowAppKeepsScreen DEF BootOk, MeOk
  <2> QED
    BY <1>1, <1>4, <2>1, AnswerKeepsScreen, OtherStepsKeepScreen DEF Answer
<1>5. CASE (\E k \in Tokens : Expire(k)) \/ UNCHANGED vars
  BY <1>5, NoTabStep
  DEF tabs, ScreenInv, ScreenOf, LoadBehindSpinner, RefreshBehindButton
<1> QED BY <1>2, <1>3, <1>4, <1>5 DEF Next

(* The screens stay in order as long as answers are punctual.              *)
LEMMA ScreenInvariant == Spec => ([]NoLateAnswer => [](\A t \in Tabs : ScreenInv(t)))
<1>1. Init => \A t \in Tabs : ScreenInv(t)
  <2> SUFFICES ASSUME Init, NEW t \in Tabs PROVE ScreenInv(t)
    OBVIOUS
  <2>1. view[t] = "closed" /\ \A s \in Slots : calls[t][s].kind = "none"
    BY DEF Init, NotInFlight
  <2> QED
    BY <2>1 DEF ScreenInv, ScreenOf, LoadBehindSpinner, RefreshBehindButton
<1>2. /\ WebInv /\ WebInv' /\ (\A t \in Tabs : TabInv(t)) /\ NoLateAnswer /\ NoLateAnswer'
      /\ (\A t \in Tabs : ScreenInv(t)) /\ [Next]_vars
      => (\A t \in Tabs : ScreenInv(t))'
  BY ScreenInvNext
<1> QED BY <1>1, <1>2, WebInvariant, TabInvariant, PTL DEF Spec

(***************************************************************************)
(* As long as no answer arrives for a page its tab has left, every screen  *)
(* is the one its address names, in any number of tabs that share one      *)
(* localStorage (route, the Regenerate handler).                           *)
(***************************************************************************)
THEOREM PunctualAddresses == Spec => ([]NoLateAnswer => []ScreenMatchesAddress)
<1>1. (\A t \in Tabs : ScreenInv(t)) => ScreenMatchesAddress
  BY DEF ScreenInv, ScreenOf, ScreenMatchesAddress, ShowsPage
<1> QED BY <1>1, ScreenInvariant, PTL

(***************************************************************************)
(* Under the same condition no tab ever pays for two regenerations at once *)
(* (the disabled button of wireSummary).                                   *)
(***************************************************************************)
THEOREM PunctualButtons == Spec => PunctualRegenerations
<1>1. (\A t \in Tabs : ScreenInv(t)) => OneRegeneration
  BY DEF ScreenInv, RefreshBehindButton, OneRegeneration, InFlight
<1> QED BY <1>1, ScreenInvariant, PTL DEF PunctualRegenerations

-----------------------------------------------------------------------------
(* A lone tab: what is in flight for a screen was sent for the user in the *)
(* header, and so the screen shows that user's data.                       *)
CallsActForUser(t) ==
  \A s \in Slots : calls[t][s].kind \in {"load", "refresh"} =>
    (calls[t][s].token # 0 => owner[calls[t][s].token] = user[t])

ScreenUser(t) == ShowsPage(t) => content[t].for = user[t]

UserInv(t) == CallsActForUser(t) /\ ScreenUser(t)

(* A step that sends nothing for a screen and does not write to it.        *)
LEMMA QuietKeepsUser ==
  ASSUME WebInv, NEW t \in Tabs, UserInv(t), UNCHANGED owner,
         content'[t] = content[t], user'[t] = user[t],
         view'[t] = "app" => view[t] = "app",
         \A s \in Slots : calls'[t][s].kind \in {"load", "refresh"} =>
                             calls'[t][s] = calls[t][s]
  PROVE  UserInv(t)'
BY DEF UserInv, CallsActForUser, ScreenUser, ShowsPage

(* The answer to a screen's call is shown to the user it was sent for.     *)
LEMMA AnswerKeepsUser ==
  ASSUME WebInv, NEW t \in Tabs, UserInv(t), NEW s \in InFlight(t),
         \/ LoadOk(t, s) \/ LoadRefused(t, s) \/ LoadFails(t, s)
         \/ RefreshOk(t, s) \/ RefreshRefused(t, s) \/ RefreshFails(t, s)
  PROVE  UserInv(t)'
<1>1. s \in Slots /\ calls[t][s].kind \in {"load", "refresh"} /\ calls' = Answered(t, s)
      /\ user' = user /\ owner' = owner /\ (view'[t] = "app" => view[t] = "app")
  BY InFlightIssued
  DEF LoadOk, LoadRefused, LoadFails, RefreshOk, RefreshRefused, RefreshFails, Refused, session,
      WebInv, TypeOK
<1>2. /\ calls'[t][s].kind = "none"
      /\ \A r \in Slots : r # s => calls'[t][r] = calls[t][r]
  BY <1>1, AnsweredKinds
<1>3. CallsActForUser(t)'
  BY <1>1, <1>2 DEF UserInv, CallsActForUser
<1>4. content'[t].shows = "page" =>
        \/ content'[t].for = user[t]
        \/ content[t].shows = "page" /\ content'[t].for = content[t].for
  <2>1. CASE LoadOk(t, s) \/ RefreshOk(t, s)
    <3>1. calls[t][s].accepted /\ calls[t][s] \in IssuedCall
      BY <2>1, InFlightIssued DEF LoadOk, RefreshOk
    <3>2. owner[calls[t][s].token] = user[t]
      BY <1>1, <3>1 DEF IssuedCall, UserInv, CallsActForUser
    <3>3. content'[t] \in {Rendered(calls[t][s].page, owner[calls[t][s].token]), Showing("error")}
      BY <2>1 DEF LoadOk, RefreshOk, WebInv, TypeOK
    <3> QED BY <3>2, <3>3 DEF Rendered, Showing
  <2>2. CASE LoadFails(t, s)
    <3>1. content'[t] = Showing("error")
      BY <2>2 DEF LoadFails, WebInv, TypeOK
    <3> QED BY <3>1 DEF Showing
  <2>3. CASE LoadRefused(t, s)
    BY <2>3 DEF LoadRefused
  <2>4. CASE RefreshRefused(t, s) \/ RefreshFails(t, s)
    <3>1. content[t] \in Content /\ ButtonBack(t, s)
      BY <2>4 DEF RefreshRefused, RefreshFails, WebInv, TypeOK
    <3>2. \/ content'[t] = content[t]
          \/ content'[t] = [content[t] EXCEPT !.busy = NoCall]
      BY <3>1 DEF ButtonBack, WebInv, TypeOK
    <3> QED BY <3>1, <3>2 DEF Content
  <2> QED BY <2>1, <2>2, <2>3, <2>4
<1> QED BY <1>1, <1>3, <1>4 DEF UserInv, ScreenUser, ShowsPage

(* Regenerate sends the stored token, which is that of the user shown.     *)
LEMMA RegenerateKeepsUser ==
  ASSUME WebInv, NEW t \in Tabs, TokenInv(t), UserInv(t), Regenerate(t)
  PROVE  UserInv(t)'
<1>1. /\ content[t] \in Content /\ content[t].shows = "page"
      /\ view[t] = "app" /\ UNCHANGED <<view, user, owner>>
  BY DEF Regenerate, OnClientPage, session, WebInv, TypeOK
<1>2. content'[t] = [content[t] EXCEPT !.busy = Slot(t)]
  BY DEF Regenerate, WebInv, TypeOK
<1>3. content'[t].for = content[t].for
  BY <1>1, <1>2 DEF Content
<1>4. PICK s \in Slots : /\ calls'[t][s] = Sent("refresh", content[t].page)
                         /\ \A r \in Slots : r # s => calls'[t][r] = calls[t][r]
  BY SendKinds DEF Regenerate
<1>5. calls'[t][s].token = token
  BY <1>4 DEF Sent
<1>6. token # 0 => owner[token] = user[t]
  BY <1>1 DEF TokenInv, Shell
<1>7. CallsActForUser(t)'
  BY <1>1, <1>4, <1>5, <1>6 DEF UserInv, CallsActForUser
<1> QED BY <1>1, <1>3, <1>7 DEF UserInv, ScreenUser, ShowsPage

(* Routing for u clears the screen, and sends a token of u's, if any.      *)
LEMMA RouteKeepsUser ==
  ASSUME WebInv, NEW t \in Tabs, NEW page, NEW u, NEW sent,
         NEW pending \in [Slots -> IssuedCall \cup {NotInFlight}],
         Route(t, page, u, pending, sent), user'[t] = u, UNCHANGED owner,
         \A s \in Slots : pending[s].kind \in {"load", "refresh"} =>
           (pending[s].token # 0 => owner[pending[s].token] = u),
         \A s \in Slots : calls'[t][s] = sent => (sent.token # 0 => owner[sent.token] = u)
  PROVE  UserInv(t)'
<1>1. \A s \in Slots : calls'[t][s] \in {pending[s], sent}
  BY RouteKinds
<1>2. content'[t] \in {Showing("home"), Showing("loading")}
  BY DEF Route, WebInv, TypeOK
<1>3. content'[t].shows # "page"
  BY <1>2 DEF Showing
<1>4. CallsActForUser(t)'
  BY <1>1 DEF CallsActForUser
<1> QED BY <1>3, <1>4 DEF UserInv, ScreenUser, ShowsPage

(* After api.me() the screen's call carries the token api.me() was sent    *)
(* with, or none is stored any more.                                       *)
LEMMA ShowAppKeepsUser ==
  ASSUME WebInv, NEW t \in Tabs, TabInv(t), TokenInv(t), PunctualIn(t), NEW s \in InFlight(t),
         calls[t][s].kind \in {"boot", "me"}, ShowApp(t, s), UNCHANGED session
  PROVE  UserInv(t)'
<1> DEFINE u    == owner[calls[t][s].token]
           page == Target(hash[t], u)
<1>1. s \in Slots
  BY InFlightIssued
<1>2. view[t] # "app"
  BY <1>1 DEF TabInv, SignInBehindLogin
<1>3. /\ Answered(t, s)[t] \in [Slots -> IssuedCall \cup {NotInFlight}]
      /\ Answered(t, s)[t][s] = NotInFlight
      /\ \A r \in Slots : r # s => Answered(t, s)[t][r] = calls[t][r]
  BY <1>1, AnsweredIssued DEF Answered, WebInv, CallsIssued
<1>4. \A r \in Slots : Answered(t, s)[t][r].kind \notin {"load", "refresh"}
  BY <1>2, <1>3, ScreenCallsPunctual DEF NotInFlight
<1>5. token # 0 => owner[token] = u
  BY <1>1 DEF TokenInv, SignInToken
<1>6. /\ user'[t] = u /\ owner' = owner
      /\ Route(t, page, u, Answered(t, s)[t], Sent("load", page))
  BY DEF ShowApp, session, WebInv, TypeOK
<1> DEFINE sent    == Sent("load", page)
           pending == Answered(t, s)[t]
<1>7. sent.token # 0 => owner[sent.token] = u
  BY <1>5 DEF Sent
<1> HIDE DEF u, page, sent, pending
<1>8. /\ pending \in [Slots -> IssuedCall \cup {NotInFlight}]
      /\ \A r \in Slots : pending[r].kind \notin {"load", "refresh"}
      /\ Route(t, page, u, pending, sent)
  BY <1>3, <1>4, <1>6 DEF pending, sent
<1> QED BY <1>6, <1>7, <1>8, RouteKeepsUser

(* A link followed in the app sends the token of the user shown; one       *)
(* followed behind the login, where a bounced tab still routes, makes the  *)
(* answer of its screen late.                                              *)
LEMMA NavigateKeepsUser ==
  ASSUME WebInv, NEW t \in Tabs, TokenInv(t), UserInv(t), PunctualIn(t)', WebInv',
         NEW page \in Pages, Navigate(t, page)
  PROVE  UserInv(t)'
<1>1. UNCHANGED <<owner, token, view, user>>
  BY DEF Navigate, session
<1>2. CASE user[t] = NoUser
  BY <1>1, <1>2, QuietKeepsUser DEF Navigate
<1>3. CASE user[t] # NoUser
  <2>1. Route(t, page, user[t], calls[t], Sent("load", page))
    BY <1>3 DEF Navigate
  <2>2. calls[t] \in [Slots -> IssuedCall \cup {NotInFlight}]
    BY DEF WebInv, CallsIssued
  <2>3. Sent("load", page).token = token /\ Sent("load", page).kind = "load"
    BY DEF Sent
  <2>4. ASSUME NEW s \in Slots, calls'[t][s] = Sent("load", page)
        PROVE  token # 0 => owner[token] = user[t]
    <3>1. calls'[t][s].kind = "load" /\ calls'[t][s] # NotInFlight
      BY <2>3, <2>4 DEF NotInFlight
    <3>2. view'[t] = "app"
      BY <3>1 DEF PunctualIn, InFlight
    <3> QED BY <1>1, <3>2 DEF TokenInv, Shell
  <2>5. \A s \in Slots : calls[t][s].kind \in {"load", "refresh"} =>
          (calls[t][s].token # 0 => owner[calls[t][s].token] = user[t])
    BY DEF UserInv, CallsActForUser
  <2>6. user'[t] = user[t]
    BY <1>1
  <2> DEFINE sent == Sent("load", page)
  <2>7. /\ Route(t, page, user[t], calls[t], sent)
        /\ \A s \in Slots : calls'[t][s] = sent => (sent.token # 0 => owner[sent.token] = user[t])
    BY <2>1, <2>3, <2>4
  <2> HIDE DEF sent
  <2> QED BY <1>1, <2>2, <2>5, <2>6, <2>7, RouteKeepsUser
<1> QED BY <1>2, <1>3

(* The steps that do not write to the screen.                              *)
LEMMA OtherStepsKeepUser ==
  ASSUME WebInv, NEW t \in Tabs, TabInv(t), UserInv(t),
         \/ Boot(t) \/ Submit(t) \/ (Logout(t) /\ PunctualIn(t)' /\ WebInv')
         \/ \E s \in InFlight(t) : \/ BootFails(t, s) \/ LoginOk(t, s) \/ LoginRefused(t, s)
                                   \/ MeRefused(t, s) \/ SignInFails(t, s)
  PROVE  UserInv(t)'
<1>1. CASE Boot(t)
  <2>1. content'[t] = Showing("empty")
    BY <1>1 DEF Boot, WebInv, TypeOK
  <2>2. \A s \in Slots : calls'[t][s] \in {Sent("boot", NoPage), NotInFlight}
    BY <1>1 DEF Boot, WebInv, CallsIssued
  <2>3. \A s \in Slots : calls'[t][s].kind \notin {"load", "refresh"}
    BY <2>2 DEF Sent, NotInFlight
  <2> QED BY <2>1, <2>3 DEF UserInv, CallsActForUser, ScreenUser, ShowsPage, Showing
<1>2. CASE Submit(t)
  <2>1. PICK s \in Slots : /\ calls'[t][s] = Sent("login", NoPage)
                           /\ \A r \in Slots : r # s => calls'[t][r] = calls[t][r]
    BY <1>2, SendKinds DEF Submit
  <2>2. calls'[t][s].kind = "login"
    BY <2>1 DEF Sent
  <2> QED BY <1>2, <2>1, <2>2, QuietKeepsUser DEF Submit, session
<1>3. CASE Logout(t) /\ PunctualIn(t)' /\ WebInv'
  <2>1. view'[t] = "login" /\ calls' = calls
    BY <1>3 DEF Logout, WebInv, TypeOK
  <2>2. ASSUME NEW s \in Slots, calls[t][s].kind \in {"load", "refresh"}
        PROVE  FALSE
    <3>1. s \in InFlight(t)
      BY <2>2, Kinds
    <3> QED BY <1>3, <2>1, <2>2, <3>1 DEF PunctualIn, InFlight
  <2> QED BY <2>1, <2>2 DEF UserInv, CallsActForUser, ScreenUser, ShowsPage
<1>4. ASSUME NEW s \in InFlight(t), BootFails(t, s) \/ LoginRefused(t, s)
                                     \/ MeRefused(t, s) \/ SignInFails(t, s)
      PROVE  UserInv(t)'
  <2>1. s \in Slots /\ calls' = Answered(t, s)
    BY <1>4, InFlightIssued DEF BootFails, LoginRefused, MeRefused, SignInFails
  <2>2. /\ calls'[t][s].kind = "none"
        /\ \A r \in Slots : r # s => calls'[t][r] = calls[t][r]
    BY <2>1, AnsweredKinds
  <2>3. /\ content' = content /\ user' = user /\ owner' = owner
        /\ view'[t] = "app" => view[t] = "app"
    BY <1>4 DEF BootFails, LoginRefused, MeRefused, SignInFails, Refused, session, WebInv, TypeOK
  <2> QED BY <2>2, <2>3, QuietKeepsUser
<1>5. ASSUME NEW s \in InFlight(t), LoginOk(t, s)
      PROVE  UserInv(t)'
  <2>1. /\ s \in Slots /\ calls'[t][s].kind = "me"
        /\ \A r \in Slots : r # s => calls'[t][r] = calls[t][r]
        /\ UNCHANGED <<view, user, content>>
    BY <1>5, InFlightIssued DEF LoginOk, WebInv, CallsIssued
  <2>2. ASSUME NEW r \in Slots, calls[t][r].kind \in {"load", "refresh"}
        PROVE  calls[t][r].token # 0 => owner'[calls[t][r].token] = owner[calls[t][r].token]
    <3>1. r \in InFlight(t)
      BY <2>2, Kinds
    <3>2. calls[t][r].token \in 0 .. issued /\ issued \in Nat
      BY <3>1, InFlightIssued DEF WebInv, TypeOK
    <3>3. \E who \in Users : owner' = [owner EXCEPT ![issued + 1] = who]
      BY <1>5 DEF LoginOk, Issues
    <3>4. calls[t][r].token # 0 => calls[t][r].token \in Tokens /\ calls[t][r].token # issued + 1
      BY <3>2, WebAssumption DEF WebInv, TypeOK, Tokens
    <3> QED BY <3>3, <3>4 DEF WebInv, TypeOK
  <2>3. CallsActForUser(t)'
    BY <2>1, <2>2 DEF UserInv, CallsActForUser
  <2> QED BY <2>1, <2>3 DEF UserInv, ScreenUser, ShowsPage
<1> QED BY <1>1, <1>2, <1>3, <1>4, <1>5

(***************************************************************************)
(* In a lone tab whose answers are punctual, the screen is the one of the  *)
(* address and its data were returned to the user in the header, whoever   *)
(* was logged in before and whatever was refused meanwhile.                *)
(***************************************************************************)
THEOREM PunctualScreens ==
  ASSUME NEW t0, Tabs = {t0}
  PROVE  Spec => PunctualScreensMatch
<1>1. Init => TokenInv(t0) /\ UserInv(t0)
  BY DEF Init, TokenInv, SignInToken, Shell, UserInv, CallsActForUser, ScreenUser, ShowsPage,
     NotInFlight
<1>2. WebInv /\ (\A t \in Tabs : TabInv(t)) /\ TokenInv(t0) /\ [Next]_vars => TokenInv(t0)'
  BY LoneTabStep
<1>3. /\ WebInv /\ WebInv' /\ (\A t \in Tabs : TabInv(t)) /\ TokenInv(t0)
      /\ NoLateAnswer /\ NoLateAnswer' /\ UserInv(t0) /\ [Next]_vars
      => UserInv(t0)'
  <2> SUFFICES ASSUME WebInv, WebInv', TabInv(t0), TokenInv(t0), PunctualIn(t0), PunctualIn(t0)',
                      UserInv(t0), [Next]_vars
               PROVE  UserInv(t0)'
    BY DEF NoLateAnswer, PunctualIn
  <2>1. CASE UserStep(t0)
    BY <2>1, RegenerateKeepsUser, NavigateKeepsUser, OtherStepsKeepUser DEF UserStep
  <2>2. ASSUME NEW s \in InFlight(t0), Answer(t0, s)
        PROVE  UserInv(t0)'
    <3>1. CASE BootOk(t0, s) \/ MeOk(t0, s)
      BY <3>1, ShowAppKeepsUser DEF BootOk, MeOk
    <3> QED BY <2>2, <3>1, AnswerKeepsUser, OtherStepsKeepUser DEF Answer
  <2>3. CASE (\E k \in Tokens : Expire(k)) \/ UNCHANGED vars
    BY <2>3, NoTabStep DEF tabs, UserInv, CallsActForUser, ScreenUser, ShowsPage
  <2> QED BY <2>1, <2>2, <2>3 DEF Next
<1>4. UserInv(t0) => ScreenMatchesUser
  BY DEF UserInv, ScreenUser, ScreenMatchesUser
<1> QED
  BY <1>1, <1>2, <1>3, <1>4, PunctualAddresses, WebInvariant, TabInvariant, PTL
  DEF Spec, PunctualScreensMatch

=============================================================================
