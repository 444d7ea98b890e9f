------------------------------ MODULE WebClient ------------------------------
(***************************************************************************)
(* The browser client, app/web/app.js: a session kept in localStorage, a   *)
(* hash router, and API calls whose answers arrive in any order while the  *)
(* user navigates, regenerates, logs out and logs in again.                *)
(*                                                                         *)
(* Every tab runs the script on its own; the tabs share localStorage.  The *)
(* API is seen through its answers: a call is accepted, refused with 401,  *)
(* or fails in any other way (an error status or no network).              *)
(***************************************************************************)
EXTENDS Integers

CONSTANTS
  Tabs, Users,
  NetworkPages, FirmPages, ClientPages,  \* #/network, #/firm..., #/client/<id>
  DefaultPage,   \* defaultRoute: the page a user lands on
  MaxCalls,      \* bound: calls one tab has in flight
  MaxLogins,     \* bound: tokens issued in a behaviour
  NoUser, NoPage

VARIABLES
  token,    \* localStorage: the number of a token, 0 when there is none
  issued,   \* how many tokens the server has issued
  owner,    \* the user of each token issued
  live,     \* the tokens the server still accepts
  view, user, hash,  \* of each tab: what is shown, currentUser, location.hash
  content,  \* of each tab: the #content element
  signing,  \* of each tab: loginSubmit.disabled
  calls     \* of each tab: the API calls in flight

session == <<token, issued, owner, live>>
tabs == <<view, user, hash, content, signing, calls>>
vars == <<token, issued, owner, live, view, user, hash, content, signing, calls>>

-----------------------------------------------------------------------------
Pages == NetworkPages \cup FirmPages \cup ClientPages \cup {"home"}

Tokens == 1 .. MaxLogins

Slots == 1 .. MaxCalls

NoCall == 0

ASSUME WebAssumption ==
  /\ MaxCalls \in Nat /\ MaxLogins \in Nat
  /\ NoUser \notin Users /\ NoPage \notin Pages
  /\ DefaultPage \in [Users -> Pages]

\* A call remembers the token it was sent with, and whether the server
\* would have accepted it then.
Call == [kind : {"boot", "login", "me", "load", "refresh"},
         page : Pages \cup {NoPage}, token : 0 .. MaxLogins, accepted : BOOLEAN]

\* What #content shows.  A page shows data the API returned to `for`;
\* `busy` is the regeneration its disabled button waits for.
Content == [shows : {"empty", "loading", "home", "error"}]
             \cup [shows : {"page"}, page : Pages, for : Users \cup {NoUser},
                   busy : Slots \cup {NoCall}]

Showing(what) == [shows |-> what]

Rendered(page, for) ==
  [shows |-> "page", page |-> page, for |-> for, busy |-> NoCall]

NotInFlight == [kind |-> "none"]

InFlight(t) == {s \in Slots : calls[t][s] # NotInFlight}

Free(t) == Slots \ InFlight(t)

\* The slot the next call takes; which one does not matter.
Slot(t) == CHOOSE s \in Free(t) : TRUE

TypeOK ==
  /\ token \in 0 .. MaxLogins
  /\ issued \in 0 .. MaxLogins
  /\ owner \in [Tokens -> Users \cup {NoUser}]
  /\ live \subseteq Tokens
  /\ view \in [Tabs -> {"blank", "login", "app", "closed"}]
  /\ user \in [Tabs -> Users \cup {NoUser}]
  /\ hash \in [Tabs -> Pages \cup {NoPage}]
  /\ content \in [Tabs -> Content]
  /\ signing \in [Tabs -> BOOLEAN]
  /\ calls \in [Tabs -> [Slots -> Call \cup {NotInFlight}]]

Init ==
  /\ token = 0 /\ issued = 0
  /\ owner = [k \in Tokens |-> NoUser]
  /\ live = {}
  /\ view = [t \in Tabs |-> "closed"]
  /\ user = [t \in Tabs |-> NoUser]
  /\ hash = [t \in Tabs |-> NoPage]
  /\ content = [t \in Tabs |-> Showing("empty")]
  /\ signing = [t \in Tabs |-> FALSE]
  /\ calls = [t \in Tabs |-> [s \in Slots |-> NotInFlight]]

-----------------------------------------------------------------------------
(* api.request *)

\* The call sent now by any tab: it attaches the token found in localStorage.
Sent(kind, page) ==
  [kind |-> kind, page |-> page, token |-> token, accepted |-> token \in live]

Answered(t, s) == [calls EXCEPT ![t][s] = NotInFlight]

SendFrom(t, call) == calls' = [calls EXCEPT ![t][Slot(t)] = call]

\* A 401 to a call that carried a token ends the session and shows login;
\* whichever token is stored by then is the one removed.
Refused(t, s) ==
  /\ calls[t][s].token \notin live
  /\ IF calls[t][s].token # 0
     THEN token' = 0 /\ view' = [view EXCEPT ![t] = "login"]
     ELSE UNCHANGED <<token, view>>

-----------------------------------------------------------------------------
(* The hash router *)

\* Mutant: an empty hash is left alone.
TargetWithoutDefault(page, u) == page

\* Where route() goes: an empty hash is replaced by the user's default.
Target(page, u) == IF page = NoPage THEN DefaultPage[u] ELSE page

\* Mutant: the old screen stays until the new one is rendered.
RouteKeepingContent(t, page, u, pending, sent) ==
  LET free == CHOOSE s \in Slots : pending[s] = NotInFlight
  IN  /\ hash' = [hash EXCEPT ![t] = Target(page, u)]
      /\ IF Target(page, u) = "home"
         THEN /\ content' = [content EXCEPT ![t] = Showing("home")]
              /\ calls' = [calls EXCEPT ![t] = pending]
         ELSE /\ calls' = [calls EXCEPT ![t] = [pending EXCEPT ![free] = sent]]
              /\ UNCHANGED content

(***************************************************************************)
(* route() of tab t for user u, when `pending` is what remains in flight   *)
(* and `sent` the call for the screen's data: the home screen needs none.  *)
(***************************************************************************)
Route(t, page, u, pending, sent) ==
  LET free == CHOOSE s \in Slots : pending[s] = NotInFlight
  IN  /\ hash' = [hash EXCEPT ![t] = Target(page, u)]
      /\ IF Target(page, u) = "home"
         THEN /\ content' = [content EXCEPT ![t] = Showing("home")]
              /\ calls' = [calls EXCEPT ![t] = pending]
         ELSE /\ content' = [content EXCEPT ![t] = Showing("loading")]
              /\ calls' = [calls EXCEPT ![t] = [pending EXCEPT ![free] = sent]]

\* The user follows a link, goes back, or edits the address.
Navigate(t, page) ==
  /\ view[t] # "closed" /\ page # hash[t]
  /\ IF user[t] = NoUser
     THEN /\ hash' = [hash EXCEPT ![t] = page]
          /\ UNCHANGED <<content, calls>>
     ELSE /\ Free(t) # {}
          /\ Route(t, page, user[t], calls[t], Sent("load", page))
  /\ UNCHANGED <<session, view, user, signing>>

\* A screen answers only after an await: renderFirm then reads currentUser.
Renders(t, page) == page \in FirmPages => user[t] # NoUser

LoadOk(t, s) ==
  /\ calls[t][s].kind = "load" /\ calls[t][s].accepted
  /\ content' = [content EXCEPT ![t] =
       IF Renders(t, calls[t][s].page)
       THEN Rendered(calls[t][s].page, owner[calls[t][s].token])
       ELSE Showing("error")]
  /\ calls' = Answered(t, s)
  /\ UNCHANGED <<session, view, user, hash, signing>>

\* route() leaves a 401 to api.request.
LoadRefused(t, s) ==
  /\ calls[t][s].kind = "load"
  /\ Refused(t, s)
  /\ calls' = Answered(t, s)
  /\ UNCHANGED <<issued, owner, live, user, hash, content, signing>>

LoadFails(t, s) ==
  /\ calls[t][s].kind = "load"
  /\ content' = [content EXCEPT ![t] = Showing("error")]
  /\ calls' = Answered(t, s)
  /\ UNCHANGED <<session, view, user, hash, signing>>

-----------------------------------------------------------------------------
(* The Regenerate button *)

OnClientPage(t) ==
  view[t] = "app" /\ content[t].shows = "page" /\ content[t].page \in ClientPages

\* Mutant: the button is not disabled while it works.
RegenerateEnabled(t) ==
  /\ OnClientPage(t) /\ Free(t) # {}
  /\ SendFrom(t, Sent("refresh", content[t].page))
  /\ UNCHANGED <<session, view, user, hash, content, signing>>

Regenerate(t) ==
  /\ OnClientPage(t) /\ content[t].busy = NoCall /\ Free(t) # {}
  /\ SendFrom(t, Sent("refresh", content[t].page))
  /\ content' = [content EXCEPT ![t].busy = Slot(t)]
  /\ UNCHANGED <<session, view, user, hash, signing>>

\* The button that sent call s works again, if it is still on the screen.
ButtonBack(t, s) ==
  content' = [content EXCEPT ![t] =
    IF @.shows = "page" /\ @.busy = s THEN [@ EXCEPT !.busy = NoCall] ELSE @]

\* The new summary replaces whatever #content shows by now.
RefreshOk(t, s) ==
  /\ calls[t][s].kind = "refresh" /\ calls[t][s].accepted
  /\ content' = [content EXCEPT ![t] =
                   Rendered(calls[t][s].page, owner[calls[t][s].token])]
  /\ calls' = Answered(t, s)
  /\ UNCHANGED <<session, view, user, hash, signing>>

RefreshRefused(t, s) ==
  /\ calls[t][s].kind = "refresh"
  /\ Refused(t, s) /\ ButtonBack(t, s)
  /\ calls' = Answered(t, s)
  /\ UNCHANGED <<issued, owner, live, user, hash, signing>>

\* Mutant: the button is enabled on success only.
RefreshFailsSilently(t, s) ==
  /\ calls[t][s].kind = "refresh"
  /\ calls' = Answered(t, s)
  /\ UNCHANGED <<session, view, user, hash, content, signing>>

RefreshFails(t, s) ==
  /\ calls[t][s].kind = "refresh"
  /\ ButtonBack(t, s)
  /\ calls' = Answered(t, s)
  /\ UNCHANGED <<session, view, user, hash, signing>>

-----------------------------------------------------------------------------
(* Boot, login and logout *)

\* The page is opened or reloaded: the script starts anew, with the same hash.
Boot(t) ==
  /\ user' = [user EXCEPT ![t] = NoUser]
  /\ content' = [content EXCEPT ![t] = Showing("empty")]
  /\ signing' = [signing EXCEPT ![t] = FALSE]
  /\ view' = [view EXCEPT ![t] = IF token = 0 THEN "login" ELSE "blank"]
  /\ calls' = [calls EXCEPT ![t] =
       [s \in Slots |-> IF token # 0 /\ s = 1 THEN Sent("boot", NoPage) ELSE NotInFlight]]
  /\ UNCHANGED <<session, hash>>

\* api.me() returned the principal: the shell is filled and routed.
ShowApp(t, s) ==
  /\ calls[t][s].accepted
  /\ LET u    == owner[calls[t][s].token]
         page == Target(hash[t], u)
     IN  /\ view' = [view EXCEPT ![t] = "app"]
         /\ user' = [user EXCEPT ![t] = u]
         /\ Route(t, page, u, Answered(t, s)[t], Sent("load", page))

BootOk(t, s) ==
  /\ calls[t][s].kind = "boot"
  /\ ShowApp(t, s)
  /\ UNCHANGED <<session, signing>>

\* Whatever went wrong, the user lands on login; only a 401 drops the token.
BootFails(t, s) ==
  /\ calls[t][s].kind = "boot"
  /\ view' = [view EXCEPT ![t] = "login"]
  /\ \/ calls[t][s].token \notin live /\ token' = 0
     \/ UNCHANGED token
  /\ calls' = Answered(t, s)
  /\ UNCHANGED <<issued, owner, live, user, hash, content, signing>>

Submit(t) ==
  /\ view[t] = "login" /\ ~signing[t] /\ Free(t) # {}
  /\ signing' = [signing EXCEPT ![t] = TRUE]
  /\ SendFrom(t, Sent("login", NoPage))
  /\ UNCHANGED <<session, view, user, hash, content>>

\* POST /auth/login accepts the credentials of u.
Issues(u) ==
  /\ issued < MaxLogins
  /\ issued' = issued + 1
  /\ owner' = [owner EXCEPT ![issued + 1] = u]
  /\ live' = live \cup {issued + 1}

\* Mutant: api.me() is called before the new token is stored.
LoginOkLateToken(t, s) ==
  /\ calls[t][s].kind = "login"
  /\ \E u \in Users : Issues(u)
  /\ token' = issued + 1
  /\ calls' = [calls EXCEPT ![t][s] = Sent("me", NoPage)]
  /\ UNCHANGED <<view, user, hash, content, signing>>

\* The server issues a token; it is stored, then api.me() is sent with it.
LoginOk(t, s) ==
  /\ calls[t][s].kind = "login"
  /\ \E u \in Users : Issues(u)
  /\ token' = issued + 1
  /\ calls' = [calls EXCEPT ![t][s] =
       [kind |-> "me", page |-> NoPage, token |-> issued + 1, accepted |-> TRUE]]
  /\ UNCHANGED <<view, user, hash, content, signing>>

\* Mutant: the button is enabled on success only.
LoginRefusedSilently(t, s) ==
  /\ calls[t][s].kind = "login"
  /\ IF calls[t][s].token # 0
     THEN token' = 0 /\ view' = [view EXCEPT ![t] = "login"]
     ELSE UNCHANGED <<token, view>>
  /\ calls' = Answered(t, s)
  /\ UNCHANGED <<issued, owner, live, user, hash, content, signing>>

\* Bad credentials: a token left over from a failed boot is dropped.
LoginRefused(t, s) ==
  /\ calls[t][s].kind = "login"
  /\ IF calls[t][s].token # 0
     THEN token' = 0 /\ view' = [view EXCEPT ![t] = "login"]
     ELSE UNCHANGED <<token, view>>
  /\ signing' = [signing EXCEPT ![t] = FALSE]
  /\ calls' = Answered(t, s)
  /\ UNCHANGED <<issued, owner, live, user, hash, content>>

MeOk(t, s) ==
  /\ calls[t][s].kind = "me"
  /\ ShowApp(t, s)
  /\ signing' = [signing EXCEPT ![t] = FALSE]
  /\ UNCHANGED session

MeRefused(t, s) ==
  /\ calls[t][s].kind = "me"
  /\ Refused(t, s)
  /\ signing' = [signing EXCEPT ![t] = FALSE]
  /\ calls' = Answered(t, s)
  /\ UNCHANGED <<issued, owner, live, user, hash, content>>

\* Any other failure of login or me is shown in the form; the token stays.
SignInFails(t, s) ==
  /\ calls[t][s].kind \in {"login", "me"}
  /\ signing' = [signing EXCEPT ![t] = FALSE]
  /\ calls' = Answered(t, s)
  /\ UNCHANGED <<session, view, user, hash, content>>

Logout(t) ==
  /\ view[t] = "app"
  /\ token' = 0
  /\ user' = [user EXCEPT ![t] = NoUser]
  /\ hash' = [hash EXCEPT ![t] = NoPage]
  /\ view' = [view EXCEPT ![t] = "login"]
  /\ UNCHANGED <<issued, owner, live, content, signing, calls>>

\* A token reaches its exp, or its account is deleted.
Expire(k) ==
  /\ k \in live
  /\ live' = live \ {k}
  /\ UNCHANGED <<token, issued, owner, tabs>>

-----------------------------------------------------------------------------
Answer(t, s) ==
  \/ LoadOk(t, s) \/ LoadRefused(t, s) \/ LoadFails(t, s)
  \/ RefreshOk(t, s) \/ RefreshRefused(t, s) \/ RefreshFails(t, s)
  \/ BootOk(t, s) \/ BootFails(t, s)
  \/ LoginOk(t, s) \/ LoginRefused(t, s) \/ MeOk(t, s) \/ MeRefused(t, s)
  \/ SignInFails(t, s)

UserStep(t) ==
  \/ Boot(t) \/ Submit(t) \/ Logout(t) \/ Regenerate(t)
  \/ \E page \in Pages : Navigate(t, page)

Next ==
  \/ \E t \in Tabs : UserStep(t) \/ \E s \in InFlight(t) : Answer(t, s)
  \/ \E k \in Tokens : Expire(k)

Spec == Init /\ [][Next]_vars

\* fetch settles: every call is answered or fails.  The user owes nothing.
FairSpec ==
  Spec /\ \A t \in Tabs, s \in Slots : WF_vars(s \in InFlight(t) /\ Answer(t, s))

-----------------------------------------------------------------------------
(* Safety *)

(***************************************************************************)
(* In a lone tab, the name in the header is that of the user every further *)
(* call acts for, whatever late 401, reload or second login came between   *)
(* (showApp, api.request, logout).                                         *)
(***************************************************************************)
ShellMatchesToken ==
  \A t \in Tabs : view[t] = "app" =>
    /\ user[t] # NoUser
    /\ token # 0 => owner[token] = user[t]

(***************************************************************************)
(* route() and the Regenerate handler write to #content without asking     *)
(* what is there now.  As long as no answer is late, that is, arrives for  *)
(* a page its tab has left, the screen is the one the address names; and   *)
(* in a lone tab it shows the data of the user in the header, whatever     *)
(* logins came before.                                                     *)
(***************************************************************************)
NoLateAnswer ==
  \A t \in Tabs : \A s \in InFlight(t) :
    calls[t][s].kind \in {"load", "refresh"} =>
      view[t] = "app" /\ calls[t][s].page = hash[t]

ShowsPage(t) == view[t] = "app" /\ content[t].shows = "page"

ScreenMatchesAddress == \A t \in Tabs : ShowsPage(t) => content[t].page = hash[t]

ScreenMatchesUser == \A t \in Tabs : ShowsPage(t) => content[t].for = user[t]

PunctualScreensMatch == []NoLateAnswer => [](ScreenMatchesAddress /\ ScreenMatchesUser)

(***************************************************************************)
(* As long as no answer is late, a tab has at most one regeneration, that  *)
(* is one paid model call, in flight: the disabled button sees to it.      *)
(***************************************************************************)
OneRegeneration ==
  \A t \in Tabs : \A r, s \in InFlight(t) :
    (calls[t][r].kind = "refresh" /\ calls[t][s].kind = "refresh") => r = s

PunctualRegenerations == []NoLateAnswer => []OneRegeneration

(***************************************************************************)
(* With late answers too: a Regenerate button that is disabled waits for   *)
(* a call of its own, for its own client, although the screen it is on may *)
(* be replaced by the answer to another button's call, and that other      *)
(* button be gone when its call fails.                                     *)
(***************************************************************************)
ButtonWaitsForItsCall ==
  \A t \in Tabs : (content[t].shows = "page" /\ content[t].busy # NoCall) =>
    LET call == calls[t][content[t].busy]
    IN  call.kind = "refresh" /\ call.page = content[t].page

(***************************************************************************)
(* app.js, route(): a 401 has "already bounced to login", so the spinner   *)
(* may be left where it is.  A screen's 401 leaves its tab at the login.   *)
(***************************************************************************)
BouncedToLogin ==
  [][\A t \in Tabs : \A s \in InFlight(t) :
       LoadRefused(t, s) => view'[t] = "login"]_vars

-----------------------------------------------------------------------------
(* Liveness *)

(***************************************************************************)
(* No tab stays blank after loading, and the Sign in button always comes   *)
(* back, however login and api.me() end.                                   *)
(***************************************************************************)
SignInEnds ==
  \A t \in Tabs : /\ view[t] = "blank" ~> view[t] # "blank"
                  /\ signing[t] ~> ~signing[t]

(***************************************************************************)
(* A Regenerate button never stays disabled: its call ends, or its screen  *)
(* is replaced, however the user moves about meanwhile.                    *)
(***************************************************************************)
ButtonComesBack ==
  \A t \in Tabs : \A s \in Slots :
    (content[t].shows = "page" /\ content[t].busy = s) ~>
      ~(content[t].shows = "page" /\ content[t].busy = s)

=============================================================================
