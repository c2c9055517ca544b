------------------------------- MODULE SignIn -------------------------------
(***************************************************************************)
(* Signing in and out in one browser, and joining a group on the way.      *)
(*                                                                         *)
(* The tabs of a browser share localStorage and with it the access token;  *)
(* each has its own page, its own requests and its own sessionStorage      *)
(* with the invite that waits for a sign-in.  Opening a link, or leaving   *)
(* for Google, loads a new page: the requests of the old one may still     *)
(* reach the server, but nobody handles their answers.  The router only    *)
(* changes what is shown.                                                  *)
(*                                                                         *)
(* A token is named by the link or code it is issued for.  Which addresses *)
(* have an account is not modelled, nor are the two statements in which    *)
(* the server spends a magic link.  Who signs in makes no difference here; *)
(* how the server decides on a join is the subject of Invites.             *)
(***************************************************************************)
EXTENDS Naturals, FiniteSets

CONSTANTS
  Tab,
  Token,
  NoTab,        \* the tab of a request whose page is gone
  NoToken,
  MaxRequests,  \* bound: requests on their way at once
  Retries       \* how often react-query sends a failed query again

ASSUME SignInAssumption ==
  /\ NoTab \notin Tab
  /\ NoToken \notin Token
  /\ {MaxRequests, Retries} \subseteq Nat

VARIABLES
  store,      \* access_token in localStorage
  token,      \* what the server knows of each link and its token
  page,       \* what each tab shows
  stash,      \* pending_invite_token in each tab's sessionStorage
  request,    \* requests on their way and answers not yet handled
  signedOut   \* history: tokens a logout removed and its POST did or may revoke

vars == <<store, token, page, stash, request, signedOut>>

Kind == {"login", "signup", "oauth"}
Landing == {"verify", "signup", "callback"}
TokenState == [kind : Kind,
               state : {"none", "issued", "live", "revoked", "expired"},
               by : Tab \cup {NoTab}]
NotIssued == [kind |-> "login", state |-> "none", by |-> NoTab]

\* seen: isLoggedIn() of the last render; by: how this page signed in
Page == [at : {"welcome", "provider", "invite", "app"} \cup Landing,
         cred : Token \cup {NoToken}, tried : BOOLEAN, failed : BOOLEAN,
         seen : BOOLEAN, by : Kind \cup {"none"}]
Blank(at) == [at |-> at, cred |-> NoToken, tried |-> FALSE, failed |-> FALSE,
              seen |-> FALSE, by |-> "none"]

Request == [kind : {"redeem", "work", "logout", "accept"},
            tab : Tab \cup {NoTab}, token : Token \cup {NoToken},
            cred : Token \cup {NoToken}, left : 0..Retries,
            state : {"sent", "ok", "unauthorized", "denied"}]

TypeOK ==
  /\ store \in Token \cup {NoToken}
  /\ token \in [Token -> TokenState]
  /\ page \in [Tab -> Page]
  /\ stash \in [Tab -> BOOLEAN]
  /\ request \subseteq Request
  /\ Cardinality(request) <= MaxRequests
  /\ signedOut \subseteq Token

Init ==
  /\ store = NoToken
  /\ token = [c \in Token |-> NotIssued]
  /\ page = [t \in Tab |-> Blank("welcome")]
  /\ stash = [t \in Tab |-> FALSE]
  /\ request = {}
  /\ signedOut = {}

-----------------------------------------------------------------------------
(* Pages and requests.                                                     *)

LoggedIn == store # NoToken

\* the beforeLoad guards: "/" sends a guest to /login, the pages for guests
\* send a user to "/"
Home == IF LoggedIn THEN "app" ELSE "welcome"

Shows(t, p) == page' = [page EXCEPT ![t] = p]

\* a page load: the requests of tab t lose their page
Dropped(t) ==
  {r \in request : r.tab # t \/ r.kind \in {"redeem", "logout"}}
OrphanedBy(t) ==
  {IF r.tab = t THEN [r EXCEPT !.tab = NoTab] ELSE r : r \in Dropped(t)}
\* Slip: the router shows the next page, nothing is loaded
Navigate(t, p) == Shows(t, p) /\ UNCHANGED request
Load(t, p) == Shows(t, p) /\ request' = OrphanedBy(t)

\* request.ts: the token is read before the caller goes on
\* Slip: it is read in a later callback
TokenLater == NoToken
TokenNow == store
Sent(kind, t, c, n) ==
  [kind |-> kind, tab |-> t, token |-> TokenNow, cred |-> c, left |-> n,
   state |-> "sent"]

Room == Cardinality(request) < MaxRequests
Post(r) == Room /\ request' = request \cup {r}
Becomes(r, s) == request' = (request \ {r}) \cup {s}
Ends(r) == request' = request \ {r}

KeepToken == UNCHANGED token
KeepHistory == UNCHANGED signedOut

-----------------------------------------------------------------------------
(* Moving about.                                                           *)

\* typing the address, a reload, a bookmark
Visit(t) ==
  /\ Load(t, Blank(Home))
  /\ KeepToken /\ KeepHistory /\ UNCHANGED <<store, stash>>

OpenInvite(t) ==
  /\ Load(t, [Blank("invite") EXCEPT !.seen = LoggedIn])
  /\ KeepToken /\ KeepHistory /\ UNCHANGED <<store, stash>>

\* the invite page renders again
Render(t) ==
  /\ page[t].at = "invite"
  /\ Shows(t, [page[t] EXCEPT !.seen = LoggedIn])
  /\ KeepToken /\ KeepHistory /\ UNCHANGED <<store, stash, request>>

StashToken(t) ==
  stash' = [stash EXCEPT ![t] = TRUE]

Inviting(t) == page[t].at = "invite" /\ ~page[t].failed

\* "Use email instead"
UseEmail(t) ==
  /\ Inviting(t) /\ ~page[t].seen
  /\ StashToken(t)
  /\ Shows(t, Blank(Home))
  /\ KeepToken /\ KeepHistory /\ UNCHANGED <<store, request>>

\* "Continue with Google", which stashes the invite only on its page
Continue(t) ==
  /\ \/ /\ Inviting(t) /\ ~page[t].seen
        /\ StashToken(t)
     \/ /\ page[t].at = "welcome"
        /\ UNCHANGED stash
  /\ Load(t, Blank("provider"))
  /\ KeepToken /\ KeepHistory /\ UNCHANGED store

-----------------------------------------------------------------------------
(* Links and codes.                                                        *)

Fresh(c) == token[c].state = "none"
Issue(c, kind) ==
  /\ Fresh(c)
  /\ token' = [token EXCEPT ![c] = [@ EXCEPT !.kind = kind, !.state = "issued"]]

\* /login and /register have the server mail a link
MailLink(t, c) ==
  /\ page[t].at = "welcome"
  /\ \E kind \in {"login", "signup"} : Issue(c, kind)
  /\ KeepHistory
  /\ UNCHANGED <<store, page, stash, request>>

\* the link is opened in any tab; a user who has a session goes home
OpenLink(t, c) ==
  /\ token[c].state = "issued" /\ token[c].kind # "oauth"
  /\ Load(t, IF LoggedIn THEN Blank("app")
             ELSE [Blank(IF token[c].kind = "login" THEN "verify" ELSE "signup")
                     EXCEPT !.cred = c])
  /\ KeepToken /\ KeepHistory /\ UNCHANGED <<store, stash>>

\* Google sends the tab back with a code, or with an error
ProviderReturns(t, c) ==
  /\ page[t].at = "provider"
  /\ \/ Issue(c, "oauth") /\ Load(t, [Blank("callback") EXCEPT !.cred = c])
     \/ UNCHANGED token /\ Load(t, [Blank("callback") EXCEPT !.failed = TRUE])
  /\ KeepHistory /\ UNCHANGED <<store, stash>>

\* The effect of a landing page runs after every render (its dependency is
\* a new object each time); a ref lets it post once.
Untried(t) == ~page[t].tried
Redeem(t) ==
  /\ page[t].at \in Landing /\ ~page[t].failed
  /\ Untried(t)
  /\ Shows(t, [page[t] EXCEPT !.tried = TRUE])
  /\ Post(Sent("redeem", t, page[t].cred, 0))
  /\ KeepToken /\ KeepHistory /\ UNCHANGED <<store, stash>>

\* a link or code is good once, and not for long
ServeRedeem(r) ==
  /\ r.kind = "redeem" /\ r.state = "sent"
  /\ \/ /\ token[r.cred].state = "issued"
        /\ token' = [token EXCEPT ![r.cred].state = "live"]
        /\ Becomes(r, [r EXCEPT !.state = "ok"])
     \/ /\ Becomes(r, [r EXCEPT !.state = "denied"])
        /\ UNCHANGED token
  /\ KeepHistory /\ UNCHANGED <<store, page, stash>>

\* a page that is gone handles nothing
Here(r) == r.tab \in Tab

\* processPendingInvite
\* Slip: the token is read and not removed
StashKept(t) == stash
StashTaken(t) == [stash EXCEPT ![t] = FALSE]
TakeStash(t) == stash' = StashTaken(t)

Stored(r) ==
  /\ r.kind = "redeem" /\ r.state = "ok" /\ Here(r)
  /\ store' = r.cred
  /\ token' = [token EXCEPT ![r.cred].by = r.tab]
  /\ KeepHistory

\* login_.verify: the dashboard, or back to the invite
LoginVerified(r) ==
  /\ Stored(r) /\ page[r.tab].at = "verify"
  /\ TakeStash(r.tab)
  /\ Shows(r.tab, [Blank(IF stash[r.tab] THEN "invite" ELSE "app")
                     EXCEPT !.by = "login", !.seen = stash[r.tab]])
  /\ Ends(r)

\* verify: a new account always lands on the dashboard
SignupVerified(r) ==
  /\ Stored(r) /\ page[r.tab].at = "signup"
  /\ Shows(r.tab, [Blank("app") EXCEPT !.by = "signup"])
  /\ Ends(r)
  /\ UNCHANGED stash

\* auth.callback: the dashboard, or first the join, with the new token
CodeExchanged(r) ==
  /\ Stored(r) /\ page[r.tab].at = "callback"
  /\ TakeStash(r.tab)
  /\ \/ /\ stash[r.tab]
        /\ Becomes(r, [Sent("accept", r.tab, NoToken, 0)
                         EXCEPT !.token = r.cred])
        /\ Shows(r.tab, [page[r.tab] EXCEPT !.by = "oauth"])
     \/ /\ ~stash[r.tab]
        /\ Ends(r)
        /\ Shows(r.tab, [Blank("app") EXCEPT !.by = "oauth"])

\* the error page of all three, also when the answer never came
SignInFails(r) ==
  /\ r.kind = "redeem" /\ Here(r)
  /\ Shows(r.tab, [page[r.tab] EXCEPT !.failed = TRUE])
  /\ Ends(r)
  /\ KeepToken /\ KeepHistory /\ UNCHANGED <<store, stash>>

-----------------------------------------------------------------------------
(* Working with a session, and its end.                                    *)

\* queries are repeated, mutations are not
Work(t) ==
  /\ page[t].at = "app"
  /\ \E n \in {0, Retries} : Post(Sent("work", t, NoToken, n))
  /\ KeepToken /\ KeepHistory /\ UNCHANGED <<store, page, stash>>

\* "Join" on the invite page; disabled while the request runs
PressJoin(t) ==
  /\ Inviting(t) /\ page[t].seen
  /\ ~\E r \in request : r.kind = "accept" /\ r.tab = t
  /\ Post(Sent("accept", t, NoToken, 0))
  /\ KeepToken /\ KeepHistory /\ UNCHANGED <<store, page, stash>>

\* get_current_user: no token or a revoked one is a 401, one that does not
\* decode, as an expired one, is a 403
Refusal(c) == IF c = NoToken THEN "unauthorized"
              ELSE IF token[c].state = "revoked" THEN "unauthorized"
              ELSE "denied"
Accepted(c) == c # NoToken /\ token[c].state = "live"

\* data is shown, and nothing else comes of it
Serve(r) ==
  /\ r.kind = "work" /\ r.state = "sent"
  /\ \/ Accepted(r.token) /\ Ends(r)
     \/ ~Accepted(r.token) /\ Becomes(r, [r EXCEPT !.state = Refusal(r.token)])
  /\ KeepToken /\ KeepHistory /\ UNCHANGED <<store, page, stash>>

\* the accept endpoint: authentication, then what Invites decides
ServeAccept(r) ==
  /\ r.kind = "accept" /\ r.state = "sent"
  /\ \/ /\ ~Accepted(r.token)
        /\ Becomes(r, [r EXCEPT !.state = Refusal(r.token)])
     \/ /\ Accepted(r.token)
        /\ \E answer \in {"ok", "denied"} : Becomes(r, [r EXCEPT !.state = answer])
  /\ KeepToken /\ KeepHistory /\ UNCHANGED <<store, page, stash>>

\* Joined from the invite page: the stash goes too
JoinSucceeds(r) ==
  /\ r.kind = "accept" /\ r.state = "ok" /\ Here(r)
  /\ stash' = IF page[r.tab].at = "callback" THEN stash
              ELSE [stash EXCEPT ![r.tab] = FALSE]
  /\ Shows(r.tab, [Blank(Home) EXCEPT !.by = page[r.tab].by])
  /\ Ends(r)
  /\ KeepToken /\ KeepHistory /\ UNCHANGED store

\* a join that fails, or whose answer is lost: an error on the invite page,
\* the dashboard after OAuth
JoinFails(r) ==
  /\ r.kind = "accept" /\ Here(r)
  /\ \/ r.state # "unauthorized"
     \/ r.state = "unauthorized" /\ page[r.tab].at = "callback"
  /\ Shows(r.tab, IF page[r.tab].at = "callback"
                  THEN [Blank(Home) EXCEPT !.by = page[r.tab].by]
                  ELSE [page[r.tab] EXCEPT !.failed = TRUE])
  /\ Ends(r)
  /\ KeepToken /\ KeepHistory /\ UNCHANGED <<store, stash>>

\* Slip: the failures are not counted
AlwaysAgain(r) == TRUE
Again(r) == r.left > 0

\* a query goes out again, with the token of now
Retry(r) ==
  /\ r.kind = "work" /\ Here(r)
  /\ r.state \in {"unauthorized", "denied"} /\ Again(r)
  /\ Becomes(r, Sent("work", r.tab, NoToken, r.left - 1))
  /\ KeepToken /\ KeepHistory /\ UNCHANGED <<store, page, stash>>

\* handleUnauthorized: removes whatever token is stored by now
Unauthorized(r) ==
  /\ Here(r) /\ r.state = "unauthorized" /\ ~Again(r)
  /\ r.kind \in {"work", "accept"}
  /\ page[r.tab].at # "callback"
  /\ store' = NoToken
  /\ Shows(r.tab, Blank("welcome"))
  /\ Ends(r)
  /\ KeepToken /\ KeepHistory /\ UNCHANGED stash

\* any other refusal of work is a toast, the session stays
Settle(r) ==
  /\ r.kind = "work" /\ Here(r)
  /\ r.state = "denied" /\ ~Again(r)
  /\ Ends(r)
  /\ KeepToken /\ KeepHistory /\ UNCHANGED <<store, page, stash>>

\* logout: the POST takes the token along before it is removed
Logout(t) ==
  /\ page[t].at = "app"
  /\ Post(Sent("logout", t, NoToken, 0))
  /\ signedOut' = signedOut \cup ({store} \ {NoToken})
  /\ store' = NoToken
  /\ Shows(t, Blank("welcome"))
  /\ KeepToken /\ UNCHANGED stash

ServeLogout(r) ==
  /\ r.kind = "logout"
  /\ token' = IF Accepted(r.token)
              THEN [token EXCEPT ![r.token].state = "revoked"] ELSE token
  /\ Ends(r)
  /\ KeepHistory /\ UNCHANGED <<store, page, stash>>

\* a request that does not arrive and that no page waits for
Lose(r) ==
  /\ \/ r.kind = "logout"
     \/ ~Here(r)
  /\ signedOut' = signedOut \ (IF r.kind = "logout" THEN {r.token} ELSE {})
  /\ Ends(r)
  /\ KeepToken /\ UNCHANGED <<store, page, stash>>

\* LOGIN_TOKEN_EXPIRE_DAYS
Expire(c) ==
  /\ token[c].state = "live"
  /\ token' = [token EXCEPT ![c].state = "expired"]
  /\ KeepHistory /\ UNCHANGED <<store, page, stash, request>>

-----------------------------------------------------------------------------

Next ==
  \/ \E t \in Tab : \/ Visit(t) \/ OpenInvite(t) \/ Render(t) \/ UseEmail(t)
                    \/ Continue(t) \/ Redeem(t) \/ Work(t) \/ PressJoin(t)
                    \/ Logout(t)
  \/ \E t \in Tab, c \in Token : \/ MailLink(t, c) \/ OpenLink(t, c)
                                 \/ ProviderReturns(t, c)
  \/ \E r \in request :
       \/ ServeRedeem(r) \/ LoginVerified(r) \/ SignupVerified(r)
       \/ CodeExchanged(r) \/ SignInFails(r) \/ Serve(r) \/ ServeAccept(r)
       \/ JoinSucceeds(r) \/ JoinFails(r) \/ Retry(r) \/ Unauthorized(r)
       \/ Settle(r) \/ ServeLogout(r) \/ Lose(r)
  \/ \E c \in Token : Expire(c)

Spec == Init /\ [][Next]_vars

-----------------------------------------------------------------------------
(* Properties.                                                             *)

\* A token that a user signed out of is dead at the server, unless the POST
\* that revokes it is still on its way or was lost: the local sign-out never
\* overtakes the reading of the token.
NothingLeftValid ==
  \A c \in signedOut : token[c].state = "live" =>
    \E r \in request : r.kind = "logout" /\ r.token = c

\* A late 401 in a tab never ends a session that this very tab has opened
\* and that still stands, whatever was in flight when it signed in.
OwnLoginSurvives ==
  [][\A r \in request : Unauthorized(r) /\ Accepted(store)
                         => token[store].by # r.tab]_vars

\* A stashed invite serves the first sign-in of its tab that looks for it
\* and no later one: nobody who signs in there afterwards is taken along.
StashServesOneSignIn ==
  \A t \in Tab : page[t].by \in {"login", "oauth"} => ~stash[t]

\* "only 401 (invalid/expired session) ends the session" (main.tsx): a page
\* that sees its token refused because it expired does not keep it.
ExpiredSessionEnds ==
  [][\A r \in request :
       Settle(r) /\ r.state = "denied" /\ token[r.token].state = "expired"
       => store' # r.token]_vars
=============================================================================
