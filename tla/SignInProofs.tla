---------------------------- MODULE SignInProofs ----------------------------
(***************************************************************************)
(* What module SignIn guarantees for any number of tabs, tokens, requests  *)
(* and retries, proved with TLAPS.                                         *)
(***************************************************************************)
EXTENDS SignIn, FiniteSetTheorems, TLAPS

-----------------------------------------------------------------------------
(* Page loads.                                                             *)

LEMMA BlankIsPage ==
  ASSUME NEW at \in {"welcome", "provider", "invite", "app"} \cup Landing
  PROVE  Blank(at) \in Page
BY DEF Blank, Page

LEMMA SentIsRequest ==
  ASSUME store \in Token \cup {NoToken},
         NEW kind \in {"redeem", "work", "logout", "accept"},
         NEW t \in Tab, NEW c \in Token \cup {NoToken}, NEW n \in 0..Retries
  PROVE  Sent(kind, t, c, n) \in Request
BY DEF Sent, TokenNow, Request

\* What a page load leaves of the requests: those of other pages as they
\* were, and the redemptions and sign-outs of the tab without a page.
LEMMA OrphanedFacts ==
  ASSUME NEW t \in Tab, request \subseteq Request
  PROVE  /\ OrphanedBy(t) \subseteq Request
         /\ \A s \in OrphanedBy(t) :
              /\ s.tab # t
              /\ s.tab \in Tab => s \in request
              /\ \E r \in request :
                   /\ s.kind = r.kind /\ s.token = r.token
                   /\ s.cred = r.cred /\ s.state = r.state
         /\ \A r \in request : r.kind = "logout" =>
              \E s \in OrphanedBy(t) : s.kind = "logout" /\ s.token = r.token
<1> DEFINE Moved(r) == IF r.tab = t THEN [r EXCEPT !.tab = NoTab] ELSE r
<1>1. \A r \in request : /\ Moved(r) \in Request
                         /\ Moved(r).tab # t
                         /\ Moved(r).tab \in Tab => Moved(r) = r
                         /\ Moved(r).kind = r.kind /\ Moved(r).token = r.token
                         /\ Moved(r).cred = r.cred /\ Moved(r).state = r.state
  BY SignInAssumption DEF Request
<1>2. OrphanedBy(t) = {Moved(r) : r \in Dropped(t)} /\ Dropped(t) \subseteq request
  BY DEF OrphanedBy, Dropped
<1>3. \A r \in request : r.kind = "logout" => r \in Dropped(t)
  BY DEF Dropped
<1> HIDE DEF Moved
<1>4. QED BY <1>1, <1>2, <1>3

LEMMA OrphanedIsBounded ==
  ASSUME NEW t \in Tab, IsFiniteSet(request)
  PROVE  /\ IsFiniteSet(OrphanedBy(t))
         /\ Cardinality(OrphanedBy(t)) <= Cardinality(request)
<1> DEFINE f == [r \in Dropped(t) |-> IF r.tab = t THEN [r EXCEPT !.tab = NoTab]
                                      ELSE r]
<1>1. Dropped(t) \in SUBSET request
  BY DEF Dropped
<1>2. /\ IsFiniteSet(Dropped(t))
      /\ Cardinality(Dropped(t)) <= Cardinality(request)
  BY <1>1, FS_Subset
<1>3. f \in Surjection(Dropped(t), OrphanedBy(t))
  BY DEF OrphanedBy, Surjection
<1>4. /\ IsFiniteSet(OrphanedBy(t))
      /\ Cardinality(OrphanedBy(t)) <= Cardinality(Dropped(t))
  BY <1>2, <1>3, FS_Surjection
<1>5. /\ Cardinality(OrphanedBy(t)) \in Nat /\ Cardinality(Dropped(t)) \in Nat
      /\ Cardinality(request) \in Nat
  BY <1>2, <1>4, FS_CardinalityType
<1>6. QED BY <1>2, <1>4, <1>5

-----------------------------------------------------------------------------
(* Type correctness.                                                       *)

Types ==
  /\ store \in Token \cup {NoToken}
  /\ token \in [Token -> TokenState]
  /\ page \in [Tab -> Page]
  /\ stash \in [Tab -> BOOLEAN]
  /\ request \subseteq Request
  /\ signedOut \subseteq Token

\* Requests that wait for somebody are few.
Bounded == IsFiniteSet(request) /\ Cardinality(request) <= MaxRequests

\* The page that redeems has a link or code to redeem, and so have the
\* requests it sent.
Redeems ==
  /\ \A t \in Tab : page[t].at \in Landing /\ ~page[t].failed =>
       page[t].cred \in Token
  /\ \A r \in request : r.kind = "redeem" => r.cred \in Token

\* The steps of one tab.
TabStep(t) ==
  \/ Visit(t) \/ OpenInvite(t) \/ Render(t) \/ UseEmail(t)
  \/ Continue(t) \/ Redeem(t) \/ Work(t) \/ PressJoin(t) \/ Logout(t)

TokenStep(t, c) == MailLink(t, c) \/ OpenLink(t, c) \/ ProviderReturns(t, c)

RequestStep(r) ==
  \/ ServeRedeem(r) \/ LoginVerified(r) \/ SignupVerified(r)
  \/ CodeExchanged(r) \/ SignInFails(r) \/ Serve(r) \/ ServeAccept(r)
  \/ JoinSucceeds(r) \/ JoinFails(r) \/ Retry(r) \/ Unauthorized(r)
  \/ Settle(r) \/ ServeLogout(r) \/ Lose(r)

LEMMA NextCases ==
  Next <=> \/ \E t \in Tab : TabStep(t)
           \/ \E t \in Tab, c \in Token : TokenStep(t, c)
           \/ \E r \in request : RequestStep(r)
           \/ \E c \in Token : Expire(c)
BY DEF Next, TabStep, TokenStep, RequestStep

LEMMA TabStepTypes ==
  ASSUME Types, Redeems, NEW t \in Tab, TabStep(t)
  PROVE  Types' /\ Redeems'
<1> USE DEF Types, KeepToken, KeepHistory, Shows
<1>0. page[t] \in Page /\ 0 \in 0..Retries /\ Retries \in 0..Retries
      /\ OrphanedBy(t) \subseteq Request
      /\ \A s \in OrphanedBy(t) : s.kind = "redeem" => s.cred \in Token
  BY OrphanedFacts, SignInAssumption DEF Redeems
<1>1. CASE Visit(t)
  BY <1>0, <1>1, BlankIsPage DEF Visit, Load, Home, Redeems, Blank, Landing
<1>2. CASE OpenInvite(t)
  BY <1>0, <1>2 DEF OpenInvite, Load, LoggedIn, Redeems, Blank, Landing, Page
<1>3. CASE Render(t)
  BY <1>0, <1>3 DEF Render, LoggedIn, Redeems, Landing, Page
<1>4. CASE UseEmail(t)
  BY <1>0, <1>4, BlankIsPage DEF UseEmail, StashToken, Home, Redeems, Blank, Landing
<1>5. CASE Continue(t)
  BY <1>0, <1>5, BlankIsPage DEF Continue, StashToken, Load, Redeems, Blank, Landing
<1>6. CASE Redeem(t)
  <2>1. page[t].cred \in Token
    BY <1>6 DEF Redeem, Redeems
  <2>2. Sent("redeem", t, page[t].cred, 0) \in Request
    BY <1>0, <2>1, SentIsRequest
  <2>3. page' \in [Tab -> Page] /\ request' \subseteq Request
    BY <1>0, <1>6, <2>2 DEF Redeem, Post, Page
  <2>4. Redeems'
    BY <1>0, <1>6, <2>1 DEF Redeem, Post, Sent, Redeems, Page
  <2>5. QED BY <1>6, <2>3, <2>4 DEF Redeem
<1>7. CASE Work(t)
  <2>1. \A n \in {0, Retries} : Sent("work", t, NoToken, n) \in Request
    BY <1>0, SentIsRequest
  <2>2. QED BY <1>7, <2>1 DEF Work, Post, Redeems, Sent
<1>8. CASE PressJoin(t)
  <2>1. Sent("accept", t, NoToken, 0) \in Request
    BY <1>0, SentIsRequest
  <2>2. QED BY <1>8, <2>1 DEF PressJoin, Post, Redeems, Sent
<1>9. CASE Logout(t)
  <2>1. Sent("logout", t, NoToken, 0) \in Request
    BY <1>0, SentIsRequest
  <2>2. QED BY <1>9, <2>1, BlankIsPage
            DEF Logout, Post, Redeems, Sent, Blank, Landing
<1>10. QED BY <1>1, <1>2, <1>3, <1>4, <1>5, <1>6, <1>7, <1>8, <1>9 DEF TabStep

LEMMA TokenStepTypes ==
  ASSUME Types, Redeems, NEW t \in Tab, NEW c \in Token, TokenStep(t, c)
  PROVE  Types' /\ Redeems'
<1> USE DEF Types, KeepToken, KeepHistory, Shows
<1>0. /\ OrphanedBy(t) \subseteq Request
      /\ \A s \in OrphanedBy(t) : s.kind = "redeem" => s.cred \in Token
  BY OrphanedFacts DEF Redeems
<1>1. \A kind \in Kind : Issue(c, kind) => token' \in [Token -> TokenState]
  BY DEF Issue, TokenState
<1>2. CASE MailLink(t, c)
  BY <1>1, <1>2 DEF MailLink, Kind, Redeems
<1>3. CASE OpenLink(t, c)
  BY <1>0, <1>3 DEF OpenLink, Load, Redeems, Blank, Landing, Page
<1>4. CASE ProviderReturns(t, c)
  <2>1. token' \in [Token -> TokenState]
    BY <1>1, <1>4 DEF ProviderReturns, Kind
  <2>2. PICK p \in Page : /\ page' = [page EXCEPT ![t] = p]
                          /\ p.cred = c \/ p.failed
                          /\ request' = OrphanedBy(t)
    BY <1>4 DEF ProviderReturns, Load, Blank, Landing, Page
  <2>3. QED BY <1>0, <1>4, <2>1, <2>2 DEF ProviderReturns, Redeems
<1>5. QED BY <1>2, <1>3, <1>4 DEF TokenStep

LEMMA RequestStepTypes ==
  ASSUME Types, Redeems, NEW r \in request, RequestStep(r)
  PROVE  Types' /\ Redeems'
<1> USE DEF Types, KeepToken, KeepHistory, Shows, Becomes, Ends
<1>0. /\ r \in Request
      /\ r.kind = "redeem" => r.cred \in Token
      /\ r.tab \in Tab => page[r.tab] \in Page
  BY DEF Redeems, Request
<1>1. CASE ServeRedeem(r)
  BY <1>0, <1>1 DEF ServeRedeem, Redeems, Request, TokenState
<1>2. ASSUME Stored(r)
      PROVE  /\ r.tab \in Tab /\ r.cred \in Token
             /\ store' \in Token /\ token' \in [Token -> TokenState]
             /\ signedOut' \subseteq Token
  BY <1>0, <1>2 DEF Stored, Here, TokenState
<1>3. CASE LoginVerified(r)
  <2> DEFINE p == [Blank(IF stash[r.tab] THEN "invite" ELSE "app")
                     EXCEPT !.by = "login", !.seen = stash[r.tab]]
  <2>1. p \in Page /\ p.at \notin Landing
    BY <1>2, <1>3 DEF LoginVerified, Blank, Page, Landing, Kind
  <2>2. page' = [page EXCEPT ![r.tab] = p]
    BY <1>3 DEF LoginVerified
  <2> HIDE DEF p
  <2>3. request' \subseteq request /\ stash' \in [Tab -> BOOLEAN]
    BY <1>2, <1>3 DEF LoginVerified, TakeStash, StashTaken
  <2>4. QED BY <1>2, <1>3, <2>1, <2>2, <2>3 DEF LoginVerified, Redeems
<1>4. CASE SignupVerified(r)
  <2> DEFINE p == [Blank("app") EXCEPT !.by = "signup"]
  <2>1. p \in Page /\ p.at \notin Landing
    BY DEF Blank, Page, Landing, Kind
  <2>2. page' = [page EXCEPT ![r.tab] = p]
    BY <1>4 DEF SignupVerified
  <2> HIDE DEF p
  <2>3. QED BY <1>2, <1>4, <2>1, <2>2 DEF SignupVerified, Redeems
<1>5. CASE CodeExchanged(r)
  <2> DEFINE p == IF stash[r.tab] THEN [page[r.tab] EXCEPT !.by = "oauth"]
                  ELSE [Blank("app") EXCEPT !.by = "oauth"]
  <2>0. page' = [page EXCEPT ![r.tab] = p]
    BY <1>5 DEF CodeExchanged
  <2>1. /\ p \in Page
        /\ \/ p.at \notin Landing
           \/ p.cred = page[r.tab].cred /\ p.failed = page[r.tab].failed
              /\ p.at = page[r.tab].at
    BY <1>0, <1>2, <1>5 DEF CodeExchanged, Blank, Page, Landing, Kind
  <2> HIDE DEF p
  <2>2. PICK s \in Request : request' \subseteq request \cup {s} /\ s.kind = "accept"
    <3>1. 0 \in 0..Retries
      BY SignInAssumption
    <3>2. DEFINE s == [Sent("accept", r.tab, NoToken, 0) EXCEPT !.token = r.cred]
    <3>3. Sent("accept", r.tab, NoToken, 0) \in Request
      BY <1>2, <1>5, <3>1, SentIsRequest DEF CodeExchanged
    <3>4. s \in Request /\ s.kind = "accept"
      BY <1>2, <1>5, <3>3 DEF CodeExchanged, Request, Sent
    <3>5. request' \subseteq request \cup {s}
      BY <1>5 DEF CodeExchanged
    <3>6. QED BY <3>4, <3>5
  <2>3. stash' \in [Tab -> BOOLEAN]
    BY <1>2, <1>5 DEF CodeExchanged, TakeStash, StashTaken
  <2>4. QED BY <1>2, <1>5, <2>0, <2>1, <2>2, <2>3 DEF CodeExchanged, Redeems
<1>6. CASE SignInFails(r)
  BY <1>0, <1>6 DEF SignInFails, Here, Redeems, Page
<1>7. CASE Serve(r)
  BY <1>0, <1>7 DEF Serve, Refusal, Redeems, Request
<1>8. CASE ServeAccept(r)
  BY <1>0, <1>8 DEF ServeAccept, Refusal, Redeems, Request
<1>9. CASE JoinSucceeds(r)
  <2> DEFINE p == [Blank(Home) EXCEPT !.by = page[r.tab].by]
  <2>1. p \in Page /\ p.at \notin Landing
    BY <1>0, <1>9 DEF JoinSucceeds, Here, Home, Blank, Page, Landing, Kind
  <2>2. page' = [page EXCEPT ![r.tab] = p]
    BY <1>9 DEF JoinSucceeds
  <2> HIDE DEF p
  <2>3. QED BY <1>9, <2>1, <2>2 DEF JoinSucceeds, Here, Redeems
<1>10. CASE JoinFails(r)
  <2> DEFINE p == IF page[r.tab].at = "callback"
                  THEN [Blank(Home) EXCEPT !.by = page[r.tab].by]
                  ELSE [page[r.tab] EXCEPT !.failed = TRUE]
  <2>1. p \in Page /\ (p.at \notin Landing \/ p.failed)
    BY <1>0, <1>10 DEF JoinFails, Here, Home, Blank, Page, Landing, Kind
  <2>2. page' = [page EXCEPT ![r.tab] = p]
    BY <1>10 DEF JoinFails
  <2> HIDE DEF p
  <2>3. QED BY <1>10, <2>1, <2>2 DEF JoinFails, Here, Redeems
<1>11. CASE Retry(r)
  <2>1. r.left - 1 \in 0..Retries
    BY <1>0, <1>11, SignInAssumption DEF Retry, Again, Request
  <2>2. Sent("work", r.tab, NoToken, r.left - 1) \in Request
    BY <1>11, <2>1, SentIsRequest DEF Retry, Here
  <2>3. QED BY <1>11, <2>2 DEF Retry, Redeems, Sent
<1>12. CASE Unauthorized(r)
  BY <1>12, BlankIsPage DEF Unauthorized, Here, Redeems, Blank, Landing
<1>13. CASE Settle(r)
  BY <1>13 DEF Settle, Redeems
<1>14. CASE ServeLogout(r)
  BY <1>0, <1>14 DEF ServeLogout, Accepted, Redeems, TokenState, Request
<1>15. CASE Lose(r)
  BY <1>15 DEF Lose, Redeems
<1>16. QED BY <1>1, <1>3, <1>4, <1>5, <1>6, <1>7, <1>8, <1>9, <1>10, <1>11,
              <1>12, <1>13, <1>14, <1>15 DEF RequestStep

LEMMA TypesInductive ==
  ASSUME Types, Redeems, [Next]_vars
  PROVE  Types' /\ Redeems'
<1>1. CASE \E t \in Tab : TabStep(t)
  BY <1>1, TabStepTypes
<1>2. CASE \E t \in Tab, c \in Token : TokenStep(t, c)
  BY <1>2, TokenStepTypes
<1>3. CASE \E r \in request : RequestStep(r)
  BY <1>3, RequestStepTypes
<1>4. CASE \E c \in Token : Expire(c)
  BY <1>4 DEF Expire, Types, Redeems, KeepHistory, TokenState
<1>5. CASE UNCHANGED vars
  BY <1>5 DEF vars, Types, Redeems
<1>6. QED BY <1>1, <1>2, <1>3, <1>4, <1>5, NextCases

\* Only Post makes requests more, and it looks for room first.
LEMMA BoundInductive ==
  ASSUME Types, Bounded, [Next]_vars
  PROVE  Bounded'
<1> USE SignInAssumption DEF Bounded, Types
<1>0. Cardinality(request) \in Nat
  BY FS_CardinalityType
<1>1. ASSUME NEW t \in Tab, request' = OrphanedBy(t) PROVE Bounded'
  <2>1. Cardinality(OrphanedBy(t)) \in Nat
    BY OrphanedIsBounded, FS_CardinalityType
  <2>2. QED BY <1>0, <1>1, <2>1, OrphanedIsBounded
<1>2. ASSUME NEW r, Post(r) PROVE Bounded'
  <2>1. /\ IsFiniteSet(request \cup {r})
        /\ Cardinality(request \cup {r}) <= Cardinality(request) + 1
    BY <1>0, FS_AddElement
  <2>2. Cardinality(request) + 1 <= MaxRequests
    BY <1>0, <1>2 DEF Post, Room
  <2>3. Cardinality(request \cup {r}) \in Nat
    BY <2>1, FS_CardinalityType
  <2>4. QED BY <1>0, <1>2, <2>1, <2>2, <2>3 DEF Post
<1>3. ASSUME NEW r \in request, NEW s, Becomes(r, s) PROVE Bounded'
  <2>1. /\ IsFiniteSet(request \ {r})
        /\ Cardinality(request \ {r}) = Cardinality(request) - 1
    BY FS_RemoveElement
  <2>2. /\ IsFiniteSet((request \ {r}) \cup {s})
        /\ Cardinality((request \ {r}) \cup {s}) <= Cardinality(request)
    <3>1. /\ IsFiniteSet((request \ {r}) \cup {s})
          /\ Cardinality((request \ {r}) \cup {s})
               \in {Cardinality(request \ {r}), Cardinality(request \ {r}) + 1}
      BY <2>1, FS_AddElement
    <3>2. QED BY <1>0, <2>1, <3>1
  <2>3. Cardinality((request \ {r}) \cup {s}) \in Nat
    BY <2>2, FS_CardinalityType
  <2>4. QED BY <1>0, <1>3, <2>2, <2>3 DEF Becomes
<1>4. ASSUME NEW r \in request, Ends(r) PROVE Bounded'
  <2>1. /\ IsFiniteSet(request \ {r})
        /\ Cardinality(request \ {r}) = Cardinality(request) - 1
    BY FS_RemoveElement
  <2>2. QED BY <1>0, <1>4, <2>1 DEF Ends
<1>5. ASSUME request' = request PROVE Bounded'
  BY <1>5
<1>6. CASE \E t \in Tab : TabStep(t)
  <2>1. PICK t \in Tab : TabStep(t)
    BY <1>6
  <2>2. QED BY <2>1, <1>1, <1>2, <1>5
            DEF TabStep, Visit, OpenInvite, Render, UseEmail, Continue, Redeem,
                Work, PressJoin, Logout, Load
<1>7. CASE \E t \in Tab, c \in Token : TokenStep(t, c)
  BY <1>7, <1>1, <1>5 DEF TokenStep, MailLink, OpenLink, ProviderReturns, Load
<1>8. CASE \E r \in request : RequestStep(r)
  <2>1. PICK r \in request : RequestStep(r)
    BY <1>8
  <2>2. QED BY <2>1, <1>3, <1>4
            DEF RequestStep, ServeRedeem, LoginVerified, SignupVerified,
                CodeExchanged, SignInFails, Serve, ServeAccept, JoinSucceeds,
                JoinFails, Retry, Unauthorized, Settle, ServeLogout, Lose
<1>9. CASE (\E c \in Token : Expire(c)) \/ UNCHANGED vars
  BY <1>9, <1>5 DEF Expire, vars
<1>10. QED BY <1>6, <1>7, <1>8, <1>9, NextCases

-----------------------------------------------------------------------------
(* The stash.                                                              *)

\* A step sets the stash of a tab only while it shows a page that did not
\* sign in, and a page that signed in with its stash read has emptied it.
LEMMA StashInductive ==
  ASSUME Types, StashServesOneSignIn, [Next]_vars
  PROVE  StashServesOneSignIn'
<1> USE DEF Types, StashServesOneSignIn, Shows
<1>1. CASE \E t \in Tab : TabStep(t)
  <2>1. PICK t \in Tab : TabStep(t)
    BY <1>1
  <2>2. page[t] \in Page
    OBVIOUS
  <2>3. CASE Redeem(t)
    BY <2>2, <2>3 DEF Redeem, Page
  <2>4. CASE Render(t)
    BY <2>2, <2>4 DEF Render, Page
  <2>5. CASE Work(t) \/ PressJoin(t)
    BY <2>5 DEF Work, PressJoin
  <2>6. CASE Visit(t) \/ OpenInvite(t) \/ UseEmail(t) \/ Continue(t) \/ Logout(t)
    BY <2>6 DEF Visit, OpenInvite, UseEmail, Continue, Logout, StashToken, Load,
                Blank
  <2>7. QED BY <2>1, <2>3, <2>4, <2>5, <2>6 DEF TabStep
<1>2. CASE \E t \in Tab, c \in Token : TokenStep(t, c)
  BY <1>2 DEF TokenStep, MailLink, OpenLink, ProviderReturns, Load, Blank
<1>3. CASE \E r \in request : RequestStep(r)
  <2>1. PICK r \in request : RequestStep(r)
    BY <1>3
  <2>2. r.tab \in Tab => page[r.tab] \in Page
    OBVIOUS
  <2>3. CASE LoginVerified(r)
    BY <2>3 DEF LoginVerified, Stored, Here, TakeStash, StashTaken, Blank
  <2>4. CASE SignupVerified(r)
    BY <2>4 DEF SignupVerified, Stored, Here, Blank
  <2>5. CASE CodeExchanged(r)
    BY <2>2, <2>5 DEF CodeExchanged, Stored, Here, TakeStash, StashTaken, Blank, Page
  <2>6. CASE SignInFails(r)
    BY <2>2, <2>6 DEF SignInFails, Here, Page
  <2>7. CASE JoinSucceeds(r)
    BY <2>2, <2>7 DEF JoinSucceeds, Here, Blank, Page
  <2>8. CASE JoinFails(r)
    BY <2>2, <2>8 DEF JoinFails, Here, Blank, Page
  <2>9. CASE Unauthorized(r)
    BY <2>9 DEF Unauthorized, Here, Blank
  <2>10. CASE \/ ServeRedeem(r) \/ Serve(r) \/ ServeAccept(r) \/ Retry(r)
              \/ Settle(r) \/ ServeLogout(r) \/ Lose(r)
    BY <2>10 DEF ServeRedeem, Serve, ServeAccept, Retry, Settle, ServeLogout, Lose
  <2>11. QED BY <2>1, <2>3, <2>4, <2>5, <2>6, <2>7, <2>8, <2>9, <2>10
             DEF RequestStep
<1>4. CASE (\E c \in Token : Expire(c)) \/ UNCHANGED vars
  BY <1>4 DEF Expire, vars
<1>5. QED BY <1>1, <1>2, <1>3, <1>4, NextCases

-----------------------------------------------------------------------------
(* Spent links and signed-out tokens.                                      *)

Spent(c) == token[c].state \in {"live", "revoked", "expired"}

\* Whoever has a token, had one or is about to get one spent its link.
LinksAreSpent ==
  /\ store # NoToken => Spent(store)
  /\ \A c \in signedOut : Spent(c)
  /\ \A r \in request : r.kind = "redeem" /\ r.state = "ok" => Spent(r.cred)

\* the life of a token
LEMMA TokensAge ==
  ASSUME Types, Redeems, [Next]_vars, NEW c \in Token
  PROVE  /\ Spent(c) => Spent(c)'
         /\ token[c].state = "revoked" => token'[c].state = "revoked"
         /\ token'[c].state = "live" => token[c].state \in {"live", "issued"}
<1> USE DEF Types, Spent, TokenState
<1>1. CASE \E t \in Tab : TabStep(t)
  BY <1>1 DEF TabStep, Visit, OpenInvite, Render, UseEmail, Continue, Redeem,
              Work, PressJoin, Logout, KeepToken
<1>2. CASE \E t \in Tab, k \in Token : TokenStep(t, k)
  BY <1>2 DEF TokenStep, MailLink, OpenLink, ProviderReturns, Issue, Fresh,
              KeepToken
<1>3. CASE \E r \in request : RequestStep(r)
  <2>1. PICK r \in request : RequestStep(r)
    BY <1>3
  <2>2. CASE ServeRedeem(r)
    BY <2>2 DEF ServeRedeem, Redeems
  <2>3. CASE LoginVerified(r) \/ SignupVerified(r) \/ CodeExchanged(r)
    BY <2>3 DEF LoginVerified, SignupVerified, CodeExchanged, Stored
  <2>4. CASE ServeLogout(r)
    BY <2>4 DEF ServeLogout, Accepted
  <2>5. CASE \/ SignInFails(r) \/ Serve(r) \/ ServeAccept(r) \/ JoinSucceeds(r)
             \/ JoinFails(r) \/ Retry(r) \/ Unauthorized(r) \/ Settle(r)
             \/ Lose(r)
    BY <2>5 DEF SignInFails, Serve, ServeAccept, JoinSucceeds, JoinFails, Retry,
                Unauthorized, Settle, Lose, KeepToken
  <2>6. QED BY <2>1, <2>2, <2>3, <2>4, <2>5 DEF RequestStep
<1>4. CASE \E k \in Token : Expire(k)
  BY <1>4 DEF Expire
<1>5. CASE UNCHANGED vars
  BY <1>5 DEF vars
<1>6. QED BY <1>1, <1>2, <1>3, <1>4, <1>5, NextCases

\* where a step takes the stored token, the signed-out ones and the
\* successful redemptions from
LEMMA TokenSources ==
  ASSUME Types, Redeems, [Next]_vars
  PROVE  /\ \/ store' \in {store, NoToken}
            \/ \E r \in request : /\ r.kind = "redeem" /\ r.state = "ok"
                                  /\ store' = r.cred
         /\ signedOut' \subseteq signedOut \cup ({store} \ {NoToken})
         /\ \A s \in request' : s.kind = "redeem" /\ s.state = "ok" =>
              \/ \E r \in request : r.kind = "redeem" /\ r.state = "ok"
                                    /\ r.cred = s.cred
              \/ token'[s.cred].state = "live"
<1> DEFINE Redeemed(R) == {s \in R : s.kind = "redeem" /\ s.state = "ok"}
           Kept == \A s \in Redeemed(request') : \E r \in Redeemed(request) :
                     r.cred = s.cred
<1> USE DEF KeepHistory
<1>0. ASSUME NEW t \in Tab, request' = OrphanedBy(t) PROVE Kept
  BY <1>0, OrphanedFacts DEF Types
<1>1. CASE \E t \in Tab : TabStep(t)
  <2>1. PICK t \in Tab : TabStep(t)
    BY <1>1
  <2>2. Kept
    BY <2>1, <1>0 DEF TabStep, Visit, OpenInvite, Render, UseEmail, Continue,
                      Redeem, Work, PressJoin, Logout, Load, Post, Sent
  <2>3. /\ store' \in {store, NoToken}
        /\ signedOut' \subseteq signedOut \cup ({store} \ {NoToken})
    BY <2>1 DEF TabStep, Visit, OpenInvite, Render, UseEmail, Continue, Redeem,
                Work, PressJoin, Logout
  <2>4. QED BY <2>2, <2>3
<1>2. CASE \E t \in Tab, c \in Token : TokenStep(t, c)
  <2>1. Kept
    BY <1>2, <1>0 DEF TokenStep, MailLink, OpenLink, ProviderReturns, Load
  <2>2. QED BY <1>2, <2>1 DEF TokenStep, MailLink, OpenLink, ProviderReturns
<1>3. CASE \E r \in request : RequestStep(r)
  <2>1. PICK r \in request : RequestStep(r)
    BY <1>3
  <2>2. CASE ServeRedeem(r)
    <3>1. r \in Request /\ r.cred \in Token
      BY <2>2 DEF ServeRedeem, Types, Redeems
    <3>2. PICK st \in {"ok", "denied"} :
            /\ request' = (request \ {r}) \cup {[r EXCEPT !.state = st]}
            /\ st = "ok" => token'[r.cred].state = "live"
      BY <2>2, <3>1 DEF ServeRedeem, Becomes, Types, TokenState
    <3>3. /\ [r EXCEPT !.state = st].state = st
          /\ [r EXCEPT !.state = st].cred = r.cred
      BY <3>1 DEF Request
    <3>4. QED BY <2>2, <3>2, <3>3 DEF ServeRedeem
  <2>3. CASE LoginVerified(r) \/ SignupVerified(r) \/ CodeExchanged(r)
    BY <2>3 DEF LoginVerified, SignupVerified, CodeExchanged, Stored, Becomes,
                Ends, Sent
  <2>4. CASE \/ Serve(r) \/ ServeAccept(r) \/ Retry(r)
    BY <2>4 DEF Serve, ServeAccept, Retry, Becomes, Ends, Sent, Types, Request
  <2>5. CASE \/ SignInFails(r) \/ JoinSucceeds(r) \/ JoinFails(r)
             \/ Unauthorized(r) \/ Settle(r) \/ ServeLogout(r) \/ Lose(r)
    BY <2>5 DEF SignInFails, JoinSucceeds, JoinFails, Unauthorized, Settle,
                ServeLogout, Lose, Ends
  <2>6. QED BY <2>1, <2>2, <2>3, <2>4, <2>5 DEF RequestStep
<1>4. CASE (\E c \in Token : Expire(c)) \/ UNCHANGED vars
  BY <1>4 DEF Expire, vars
<1>5. QED BY <1>1, <1>2, <1>3, <1>4, NextCases

LEMMA SpentInductive ==
  ASSUME Types, Redeems, LinksAreSpent, [Next]_vars
  PROVE  LinksAreSpent'
<1>1. \A c \in Token : Spent(c) => Spent(c)'
  BY TokensAge
<1>2. \A r \in request : r.kind = "redeem" => r.cred \in Token
  BY DEF Redeems
<1>3. store' # NoToken => Spent(store)'
  BY <1>1, <1>2, TokenSources DEF LinksAreSpent, Types, Spent
<1>4. \A c \in signedOut' : Spent(c)'
  BY <1>1, TokenSources DEF LinksAreSpent, Types, Spent
<1>5. \A s \in request' : s.kind = "redeem" /\ s.state = "ok" => Spent(s.cred)'
  <2> SUFFICES ASSUME NEW s \in request', s.kind = "redeem", s.state = "ok"
               PROVE  Spent(s.cred)'
    OBVIOUS
  <2>1. s.cred \in Token
    BY TypesInductive DEF Redeems
  <2>2. QED BY <1>1, <1>2, <2>1, TokenSources DEF LinksAreSpent, Spent
<1>6. QED BY <1>3, <1>4, <1>5 DEF LinksAreSpent

-----------------------------------------------------------------------------
(* Signing out.                                                            *)

\* what a step does to the sign-outs that are on their way
LEMMA SignOuts ==
  ASSUME Types, [Next]_vars
  PROVE  /\ \A c \in signedOut' :
              \/ c \in signedOut
              \/ \E s \in request' : s.kind = "logout" /\ s.token = c
         /\ \A r \in request : r.kind = "logout" /\ r.token \in Token =>
              \/ \E s \in request' : s.kind = "logout" /\ s.token = r.token
              \/ token'[r.token].state # "live"
              \/ r.token \notin signedOut'
<1> DEFINE Kept == \A r \in request : r.kind = "logout" =>
              \E s \in request' : s.kind = "logout" /\ s.token = r.token
<1> USE DEF KeepHistory
<1>0. ASSUME NEW t \in Tab, request' = OrphanedBy(t) PROVE Kept
  BY <1>0, OrphanedFacts DEF Types
<1>1. CASE \E t \in Tab : TabStep(t)
  <2>1. PICK t \in Tab : TabStep(t)
    BY <1>1
  <2>2. CASE Logout(t)
    <3> DEFINE s == Sent("logout", t, NoToken, 0)
    <3>1. s.kind = "logout" /\ s.token = store
      BY DEF Sent, TokenNow
    <3>2. request' = request \cup {s}
          /\ signedOut' = signedOut \cup ({store} \ {NoToken})
      BY <2>2 DEF Logout, Post
    <3> HIDE DEF s
    <3>3. QED BY <3>1, <3>2
  <2>3. CASE \/ Visit(t) \/ OpenInvite(t) \/ Render(t) \/ UseEmail(t)
             \/ Continue(t) \/ Redeem(t) \/ Work(t) \/ PressJoin(t)
    BY <2>3, <1>0 DEF Visit, OpenInvite, Render, UseEmail, Continue, Redeem,
                      Work, PressJoin, Load, Post
  <2>4. QED BY <2>1, <2>2, <2>3 DEF TabStep
<1>2. CASE \E t \in Tab, c \in Token : TokenStep(t, c)
  BY <1>2, <1>0 DEF TokenStep, MailLink, OpenLink, ProviderReturns, Load
<1>3. CASE \E r \in request : RequestStep(r)
  <2>1. PICK r \in request : RequestStep(r)
    BY <1>3
  <2>2. CASE ServeLogout(r)
    <3>1. r.token \in Token => token'[r.token].state # "live"
      BY <2>2, SignInAssumption DEF ServeLogout, Accepted, Types, TokenState
    <3>2. \A q \in request : q # r => q \in request'
      BY <2>2 DEF ServeLogout, Ends
    <3>3. signedOut' = signedOut
      BY <2>2 DEF ServeLogout
    <3>4. QED BY <3>1, <3>2, <3>3
  <2>3. CASE Lose(r)
    BY <2>3 DEF Lose, Ends
  <2>4. CASE LoginVerified(r) \/ SignupVerified(r) \/ CodeExchanged(r)
    BY <2>4 DEF LoginVerified, SignupVerified, CodeExchanged, Stored, Becomes,
                Ends
  <2>5. CASE \/ ServeRedeem(r) \/ Serve(r) \/ ServeAccept(r) \/ Retry(r)
             \/ SignInFails(r) \/ JoinSucceeds(r) \/ JoinFails(r)
             \/ Unauthorized(r) \/ Settle(r)
    BY <2>5 DEF ServeRedeem, Serve, ServeAccept, Retry, SignInFails,
                JoinSucceeds, JoinFails, Unauthorized, Settle, Becomes, Ends
  <2>6. QED BY <2>1, <2>2, <2>3, <2>4, <2>5 DEF RequestStep
<1>4. CASE (\E c \in Token : Expire(c)) \/ UNCHANGED vars
  BY <1>4 DEF Expire, vars
<1>5. QED BY <1>1, <1>2, <1>3, <1>4, NextCases

LEMMA NothingLeftInductive ==
  ASSUME Types, Redeems, LinksAreSpent, NothingLeftValid, [Next]_vars
  PROVE  NothingLeftValid'
<1> SUFFICES ASSUME NEW c \in signedOut', token'[c].state = "live"
             PROVE  \E s \in request' : s.kind = "logout" /\ s.token = c
  BY DEF NothingLeftValid
<1>1. CASE c \in signedOut
  <2>1. c \in Token /\ Spent(c)
    BY <1>1 DEF Types, LinksAreSpent
  <2>2. token[c].state = "live"
    BY <2>1, TokensAge DEF Spent
  <2>3. PICK r \in request : r.kind = "logout" /\ r.token = c
    BY <1>1, <2>2 DEF NothingLeftValid
  <2>4. QED BY <2>1, <2>3, SignOuts
<1>2. CASE c \notin signedOut
  BY <1>2, SignOuts
<1>3. QED BY <1>1, <1>2

-----------------------------------------------------------------------------
(* Requests that outlive a sign-in of their own tab.                       *)

Asks(r) == r.kind \in {"work", "accept"}

\* A landing page waits for one request of its own at most, and for none
\* before it has tried.
LandsAlone ==
  \A t \in Tab : page[t].at \in Landing =>
    /\ \A r, s \in request : r.tab = t /\ s.tab = t => r = s
    /\ ~page[t].tried => \A r \in request : r.tab # t

\* What a tab still waits for when the stored token is its own was asked
\* with that token.
AsksWithOwnToken ==
  \A r \in request :
    Asks(r) /\ r.tab \in Tab /\ store # NoToken /\ token[store].by = r.tab
      => r.token = store

\* A 401 says that there was no token or that it was revoked.
RefusedForGood ==
  \A r \in request :
    Asks(r) /\ r.state = "unauthorized" /\ r.token # NoToken =>
      r.token \in Token /\ token[r.token].state = "revoked"

LEMMA LandsAloneInductive ==
  ASSUME Types, LandsAlone, [Next]_vars
  PROVE  LandsAlone'
<1> USE DEF Types, LandsAlone, Shows
<1>1. CASE \E t \in Tab : TabStep(t)
  <2>1. PICK t \in Tab : TabStep(t)
    BY <1>1
  <2>2. page[t] \in Page
    OBVIOUS
  <2>3. CASE Redeem(t)
    BY <2>2, <2>3 DEF Redeem, Untried, Post, Sent, Page
  <2>4. CASE Render(t)
    BY <2>2, <2>4 DEF Render, Page, Landing
  <2>5. CASE Work(t) \/ PressJoin(t) \/ Logout(t)
    BY <2>5 DEF Work, PressJoin, Logout, Inviting, Post, Sent, Blank, Landing
  <2>6. CASE Visit(t) \/ OpenInvite(t) \/ Continue(t)
    BY <2>6, OrphanedFacts DEF Visit, OpenInvite, Continue, Load, Home, Blank,
                               Landing
  <2>7. CASE UseEmail(t)
    BY <2>7 DEF UseEmail, Home, Blank, Landing
  <2>8. QED BY <2>1, <2>3, <2>4, <2>5, <2>6, <2>7 DEF TabStep
<1>2. CASE \E t \in Tab, c \in Token : TokenStep(t, c)
  <2>1. PICK t \in Tab, c \in Token : TokenStep(t, c)
    BY <1>2
  <2>2. CASE MailLink(t, c)
    BY <2>2 DEF MailLink
  <2>3. CASE OpenLink(t, c) \/ ProviderReturns(t, c)
    <3>1. request' = OrphanedBy(t) /\ \A u \in Tab \ {t} : page'[u] = page[u]
      BY <2>3 DEF OpenLink, ProviderReturns, Load
    <3>2. /\ \A s \in request' : s.tab # t
          /\ \A s \in request' : s.tab \in Tab => s \in request
      BY <3>1, OrphanedFacts
    <3>3. QED BY <3>1, <3>2
  <2>4. QED BY <2>1, <2>2, <2>3 DEF TokenStep
<1>3. CASE \E r \in request : RequestStep(r)
  <2>1. PICK r \in request : RequestStep(r)
    BY <1>3
  <2>2. r \in Request
    OBVIOUS
  <2>3. ASSUME NEW s, request' = (request \ {r}) \cup {s}, s.tab = r.tab,
               \A u \in Tab : page'[u].at \in Landing =>
                 page[u].at \in Landing /\ page'[u].tried = page[u].tried
        PROVE  LandsAlone'
    BY <2>3
  <2>4. ASSUME request' = request \ {r},
               \A u \in Tab : page'[u].at \in Landing =>
                 page[u].at \in Landing /\ page'[u].tried = page[u].tried
        PROVE  LandsAlone'
    BY <2>4
  <2>5. CASE \/ ServeRedeem(r) \/ Serve(r) \/ ServeAccept(r)
    <3>1. \A st : [r EXCEPT !.state = st].tab = r.tab
      BY <2>2 DEF Request
    <3>2. page' = page
      BY <2>5 DEF ServeRedeem, Serve, ServeAccept
    <3>3. QED BY <2>3, <2>4, <2>5, <3>1, <3>2
              DEF ServeRedeem, Serve, ServeAccept, Becomes, Ends
  <2>6. CASE Retry(r)
    BY <2>3, <2>6 DEF Retry, Becomes, Sent
  <2>7. CASE Settle(r) \/ ServeLogout(r) \/ Lose(r)
    BY <2>4, <2>7 DEF Settle, ServeLogout, Lose, Ends
  <2>8. CASE LoginVerified(r) \/ SignupVerified(r) \/ Unauthorized(r)
    BY <2>4, <2>8 DEF LoginVerified, SignupVerified, Unauthorized, Stored, Here,
                      Ends, Blank, Landing
  <2>9. CASE SignInFails(r)
    BY <2>4, <2>9 DEF SignInFails, Here, Ends, Page
  <2>10. CASE JoinSucceeds(r)
    BY <2>4, <2>10 DEF JoinSucceeds, Here, Ends, Home, Blank, Landing
  <2>11. CASE JoinFails(r)
    BY <2>4, <2>11 DEF JoinFails, Here, Ends, Home, Blank, Landing, Page
  <2>12. CASE CodeExchanged(r)
    <3>1. r.tab \in Tab /\ page[r.tab] \in Page
      BY <2>12 DEF CodeExchanged, Stored, Here
    <3>2. \A u \in Tab : page'[u].at \in Landing =>
            page[u].at \in Landing /\ page'[u].tried = page[u].tried
      BY <2>12, <3>1 DEF CodeExchanged, Blank, Landing, Page
    <3>3. CASE stash[r.tab]
      BY <2>3, <2>12, <3>2, <3>3 DEF CodeExchanged, Becomes, Sent
    <3>4. CASE ~stash[r.tab]
      BY <2>4, <2>12, <3>2, <3>4 DEF CodeExchanged, Ends
    <3>5. QED BY <3>3, <3>4
  <2>13. QED BY <2>1, <2>5, <2>6, <2>7, <2>8, <2>9, <2>10, <2>11, <2>12
             DEF RequestStep
<1>4. CASE (\E c \in Token : Expire(c)) \/ UNCHANGED vars
  BY <1>4 DEF Expire, vars
<1>5. QED BY <1>1, <1>2, <1>3, <1>4, NextCases

LEMMA OwnTokenInductive ==
  ASSUME Types, Redeems, LandsAlone, AsksWithOwnToken, [Next]_vars
  PROVE  AsksWithOwnToken'
<1> DEFINE SameSession == store' = store
                          /\ \A c \in Token : token'[c].by = token[c].by
           NoSession == store' = NoToken
           NewAsks == \A s \in request' : Asks(s) /\ s.tab \in Tab =>
             \/ s.token = store
             \/ \E r \in request : Asks(r) /\ r.tab = s.tab /\ r.token = s.token
<1> USE DEF Types
<1>0. ASSUME SameSession, NewAsks PROVE AsksWithOwnToken'
  BY <1>0 DEF AsksWithOwnToken, Asks
<1>1. ASSUME NoSession PROVE AsksWithOwnToken'
  BY <1>1 DEF AsksWithOwnToken
<1>2. ASSUME NEW t \in Tab, request' = OrphanedBy(t) PROVE NewAsks
  <2>1. \A s \in request' : s.tab \in Tab => s \in request
    BY <1>2, OrphanedFacts
  <2>2. QED BY <2>1
<1>3. CASE \E t \in Tab : TabStep(t)
  <2>1. PICK t \in Tab : TabStep(t)
    BY <1>3
  <2>2. CASE Logout(t)
    BY <1>1, <2>2 DEF Logout
  <2>3. CASE \/ Visit(t) \/ OpenInvite(t) \/ Continue(t) \/ Render(t) \/ UseEmail(t)
    BY <1>0, <1>2, <2>3 DEF Visit, OpenInvite, Continue, Render, UseEmail, Load,
                            KeepToken
  <2>4. CASE Redeem(t) \/ Work(t) \/ PressJoin(t)
    <3>1. \A s \in request' : s \in request \/ s.token = store
      BY <2>4 DEF Redeem, Work, PressJoin, Post, Sent, TokenNow
    <3>2. SameSession
      BY <2>4 DEF Redeem, Work, PressJoin, KeepToken
    <3>3. QED BY <1>0, <3>1, <3>2
  <2>5. QED BY <2>1, <2>2, <2>3, <2>4 DEF TabStep
<1>4. CASE \E t \in Tab, c \in Token : TokenStep(t, c)
  <2>1. PICK t \in Tab, c \in Token : TokenStep(t, c)
    BY <1>4
  <2>2. SameSession
    <3>1. store' = store /\ (token' = token \/ \E kind \in Kind : Issue(c, kind))
      BY <2>1 DEF TokenStep, MailLink, OpenLink, ProviderReturns, KeepToken, Kind
    <3>2. token[c] \in TokenState
      OBVIOUS
    <3>3. \A kind : [token[c] EXCEPT !.kind = kind, !.state = "issued"].by
                     = token[c].by
      BY <3>2 DEF TokenState
    <3>4. QED BY <3>1, <3>3 DEF Issue
  <2>3. NewAsks
    BY <2>1, <1>2 DEF TokenStep, MailLink, OpenLink, ProviderReturns, Load
  <2>4. QED BY <1>0, <2>2, <2>3
<1>5. CASE \E r \in request : RequestStep(r)
  <2>1. PICK r \in request : RequestStep(r)
    BY <1>5
  <2>2. r \in Request
    OBVIOUS
  <2>3. CASE LoginVerified(r) \/ SignupVerified(r) \/ CodeExchanged(r)
    <3>1. /\ r.tab \in Tab /\ r.cred \in Token /\ store' = r.cred
          /\ token'[r.cred].by = r.tab
          /\ page[r.tab].at \in Landing
      BY <2>3 DEF LoginVerified, SignupVerified, CodeExchanged, Stored, Here,
                  Landing, Redeems, TokenState
    <3>2. \A s \in request : s.tab = r.tab => s = r
      BY <3>1 DEF LandsAlone
    <3>3. \A s \in request' : s \in request \ {r} \/ s.token = r.cred
      <4>1. CASE LoginVerified(r) \/ SignupVerified(r)
        BY <4>1 DEF LoginVerified, SignupVerified, Ends
      <4>2. CASE CodeExchanged(r)
        BY <4>2 DEF CodeExchanged, Becomes, Ends, Sent
      <4>3. QED BY <2>3, <4>1, <4>2
    <3>4. QED BY <3>1, <3>2, <3>3 DEF AsksWithOwnToken
  <2>4. CASE Unauthorized(r)
    BY <1>1, <2>4 DEF Unauthorized
  <2>5. CASE Retry(r)
    <3>1. \A s \in request' : s \in request \/ s.token = store
      BY <2>5 DEF Retry, Becomes, Sent, TokenNow
    <3>2. SameSession
      BY <2>5 DEF Retry, KeepToken
    <3>3. QED BY <1>0, <3>1, <3>2
  <2>6. CASE ServeRedeem(r) \/ Serve(r) \/ ServeAccept(r)
    <3>1. \A st : /\ [r EXCEPT !.state = st].kind = r.kind
                  /\ [r EXCEPT !.state = st].tab = r.tab
                  /\ [r EXCEPT !.state = st].token = r.token
      BY <2>2 DEF Request
    <3>2. \A s \in request' : s \in request \/ \E st : s = [r EXCEPT !.state = st]
      BY <2>6 DEF ServeRedeem, Serve, ServeAccept, Becomes, Ends
    <3>3. SameSession
      BY <2>6 DEF ServeRedeem, Serve, ServeAccept, KeepToken, TokenState
    <3>4. NewAsks
      BY <3>1, <3>2 DEF Asks
    <3>5. QED BY <1>0, <3>3, <3>4
  <2>7. CASE \/ SignInFails(r) \/ JoinSucceeds(r) \/ JoinFails(r) \/ Settle(r)
             \/ ServeLogout(r) \/ Lose(r)
    <3>1. NewAsks
      BY <2>7 DEF SignInFails, JoinSucceeds, JoinFails, Settle, ServeLogout, Lose,
                  Ends
    <3>2. SameSession
      BY <2>7 DEF SignInFails, JoinSucceeds, JoinFails, Settle, ServeLogout, Lose,
                  KeepToken, TokenState
    <3>3. QED BY <1>0, <3>1, <3>2
  <2>8. QED BY <2>1, <2>3, <2>4, <2>5, <2>6, <2>7 DEF RequestStep
<1>6. CASE \E c \in Token : Expire(c)
  <2>1. SameSession /\ NewAsks
    BY <1>6 DEF Expire, TokenState
  <2>2. QED BY <1>0, <2>1
<1>7. CASE UNCHANGED vars
  BY <1>7 DEF vars, AsksWithOwnToken
<1>8. QED BY <1>3, <1>4, <1>5, <1>6, <1>7, NextCases

LEMMA RefusedInductive ==
  ASSUME Types, Redeems, RefusedForGood, [Next]_vars
  PROVE  RefusedForGood'
<1> DEFINE Refused(R) == {s \in R : Asks(s) /\ s.state = "unauthorized"
                                   /\ s.token # NoToken}
<1> USE DEF Types
<1>1. \A c \in Token : token[c].state = "revoked" => token'[c].state = "revoked"
  BY TokensAge
<1>2. ASSUME \A s \in Refused(request') :
               \/ \E r \in Refused(request) : r.token = s.token
               \/ s.token \in Token /\ token[s.token].state = "revoked"
      PROVE  RefusedForGood'
  BY <1>1, <1>2 DEF RefusedForGood, Asks
<1>3. ASSUME NEW t \in Tab, request' = OrphanedBy(t) PROVE RefusedForGood'
  BY <1>2, <1>3, OrphanedFacts DEF Asks
<1>4. ASSUME \A s \in request' : s \in request \/ s.state # "unauthorized"
      PROVE  RefusedForGood'
  BY <1>2, <1>4
<1>5. CASE \E t \in Tab : TabStep(t)
  <2>1. PICK t \in Tab : TabStep(t)
    BY <1>5
  <2>2. CASE Visit(t) \/ OpenInvite(t) \/ Continue(t)
    BY <1>3, <2>2 DEF Visit, OpenInvite, Continue, Load
  <2>3. CASE \/ Render(t) \/ UseEmail(t) \/ Redeem(t) \/ Work(t) \/ PressJoin(t)
             \/ Logout(t)
    BY <1>4, <2>3 DEF Render, UseEmail, Redeem, Work, PressJoin, Logout, Post,
                      Sent
  <2>4. QED BY <2>1, <2>2, <2>3 DEF TabStep
<1>6. CASE \E t \in Tab, c \in Token : TokenStep(t, c)
  BY <1>3, <1>4, <1>6 DEF TokenStep, MailLink, OpenLink, ProviderReturns, Load
<1>7. CASE \E r \in request : RequestStep(r)
  <2>1. PICK r \in request : RequestStep(r)
    BY <1>7
  <2>2. r \in Request
    OBVIOUS
  <2>3. CASE Serve(r) \/ ServeAccept(r)
    <3>1. PICK st : /\ request' \subseteq request \cup {[r EXCEPT !.state = st]}
                    /\ st = "unauthorized" => st = Refusal(r.token)
      BY <2>3 DEF Serve, ServeAccept, Becomes, Ends
    <3>2. /\ [r EXCEPT !.state = st].state = st
          /\ [r EXCEPT !.state = st].token = r.token
          /\ r.token \in Token \cup {NoToken}
      BY <2>2 DEF Request
    <3>3. QED BY <1>2, <3>1, <3>2 DEF Refusal
  <2>4. CASE ServeRedeem(r)
    <3>1. \A st : [r EXCEPT !.state = st].state = st
      BY <2>2 DEF Request
    <3>2. QED BY <1>4, <2>4, <3>1 DEF ServeRedeem, Becomes
  <2>5. CASE LoginVerified(r) \/ SignupVerified(r) \/ CodeExchanged(r) \/ Retry(r)
    BY <1>4, <2>5 DEF LoginVerified, SignupVerified, CodeExchanged, Retry,
                      Becomes, Ends, Sent
  <2>6. CASE \/ SignInFails(r) \/ JoinSucceeds(r) \/ JoinFails(r)
             \/ Unauthorized(r) \/ Settle(r) \/ ServeLogout(r) \/ Lose(r)
    BY <1>4, <2>6 DEF SignInFails, JoinSucceeds, JoinFails, Unauthorized, Settle,
                      ServeLogout, Lose, Ends
  <2>7. QED BY <2>1, <2>3, <2>4, <2>5, <2>6 DEF RequestStep
<1>8. CASE (\E c \in Token : Expire(c)) \/ UNCHANGED vars
  BY <1>4, <1>8 DEF Expire, vars
<1>9. QED BY <1>5, <1>6, <1>7, <1>8, NextCases

-----------------------------------------------------------------------------
(* The theorems.                                                           *)

IInv == /\ Types /\ Bounded /\ Redeems
        /\ StashServesOneSignIn
        /\ LinksAreSpent /\ NothingLeftValid
        /\ LandsAlone /\ AsksWithOwnToken /\ RefusedForGood

LEMMA InitIInv == Init => IInv
<1> SUFFICES ASSUME Init PROVE IInv
  OBVIOUS
<1>1. Types
  BY DEF Init, Types, NotIssued, TokenState, Kind, Blank, Page
<1>2. Bounded
  BY FS_EmptySet, SignInAssumption DEF Init, Bounded
<1>3. QED BY <1>1, <1>2
          DEF Init, IInv, Redeems, StashServesOneSignIn, LinksAreSpent,
              NothingLeftValid, LandsAlone, AsksWithOwnToken, RefusedForGood,
              Blank, Landing

LEMMA Invariant == Spec => []IInv
<1>1. IInv /\ [Next]_vars => IInv'
  BY TypesInductive, BoundInductive, StashInductive, SpentInductive,
     NothingLeftInductive, LandsAloneInductive, OwnTokenInductive,
     RefusedInductive DEF IInv
<1>2. QED BY InitIInv, <1>1, PTL DEF Spec

\* Type correctness of tabs, tokens and requests, and the bound on requests.
THEOREM TypeCorrect == Spec => []TypeOK
<1>1. IInv => TypeOK
  BY DEF IInv, Types, Bounded, TypeOK
<1>2. QED BY <1>1, Invariant, PTL

\* useAuth.ts logout: a token that was signed out of is dead at the server,
\* unless the request that revokes it is under way or was lost.
THEOREM SignOutRevokes == Spec => []NothingLeftValid
BY Invariant, PTL DEF IInv

\* processPendingInvite: a page that signed in leaves no stashed invite
\* behind for the next user of the tab.
THEOREM StashIsSpent == Spec => []StashServesOneSignIn
BY Invariant, PTL DEF IInv

\* handleUnauthorized: a 401 never ends the live session that the tab itself
\* opened.  The page load of a sign-in leaves the tab alone with one request,
\* so whatever it still waits for was asked with its own token.
THEOREM OwnSessionSurvives == Spec => OwnLoginSurvives
<1>1. IInv => \A r \in request : Unauthorized(r) /\ Accepted(store)
                                 => token[store].by # r.tab
  <2> SUFFICES ASSUME IInv, NEW r \in request, Unauthorized(r), Accepted(store),
                      token[store].by = r.tab
               PROVE  FALSE
    OBVIOUS
  <2>1. /\ Asks(r) /\ r.tab \in Tab /\ r.state = "unauthorized"
        /\ store # NoToken /\ token[store].state = "live"
    BY DEF Unauthorized, Here, Asks, Accepted
  <2>2. r.token = store
    BY <2>1 DEF IInv, AsksWithOwnToken
  <2>3. token[store].state = "revoked"
    BY <2>1, <2>2 DEF IInv, RefusedForGood
  <2>4. QED BY <2>1, <2>3
<1>2. QED BY <1>1, Invariant, PTL DEF OwnLoginSurvives
=============================================================================
