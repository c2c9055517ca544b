------------------------- MODULE AnalyticsIdentity --------------------------
(* Whose events the product analytics records (lib/analytics.ts, useAuth.ts, *)
(* main.tsx): calls made before the SDK has loaded wait in a queue; the SDK  *)
(* keeps its identity in local storage, across the pages of a browser.       *)
(*                                                                           *)
(* One tab of one browser, used by one person after another.  The SDK        *)
(* (PostHog) is external: identify gives what an anonymous identity recorded *)
(* to the user, reset starts a new anonymous identity.                       *)
EXTENDS Integers, Sequences, FiniteSets, SequencesExt

CONSTANTS Users,
          MaxAnons,    \* bound: anonymous identities of the browser
          MaxQueue     \* bound: calls that wait for the SDK

VARIABLES session,     \* whose token is in local storage, or Nobody
          me,          \* query cache: the answer of "currentUser", or Nobody
          sdk,         \* "loading": pending is a list; "ready": client is set; "off"
          pending,     \* the calls that wait for the SDK
          identified,  \* identifiedId, or Nobody
          posthog,     \* SDK: its identity, whom each anonymous one was given to, the events
          fresh,       \* no session has ended on this page yet
          lapse        \* history: the first way a session ended without a reset

vars == <<session, me, sdk, pending, identified, posthog, fresh, lapse>>

Nobody == "nobody"
Anons  == 1 .. MaxAnons
Events == [by : Users \cup {Nobody}, under : Users \cup Anons]

Capture(by) == [call |-> "capture", who |-> by]
Identify(u) == [call |-> "identify", who |-> u]
Reset       == [call |-> "reset", who |-> Nobody]
Calls       == [call : {"capture", "identify", "reset"}, who : Users \cup {Nobody}]

\* What the SDK does with a call.
Performed(p, c) ==
  CASE c.call = "capture"  -> [p EXCEPT !.events = @ \cup {[by |-> c.who, under |-> p.id]}]
    [] c.call = "identify" -> IF p.id \in Anons
                              THEN [p EXCEPT !.id = c.who, !.given[p.id] = c.who]
                              ELSE [p EXCEPT !.id = c.who]
    [] c.call = "reset"    -> [p EXCEPT !.id = p.anon + 1, !.anon = @ + 1]

Flushed(p, cs) == FoldLeft(Performed, p, cs)

\* Slip: calls are dropped, not queued, until the SDK is there.
EnqueueReady(cs) ==
  /\ pending' = pending
  /\ posthog' = IF sdk = "ready" THEN Flushed(posthog, cs) ELSE posthog

\* Slip: calls wait even when the SDK has failed to load.
EnqueueOff(cs) ==
  /\ pending' = IF sdk # "ready" THEN pending \o cs ELSE pending
  /\ posthog' = IF sdk = "ready" THEN Flushed(posthog, cs) ELSE posthog

\* enqueue: run, wait or drop.
Enqueue(cs) ==
  /\ pending' = IF sdk = "loading" THEN pending \o cs ELSE pending
  /\ posthog' = IF sdk = "ready" THEN Flushed(posthog, cs) ELSE posthog

Room(cs) ==
  /\ Len(pending) + Len(cs) <= MaxQueue
  /\ Cardinality({i \in DOMAIN (pending \o cs) : (pending \o cs)[i] = Reset}) + posthog.anon
       <= MaxAnons

\* History: a reset that never reaches the SDK.
Lapse(how, happens) == lapse' = IF lapse = "none" /\ happens THEN how ELSE lapse
Lost(cs) == \E i \in DOMAIN cs : cs[i] = Reset

-----------------------------------------------------------------------------
Init ==
  /\ session = Nobody /\ me = Nobody
  /\ sdk = "loading"                      \* a build with a VITE_POSTHOG_KEY
  /\ pending = <<>>
  /\ identified = Nobody
  /\ posthog = [id |-> 1, anon |-> 1, given |-> [a \in Anons |-> Nobody], events |-> {}]
  /\ fresh = TRUE
  /\ lapse = "none"

\* A page is loaded: the module starts again, local storage stays.
LoadPage ==
  /\ sdk' = "loading"
  /\ pending' = <<Capture(session)>>
  /\ me' = Nobody
  /\ identified' = Nobody
  /\ fresh' = TRUE
  /\ Lapse("lost", Lost(pending))
  /\ UNCHANGED <<session, posthog>>

SdkLoads ==
  /\ sdk = "loading"
  /\ sdk' = "ready"
  /\ posthog' = Flushed(posthog, pending)
  /\ pending' = <<>>
  /\ UNCHANGED <<session, me, identified, fresh, lapse>>

SdkFails ==
  /\ sdk = "loading"
  /\ sdk' = "off"
  /\ pending' = <<>>
  /\ Lapse("lost", Lost(pending))
  /\ UNCHANGED <<session, me, identified, posthog, fresh>>

\* The page a mailed link or an OAuth provider led to stores a token and captures
\* the sign-in.
SignIn(u) ==
  /\ fresh /\ session = Nobody
  /\ Room(<<Capture(u)>>)
  /\ session' = u
  /\ Enqueue(<<Capture(u)>>)
  /\ UNCHANGED <<me, sdk, identified, fresh, lapse>>

\* The current user arrives; the effect of useAuth identifies them, once.
UserArrives ==
  /\ session # Nobody /\ me = Nobody
  /\ me' = session
  /\ identified' = session
  /\ IF session = identified
     THEN UNCHANGED <<pending, posthog>>
     ELSE Room(<<Identify(session)>>) /\ Enqueue(<<Identify(session)>>)
  /\ UNCHANGED <<session, sdk, fresh, lapse>>

\* Any event or page view.
Track ==
  /\ Room(<<Capture(session)>>)
  /\ Enqueue(<<Capture(session)>>)
  /\ UNCHANGED <<session, me, sdk, identified, fresh, lapse>>

\* Slip: detached first, then captured.
ResetThenCapture(u) == <<Reset, Capture(u)>>

\* What logout tells the analytics: captured while still identified.
Farewell(u) == <<Capture(u), Reset>>

Logout ==
  /\ session # Nobody
  /\ Room(Farewell(session))
  /\ Enqueue(Farewell(session))
  /\ identified' = Nobody
  /\ session' = Nobody
  /\ me' = Nobody
  /\ fresh' = FALSE
  /\ Lapse("lost", sdk = "off")
  /\ UNCHANGED sdk

\* handleUnauthorized, when the token was revoked elsewhere: it is removed; the
\* query cache and the analytics are left as they are.
Unauthorized ==
  /\ session # Nobody
  /\ session' = Nobody
  /\ fresh' = FALSE
  /\ Lapse("expired", TRUE)
  /\ UNCHANGED <<me, sdk, pending, identified, posthog>>

Next ==
  \/ LoadPage
  \/ SdkLoads
  \/ SdkFails
  \/ \E u \in Users : SignIn(u)
  \/ UserArrives
  \/ Track
  \/ Logout
  \/ Unauthorized

Spec == Init /\ [][Next]_vars

-----------------------------------------------------------------------------
\* The types of the state; a call waits only while the SDK loads.
TypeOK ==
  /\ session \in Users \cup {Nobody} /\ me \in Users \cup {Nobody}
  /\ sdk \in {"loading", "ready", "off"}
  /\ pending \in Seq(Calls) /\ (sdk # "loading" => pending = <<>>)
  /\ identified \in Users \cup {Nobody}
  /\ posthog.id \in Users \cup Anons /\ posthog.anon \in Anons
  /\ posthog.given \in [Anons -> Users \cup {Nobody}]
  /\ posthog.events \subseteq Events
  /\ fresh \in BOOLEAN /\ lapse \in {"none", "expired", "lost"}

\* To whom an event is attributed in the end.
Owner(e) == IF e.under \in Users THEN e.under ELSE posthog.given[e.under]

\* An event is attributed to the user whose session it happened in; one that
\* happened in no session is attributed to nobody, or to the user who signed in
\* on that anonymous identity.
Attributed ==
  \A e \in posthog.events :
    \/ Owner(e) \in {Nobody, e.by}
    \/ e.by = Nobody /\ e.under \in Anons

\* useAuth.ts:45-46, analytics.ts:248: signing out detaches the identity, so a
\* shared device does not cross-attribute the next session, however the calls
\* waited for the SDK. The exceptions are the lapses: a session that ended by a
\* 401, and a reset lost with the page or an SDK that did not load.
SignedOutIsDetached == lapse = "none" => Attributed

\* Once the SDK is ready, it has the identity of the user the page shows.
IdentityMatches ==
  (sdk = "ready" /\ session # Nobody /\ me = session) => posthog.id = session

\* analytics.ts:248: "Detach identity on logout so a shared device doesn't
\* cross-attribute": with no 401 among the ends of sessions, no user's event is
\* attributed to another user.
LogoutDetaches ==
  lapse # "expired" =>
    \A e \in posthog.events : e.by # Nobody => Owner(e) \in {Nobody, e.by}
=============================================================================
