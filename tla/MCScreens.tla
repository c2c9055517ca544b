------------------------------- MODULE MCScreens -------------------------------
(* Six components that share no state: a browser shows one of these screens  *)
(* at a time, and what the others keep is read again when they are opened.   *)
(* A behaviour follows one of them, the subject; the registers are its       *)
(* variables, in the order of the INSTANCE.                                  *)
EXTENDS Integers, TLC

CONSTANTS Groups, Users, Requests, Values, Handles, Inputs

Perms == Permutations(Groups)

VARIABLES subject, r1, r2, r3, r4, r5, r6, r7, r8

all == <<subject, r1, r2, r3, r4, r5, r6, r7, r8>>
Unused == 0

Feed == INSTANCE ActivityFeed WITH
  Page <- 1, MaxRows <- 3, MaxPages <- 2,
  rows <- r1, cache <- r2, asking <- r3, failed <- r4, open <- r5, feed <- r6

PageOf == INSTANCE ActivityPage WITH
  Page <- 2, MaxRows <- 4,
  trail <- r1, mine <- r2, known <- r3, cache <- r4, asking <- r5, asked <- r6,
  open <- r7, feed <- r8

Analytics == INSTANCE AnalyticsIdentity WITH
  MaxAnons <- 2, MaxQueue <- 3,
  session <- r1, me <- r2, sdk <- r3, pending <- r4, identified <- r5,
  posthog <- r6, fresh <- r7, lapse <- r8

\* One expense that bob paid, on the list and the dashboard.  The shares are
\* different powers of two, so that no two sums are equal.
List == INSTANCE ReviewScreens WITH
  Expenses <- {1}, Me <- "me", Others <- {"bob"}, Payer <- <<"bob">>,
  Share <- <<[me |-> 1, bob |-> 2]>>,
  Screens <- {"pending", "dashboard"}, LedgerLimit <- 1, Slots <- {1, 2},
  MaxWrites <- 2,
  log <- r1, online <- r2, screen <- r3, cache <- r4, fly <- r5, failed <- r6,
  sent <- r7, floor <- r8

\* Two expenses, one paid by me, on the group screen
Header == INSTANCE ReviewScreens WITH
  Expenses <- {1, 2}, Me <- "me", Others <- {"bob", "eve"},
  Payer <- <<"me", "bob">>,
  Share <- <<[me |-> 1, bob |-> 2, eve |-> 4], [me |-> 8, bob |-> 16, eve |-> 32]>>,
  Screens <- {"group"}, LedgerLimit <- 1, Slots <- {}, MaxWrites <- 3,
  log <- r1, online <- r2, screen <- r3, cache <- r4, fly <- r5, failed <- r6,
  sent <- r7, floor <- r8

User == INSTANCE Account WITH
  Values <- {"some"}, MaxMethods <- 1,
  row <- r1, active <- r2, methods <- r3, owing <- r4, req <- r5,
  overlapped <- r6, later <- r7

Form == INSTANCE ProfileForm WITH
  Fields <- Inputs, MaxChanges <- 2,
  server <- r1, cache <- r2, fetch <- r3, form <- r4, patch <- r5,
  changes <- r6, typed <- r7, moved <- r8

Init ==
  \/ subject = "feed" /\ Feed!Init /\ r7 = Unused /\ r8 = Unused
  \/ subject = "page" /\ PageOf!Init
  \/ subject = "analytics" /\ Analytics!Init
  \/ subject = "list" /\ List!Init
  \/ subject = "header" /\ Header!Init
  \/ subject = "account" /\ User!Init /\ r8 = Unused
  \/ subject = "form" /\ Form!Init

ActivityFeedNext == subject = "feed" /\ Feed!Next /\ UNCHANGED <<subject, r7, r8>>
ActivityPageNext == subject = "page" /\ PageOf!Next /\ UNCHANGED subject
AnalyticsNext == subject = "analytics" /\ Analytics!Next /\ UNCHANGED subject
ListNext == subject = "list" /\ List!Next /\ UNCHANGED subject
HeaderNext == subject = "header" /\ Header!Next /\ UNCHANGED subject
AccountNext == subject = "account" /\ User!Next /\ UNCHANGED <<subject, r8>>
FormNext == subject = "form" /\ Form!Next /\ UNCHANGED subject

Next ==
  \/ ActivityFeedNext \/ ActivityPageNext \/ AnalyticsNext \/ ListNext
  \/ HeaderNext \/ AccountNext \/ FormNext

Spec == Init /\ [][Next]_all

-----------------------------------------------------------------------------
\* The feed of a group runs from new to old, but for rows of a later page that
\* are newer than the whole first one (ActivityFeed.tsx).
NewestFirst == subject = "feed" => Feed!NewestFirst

\* The page's list begins with the newest rows of all groups, once every
\* group's answer is the latest (activity.tsx).
NewestShown == subject = "page" => PageOf!NewestShown

\* Events are attributed to the user in whose session they happened, unless a
\* session ended by a 401 or a reset was lost with its page (analytics.ts).
SignedOutIsDetached == subject = "analytics" => Analytics!SignedOutIsDetached

\* What is on screen when my confirmation is answered is read again after it
\* (useConfirmExpense and its invalidations).
NoOlderThanMyAnswer == subject = "list" => List!NoOlderThanMyAnswer


\* A deleted account holds nothing personal, if no other request of its user
\* ran while it was deleted (soft_delete_user).
ScrubbedUnlessOverlapped == subject = "account" => User!ScrubbedUnlessOverlapped

\* What a deleted user still owes or is owed began after the deletion had
\* looked at that side of the ledger (has_unsettled_obligations).
OwesOnlyLater == subject = "account" => User!OwesOnlyLater

\* A save undoes another device's change only of a field the user typed into
\* or whose new value the page had read (UserInformation.tsx).
UnreadChangesStay == [][subject = "form" => Form!KeepsUnread]_all

-----------------------------------------------------------------------------
(* Named in the cfg in place of the others, the first three of these hold    *)
(* and each of the rest is violated.                                         *)

\* The type invariant of whichever component is the subject.
Types ==
  /\ subject = "feed" => Feed!TypeOK
  /\ subject = "page" => PageOf!TypeOK
  /\ subject = "analytics" => Analytics!TypeOK
  /\ subject = "list" => List!TypeOK
  /\ subject = "header" => Header!TypeOK
  /\ subject = "account" => User!TypeOK
  /\ subject = "form" => Form!TypeOK

\* The feed lists a row once, and only rows of the group that is open.
FeedIsClean == subject = "feed" => Feed!NoRowTwice /\ Feed!OnlyThisGroup

\* Once the SDK is ready, it has the identity of the user the page shows.
IdentityMatches == subject = "analytics" => Analytics!IdentityMatches

\* "No activity yet" is said of a group without any (ActivityFeed.tsx:110).
EmptyMeansNothing == subject = "feed" => Feed!EmptyMeansNothing

\* What the observed page's answer holds is listed (ActivityFeed.tsx:33).
LaterPagesMerge == subject = "feed" => Feed!LaterPagesMerge

\* What was read of every group is listed (activity.tsx:164).
ReadIsListed == subject = "page" => PageOf!ReadIsListed

\* Signing out detaches the identity (analytics.ts:248).
LogoutDetaches == subject = "analytics" => Analytics!LogoutDetaches

\* An open expense is in the pending figure (GroupLedgerScreen.tsx:138-140).
PendingIsSurfaced == subject = "header" => Header!PendingIsSurfaced

\* "All caught up" is said of an answer (PendingConfirmationsList.tsx:57-58).
CaughtUpMeansNone == subject = "list" => List!CaughtUpMeansNone

\* "Deletion is blocked while the user still has unsettled expenses"
\* (auth/router.py:265-266).
DeletionIsBlocked == [][subject = "account" => User!DeletesUnowing]_all

\* "Your personal data has been removed" (auth/router.py:281).
DataIsRemoved == subject = "account" => User!DataIsRemoved

\* "You can save up to {MAX_METHODS_PER_USER} payment methods"
\* (auth/router.py:162), with one method less allowed than there are handles.
MethodCapHolds == subject = "account" => User!MethodCapHolds

\* Only fields that have changed are sent (UserInformation.tsx:67).
OnlyTypedIsSent == [][subject = "form" => Form!SendsOnlyTyped]_all
=============================================================================
