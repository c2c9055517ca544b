---------------------------- MODULE SettleScreens ----------------------------
(***************************************************************************)
(* Paying back, seen from one member's group screen (GroupLedgerScreen):   *)
(* the cards that offer "Mark Paid" with an undo toast, the settle-up row  *)
(* (PairwiseBalances), the cards that review the other side's claims, and  *)
(* the query caches all of them are drawn from.                            *)
(*                                                                         *)
(* The other member, the auto-confirm sweep and the server are the         *)
(* environment: a request is one step there (Settlement has the locks      *)
(* behind it).  A query that is refetched shows what the server holds when *)
(* its answer arrives: an invalidation cancels an older fetch, and between *)
(* its refetches a cache may be arbitrarily stale.                         *)
(*                                                                         *)
(* "me" is the member at the screen, "they" the other one.  A card that is *)
(* unmounted forgets its state, its toast and its request go on.           *)
(***************************************************************************)
EXTENDS Naturals, FiniteSets, FiniteSetsExt

CONSTANTS
  Split,      \* confirmed shares between the two members
  Mine,       \* those I owe; they owe the others
  Amount,     \* split -> amount owed
  Claim,      \* bound: claims filed
  MaxCalls    \* bound: requests I send

ASSUME SettleScreensAssumption ==
  /\ Split \subseteq Nat \ {0} /\ IsFiniteSet(Split)
  /\ Claim \subseteq Nat \ {0} /\ IsFiniteSet(Claim)
  /\ Mine \subseteq Split
  /\ Amount \in [Split -> Nat]
  /\ MaxCalls \in Nat

VARIABLES
  settled,    \* server: splits settled
  claim,      \* server: settlement claims
  here,       \* the group screen is mounted
  cache,      \* query -> the data the screen was last given
  fetching,   \* queries with a fetch in flight
  card,       \* split I owe -> its ConfirmedExpenseCard
  toast,      \* split I owe -> its undo toast
  review,     \* claim -> its SettlementClaimCard or AggregateClaimCard
  call        \* the mutations I started

vars == <<settled, claim, here, cache, fetching, card, toast, review, call>>
server == <<settled, claim>>

Party == {"me", "they"}
Claims == [by : {"none"} \cup Party, pair : BOOLEAN, covers : SUBSET Split,
           status : {"none", "pending", "confirmed", "rejected"}]
NoClaim == [by |-> "none", pair |-> FALSE, covers |-> {}, status |-> "none"]

Query == {"ledger", "mine", "ups", "net", "review"}

Card == [awaiting : BOOLEAN, status : {"idle", "pending", "error", "success"}]
NewCard == [awaiting |-> FALSE, status |-> "idle"]

Toast == [state : {"none", "open", "leaving"}, undone : BOOLEAN, own : BOOLEAN]
NoToast == [state |-> "none", undone |-> FALSE, own |-> FALSE]

Review == [shown : {"pending", "confirmed", "rejected"}, removing : BOOLEAN]
NewReview == [shown |-> "pending", removing |-> FALSE]

\* state: on its way, then carried out or refused by the server, then over, or
\* "ok" while a card shows that it went well; seen: the component that sent it
\* is still there; filed: the claim it filed
Call == [what : {"none", "mark", "up", "confirm", "reject"},
         of : Split \cup Claim \cup {0}, filed : Claim \cup {0},
         state : {"none", "sent", "done", "refused", "ok", "over"},
         seen : BOOLEAN]
NoCall == [what |-> "none", of |-> 0, filed |-> 0, state |-> "none", seen |-> FALSE]
Over == [NoCall EXCEPT !.state = "over"]
Unseen(r) == IF r.state = "ok" THEN Over ELSE [r EXCEPT !.seen = FALSE]
Calls == 1..MaxCalls

TypeOK ==
  /\ settled \subseteq Split
  /\ claim \in [Claim -> Claims]
  /\ here \in BOOLEAN
  /\ cache \in [Query -> SUBSET (Split \cup Claim)]
  /\ fetching \subseteq Query
  /\ card \in [Mine -> Card]
  /\ toast \in [Mine -> Toast]
  /\ review \in [Claim -> Review]
  /\ call \in [Calls -> Call]

-----------------------------------------------------------------------------
(* The server.                                                             *)

Pending == {c \in Claim : claim[c].status = "pending"}
Covered == UNION {claim[c].covers : c \in Pending}
Owed(u) == IF u = "me" THEN Mine ELSE Split \ Mine
Other(u) == IF u = "me" THEN "they" ELSE "me"
Total(S) == MapThenSumSet(LAMBDA s : Amount[s], S)

\* settle_expense_split: a claim of its own that is not rejected, or a
\* pending settle-up, covers s
Taken(s) == \E c \in Claim : /\ s \in claim[c].covers
                             /\ \/ claim[c].status = "pending"
                                \/ claim[c].status = "confirmed" /\ ~claim[c].pair
Room == {c \in Claim : claim[c].status = "none"}

\* what a claim of u would cover, if the server accepts it
MarkCovers(s) == IF s \in settled \/ Taken(s) THEN {} ELSE {s}
\* create_aggregate_settlement: all that is open both ways, unless the net
\* flows the other way
UpCovers(u) ==
  LET S == Split \ (settled \cup Covered)
  IN IF Total(S \cap Owed(u)) < Total(S \cap Owed(Other(u))) THEN {} ELSE S

NextRow == CHOOSE c \in Room : \A d \in Room : c <= d
File(u, pair, S) ==
  /\ Room # {}
  /\ claim' = [claim EXCEPT ![NextRow] =
                 [by |-> u, pair |-> pair, covers |-> S, status |-> "pending"]]
  /\ UNCHANGED settled

Decide(c, st) ==
  /\ claim' = [claim EXCEPT ![c].status = st]
  /\ settled' = IF st = "confirmed" THEN settled \cup claim[c].covers ELSE settled

\* What each endpoint answers me
Single(u) == {c \in Pending : claim[c].by = u /\ ~claim[c].pair}
MySplits == Mine \ settled               \* my_split of the confirmed expenses
Balances == Split \ settled
Reads(q) ==
  CASE q = "ledger" -> MySplits
    [] q = "mine"   -> UNION {claim[c].covers : c \in Single("me")}
    [] q = "ups"    -> {c \in Pending : claim[c].pair}
    [] q = "net"    -> Balances
    [] q = "review" -> Single("they")

-----------------------------------------------------------------------------
(* What the screen shows, from its caches.                                 *)

MyUps(ca) == {c \in ca["ups"] : claim[c].by = "me"}
\* PendingSettlementsList: the shares I have claimed one by one
Filed(ca) == ca["mine"]
\* Slip: pending settle-ups are not looked at
ReadyIgnoringUps(ca) == ca["ledger"] \ Filed(ca)
\* readyToSettle: with two members, a settle-up of mine speaks for everything
Ready(ca) == {s \in ca["ledger"] \ Filed(ca) : MyUps(ca) = {}}

\* settleUpsForMyReview and SettlementClaimsList
Listed(ca) == ca["review"] \cup {c \in ca["ups"] : claim[c].by = "they"}

\* PairwiseBalances offers to settle up unless they owe me on balance
OffersUp ==
  /\ here
  /\ cache["net"] # {}
  /\ Total(cache["net"] \ Mine) <= Total(cache["net"] \cap Mine)
  /\ MyUps(cache) = {}

\* ConfirmedExpenseCard.isSettled
IsSettled(s) == card[s].awaiting \/ card[s].status = "success"
Answerable(c) == review[c].shown = "pending" /\ ~review[c].removing
Flying(c) == \E i \in Calls : /\ call[i].what \in {"confirm", "reject"}
                              /\ call[i].of = c /\ call[i].seen
                              /\ call[i].state \in {"sent", "done", "refused"}

\* The components left when cards S and reviews R stay mounted
Forget(S, R) ==
  /\ card' = [s \in Mine |-> IF s \in S THEN card[s] ELSE NewCard]
  /\ toast' = [s \in Mine |-> IF s \in S THEN toast[s]
                              ELSE [toast[s] EXCEPT !.own = FALSE]]
  /\ review' = [c \in Claim |-> IF c \in R THEN review[c] ELSE NewReview]
  /\ call' = [i \in Calls |->
       IF \/ call[i].what = "mark" /\ call[i].of \notin S
          \/ call[i].what \in {"confirm", "reject"} /\ call[i].of \notin R
       THEN Unseen(call[i]) ELSE call[i]]

Init ==
  /\ settled = {}
  /\ claim = [c \in Claim |-> NoClaim]
  /\ here = TRUE
  /\ cache = [q \in Query |-> Reads(q)]
  /\ fetching = {}
  /\ card = [s \in Mine |-> NewCard]
  /\ toast = [s \in Mine |-> NoToast]
  /\ review = [c \in Claim |-> NewReview]
  /\ call = [i \in Calls |-> NoCall]

-----------------------------------------------------------------------------
(* Requests.                                                               *)

\* Requests of mine that may still file a claim
Promised == Cardinality({s \in Mine : toast[s].state # "none"})
            + Cardinality({i \in Calls : /\ call[i].what \in {"mark", "up"}
                                         /\ call[i].state = "sent"})
Free == {i \in Calls : call[i].state = "none"}
MaySend ==
  /\ Cardinality(Free) > Cardinality({s \in Mine : toast[s].state # "none"})
  /\ Cardinality(Room) > Promised

Sent(calls, what, of, seen) ==
  LET new == CHOOSE i \in Free : \A j \in Free : i <= j
  IN [calls EXCEPT ![new] = [NoCall EXCEPT !.what = what, !.of = of,
                                       !.state = "sent", !.seen = seen]]

\* The request arrives
Serve(i) ==
  /\ call[i].state = "sent"
  /\ \/ /\ call[i].what = "mark" /\ MarkCovers(call[i].of) # {}
        /\ File("me", FALSE, MarkCovers(call[i].of))
        /\ call' = [call EXCEPT ![i].state = "done", ![i].filed = NextRow]
     \/ /\ call[i].what = "up" /\ UpCovers("me") # {}
        /\ File("me", TRUE, UpCovers("me"))
        /\ call' = [call EXCEPT ![i].state = "done"]
     \/ \* after the window a rejection confirms instead
        /\ call[i].what \in {"confirm", "reject"} /\ call[i].of \in Pending
        /\ \E st \in {"confirmed", "rejected"} :
             /\ call[i].what = "confirm" => st = "confirmed"
             /\ Decide(call[i].of, st)
        /\ call' = [call EXCEPT ![i].state = "done"]
     \/ /\ \/ call[i].what = "mark" /\ MarkCovers(call[i].of) = {}
           \/ call[i].what = "up" /\ UpCovers("me") = {}
           \/ call[i].what \in {"confirm", "reject"} /\ call[i].of \notin Pending
        /\ call' = [call EXCEPT ![i].state = "refused"]
        /\ UNCHANGED server
  /\ UNCHANGED <<here, cache, fetching, card, toast, review>>

\* invalidateQueries starts again what is on screen
Invalidate(Q) == fetching' = IF here THEN fetching \cup Q ELSE fetching

\* Slip: the list of my own claims is forgotten
ForgetsMine == {"ledger"}
\* useSettleExpense.onSuccess
AfterMark == {"ledger", "mine"}
\* useSettleUp.onSuccess
AfterUp == {"ledger", "ups", "net"}
Invalidated(what) == CASE what = "mark" -> AfterMark
                       [] what = "up"   -> AfterUp
                       [] OTHER         -> Query

\* The answer arrives; it may be lost after the server acted, or the request
\* before: then the mutation fails as well.
Succeeds(i) ==
  /\ call[i].state = "done"
  /\ call' = [call EXCEPT ![i] = IF @.what = "mark" /\ @.seen
                                THEN [@ EXCEPT !.state = "ok"] ELSE Over]
  /\ Invalidate(Invalidated(call[i].what))
  /\ card' = IF call[i].what = "mark" /\ call[i].seen
             THEN [card EXCEPT ![call[i].of].status = "success"] ELSE card
  /\ UNCHANGED <<server, here, cache, toast, review>>

\* Slip: the card that has left the list stays away
RevertShownOnly(rv) == [rv EXCEPT !.shown = "pending"]
\* Slip: the card takes over the state of its mutation
RevertToError(rv) == [rv EXCEPT !.shown = "error", !.removing = FALSE]
\* The effects that take an optimistic answer back
Reverted(rv) == [rv EXCEPT !.shown = "pending", !.removing = FALSE]

Fails(i) ==
  /\ call[i].state \in {"sent", "done", "refused"}
  /\ call' = [call EXCEPT ![i] = Over]
  /\ card' = IF call[i].what = "mark" /\ call[i].seen
             THEN [card EXCEPT ![call[i].of] =
                     [awaiting |-> FALSE, status |-> "error"]]
             ELSE card
  /\ review' = IF call[i].what \in {"confirm", "reject"} /\ call[i].seen
               THEN [review EXCEPT ![call[i].of] = Reverted(@)] ELSE review
  /\ UNCHANGED <<server, here, cache, fetching, toast>>

-----------------------------------------------------------------------------
(* Mark Paid and its undo toast.                                           *)

\* handleMarkPaid.  An error of an earlier try is still there, and takes the
\* optimistic state back at once.  The toast keeps its id: a second press
\* gives the open one a new closure; whether one that is just leaving comes
\* back is up to the toast library.
MarkPaid(s) ==
  /\ here /\ s \in Ready(cache) /\ ~IsSettled(s)
  /\ toast[s].state = "none" => MaySend
  /\ card' = [card EXCEPT ![s].awaiting = (card[s].status # "error")]
  /\ \E st \in {"open", toast[s].state} \ {"none"} :
       toast' = [toast EXCEPT ![s] = [state |-> st, undone |-> FALSE,
                                      own |-> TRUE]]
  /\ UNCHANGED <<server, here, cache, fetching, review, call>>

Undo(s) ==
  /\ toast[s].state = "open"
  /\ toast' = [toast EXCEPT ![s].state = "leaving", ![s].undone = TRUE]
  /\ card' = IF toast[s].own THEN [card EXCEPT ![s].awaiting = FALSE] ELSE card
  /\ UNCHANGED <<server, here, cache, fetching, review, call>>

\* the toaster's close button
CloseToast(s) ==
  /\ toast[s].state = "open"
  /\ toast' = [toast EXCEPT ![s].state = "leaving"]
  /\ UNCHANGED <<server, here, cache, fetching, card, review, call>>

\* a dismissed toast is gone after its exit animation
ToastGone(s) ==
  /\ toast[s].state = "leaving"
  /\ toast' = [toast EXCEPT ![s] = NoToast]
  /\ UNCHANGED <<server, here, cache, fetching, card, review, call>>

\* Slip: the closure does not look whether it was undone
AnyToast(s) == toast[s].state # "none"
\* onAutoClose finds that the claim is still wanted
StillWanted(s) == toast[s].state # "none" /\ ~toast[s].undone

\* The timer may still fire while a dismissed toast leaves
AutoClose(s) ==
  /\ toast[s].state # "none"
  /\ IF StillWanted(s)
     THEN /\ call' = Sent([i \in Calls |->
                             IF call[i].what = "mark" /\ call[i].of = s
                                /\ toast[s].own
                             THEN Unseen(call[i]) ELSE call[i]],
                          "mark", s, toast[s].own)
          /\ card' = IF toast[s].own
                     THEN [card EXCEPT ![s].status = "pending"] ELSE card
     ELSE UNCHANGED <<call, card>>
  /\ toast' = [toast EXCEPT ![s] = NoToast]
  /\ UNCHANGED <<server, here, cache, fetching, review>>

-----------------------------------------------------------------------------
(* Settling up, and reviewing the other side's claims.                     *)

UpPending == \E i \in Calls : /\ call[i].what = "up" /\ call[i].seen
                              /\ call[i].state \in {"sent", "done", "refused"}

\* handleSettleUp, after the row was unfolded
SettleUp ==
  /\ OffersUp /\ ~UpPending
  /\ MaySend
  /\ call' = Sent(call, "up", 0, TRUE)
  /\ UNCHANGED <<server, here, cache, fetching, card, toast, review>>

\* handleConfirm, handleReject and the buttons of AggregateClaimCard
Respond(c, what) ==
  /\ here /\ c \in Listed(cache) /\ Answerable(c) /\ ~Flying(c)
  /\ Cardinality(Free) > Cardinality({s \in Mine : toast[s].state # "none"})
  /\ review' = [review EXCEPT ![c].shown =
                  IF what = "confirm" THEN "confirmed" ELSE "rejected"]
  /\ call' = Sent(call, what, c, TRUE)
  /\ UNCHANGED <<server, here, cache, fetching, card, toast>>

\* the settle-glow animation ends
GlowEnds(c) ==
  /\ here /\ c \in Listed(cache)
  /\ review[c].shown = "confirmed" /\ ~review[c].removing
  /\ review' = [review EXCEPT ![c].removing = TRUE]
  /\ UNCHANGED <<server, here, cache, fetching, card, toast, call>>

-----------------------------------------------------------------------------
(* Caches, the screen, and the other side.                                 *)

Fetch(q) ==
  /\ q \in fetching
  /\ cache' = [cache EXCEPT ![q] = Reads(q)]
  /\ fetching' = fetching \ {q}
  /\ Forget(Ready(cache'), Listed(cache'))
  /\ UNCHANGED <<server, here>>

\* the window is focused again (bound: not while a fetch is in flight)
Focus ==
  /\ here /\ fetching = {}
  /\ fetching' = Query
  /\ UNCHANGED <<server, here, cache, card, toast, review, call>>

\* (bound: what is fetched meanwhile is fetched again by Return)
Leave ==
  /\ here
  /\ here' = FALSE
  /\ fetching' = {}
  /\ card' = [s \in Mine |-> NewCard]
  /\ toast' = [s \in Mine |-> [toast[s] EXCEPT !.own = FALSE]]
  /\ review' = [c \in Claim |-> NewReview]
  /\ call' = [i \in Calls |-> Unseen(call[i])]
  /\ UNCHANGED <<server, cache>>

Return ==
  /\ ~here
  /\ here' = TRUE
  /\ fetching' = Query
  /\ UNCHANGED <<server, cache, card, toast, review, call>>

TheyFile ==
  /\ Cardinality(Room) > Promised
  /\ \/ \E s \in Split \ Mine : /\ MarkCovers(s) # {}
                                /\ File("they", FALSE, MarkCovers(s))
     \/ UpCovers("they") # {} /\ File("they", TRUE, UpCovers("they"))
  /\ UNCHANGED <<here, cache, fetching, card, toast, review, call>>

\* They answer my claims; the sweep confirms anybody's.
TheyDecide ==
  /\ \E c \in Pending, st \in {"confirmed", "rejected"} :
       /\ st = "rejected" => claim[c].by = "me"
       /\ Decide(c, st)
  /\ UNCHANGED <<here, cache, fetching, card, toast, review, call>>

Next ==
  \/ \E s \in Mine : \/ MarkPaid(s) \/ Undo(s) \/ CloseToast(s)
                     \/ ToastGone(s) \/ AutoClose(s)
  \/ SettleUp
  \/ \E c \in Claim : \/ \E what \in {"confirm", "reject"} : Respond(c, what)
                      \/ GlowEnds(c)
  \/ \E i \in Calls : Serve(i) \/ Succeeds(i) \/ Fails(i)
  \/ \E q \in Query : Fetch(q)
  \/ Focus \/ Leave \/ Return
  \/ TheyFile \/ TheyDecide

Spec == Init /\ [][Next]_vars

\* A fetch that was started ends: react-query retries it.
FairSpec == Spec /\ \A q \in Query : WF_vars(Fetch(q))

-----------------------------------------------------------------------------
(* Properties                                                              *)

\* Undo is the last word: while the toast of split s was undone, nothing
\* sends its claim, also when the auto-close timer fires during the exit
\* animation (the isUndone flag of handleMarkPaid).
UndoneStep ==
  \A s \in Mine : toast[s].undone =>
    \A i \in Calls : call[i].state = "none" /\ call'[i].state = "sent"
                       => ~(call'[i].what = "mark" /\ call'[i].of = s)
UndoneIsNotSent == [][UndoneStep]_vars

\* No claim disappears from its reviewer unanswered: a claim that waits for
\* me and is in my lists can be answered, or my answer is on its way.  A
\* card that glowed away comes back when its confirm fails (the effects of
\* SettlementClaimCard and AggregateClaimCard).
NoClaimVanishes ==
  \A c \in Pending : here /\ c \in Listed(cache) => Answerable(c) \/ Flying(c)

\* When the screen is up to date, a share offered for "Mark Paid" can be
\* claimed, unless THEIR settle-up nets it (readyToSettle looks only at
\* settle-ups of mine).
UpToDate == here /\ \A q \in Query : cache[q] = Reads(q)
OfferIsHonest ==
  UpToDate => \A s \in Ready(cache) :
    Taken(s) => \E c \in Pending : /\ claim[c].by = "they" /\ claim[c].pair
                                   /\ s \in claim[c].covers

\* A card that filed its claim gives way to the list of pending claims, or
\* the claim is decided first (useSettleExpense invalidates both lists).
Unlisted(i) == /\ call[i].state = "ok"
               /\ claim[call[i].filed].status = "pending"
               /\ call[i].of \notin Filed(cache)
FiledCardGivesWay == \A i \in Calls : Unlisted(i) ~> ~Unlisted(i)

\* GroupLedgerScreen, readyToSettle: "Expenses covered by a pending settle-up
\* with their payer are spoken for (WS6): Mark Paid would always 409, so
\* don't offer it."
NeverDoomedOffer == UpToDate => \A s \in Ready(cache) : ~Taken(s)

\* handleMarkPaid: "immediately shows "awaiting confirmation" state, then
\* sends the actual API request": a card that awaits an answer has a toast
\* that will send the claim, or sent it.
AwaitingIsBacked ==
  \A s \in Mine : card[s].awaiting =>
    \/ toast[s].state # "none" /\ toast[s].own
    \/ card[s].status # "idle"
=============================================================================
