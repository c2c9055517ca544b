---------------------------- MODULE ReviewScreens ----------------------------
(* What one member sees of the expenses that wait for confirmation, and the  *)
(* answers given from the list on /pending: PendingConfirmationsList, the    *)
(* balance header of the group screen and the dashboard, over react-query.   *)
(*                                                                           *)
(* The server's states are kept in a log, so that a cached answer is the     *)
(* number of the state it was read from.  How requests interleave inside the *)
(* server is the subject of Consent: an answer is one step here.             *)
EXTENDS Integers, Sequences, FiniteSetsExt

CONSTANTS Expenses,    \* 1 .. n, in the order they are added
          Me, Others,  \* the members: all of them share every expense
          Payer,       \* Payer[e]
          Share,       \* Share[e][m]
          Screens,     \* the screens visited
          LedgerLimit, \* the limit of useGroupExpenses
          Slots,       \* bound: answers of mine under way
          MaxWrites    \* bound: changes at the server

Members == Others \cup {Me}

VARIABLES log,      \* the server's states: status and confirmed splits by expense
          online,   \* navigator.onLine
          screen,   \* the screen shown, or Elsewhere
          cache,    \* query cache: the state an answer was read from, or NoData
          fly,      \* the fetch of a query: Idle, Paused, Asked, or the state read
          failed,   \* the queries whose last fetch failed
          sent,     \* my answers under way
          floor     \* history: the last state written by an answer of mine that a
                    \* query was invalidated for while it was shown

vars == <<log, online, screen, cache, fly, failed, sent, floor>>

NoData    == 0
Idle      == 0
Asked     == -1
Paused    == -2
Elsewhere == "elsewhere"
None      == [reply |-> "none"]
Versions  == 1 .. MaxWrites + 1
Now       == log[Len(log)]
Amount(e) == MapThenSumSet(LAMBDA m : Share[e][m], Members)

Watched == CASE screen = "pending"   -> {"pending-confirmations"}
             [] screen = "dashboard" -> {"dashboard"}
             [] screen = "group"     -> {"detail", "ledger"}
             [] OTHER                -> {}

Queries == {"pending-confirmations", "dashboard", "detail", "ledger"}

-----------------------------------------------------------------------------
(* What the server answers, of one of its states.                          *)

\* get_pending_confirmations_for_user
Pending(s) == {e \in Expenses : s[e].status = "PENDING_CONFIRMATION" /\ Me \notin s[e].agreed}

\* get_group_net_balance, the dashboard's figure as well
NetBalance(s) ==
  LET counted == {e \in Expenses : s[e].status = "CONFIRMED"}
      owes(e) == Share[e][Me]
      owed(e) == IF Payer[e] = Me THEN Amount(e) ELSE 0
  IN  MapThenSumSet(owed, counted) - MapThenSumSet(owes, counted)

\* get_group_expenses: the newest rows of the group, at most LedgerLimit
Ledger(s) ==
  {e \in Expenses : /\ s[e].status # "NONE"
                    /\ Cardinality({f \in Expenses : f > e /\ s[f].status # "NONE"}) < LedgerLimit}


\* GroupLedgerScreen: what a pending expense of the ledger adds to the label
PendingNet(s, e) ==
  IF Payer[e] = Me THEN Amount(e) - Share[e][Me]
  ELSE IF Me \in s[e].agreed THEN 0 ELSE -Share[e][Me]

PendingLabel(s) ==
  MapThenSumSet(LAMBDA e : PendingNet(s, e),
                {e \in Ledger(s) : s[e].status = "PENDING_CONFIRMATION"})

-----------------------------------------------------------------------------
(* react-query: fetches wait while the browser is offline.                 *)

Start == IF online THEN Asked ELSE Paused

\* A screen that is shown asks for its queries, and joins a fetch under way.
Mount(qs) ==
  /\ fly' = [q \in Queries |-> IF q \in qs /\ fly[q] = Idle THEN Start ELSE fly[q]]
  /\ failed' = {q \in failed : q \notin qs \/ fly[q] # Idle \/ cache[q] # NoData}

\* Slip: an invalidated query joins the fetch that is under way.
Joined(q) == IF fly[q] = Idle THEN Start ELSE fly[q]

\* An invalidated query that is shown drops its fetch and asks again.
Restarted(q) == Start

\* The keys the two mutations invalidate, of the queries here: "expenses" is the
\* prefix of the ledger's key; nothing invalidates ["groups", id, "detail"].
Invalidated == {"pending-confirmations", "dashboard", "ledger"}

Loading(q) == cache[q] = NoData /\ fly[q] \notin {Idle, Paused}

\* PendingConfirmationsList, in the order of its returns
View ==
  LET q == "pending-confirmations"
  IN  CASE Loading(q)                      -> "loading"
        [] ~Loading(q) /\ q \in failed      -> "error"
        [] ~Loading(q) /\ q \notin failed
             /\ (cache[q] = NoData \/ Pending(log[cache[q]]) = {}) -> "caught up"
        [] OTHER                           -> "cards"

\* The hooks are the list's own, so one answer under way disables every card.
Processing == \E i \in Slots : sent[i] # None /\ sent[i].mine

-----------------------------------------------------------------------------
Absent == [status |-> "NONE", agreed |-> {}]
Offered == [status |-> "PENDING_CONFIRMATION", agreed |-> {}]

Init ==
  /\ log = <<[e \in Expenses |-> Absent]>>
  /\ online = TRUE
  /\ screen = Elsewhere
  /\ cache = [q \in Queries |-> NoData]
  /\ fly = [q \in Queries |-> Idle]
  /\ failed = {}
  /\ sent = [i \in Slots |-> None]
  /\ floor = [q \in Queries |-> NoData]

Write(e, row) ==
  /\ Len(log) <= MaxWrites
  /\ log' = Append(log, [Now EXCEPT ![e] = row])

Agreed(row, m) ==
  LET all == row.agreed \cup {m}
  IN  [status |-> IF all = Members THEN "CONFIRMED" ELSE row.status, agreed |-> all]

Rejected == [status |-> "DRAFT", agreed |-> {}]

\* The creator offers the next expense, or offers one again with another split.
Offer(e) ==
  /\ Now[e].status # "CONFIRMED"
  /\ \A f \in Expenses : f < e => Now[f].status # "NONE"
  /\ Write(e, Offered)
  /\ UNCHANGED <<online, screen, cache, fly, failed, sent, floor>>

\* An answer from another device, mine or another member's, or the sweep's
\* confirmation of everybody left.
AnsweredElsewhere(e) ==
  /\ Now[e].status = "PENDING_CONFIRMATION"
  /\ \/ \E m \in Members : Write(e, Agreed(Now[e], m))
     \/ Write(e, Rejected)
     \/ Write(e, [status |-> "CONFIRMED", agreed |-> Members])
  /\ UNCHANGED <<online, screen, cache, fly, failed, sent, floor>>

Show(x) ==
  /\ screen = Elsewhere
  /\ screen' = x
  /\ Mount(Watched')
  /\ UNCHANGED <<log, online, cache, sent, floor>>

\* Slip: the answers outlive the list that sent them.
StillMine(i) == sent[i]

Forgotten(i) == IF sent[i] = None THEN None ELSE [sent[i] EXCEPT !.mine = FALSE]

\* The list forgets the answers it sent; they go on.
Leave ==
  /\ screen # Elsewhere
  /\ screen' = Elsewhere
  /\ sent' = [i \in Slots |-> Forgotten(i)]
  /\ UNCHANGED <<log, online, cache, fly, failed, floor>>

GoOffline ==
  /\ online
  /\ online' = FALSE
  /\ UNCHANGED <<log, screen, cache, fly, failed, sent, floor>>

\* Paused fetches go on, and what is shown is asked for again.
GoOnline ==
  /\ ~online
  /\ online' = TRUE
  /\ fly' = [q \in Queries |->
               IF fly[q] = Paused \/ (q \in Watched /\ fly[q] = Idle) THEN Asked ELSE fly[q]]
  /\ failed' = {q \in failed : q \notin Watched \/ cache[q] # NoData}
  /\ UNCHANGED <<log, screen, cache, sent, floor>>

\* The window gets the focus.
Focus ==
  /\ \E q \in Watched : fly[q] = Idle
  /\ Mount(Watched)
  /\ UNCHANGED <<log, online, screen, cache, sent, floor>>

ServeFetch(q) ==
  /\ fly[q] = Asked /\ online
  /\ fly' = [fly EXCEPT ![q] = Len(log)]
  /\ UNCHANGED <<log, online, screen, cache, failed, sent, floor>>

Arrive(q) ==
  /\ fly[q] \in Versions
  /\ cache' = [cache EXCEPT ![q] = fly[q]]
  /\ fly' = [fly EXCEPT ![q] = Idle]
  /\ failed' = failed \ {q}
  /\ UNCHANGED <<log, online, screen, sent, floor>>

\* The fetch and its retries fail; without a connection the retries wait.
FetchFails(q) ==
  /\ fly[q] = Asked \/ fly[q] \in Versions
  /\ fly' = [fly EXCEPT ![q] = IF online THEN Idle ELSE Paused]
  /\ failed' = IF online THEN failed \cup {q} ELSE failed
  /\ UNCHANGED <<log, online, screen, cache, sent, floor>>

\* Confirm or Reject on a card.
Press(i, e, reply) ==
  /\ screen = "pending" /\ View = "cards"
  /\ e \in Pending(log[cache["pending-confirmations"]])
  /\ ~Processing
  /\ sent[i] = None
  /\ sent' = [sent EXCEPT ![i] = [reply |-> reply, expense |-> e, at |-> NoData, mine |-> TRUE]]
  /\ UNCHANGED <<log, online, screen, cache, fly, failed, floor>>

\* The server takes the answer if the expense still waits for anybody's.
ServeAnswer(i) ==
  /\ sent[i] # None /\ sent[i].at = NoData /\ online
  /\ LET e == sent[i].expense
     IN  /\ Now[e].status = "PENDING_CONFIRMATION"
         /\ Write(e, IF sent[i].reply = "confirm" THEN Agreed(Now[e], Me) ELSE Rejected)
         /\ sent' = [sent EXCEPT ![i].at = Len(log')]
  /\ UNCHANGED <<online, screen, cache, fly, failed, floor>>

\* onSuccess, whatever is on screen by then
Answered(i) ==
  /\ sent[i] # None /\ sent[i].at # NoData /\ online
  /\ LET shown == Watched \cap Invalidated
     IN  /\ fly' = [q \in Queries |-> IF q \in shown THEN Restarted(q) ELSE fly[q]]
         /\ failed' = {q \in failed : q \notin shown \/ cache[q] # NoData}
         /\ floor' = [q \in Queries |-> IF q \in shown THEN Max({floor[q], sent[i].at}) ELSE floor[q]]
  /\ sent' = [sent EXCEPT ![i] = None]
  /\ UNCHANGED <<log, online, screen, cache>>

\* A refusal, a lost request or a lost answer: a toast, and nothing is invalidated.
AnswerFails(i) ==
  /\ sent[i] # None /\ online
  /\ sent' = [sent EXCEPT ![i] = None]
  /\ UNCHANGED <<log, online, screen, cache, fly, failed, floor>>

Next ==
  \/ \E e \in Expenses : \/ Offer(e)
                         \/ AnsweredElsewhere(e)
                         \/ \E i \in Slots, r \in {"confirm", "reject"} : Press(i, e, r)
  \/ \E x \in Screens : Show(x)
  \/ Leave
  \/ GoOffline
  \/ GoOnline
  \/ Focus
  \/ \E q \in Queries : \/ ServeFetch(q)
                        \/ Arrive(q)
                        \/ FetchFails(q)
  \/ \E i \in Slots : \/ ServeAnswer(i)
                      \/ Answered(i)
                      \/ AnswerFails(i)

Spec == Init /\ [][Next]_vars

-----------------------------------------------------------------------------
\* The types of the state; a card waits for its list's own answer only.
TypeOK ==
  /\ Len(log) \in Versions
  /\ \A k \in 1 .. Len(log) :
       log[k] \in [Expenses -> [status : {"NONE", "DRAFT", "PENDING_CONFIRMATION", "CONFIRMED"},
                                agreed : SUBSET Members]]
  /\ online \in BOOLEAN
  /\ screen \in Screens \cup {Elsewhere}
  /\ cache \in [Queries -> 0 .. Len(log)]
  /\ \A q \in Queries : fly[q] \in Paused .. Len(log)
  /\ failed \subseteq Queries
  /\ \A i \in Slots : sent[i] # None =>
       sent[i].at \in 0 .. Len(log) /\ (sent[i].mine => screen = "pending")

\* An answer that reached the screen stays: once nothing is under way, what is
\* shown was read after the answer was written, whatever fetches ran meanwhile.
\* Not promised: of an answer that arrives while its query is not on screen, since
\* invalidation leaves the fetch of such a query running.
NoOlderThanMyAnswer ==
  \A q \in Watched : (fly[q] = Idle /\ q \notin failed) => cache[q] >= floor[q]


\* GroupLedgerScreen.tsx:138-140: "balances only count CONFIRMED expenses [...]
\* Surface what's still awaiting confirmation": an expense of the answer that
\* awaits confirmation is in the figure below the balance.
PendingIsSurfaced ==
  LET k == cache["ledger"]
  IN  k # NoData =>
        \A e \in Ledger(log[k]) : log[k][e].status = "PENDING_CONFIRMATION" => PendingNet(log[k], e) # 0

\* PendingConfirmationsList.tsx:57-58: "All caught up! No expenses pending your
\* confirmation." is shown only on an answer that has none.
CaughtUpMeansNone ==
  (screen = "pending" /\ View = "caught up") => cache["pending-confirmations"] # NoData
=============================================================================
