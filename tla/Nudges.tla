-------------------------------- MODULE Nudges --------------------------------
(* The nudge engine (features/notifications/service.py): the sweep that      *)
(* reminds debtors, the ladder it climbs for every relationship, and the     *)
(* message to a creditor whose debt has cleared, sent by the confirmation of *)
(* a settlement.                                                             *)
(*                                                                           *)
(* Transactions are READ COMMITTED.  Nobody locks a nudge_state row to read  *)
(* it; the ORM's UPDATE writes the attributes that differ from the ones read *)
(* and keeps the row until the commit.  Messages leave before the commit.    *)
EXTENDS Integers, FiniteSetsExt

CONSTANTS
  Users,
  Splits,          \* the shares of confirmed expenses: [debtor, creditor, amount]
  Window,          \* Window[u]: the quiet hours of u, [start, end]
  Day,             \* hours of a day
  Level1After, Level2After, Cooldown, Level2Cooldown,   \* NUDGE_... settings
  MaxLevel2,       \* NUDGE_LEVEL_2_MAX_REMINDERS
  MinAmount,       \* NUDGE_MIN_AMOUNT
  Snooze,          \* the snooze a user may pick
  Tx,              \* bound: transactions under way
  Horizon,         \* bound: the clock
  MaxSaid,         \* bound: Level 2 reminders about one debt
  MaxChoices       \* bound: mutes, snoozes and switches of reminders

VARIABLES
  now,
  debt,        \* Absent, Settled, or when the share's expense was confirmed
  enabled,     \* the users who have reminders on
  row,         \* nudge_state, by relationship
  tx,          \* what each transaction knows and has written
  choices,     \* how often a user changed something
  said,        \* history: the reminders about the debt of today
  last,        \* history: the last reminder
  asked,       \* history: the ladders begun and not yet announced as cleared
  doubtful     \* history: relationships two sweeps were at together, or whose
               \* message left without its record

vars == <<now, debt, enabled, row, tx, choices, said, last, asked, doubtful>>

Absent  == -2
Settled == -1
Never   == -1
Free    == [op |-> "none"]
NoRow   == [exists |-> FALSE]
Blank   == [exists |-> TRUE, at |-> Never, level |-> 0, twos |-> 0, muted |-> FALSE, until |-> 0]

Flip(p)  == <<p[2], p[1]>>
Of(s)    == <<s.debtor, s.creditor>>
Pairs    == UNION {{Of(s), Flip(Of(s))} : s \in Splits}

-----------------------------------------------------------------------------
(* Debts                                                                     *)

\* find_debt_relationships, of the shares that are open
Gross(open, p) == MapThenSumSet(LAMBDA s : s.amount, {s \in open : Of(s) = p})
Net(open, p)   == Gross(open, p) - Gross(open, Flip(p))
Open           == {s \in Splits : debt[s] >= 0}
Oldest(p)      == Min({debt[s] : s \in {t \in Open : Of(t) \in {p, Flip(p)}}})

Relationships ==
  {[pair |-> p, amount |-> Net(Open, p), oldest |-> Oldest(p), debt |-> said[p].debt] :
     p \in {q \in Pairs : Net(Open, q) > 0}}

\* is_within_quiet_hours: a window that starts after its end wraps midnight.
WithinQuietHours(u, at) ==
  LET w == Window[u]
      h == at % Day
  IN  \/ w.start < w.end /\ w.start <= h /\ h < w.end
      \/ w.start > w.end /\ (h >= w.start \/ h < w.end)

(* The ladder                                                                *)

Climbing(r)        == r # NoRow /\ r.level > 0
CooldownFor(level) == IF level = 2 THEN Level2Cooldown ELSE Cooldown

\* Slip: the cap allows one more.
OneMore(r) == r.level = 2 /\ r.twos > MaxLevel2

Exhausted(r)       == r.level = 2 /\ r.twos >= MaxLevel2

NextLevel(r, age) == IF r.level = 2 \/ (r.level = 1 /\ age >= Level2After) THEN 2 ELSE 1

Suppressed(r, u, at) ==
  \/ r.muted \/ r.until > at
  \/ Exhausted(r)
  \/ r.at # Never /\ at - r.at < CooldownFor(r.level)
  \/ WithinQuietHours(u, at)

Climbed(r, level, at) ==
  [r EXCEPT !.at = at, !.level = level, !.twos = IF level = 2 THEN @ + 1 ELSE @]

\* Slip: the cooldown is forgotten with the ladder.
ForgetsCooldown(r) == [r EXCEPT !.level = 0, !.twos = 0, !.at = Never]


\* The ladder ends; the cooldown survives it.
Reset(r) == [r EXCEPT !.level = 0, !.twos = 0]

\* Slip: the row is written as it was read.
WholeRow(current, w) == w.new

\* The ORM's UPDATE, or the INSERT of a row that was not there
Written(current, w) ==
  IF current = NoRow THEN w.new
  ELSE [f \in DOMAIN current |-> IF w.new[f] # w.read[f] THEN w.new[f] ELSE current[f]]

\* Slip: nobody waits for a row.
Unheld(t, p) == FALSE

\* The relationships a transaction has written, and holds until it ends
Holds(t)     == IF tx[t] = Free THEN {} ELSE DOMAIN tx[t].writes
Held(t, p)   == \E u \in Tx \ {t} : p \in Holds(u)
Sets(f, p, w) == [q \in DOMAIN f \cup {p} |-> IF q = p THEN w ELSE f[q]]
Commit(t)    == [p \in Pairs |-> IF p \in Holds(t) THEN Written(row[p], tx[t].writes[p]) ELSE row[p]]

Sweeping(t)  == tx[t].op = "sweep"
Current(t)   == tx[t].entry.pair
At(t)        == tx[t].at

\* Another sweep has read the relationship and not ended.
AtWork(t, p) ==
  \E u \in Tx \ {t} : Sweeping(u) /\ (p \in Holds(u) \/ (tx[u].phase \in {"say", "flush"} /\ Current(u) = p))

NewDebt(n) == [debt |-> n, first |-> 0, twos |-> 0, reached |-> FALSE]

-----------------------------------------------------------------------------
Init ==
  /\ now = 0
  /\ debt \in [Splits -> {Absent, 0}]
  /\ enabled = Users
  /\ row = [p \in Pairs |-> NoRow]
  /\ tx = [t \in Tx |-> Free]
  /\ choices = 0
  /\ said = [p \in Pairs |-> NewDebt(0)]
  /\ last = [p \in Pairs |-> [at |-> Never, level |-> 0]]
  /\ asked = {}
  /\ doubtful = {}

\* A tick is the best part of a day, a transaction a matter of minutes.
Tick ==
  /\ now < Horizon
  /\ \A t \in Tx : tx[t] = Free
  /\ now' = now + 1
  /\ UNCHANGED <<debt, enabled, row, tx, choices, said, last, asked, doubtful>>

\* The debts after a change of the shares; ended: those a confirmation closed
Debts(open, ended) ==
  said' = [p \in Pairs |->
             IF p \in ended \/ (Net(Open, p) <= 0 /\ Net(open, p) > 0)
             THEN NewDebt(said[p].debt + 1) ELSE said[p]]

\* The last member confirms an expense.
ExpenseConfirmed(s) ==
  /\ debt[s] = Absent
  /\ debt' = [debt EXCEPT ![s] = now]
  /\ Debts(Open \cup {s}, {})
  /\ UNCHANGED <<now, enabled, row, tx, choices, last, asked, doubtful>>

\* PUT /preferences
SwitchReminders(u) ==
  /\ choices < MaxChoices /\ choices' = choices + 1
  /\ enabled' = IF u \in enabled THEN enabled \ {u} ELSE enabled \cup {u}
  /\ UNCHANGED <<now, debt, row, tx, said, last, asked, doubtful>>

\* PUT /relationships/{group}/{counterparty}; it waits for the row.
Choose(p) ==
  /\ choices < MaxChoices /\ choices' = choices + 1
  /\ \A t \in Tx : p \notin Holds(t)
  /\ LET r == IF row[p] = NoRow THEN Blank ELSE row[p]
     IN  \/ row' = [row EXCEPT ![p] = [r EXCEPT !.muted = ~@]]
         \/ row' = [row EXCEPT ![p] = [r EXCEPT !.until = now + Snooze]]
         \/ row' = [row EXCEPT ![p] = [r EXCEPT !.until = 0]]
  /\ UNCHANGED <<now, debt, enabled, tx, said, last, asked, doubtful>>

-----------------------------------------------------------------------------
(* run_nudge_sweep                                                           *)

BeginSweep(t) ==
  /\ tx[t] = Free
  /\ tx' = [tx EXCEPT ![t] =
       [op |-> "sweep", at |-> now, phase |-> "pick", writes |-> <<>>,
        todo |-> {e \in Relationships : e.amount >= MinAmount /\ now - e.oldest >= Level1After}]]
  /\ UNCHANGED <<now, debt, enabled, row, choices, said, last, asked, doubtful>>

\* The entry is dropped, or a message of some level about it is due.
Decide(t, e, r) ==
  LET taken == [tx[t] EXCEPT !.todo = @ \ {e}, !.phase = "pick"]
      said1 == [op |-> "sweep", at |-> At(t), phase |-> "say", todo |-> taken.todo,
                writes |-> taken.writes, entry |-> e, read |-> r,
                level |-> NextLevel(r, At(t) - e.oldest)]
      due   == e.pair[1] \in enabled /\ ~Suppressed(r, e.pair[1], At(t))
  IN  /\ tx' = [tx EXCEPT ![t] = IF due THEN said1 ELSE taken]
      /\ doubtful' = IF due /\ AtWork(t, e.pair) THEN doubtful \cup {e.pair} ELSE doubtful

\* The state of the next relationship is read, whatever its order in the query.
Look(t, e) ==
  /\ Sweeping(t) /\ tx[t].phase = "pick"
  /\ e \in tx[t].todo
  /\ row[e.pair] # NoRow \/ e.pair[1] \notin enabled
  /\ Decide(t, e, IF row[e.pair] = NoRow THEN Blank ELSE row[e.pair])
  /\ UNCHANGED <<now, debt, enabled, row, choices, said, last, asked>>

\* There is none: one is inserted, once no other insert of it is open.
LookInVain(t, e) ==
  /\ Sweeping(t) /\ tx[t].phase = "pick"
  /\ e \in tx[t].todo
  /\ row[e.pair] = NoRow /\ e.pair[1] \in enabled
  /\ tx' = [tx EXCEPT ![t] = [op |-> "sweep", at |-> At(t), phase |-> "insert", entry |-> e,
                              todo |-> tx[t].todo, writes |-> tx[t].writes]]
  /\ UNCHANGED <<now, debt, enabled, row, choices, said, last, asked, doubtful>>

Insert(t) ==
  /\ Sweeping(t) /\ tx[t].phase = "insert"
  /\ LET e == tx[t].entry
         d == WithinQuietHours(e.pair[1], At(t))
         w == Sets(tx[t].writes, e.pair, [read |-> Blank, new |-> Blank])
         skip == [op |-> "sweep", at |-> At(t), phase |-> "pick", todo |-> tx[t].todo \ {e}, writes |-> w]
         say == [op |-> "sweep", at |-> At(t), phase |-> "say", todo |-> tx[t].todo \ {e},
                 writes |-> w, entry |-> e, read |-> Blank, level |-> 1]
     IN  /\ row[e.pair] = NoRow /\ ~Held(t, e.pair)
         /\ tx' = [tx EXCEPT ![t] = IF d THEN skip ELSE say]
  /\ UNCHANGED <<now, debt, enabled, row, choices, said, last, asked, doubtful>>

\* Delivery, on whatever channels: reached, or not
Deliver(t, reached) ==
  /\ Sweeping(t) /\ tx[t].phase = "say"
  /\ LET p == Current(t)
     IN  /\ said[p].twos < MaxSaid
         /\ said' = IF said[p].debt # tx[t].entry.debt THEN said ELSE
              [said EXCEPT ![p] = [debt |-> @.debt, first |-> IF @.first = 0 THEN tx[t].level ELSE @.first,
                                   twos |-> IF tx[t].level = 2 THEN @.twos + 1 ELSE @.twos,
                                   reached |-> @.reached \/ reached]]
         /\ last' = [last EXCEPT ![p] = [at |-> At(t), level |-> tx[t].level]]
  /\ tx' = [tx EXCEPT ![t].phase = "flush"]
  /\ UNCHANGED <<now, debt, enabled, row, choices, asked, doubtful>>

\* The ladder's row is written, before the next query or at the commit.
Flush(t) ==
  /\ Sweeping(t) /\ tx[t].phase = "flush"
  /\ LET p == Current(t)
         w == [read |-> tx[t].read, new |-> Climbed(tx[t].read, tx[t].level, At(t))]
     IN  /\ ~Held(t, p)
         /\ tx' = [tx EXCEPT ![t] = [op |-> "sweep", at |-> At(t), phase |-> "pick",
                                     todo |-> tx[t].todo, writes |-> Sets(tx[t].writes, p, w)]]
  /\ UNCHANGED <<now, debt, enabled, row, choices, said, last, asked, doubtful>>

EndSweep(t) ==
  /\ Sweeping(t) /\ tx[t].phase = "pick" /\ tx[t].todo = {}
  /\ row' = Commit(t)
  /\ asked' = asked \cup {p \in Pairs : ~Climbing(row[p]) /\ Climbing(row'[p])}
  /\ tx' = [tx EXCEPT ![t] = Free]
  /\ UNCHANGED <<now, debt, enabled, choices, said, last, doubtful>>

-----------------------------------------------------------------------------
(* The confirmation of a settlement, and notify_debt_cleared                 *)

Confirming(t) == tx[t].op = "confirm"
Pair(t)       == Of(tx[t].split)

\* The claim of a share is confirmed; the share's lock keeps a second one off.
BeginConfirm(t, s) ==
  /\ tx[t] = Free
  /\ s \in Open
  /\ \A u \in Tx : ~(Confirming(u) /\ tx[u].split = s)
  /\ tx' = [tx EXCEPT ![t] = [op |-> "confirm", split |-> s, phase |-> "ladder",
                              read |-> Blank, told |-> FALSE, writes |-> <<>>]]
  /\ UNCHANGED <<now, debt, enabled, row, choices, said, last, asked, doubtful>>

\* Rules 1 and 3: only if a ladder is running
SeeLadder(t) ==
  /\ Confirming(t) /\ tx[t].phase = "ladder"
  /\ LET r == row[Pair(t)]
     IN  tx' = [tx EXCEPT ![t] = IF Climbing(r) THEN [@ EXCEPT !.phase = "debts", !.read = r]
                                 ELSE [@ EXCEPT !.phase = "done"]]
  /\ UNCHANGED <<now, debt, enabled, row, choices, said, last, asked, doubtful>>

\* Rule 2: only if nothing else is owed, as far as this transaction can see
SeeDebts(t) ==
  /\ Confirming(t) /\ tx[t].phase = "debts"
  /\ tx' = [tx EXCEPT ![t].phase =
              IF Net(Open \ {tx[t].split}, Pair(t)) > 0 THEN "done" ELSE "reset"]
  /\ UNCHANGED <<now, debt, enabled, row, choices, said, last, asked, doubtful>>

\* The ladder is reset, whether or not the creditor wants to hear of it.
FlushReset(t) ==
  /\ Confirming(t) /\ tx[t].phase = "reset"
  /\ ~Held(t, Pair(t))
  /\ tx' = [tx EXCEPT ![t] =
       [@ EXCEPT !.writes = Sets(<<>>, Pair(t), [read |-> tx[t].read, new |-> Reset(tx[t].read)]),
                 !.phase = IF Pair(t)[2] \in enabled THEN "tell" ELSE "done"]]
  /\ UNCHANGED <<now, debt, enabled, row, choices, said, last, asked, doubtful>>

Tell(t) ==
  /\ Confirming(t) /\ tx[t].phase = "tell"
  /\ tx' = [tx EXCEPT ![t].phase = "done", ![t].told = TRUE]
  /\ asked' = asked \ {Pair(t)}
  /\ UNCHANGED <<now, debt, enabled, row, choices, said, last, doubtful>>

\* The savepoint takes back the notification's writes, not the message.
NotifyFails(t) ==
  /\ Confirming(t) /\ tx[t].phase \in {"reset", "tell", "done"}
  /\ tx[t].phase = "reset" \/ tx[t].writes # <<>>
  /\ doubtful' = IF tx[t].told THEN doubtful \cup {Pair(t)} ELSE doubtful
  /\ tx' = [tx EXCEPT ![t].phase = "done", ![t].writes = <<>>]
  /\ UNCHANGED <<now, debt, enabled, row, choices, said, last, asked>>

EndConfirm(t) ==
  /\ Confirming(t) /\ tx[t].phase = "done"
  /\ debt' = [debt EXCEPT ![tx[t].split] = Settled]
  /\ Debts(Open \ {tx[t].split}, Holds(t))
  /\ row' = Commit(t)
  /\ tx' = [tx EXCEPT ![t] = Free]
  /\ UNCHANGED <<now, enabled, choices, last, asked, doubtful>>

\* A crash, a deadlock's victim, or a unique constraint refuses: nothing is
\* recorded of the messages that left.
Abort(t) ==
  /\ tx[t] # Free
  /\ LET p == {q \in Pairs : \/ q \in Holds(t)
                             \/ Sweeping(t) /\ tx[t].phase = "flush" /\ Current(t) = q}
     IN  doubtful' = IF Sweeping(t) \/ tx[t].told THEN doubtful \cup p ELSE doubtful
  /\ tx' = [tx EXCEPT ![t] = Free]
  /\ UNCHANGED <<now, debt, enabled, row, choices, said, last, asked>>

Next ==
  \/ Tick
  \/ \E s \in Splits : \/ ExpenseConfirmed(s)
                       \/ \E t \in Tx : BeginConfirm(t, s)
  \/ \E u \in Users : SwitchReminders(u)
  \/ \E p \in Pairs : Choose(p)
  \/ \E t \in Tx :
       \/ BeginSweep(t)
       \/ Sweeping(t) /\ tx[t].phase = "pick" /\ \E e \in tx[t].todo : Look(t, e) \/ LookInVain(t, e)
       \/ Insert(t)
       \/ \E reached \in BOOLEAN : Deliver(t, reached)
       \/ Flush(t)
       \/ EndSweep(t)
       \/ SeeLadder(t)
       \/ SeeDebts(t)
       \/ FlushReset(t)
       \/ Tell(t)
       \/ NotifyFails(t)
       \/ EndConfirm(t)
       \/ Abort(t)

Spec == Init /\ [][Next]_vars

-----------------------------------------------------------------------------
\* The types of the state; no two transactions have written one row.
TypeOK ==
  /\ now \in 0 .. Horizon
  /\ debt \in [Splits -> Absent .. Horizon]
  /\ enabled \subseteq Users /\ doubtful \subseteq Pairs
  /\ \A p \in Pairs : row[p] # NoRow =>
       /\ row[p].at \in Never .. Horizon /\ row[p].level \in 0 .. 2
       /\ row[p].twos \in 0 .. Horizon
  /\ \A t, u \in Tx : t # u => Holds(t) \cap Holds(u) = {}

\* Two reminders about one relationship keep the cooldown of the first one's level,
\* through snoozes, cleared debts and new ones, unless two sweeps were at the
\* relationship together or a sweep failed after its message had left.
KeepsCooldown ==
  \A t \in Tx, reached \in BOOLEAN :
    (Deliver(t, reached) /\ Current(t) \notin doubtful /\ last[Current(t)].at # Never) =>
      At(t) - last[Current(t)].at >= CooldownFor(last[Current(t)].level)
CooldownKept == [][KeepsCooldown]_vars

\* The ladder ends: nobody gets more than the Level 2 reminders allowed about one
\* debt, with the same exceptions.
LadderEnds == \A p \in Pairs \ doubtful : said[p].twos <= MaxLevel2

\* A mute or a snooze made while a sweep delivers or a settlement is confirmed is
\* not undone by what that transaction writes.
KeepsSilence ==
  \A p \in Pairs : (row[p] # NoRow /\ tx' # tx) =>
    row'[p].muted = row[p].muted /\ row'[p].until = row[p].until
SilenceStays == [][KeepsSilence]_vars

\* No ladder is announced as cleared twice, although confirmations of two claims may
\* each have read it as running, unless a message left and its record did not, or
\* the share is settled in the very hours its expense was confirmed in: it may be
\* owed too late for the one confirmation to see, and gone too early for the other.
AnnouncesOnce ==
  \A t \in Tx : Tell(t) =>
    Pair(t) \in asked \cup doubtful \/ debt[tx[t].split] = now

\* service.py:495-496: "running the sweep twice in a minute (a retried cron, an
\* impatient curl) sends nothing twice."
SendsNothingTwice ==
  \A t \in Tx, reached \in BOOLEAN :
    (Deliver(t, reached) /\ last[Current(t)].at # Never) => last[Current(t)].at # At(t)
NothingTwice == [][SendsNothingTwice]_vars

\* service.py:743-746: no "stale ladder that would resume mid-escalation on the
\* relationship's next debt": the first reminder about a debt is of Level 1.
OpensGently == \A p \in Pairs : said[p].first # 2

\* service.py:668: "Only if the agent actually asked": a creditor is told of a
\* debt that some reminder reached the debtor about.
TellsIfAsked == \A t \in Tx : Tell(t) => said[Pair(t)].reached
OnlyIfAsked == [][TellsIfAsked]_vars
=============================================================================
