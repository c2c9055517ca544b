---------------------------- MODULE MCNotifications ----------------------------
(* The two halves of features/notifications: the settings with the push      *)
(* subscription, and the nudge engine.  They share only the preferences row, *)
(* of which the engine reads whether reminders are on.  A behaviour follows  *)
(* one half, the subject; the other stands still.  The engine is looked at   *)
(* over one share, with what users choose, and over two of one debtor.       *)
EXTENDS NotificationSettings, TLC

VARIABLES subject, now, debt, enabled, ladder, tx, choices, said, last, asked,
          doubtful

engine == <<now, debt, enabled, ladder, tx, choices, said, last, asked, doubtful>>
all == <<subject, vars, engine>>

Owed(n) == [debtor |-> "ann", creditor |-> "bob", amount |-> n]

\* Quiet hours of the debtor, on one day or over midnight; start = end is none
QuietFor(start, end) ==
  [u \in {"ann", "bob"} |-> IF u = "ann" THEN [start |-> start, end |-> end]
                                         ELSE [start |-> 0, end |-> 0]]

One == INSTANCE Nudges WITH
  Users <- {"ann", "bob"}, Splits <- {Owed(2)}, Window <- QuietFor(2, 3),
  Day <- 5, Level1After <- 1, Level2After <- 2, Cooldown <- 2,
  Level2Cooldown <- 1, MaxLevel2 <- 2, MinAmount <- 1, Snooze <- 1,
  Tx <- {"t1", "t2"}, Horizon <- 5, MaxSaid <- 4, MaxChoices <- 1, row <- ladder

Two == INSTANCE Nudges WITH
  Users <- {"ann", "bob"}, Splits <- {Owed(2), Owed(3)}, Window <- QuietFor(4, 1),
  Day <- 5, Level1After <- 1, Level2After <- 2, Cooldown <- 2,
  Level2Cooldown <- 1, MaxLevel2 <- 2, MinAmount <- 1, Snooze <- 1,
  Tx <- {"t1", "t2"}, Horizon <- 4, MaxSaid <- 4, MaxChoices <- 0, row <- ladder

Symmetry == Permutations(Change)

\* The half that stands still is in one of its first states.
StartsWith ==
  \/ subject = "settings" /\ Init /\ One!Init /\ \A s \in DOMAIN debt : debt[s] = 0
  \/ subject = "one share" /\ One!Init /\ Init /\ device = NoEndpoint
                           /\ permission = "default" /\ prompt = "hidden"
  \/ subject = "two shares" /\ Two!Init /\ Init /\ device = NoEndpoint
                            /\ permission = "default" /\ prompt = "hidden"

SettingsNext == subject = "settings" /\ Next /\ UNCHANGED <<subject, engine>>
OneNext == subject = "one share" /\ One!Next /\ UNCHANGED <<subject, vars>>
TwoNext == subject = "two shares" /\ Two!Next /\ UNCHANGED <<subject, vars>>

Notifications == StartsWith /\ [][SettingsNext \/ OneNext \/ TwoNext]_all

-----------------------------------------------------------------------------
\* Two reminders about one relationship keep the cooldown of the first one's
\* level, through snoozes, cleared debts and new ones (run_nudge_sweep).
CooldownKept == [][Two!KeepsCooldown]_all

\* Nobody gets more than the Level 2 reminders allowed about one debt
\* (is_exhausted).
LadderEnds == One!LadderEnds


-----------------------------------------------------------------------------
(* Named in the cfg in place of the others, each of these is violated or,    *)
(* for the first two, holds.                                                 *)

\* The type invariants of both halves.
Types == TypeOK /\ (subject # "two shares" => One!TypeOK)
                /\ (subject = "two shares" => Two!TypeOK)

\* What a sweep or a confirmation writes does not undo a mute or a snooze that
\* was made meanwhile (update_nudge_relationship).
SilenceStays == [][One!KeepsSilence]_all

\* A sweep that runs again sends nothing twice (service.py:495-496).
NothingTwice == [][One!SendsNothingTwice]_all

\* The first reminder about a debt is of Level 1 (service.py:743-746).
OpensGently == Two!OpensGently

\* A creditor is told only of a debt that some reminder reached the debtor
\* about (service.py:668-671).
OnlyIfAsked == [][Two!TellsIfAsked]_all
=============================================================================
