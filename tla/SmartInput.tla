----------------------------- MODULE SmartInput -----------------------------
(***************************************************************************)
(* Adding an expense in plain words: SmartInputModal, the demo of the      *)
(* empty dashboard (OnboardingSandbox), the streaming client parse.ts, and *)
(* the server's monthly quota of free parses.                              *)
(*                                                                         *)
(* JavaScript runs one callback at a time, so a handler is one step up to  *)
(* its first await.  What follows an await runs whenever the answer        *)
(* arrives: by then the user may have closed the modal, opened it again,   *)
(* changed to the manual form or started another parse.  The modal         *)
(* component stays mounted while it is closed and keeps its state; the     *)
(* preview and the form inside it are unmounted and forget theirs.         *)
(*                                                                         *)
(* Texts, previews and expenses are abstracted to whether there is one and *)
(* which parse it comes from.  The editor inside the preview is the        *)
(* subject of SplitEditor.                                                 *)
(*                                                                         *)
(* A user with a key of his own (BYOK) is not metered and not modelled;    *)
(* the quota is that of one month.                                         *)
(***************************************************************************)
EXTENDS Naturals, FiniteSets

CONSTANTS
  MaxParses,     \* bound: parses started
  MaxCreates,    \* bound: create requests sent
  MaxOpenings,   \* bound: how often the modal is opened
  MaxTimers,     \* bound: reset timers of backdrop closes pending at once
  Quota          \* AI_FREE_MONTHLY_PARSES

ASSUME SmartInputAssumption ==
  {MaxParses, MaxCreates, MaxOpenings, MaxTimers, Quota} \subseteq Nat

VARIABLES
  member,    \* the user belongs to a group
  box,       \* what each place to type an expense shows
  mode,      \* the modal: "smart" or "manual"
  grouped,   \* the modal: a group is chosen
  timers,    \* pending setTimeout resets of handleClose
  opening,   \* how often the modal was opened
  cut,       \* parses whose AbortController was aborted
  parse,     \* the parses started so far
  usage,     \* parse_count of the ai_usage row of this month, if there is one
  create,    \* the POST /expenses requests sent so far
  sending    \* the create that the mounted preview or form waits for

vars == <<member, box, mode, grouped, timers, opening, cut, parse, usage, create,
          sending>>
form == <<member, mode, grouped, timers, opening>>

None == 0
Surface == {"modal", "sandbox"}
Parses == 1..MaxParses
Creates == 1..MaxCreates

Box == [open : BOOLEAN, text : BOOLEAN, waiting : BOOLEAN,
        status : {"placeholder", "loading", "ready", "error"},
        live : 0..MaxParses, shown : 0..MaxParses, said : 0..MaxParses]

Parse == [from : Surface, opening : 0..MaxOpenings,
          server : {"none", "arriving", "first", "reserved", "refused"},
          answer : {"open", "handled"}]
NotStarted == [from |-> "modal", opening |-> 0, server |-> "none",
               answer |-> "handled"]

Create == [of : 0..MaxParses, orphan : BOOLEAN,
           state : {"none", "sent", "stored", "refused", "ok", "failed",
                    "lost"}]
NotSent == [of |-> None, orphan |-> FALSE, state |-> "none"]

TypeOK ==
  /\ member \in BOOLEAN
  /\ box \in [Surface -> Box]
  /\ mode \in {"smart", "manual"}
  /\ grouped \in BOOLEAN
  /\ timers \in 0..MaxTimers
  /\ opening \in 0..MaxOpenings
  /\ cut \subseteq Parses
  /\ parse \in [Parses -> Parse]
  /\ usage \in {{}} \cup {{n} : n \in 0..Quota}
  /\ create \in [Creates -> Create]
  /\ sending \in 0..MaxCreates

-----------------------------------------------------------------------------
(* Pieces of state.                                                        *)

\* SmartInputModal's initial and reset state; live is abortRef
\* Slip: the spinner is not part of the reset
KeepSpinner(b) == [b EXCEPT !.text = FALSE, !.status = "placeholder",
                            !.shown = None, !.said = None]
Cleared(b) == [b EXCEPT !.text = FALSE, !.waiting = FALSE,
                        !.status = "placeholder", !.shown = None,
                        !.said = None]

Closed == [open |-> FALSE, text |-> FALSE, waiting |-> FALSE,
           status |-> "placeholder", live |-> None, shown |-> None,
           said |-> None]

\* ExpensePreviewCard: the editable preview is mounted
Previewing == /\ box["modal"].open
              /\ mode = "smart"
              /\ box["modal"].status = "ready"
              /\ box["modal"].shown # None
              /\ grouped

\* AICommentaryBubble: a bubble that has nothing to say yet
Thinking(b) == b.open /\ b.waiting /\ b.said = None

\* abortParse: the parses cut once surface s has aborted
\* Slip: abortRef is cleared but the controller is not told
ForgetOnly(s) == cut
Abort(s) == cut \cup ({box[s].live} \ {None})

\* The form that waited for its create is unmounted: the answer will find
\* the parent's handler but no form.
Orphaned(cs) == [c \in Creates |->
                   IF c = sending THEN [cs[c] EXCEPT !.orphan = TRUE]
                                  ELSE cs[c]]
Unmount == create' = Orphaned(create) /\ sending' = None
KeepForm == UNCHANGED <<create, sending>>

Init ==
  /\ member = FALSE
  /\ box = [s \in Surface |-> Closed]
  /\ mode = "smart"
  /\ grouped = FALSE
  /\ timers = 0
  /\ opening = 0
  /\ cut = {}
  /\ parse = [p \in Parses |-> NotStarted]
  /\ usage = {}
  /\ create = [c \in Creates |-> NotSent]
  /\ sending = None

-----------------------------------------------------------------------------
(* Opening and closing.                                                    *)

\* the floating button of _layout.tsx; the effect on open resets the modal
Open ==
  /\ ~box["modal"].open
  /\ opening < MaxOpenings
  /\ opening' = opening + 1
  /\ box' = [box EXCEPT !["modal"] = [Cleared(@) EXCEPT !.open = TRUE]]
  /\ mode' = "smart"
  /\ grouped' = FALSE
  /\ UNCHANGED <<member, timers, cut, parse, usage, create, sending>>

\* the parent has set open to false: the effect aborts, nothing is reset
Shut(b) == [b EXCEPT !.open = FALSE, !.live = None]

\* Escape, the X of the dialog
Dismiss ==
  /\ box["modal"].open
  /\ box' = [box EXCEPT !["modal"] = Shut(@)]
  /\ cut' = Abort("modal")
  /\ Unmount
  /\ UNCHANGED <<form, parse, usage>>

\* a tap on the backdrop: handleClose also starts a reset timer
CloseBackdrop ==
  /\ box["modal"].open
  /\ timers < MaxTimers
  /\ timers' = timers + 1
  /\ box' = [box EXCEPT !["modal"] = Shut(@)]
  /\ cut' = Abort("modal")
  /\ Unmount
  /\ UNCHANGED <<member, mode, grouped, opening, parse, usage>>

\* 200 ms later, whatever the modal is doing by then
ResetTimer ==
  /\ timers > 0
  /\ timers' = timers - 1
  /\ box' = [box EXCEPT !["modal"] = Cleared(@)]
  /\ mode' = "smart"
  /\ Unmount
  /\ UNCHANGED <<member, grouped, opening, cut, parse, usage>>

-----------------------------------------------------------------------------
(* Typing.                                                                 *)

Typed(s) ==
  /\ box[s].open
  /\ box' = [box EXCEPT ![s].text = TRUE]
  /\ UNCHANGED <<form, cut, parse, usage, create, sending>>

TypeText == mode = "smart" /\ Typed("modal")

\* the demo's text area, under its own commentary bubble
TypeSandbox == Typed("sandbox")

\* the selector lists the groups of the user
ChooseGroup ==
  /\ box["modal"].open
  /\ member /\ ~grouped
  /\ grouped' = TRUE
  /\ UNCHANGED <<member, box, mode, timers, opening, cut, parse, usage,
                 create, sending>>

\* Switch to Manual Form, Back to Smart Input
SwitchMode ==
  /\ box["modal"].open
  /\ mode' = IF mode = "smart" THEN "manual" ELSE "smart"
  /\ Unmount
  /\ UNCHANGED <<member, box, grouped, timers, opening, cut, parse, usage>>

\* handleDiscard of the preview; it does not abort and is never disabled
Discard ==
  /\ Previewing
  /\ box' = [box EXCEPT !["modal"] =
               [@ EXCEPT !.text = FALSE, !.status = "placeholder",
                         !.shown = None, !.said = None]]
  /\ Unmount
  /\ UNCHANGED <<form, cut, parse, usage>>

-----------------------------------------------------------------------------
(* Parsing, on the client.                                                 *)

Fresh(p) == parse[p] = NotStarted /\ \A q \in 1..p-1 : parse[q] # NotStarted

\* the common part of handleSmartSubmit and handleTry up to the await
StartParse(s, p) ==
  /\ box[s].open /\ box[s].text /\ ~box[s].waiting
  /\ Fresh(p)
  /\ cut' = Abort(s)
  /\ parse' = [parse EXCEPT ![p] =
                 [from |-> s, opening |-> opening, server |-> "arriving",
                  answer |-> "open"]]
  /\ box' = [box EXCEPT ![s] =
               [@ EXCEPT !.waiting = TRUE, !.status = "loading",
                         !.live = p, !.shown = None, !.said = None]]

SmartSubmit(p) ==
  /\ mode = "smart" /\ grouped
  /\ StartParse("modal", p)
  /\ Unmount
  /\ UNCHANGED <<form, usage>>

TrySandbox(p) ==
  /\ StartParse("sandbox", p)
  /\ KeepForm
  /\ UNCHANGED <<form, usage>>

\* An answer is handled only while its controller is not aborted.
\* Slip: the aborted check of the catch block is forgotten
Unanswered(p) == parse[p].answer = "open"
Heard(p) == parse[p].answer = "open" /\ p \notin cut

\* onCommentary
Commentary(p) ==
  /\ Heard(p) /\ parse[p].server = "reserved"
  /\ box' = [box EXCEPT ![parse[p].from].said = p]
  /\ UNCHANGED <<form, cut, parse, usage, create, sending>>

Handled(p) == parse' = [parse EXCEPT ![p].answer = "handled"]

\* parseExpense returned a complete event
ParseComplete(p) ==
  /\ Heard(p) /\ parse[p].server = "reserved"
  /\ Handled(p)
  /\ box' = [box EXCEPT ![parse[p].from] =
               [@ EXCEPT !.waiting = FALSE, !.status = "ready",
                         !.shown = p]]
  /\ UNCHANGED <<form, cut, usage, create, sending>>

\* an HTTP error, an error event, a stream that ends early or breaks off:
\* the catch block and the finally block
\* Slip: the finally block is forgotten
FailedBox(b) == [b EXCEPT !.status = "error", !.said = None]
\* Slip: the mutation's status name is taken for the box's
FailedStatus(b) == [b EXCEPT !.waiting = FALSE, !.status = "failed",
                             !.said = None]
ErrorBox(b) == [b EXCEPT !.waiting = FALSE, !.status = "error",
                         !.said = None]
ParseFails(p) ==
  /\ Heard(p)
  /\ Handled(p)
  /\ box' = [box EXCEPT ![parse[p].from] = ErrorBox(@)]
  /\ UNCHANGED <<form, cut, usage, create, sending>>

-----------------------------------------------------------------------------
(* The demo of the empty dashboard.                                        *)

\* the parsed result of the demo, read-only, with "Try another" below
DemoShown == box["sandbox"].open /\ box["sandbox"].status = "ready"

ResetSandbox ==
  /\ DemoShown
  /\ cut' = Abort("sandbox")
  /\ box' = [box EXCEPT !["sandbox"] = [Cleared(@) EXCEPT !.live = None]]
  /\ UNCHANGED <<form, parse, usage, create, sending>>

\* leaving the dashboard unmounts the demo; coming back mounts a new one
LeaveSandbox ==
  /\ box["sandbox"].open
  /\ cut' = Abort("sandbox")
  /\ box' = [box EXCEPT !["sandbox"] = Closed]
  /\ UNCHANGED <<form, parse, usage, create, sending>>

\* Dashboard shows the demo only to a user without groups
EnterSandbox ==
  /\ ~member
  /\ ~box["sandbox"].open
  /\ box' = [box EXCEPT !["sandbox"].open = TRUE]
  /\ UNCHANGED <<form, cut, parse, usage, create, sending>>

\* "Create your first group" leads to another page
JoinGroup ==
  /\ ~member
  /\ ~box["sandbox"].open
  /\ member' = TRUE
  /\ UNCHANGED <<box, mode, grouped, timers, opening, cut, parse, usage,
                 create, sending>>

-----------------------------------------------------------------------------
(* Parsing, on the server: consume_free_parse commits before the stream    *)
(* starts, whether or not the client is still there.                       *)

Reserve(p, n) ==
  \/ /\ n < Quota
     /\ usage' = {n + 1}
     /\ parse' = [parse EXCEPT ![p].server = "reserved"]
  \/ /\ n >= Quota
     /\ parse' = [parse EXCEPT ![p].server = "refused"]
     /\ UNCHANGED usage

\* the locking SELECT; a row that exists is counted up under its lock
ReadUsage(p) ==
  /\ parse[p].server = "arriving"
  /\ \/ /\ usage = {}
        /\ parse' = [parse EXCEPT ![p].server = "first"]
        /\ UNCHANGED usage
     \/ \E n \in usage : Reserve(p, n)
  /\ UNCHANGED <<box, form, cut, create, sending>>

\* the INSERT of the month's first parse, or of the one that lost that race
\* Slip: the loser of the race starts from its own row
CountFromOwnRow == 0
CountOnInsert == IF usage = {} THEN 0 ELSE CHOOSE n \in usage : TRUE
InsertUsage(p) ==
  /\ parse[p].server = "first"
  /\ Reserve(p, CountOnInsert)
  /\ UNCHANGED <<box, form, cut, create, sending>>

-----------------------------------------------------------------------------
(* Saving the expense.                                                     *)

Unsent(c) == create[c] = NotSent /\ \A d \in 1..c-1 : create[d] # NotSent
Send(c, p) ==
  /\ Unsent(c)
  /\ create' = [create EXCEPT ![c] =
                  [of |-> p, orphan |-> FALSE, state |-> "sent"]]
  /\ sending' = c

\* Confirm in EditableExpensePreview: not while isSubmitting
\* Slip: the button is not disabled while the request runs
Pressable == Previewing
Confirmable == Previewing /\ sending = None
ConfirmPreview(c) ==
  /\ Confirmable
  /\ Send(c, box["modal"].shown)
  /\ UNCHANGED <<box, form, cut, parse, usage>>

\* Add Expense in ExpenseForm: not while the mutation is pending
SubmitManual(c) ==
  /\ box["modal"].open /\ mode = "manual" /\ grouped
  /\ sending = None
  /\ Send(c, None)
  /\ UNCHANGED <<box, form, cut, parse, usage>>

Move(c, state) == create' = [create EXCEPT ![c].state = state]

\* the server stores the expense with its split, or refuses it
ServeCreate(c) ==
  /\ create[c].state = "sent"
  /\ \E outcome \in {"stored", "refused"} : Move(c, outcome)
  /\ UNCHANGED <<box, form, cut, parse, usage, sending>>

\* the rest of handleConfirm or of ExpenseForm.handleSubmit: closes the
\* modal, even one that was opened again since
CreateSucceeds(c) ==
  /\ create[c].state = "stored"
  /\ box' = [box EXCEPT !["modal"] =
               IF create[c].of = None THEN Shut(@)
               ELSE [Shut(@) EXCEPT !.text = FALSE, !.shown = None,
                                    !.status = "placeholder"]]
  /\ cut' = Abort("modal")
  /\ create' = [Orphaned(create) EXCEPT ![c] =
                  [create[c] EXCEPT !.state = "ok"]]
  /\ sending' = None
  /\ UNCHANGED <<form, parse, usage>>

\* refused, or the request or its answer was lost: the form stays for a
\* retry, which carries no key that would tell the server it is one
CreateFails(c) ==
  /\ \/ create[c].state \in {"sent", "refused"} /\ Move(c, "failed")
     \/ create[c].state = "stored" /\ Move(c, "lost")
  /\ sending' = IF sending = c THEN None ELSE sending
  /\ UNCHANGED <<box, form, cut, parse, usage>>

-----------------------------------------------------------------------------

Next ==
  \/ Open \/ Dismiss \/ CloseBackdrop \/ ResetTimer
  \/ ChooseGroup \/ SwitchMode \/ Discard
  \/ ResetSandbox \/ LeaveSandbox \/ EnterSandbox \/ JoinGroup
  \/ TypeText \/ TypeSandbox
  \/ \E p \in Parses : \/ SmartSubmit(p) \/ TrySandbox(p)
                       \/ Commentary(p) \/ ParseComplete(p) \/ ParseFails(p)
                       \/ ReadUsage(p) \/ InsertUsage(p)
  \/ \E c \in Creates : \/ ConfirmPreview(c) \/ SubmitManual(c)
                        \/ ServeCreate(c) \/ CreateSucceeds(c)
                        \/ CreateFails(c)

\* A request that nobody aborts ends: the server bounds the model call by
\* AI_PARSE_TIMEOUT_SECONDS, and a dead connection fails in the browser.
Fairness == \A p \in Parses : WF_vars(ParseComplete(p) \/ ParseFails(p))

Spec == Init /\ [][Next]_vars
FairSpec == Spec /\ Fairness

-----------------------------------------------------------------------------
(* Properties.                                                             *)

\* A parse that was not aborted and has not answered
InFlight(p) == parse[p].answer = "open" /\ p \notin cut

\* "Processing..." is shown only while a parse is on its way that will end
\* it: no sequence of closes, reopenings and timers leaves the submit
\* button disabled for good.
SpinnerIsAlive ==
  \A s \in Surface : box[s].open /\ box[s].waiting =>
    /\ box[s].live # None
    /\ InFlight(box[s].live)

\* Whatever resets the spinner early, a surface never has two parses whose
\* answers could overwrite each other.
OneLiveParse ==
  \A p, q \in Parses :
    InFlight(p) /\ InFlight(q) /\ parse[p].from = parse[q].from => p = q

\* What an open surface shows or says comes from the last parse started in
\* this very opening, and an error only from one: nothing of an aborted
\* parse or an earlier opening shows up.
NothingStale ==
  \A s \in Surface : box[s].open =>
    /\ {box[s].shown, box[s].said} \subseteq {None, box[s].live}
    /\ box[s].status = "error" =>
         box[s].live # None /\ ~InFlight(box[s].live)
    /\ s = "modal" /\ box[s].live # None =>
         parse[box[s].live].opening = opening

\* One preview becomes more than one expense only when the answer to an
\* earlier request was lost, or its form was left while it was running.
Made(p) == {c \in Creates : create[c].of = p
                            /\ create[c].state \in {"stored", "ok", "lost"}}
OneExpensePerPreview ==
  \A p \in Parses :
    Cardinality(Made(p)) <= 1 + Cardinality({c \in Creates :
      create[c].of = p /\ (create[c].orphan \/ create[c].state = "lost")})

\* Every parse that reaches the model is on the month's count, aborted ones
\* and the two that race for its first row included; none beyond the quota.
EveryParseCounted ==
  LET served == Cardinality({p \in Parses : parse[p].server = "reserved"})
  IN  /\ served <= Quota
      /\ usage = IF served = 0 THEN {} ELSE {served}

\* A spinner stops.
SpinnerStops ==
  \A s \in Surface : Thinking(box[s]) ~> ~Thinking(box[s])
=============================================================================
