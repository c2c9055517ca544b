-------------------------- MODULE SmartInputProofs --------------------------
(***************************************************************************)
(* What module SmartInput guarantees for any number of parses, requests,   *)
(* openings and pending timers and any quota, proved with TLAPS.           *)
(***************************************************************************)
EXTENDS SmartInput, FiniteSetTheorems, TLAPS

-----------------------------------------------------------------------------
(* The inductive invariant.                                                *)

Begun(p) == parse[p].server # "none"

\* The live parse of a surface was started there, a closed surface has none,
\* and no parse is in flight that is not the live one of its surface: every
\* way to start or leave a surface aborts the parse before it.
LiveInv ==
  /\ \A p \in cut : Begun(p)
  /\ \A p \in Parses : InFlight(p) => box[parse[p].from].live = p
  /\ \A s \in Surface :
       /\ box[s].live # None =>
            Begun(box[s].live) /\ parse[box[s].live].from = s
       /\ ~box[s].open => box[s].live = None

\* What a surface keeps from a parse is the parse of an answer; the demo is
\* unmounted when it is left and keeps nothing.
KeptInv ==
  /\ \A s \in Surface : box[s].shown # None =>
       Begun(box[s].shown) /\ parse[box[s].shown].answer = "handled"
  /\ ~box["sandbox"].open => box["sandbox"] = Closed

\* A request without an answer whose form is still there is the one the form
\* waits for, so there is one at most; its preview was answered.  A preview
\* that became an expense is not shown again, and no other request of it
\* can become one.
Waited(c) == create[c].state \in {"sent", "stored", "refused"}
Spent(c) == create[c].state = "ok" /\ ~create[c].orphan /\ create[c].of # None
SendInv ==
  /\ \A c \in Creates : create[c].state = "none" => create[c].of = None
  /\ \A c \in Creates : Waited(c) /\ ~create[c].orphan => sending = c
  /\ \A c \in Creates : create[c].of # None =>
       Begun(create[c].of) /\ parse[create[c].of].answer = "handled"
  /\ \A c \in Creates : Spent(c) =>
       /\ box["modal"].shown # create[c].of
       /\ \A d \in Creates :
            d # c /\ create[d].of = create[c].of /\ ~create[d].orphan =>
              create[d].state \in {"failed", "lost"}

IInv == /\ TypeOK
        /\ LiveInv /\ SpinnerIsAlive /\ NothingStale
        /\ KeptInv /\ SendInv
        /\ EveryParseCounted

-----------------------------------------------------------------------------
(* Type correctness.                                                       *)

LEMMA BoundsAreNumbers ==
  /\ MaxParses \in Nat /\ MaxCreates \in Nat /\ MaxOpenings \in Nat
  /\ MaxTimers \in Nat /\ Quota \in Nat
BY SmartInputAssumption

\* A counter below its bound may step up, one above zero down.
LEMMA CountersAreTyped ==
  ASSUME NEW max \in Nat, NEW n \in 0..max
  PROVE  /\ n < max => n + 1 \in 0..max
         /\ n > 0 => n - 1 \in 0..max
OBVIOUS

\* Every change of a surface leaves a surface.
LEMMA NumbersAreTyped ==
  /\ None \in 0..MaxParses /\ None \in 0..MaxCreates
  /\ Parses \subseteq 0..MaxParses /\ Creates \subseteq 0..MaxCreates
BY SmartInputAssumption DEF None, Parses, Creates

LEMMA ResetsAreTyped ==
  ASSUME NEW b \in Box
  PROVE  /\ Cleared(b) \in Box
         /\ Shut(b) \in Box
         /\ ErrorBox(b) \in Box
         /\ [Cleared(b) EXCEPT !.open = TRUE] \in Box
         /\ [Cleared(b) EXCEPT !.live = None] \in Box
         /\ [b EXCEPT !.text = TRUE] \in Box
         /\ [b EXCEPT !.open = TRUE] \in Box
         /\ [b EXCEPT !.text = FALSE, !.status = "placeholder",
                      !.shown = None, !.said = None] \in Box
         /\ [Shut(b) EXCEPT !.text = FALSE, !.shown = None,
                            !.status = "placeholder"] \in Box
<1>1. None \in 0..MaxParses
  BY NumbersAreTyped
<1>2. Cleared(b) \in Box
  BY <1>1 DEF Cleared, Box
<1>3. Shut(b) \in Box
  BY <1>1 DEF Shut, Box
<1>4. QED BY <1>1, <1>2, <1>3 DEF Box, ErrorBox

LEMMA AnswersAreTyped ==
  ASSUME NEW b \in Box, NEW p \in Parses
  PROVE  /\ [b EXCEPT !.said = p] \in Box
         /\ [b EXCEPT !.waiting = FALSE, !.status = "ready",
                      !.shown = p] \in Box
         /\ [b EXCEPT !.waiting = TRUE, !.status = "loading",
                      !.live = p, !.shown = None, !.said = None] \in Box
BY NumbersAreTyped DEF Box

LEMMA NothingIsTyped ==
  /\ NotStarted \in Parse /\ NotSent \in Create /\ Closed \in Box
BY NumbersAreTyped, SmartInputAssumption
   DEF NotStarted, NotSent, Closed, Parse, Create, Box, None, Surface

LEMMA AbortIsTyped ==
  ASSUME TypeOK, NEW s \in Surface
  PROVE  Abort(s) \subseteq Parses
<1>1. box[s] \in Box
  BY DEF TypeOK
<1>2. box[s].live \in 0..MaxParses
  BY <1>1 DEF Box
<1>3. box[s].live \in {None} \cup Parses
  BY <1>2, SmartInputAssumption DEF None, Parses
<1>4. QED BY <1>3 DEF TypeOK, Abort

LEMMA UnmountIsTyped ==
  ASSUME TypeOK, Unmount
  PROVE  create' \in [Creates -> Create] /\ sending' \in 0..MaxCreates
<1>1. sending' \in 0..MaxCreates
  BY NothingIsTyped, NumbersAreTyped DEF Unmount
<1>2. ASSUME NEW r \in Create PROVE [r EXCEPT !.orphan = TRUE] \in Create
  BY DEF Create
<1>3. create' \in [Creates -> Create]
  BY <1>2 DEF TypeOK, Unmount, Orphaned
<1>4. QED BY <1>1, <1>3

LEMMA InitTypes == Init => TypeOK
<1>1. 0 \in 0..MaxTimers /\ 0 \in 0..MaxOpenings
  BY SmartInputAssumption
<1>2. QED BY <1>1, NothingIsTyped, NumbersAreTyped DEF Init, TypeOK

\* opening, closing and the controls of the modal
LEMMA ModalTypes ==
  ASSUME TypeOK,
         Open \/ Dismiss \/ CloseBackdrop \/ ResetTimer \/ ChooseGroup
         \/ SwitchMode \/ Discard \/ TypeText
  PROVE  TypeOK'
<1>1. "modal" \in Surface /\ box["modal"] \in Box
  BY DEF TypeOK, Surface
<1>2. CASE Open
  <2>1. opening' \in 0..MaxOpenings
    BY <1>2, BoundsAreNumbers, CountersAreTyped DEF Open, TypeOK
  <2>2. [Cleared(box["modal"]) EXCEPT !.open = TRUE] \in Box
    BY <1>1, ResetsAreTyped
  <2>3. box' \in [Surface -> Box]
    BY <1>2, <2>2 DEF Open, TypeOK
  <2>4. QED BY <1>2, <2>1, <2>3 DEF Open, TypeOK
<1>3. CASE Dismiss
  BY <1>1, <1>3, ResetsAreTyped, AbortIsTyped, UnmountIsTyped
     DEF Dismiss, TypeOK, form
<1>4. CASE CloseBackdrop
  <2>1. timers' \in 0..MaxTimers
    BY <1>4, BoundsAreNumbers, CountersAreTyped DEF CloseBackdrop, TypeOK
  <2>2. QED BY <1>1, <1>4, <2>1, ResetsAreTyped, AbortIsTyped, UnmountIsTyped
            DEF CloseBackdrop, TypeOK
<1>5. CASE ResetTimer
  <2>1. timers' \in 0..MaxTimers
    BY <1>5, BoundsAreNumbers, CountersAreTyped DEF ResetTimer, TypeOK
  <2>2. QED BY <1>1, <1>5, <2>1, ResetsAreTyped, UnmountIsTyped
            DEF ResetTimer, TypeOK
<1>6. CASE ChooseGroup
  BY <1>6 DEF ChooseGroup, TypeOK
<1>7. CASE SwitchMode
  BY <1>7, UnmountIsTyped DEF SwitchMode, TypeOK
<1>8. CASE Discard
  BY <1>1, <1>8, ResetsAreTyped, UnmountIsTyped DEF Discard, TypeOK, form
<1>9. CASE TypeText
  BY <1>1, <1>9, ResetsAreTyped DEF TypeText, Typed, TypeOK, form
<1>10. QED BY <1>2, <1>3, <1>4, <1>5, <1>6, <1>7, <1>8, <1>9
\* the start of a parse
LEMMA StartTypes ==
  ASSUME TypeOK, NEW p \in Parses, SmartSubmit(p) \/ TrySandbox(p)
  PROVE  TypeOK'
<1>1. \A s \in Surface : StartParse(s, p) =>
        /\ box' \in [Surface -> Box]
        /\ parse' \in [Parses -> Parse]
        /\ cut' \subseteq Parses
  <2>1. SUFFICES ASSUME NEW s \in Surface, StartParse(s, p)
                 PROVE  /\ box' \in [Surface -> Box]
                        /\ parse' \in [Parses -> Parse]
                        /\ cut' \subseteq Parses
    OBVIOUS
  <2>2. [box[s] EXCEPT !.waiting = TRUE, !.status = "loading",
                       !.live = p, !.shown = None, !.said = None] \in Box
    BY AnswersAreTyped DEF TypeOK
  <2>3. [from |-> s, opening |-> opening, server |-> "arriving",
         answer |-> "open"] \in Parse
    BY DEF TypeOK, Parse
  <2>4. cut' \subseteq Parses
    BY <2>1, AbortIsTyped DEF StartParse
  <2>5. QED BY <2>1, <2>2, <2>3, <2>4 DEF StartParse, TypeOK
<1>2. CASE SmartSubmit(p)
  BY <1>1, <1>2, UnmountIsTyped DEF SmartSubmit, TypeOK, form, Surface
<1>3. CASE TrySandbox(p)
  BY <1>1, <1>3 DEF TrySandbox, TypeOK, form, KeepForm, Surface
<1>4. QED BY <1>2, <1>3

\* the answers of a parse, on the client and on the server
LEMMA AnswerTypes ==
  ASSUME TypeOK, NEW p \in Parses,
         Commentary(p) \/ ParseComplete(p) \/ ParseFails(p)
  PROVE  TypeOK'
<1>1. /\ parse[p] \in Parse /\ parse[p].from \in Surface
      /\ box[parse[p].from] \in Box
  BY DEF TypeOK, Parse
<1>2. [parse[p] EXCEPT !.answer = "handled"] \in Parse
  BY <1>1 DEF Parse
<1>3. CASE Commentary(p)
  <2>1. [box[parse[p].from] EXCEPT !.said = p] \in Box
    BY <1>1, AnswersAreTyped
  <2>2. box' \in [Surface -> Box]
    BY <1>3, <2>1 DEF Commentary, TypeOK
  <2>3. QED BY <1>3, <2>2 DEF Commentary, TypeOK, form
<1>4. CASE ParseComplete(p)
  <2>1. [box[parse[p].from] EXCEPT !.waiting = FALSE, !.status = "ready",
                                   !.shown = p] \in Box
    BY <1>1, AnswersAreTyped
  <2>2. box' \in [Surface -> Box]
    BY <1>4, <2>1 DEF ParseComplete, TypeOK
  <2>3. QED BY <1>2, <1>4, <2>2 DEF ParseComplete, Handled, TypeOK, form
<1>5. CASE ParseFails(p)
  <2>1. ErrorBox(box[parse[p].from]) \in Box
    BY <1>1, ResetsAreTyped
  <2>2. box' \in [Surface -> Box]
    BY <1>5, <2>1 DEF ParseFails, TypeOK
  <2>3. QED BY <1>2, <1>5, <2>2 DEF ParseFails, Handled, TypeOK, form
<1>6. QED BY <1>3, <1>4, <1>5

\* the count of the month, if there is one
LEMMA CountIsTyped ==
  ASSUME TypeOK
  PROVE  /\ usage = {} \/ \E n \in 0..Quota : usage = {n}
         /\ CountOnInsert \in 0..Quota
         /\ usage # {} => usage = {CountOnInsert}
<1>1. usage = {} \/ \E n \in 0..Quota : usage = {n}
  BY DEF TypeOK
<1>2. CASE usage = {}
  BY <1>2, BoundsAreNumbers DEF CountOnInsert
<1>3. CASE usage # {}
  <2>1. PICK n \in 0..Quota : usage = {n}
    BY <1>1, <1>3
  <2>2. CountOnInsert = n
    BY <1>3, <2>1 DEF CountOnInsert
  <2>3. QED BY <1>1, <2>1, <2>2
<1>4. QED BY <1>1, <1>2, <1>3

LEMMA ReserveIsTyped ==
  ASSUME TypeOK, NEW p \in Parses, NEW n \in 0..Quota, Reserve(p, n)
  PROVE  usage' \in {{}} \cup {{k} : k \in 0..Quota}
         /\ parse' \in [Parses -> Parse]
<1>1. parse[p] \in Parse
  BY DEF TypeOK
<1>2. /\ [parse[p] EXCEPT !.server = "reserved"] \in Parse
      /\ [parse[p] EXCEPT !.server = "refused"] \in Parse
  BY <1>1 DEF Parse
<1>3. n < Quota => n + 1 \in 0..Quota
  BY BoundsAreNumbers
<1>4. QED BY <1>2, <1>3 DEF Reserve, TypeOK

LEMMA QuotaTypes ==
  ASSUME TypeOK, NEW p \in Parses, ReadUsage(p) \/ InsertUsage(p)
  PROVE  TypeOK'
<1>1. usage' \in {{}} \cup {{k} : k \in 0..Quota}
      /\ parse' \in [Parses -> Parse]
  <2>1. [parse[p] EXCEPT !.server = "first"] \in Parse
    <3>1. parse[p] \in Parse
      BY DEF TypeOK
    <3>2. QED BY <3>1 DEF Parse
  <2>2. CASE ReadUsage(p) /\ \E n \in usage : Reserve(p, n)
    BY <2>2, CountIsTyped, ReserveIsTyped
  <2>3. CASE ReadUsage(p) /\ ~\E n \in usage : Reserve(p, n)
    BY <2>1, <2>3 DEF ReadUsage, TypeOK
  <2>4. CASE InsertUsage(p)
    BY <2>4, CountIsTyped, ReserveIsTyped DEF InsertUsage
  <2>5. QED BY <2>2, <2>3, <2>4
<1>2. QED BY <1>1 DEF ReadUsage, InsertUsage, TypeOK, form

\* the demo and the first group
LEMMA SandboxTypes ==
  ASSUME TypeOK,
         ResetSandbox \/ LeaveSandbox \/ EnterSandbox \/ JoinGroup
         \/ TypeSandbox
  PROVE  TypeOK'
<1>1. "sandbox" \in Surface /\ box["sandbox"] \in Box
  BY DEF TypeOK, Surface
<1>2. CASE ResetSandbox
  <2>1. [Cleared(box["sandbox"]) EXCEPT !.live = None] \in Box
    BY <1>1, ResetsAreTyped
  <2>2. box' \in [Surface -> Box]
    BY <1>2, <2>1 DEF ResetSandbox, TypeOK
  <2>3. QED BY <1>1, <1>2, <2>2, AbortIsTyped DEF ResetSandbox, TypeOK, form
<1>3. CASE LeaveSandbox
  BY <1>1, <1>3, NothingIsTyped, AbortIsTyped DEF LeaveSandbox, TypeOK, form
<1>4. CASE EnterSandbox
  <2>1. [box["sandbox"] EXCEPT !.open = TRUE] \in Box
    BY <1>1, ResetsAreTyped
  <2>2. box' \in [Surface -> Box]
    BY <1>4, <2>1 DEF EnterSandbox, TypeOK
  <2>3. QED BY <1>4, <2>2 DEF EnterSandbox, TypeOK, form
<1>5. CASE JoinGroup
  BY <1>5 DEF JoinGroup, TypeOK
<1>6. CASE TypeSandbox
  BY <1>1, <1>6, ResetsAreTyped DEF TypeSandbox, Typed, TypeOK, form
<1>7. QED BY <1>2, <1>3, <1>4, <1>5, <1>6

\* the requests
LEMMA SendIsTyped ==
  ASSUME TypeOK, NEW c \in Creates, NEW p \in 0..MaxParses, Send(c, p)
  PROVE  create' \in [Creates -> Create] /\ sending' \in 0..MaxCreates
<1>1. [of |-> p, orphan |-> FALSE, state |-> "sent"] \in Create
  BY DEF Create
<1>2. QED BY <1>1, NumbersAreTyped DEF Send, TypeOK

LEMMA MoveIsTyped ==
  ASSUME TypeOK, NEW c \in Creates, NEW state,
         state \in {"stored", "refused", "failed", "lost"}, Move(c, state)
  PROVE  create' \in [Creates -> Create]
<1>1. create[c] \in Create
  BY DEF TypeOK
<1>2. [create[c] EXCEPT !.state = state] \in Create
  BY <1>1 DEF Create
<1>3. QED BY <1>2 DEF Move, TypeOK

LEMMA CreateTypes ==
  ASSUME TypeOK, NEW c \in Creates,
         \/ ConfirmPreview(c) \/ SubmitManual(c) \/ ServeCreate(c)
         \/ CreateSucceeds(c) \/ CreateFails(c)
  PROVE  TypeOK'
<1>1. /\ "modal" \in Surface /\ box["modal"] \in Box
      /\ box["modal"].shown \in 0..MaxParses
  BY DEF TypeOK, Surface, Box
<1>2. CASE ConfirmPreview(c)
  BY <1>1, <1>2, SendIsTyped DEF ConfirmPreview, TypeOK, form
<1>3. CASE SubmitManual(c)
  BY <1>3, SendIsTyped, NumbersAreTyped DEF SubmitManual, TypeOK, form
<1>4. CASE ServeCreate(c)
  BY <1>4, MoveIsTyped DEF ServeCreate, TypeOK, form
<1>5. CASE CreateSucceeds(c)
  <2>1. box' \in [Surface -> Box]
    BY <1>1, <1>5, ResetsAreTyped DEF CreateSucceeds, TypeOK
  <2>2. Orphaned(create) \in [Creates -> Create]
    <3>1. ASSUME NEW r \in Create PROVE [r EXCEPT !.orphan = TRUE] \in Create
      BY DEF Create
    <3>2. QED BY <3>1 DEF Orphaned, TypeOK
  <2>3. [create[c] EXCEPT !.state = "ok"] \in Create
    <3>1. create[c] \in Create
      BY DEF TypeOK
    <3>2. QED BY <3>1 DEF Create
  <2>4. create' \in [Creates -> Create]
    BY <1>5, <2>2, <2>3 DEF CreateSucceeds
  <2>5. cut' \subseteq Parses /\ sending' \in 0..MaxCreates
    BY <1>1, <1>5, AbortIsTyped, NumbersAreTyped DEF CreateSucceeds
  <2>6. QED BY <1>5, <2>1, <2>4, <2>5 DEF CreateSucceeds, TypeOK, form
<1>6. CASE CreateFails(c)
  BY <1>6, MoveIsTyped, NumbersAreTyped DEF CreateFails, TypeOK, form
<1>7. QED BY <1>2, <1>3, <1>4, <1>5, <1>6
\* a step, or nothing at all
LEMMA NextTypes == TypeOK /\ [Next]_vars => TypeOK'
<1>1. CASE UNCHANGED vars
  BY <1>1 DEF TypeOK, vars
<1>2. CASE Next
  BY <1>2, ModalTypes, StartTypes, AnswerTypes, QuotaTypes, SandboxTypes,
     CreateTypes DEF Next
<1>3. QED BY <1>1, <1>2

-----------------------------------------------------------------------------
(* What the surfaces show.                                                 *)

ScreenInv == LiveInv /\ SpinnerIsAlive /\ NothingStale

LEMMA LiveIsParse ==
  ASSUME TypeOK, NEW s \in Surface
  PROVE  /\ box[s].live # None => box[s].live \in Parses
         /\ box[s].shown # None => box[s].shown \in Parses
<1>1. box[s] \in Box
  BY DEF TypeOK
<1>2. box[s].live \in 0..MaxParses /\ box[s].shown \in 0..MaxParses
  BY <1>1 DEF Box
<1>3. \A n \in 0..MaxParses : n # None => n \in Parses
  BY BoundsAreNumbers DEF None, Parses
<1>4. QED BY <1>2, <1>3

LEMMA ParseIsTyped ==
  ASSUME TypeOK, NEW p \in Parses
  PROVE  parse[p] \in Parse /\ parse[p].from \in Surface
BY DEF TypeOK, Parse

\* A surface that is left, or reset together with its controller, has
\* nothing that could be late.
LEMMA LeavingKeeps ==
  ASSUME TypeOK, ScreenInv, NEW s \in Surface,
         cut' = Abort(s), UNCHANGED <<parse, opening>>,
         \A t \in Surface \ {s} : box'[t] = box[t],
         box'[s].live = None,
         box'[s].open => /\ ~box'[s].waiting /\ box'[s].status # "error"
                         /\ box'[s].shown = None /\ box'[s].said = None
  PROVE  ScreenInv'
<1>1. \A t \in Surface \ {s} : box[t].live # None =>
        box[t].live # box[s].live /\ box[t].live \in Parses
  BY LiveIsParse DEF ScreenInv, LiveInv
<1>2. \A p \in Parses : InFlight(p)' => InFlight(p) /\ p # box[s].live
  BY DEF InFlight, Abort, None, Parses
<1>3. \A t \in Surface \ {s} : box[t].live # None =>
        (InFlight(box[t].live)' <=> InFlight(box[t].live))
  BY <1>1 DEF InFlight, Abort
<1>4. LiveInv'
  <2>1. \A p \in cut' : Begun(p)'
    BY DEF ScreenInv, LiveInv, Abort, Begun
  <2>2. \A p \in Parses : InFlight(p)' => box'[parse'[p].from].live = p
    BY <1>2, ParseIsTyped DEF ScreenInv, LiveInv
  <2>3. QED BY <2>1, <2>2 DEF ScreenInv, LiveInv, Begun
<1>5. SpinnerIsAlive'
  BY <1>3 DEF ScreenInv, SpinnerIsAlive
<1>6. NothingStale'
  BY <1>3 DEF ScreenInv, NothingStale
<1>7. QED BY <1>4, <1>5, <1>6 DEF ScreenInv

\* A surface that forgets what it shows and keeps its controller: the
\* parse may still be in flight, and its answer is still that of the last
\* one started.
LEMMA ForgettingKeeps ==
  ASSUME TypeOK, ScreenInv, NEW s \in Surface,
         UNCHANGED <<parse, cut>>,
         \A t \in Surface \ {s} : box'[t] = box[t],
         box'[s].live = box[s].live,
         box'[s].shown = None, box'[s].said = None, box'[s].status # "error",
         box'[s].waiting => box[s].open /\ box[s].waiting,
         ~box'[s].open => ~box[s].open,
         opening' = opening \/ ~box["modal"].open
  PROVE  ScreenInv'
<1>1. \A p : (InFlight(p)' <=> InFlight(p)) /\ (Begun(p)' <=> Begun(p))
  BY DEF InFlight, Begun
<1>2. \A t \in Surface : box'[t].live = box[t].live
  OBVIOUS
<1>3. LiveInv'
  BY <1>1, <1>2, ParseIsTyped DEF ScreenInv, LiveInv
<1>4. SpinnerIsAlive'
  BY <1>1, <1>2 DEF ScreenInv, SpinnerIsAlive
<1>5. NothingStale'
  <2>1. \A t \in Surface : t = "modal" /\ box'[t].live # None =>
          parse'[box'[t].live].opening = opening'
    BY <1>2 DEF ScreenInv, LiveInv, NothingStale, Surface
  <2>2. QED BY <1>1, <1>2, <2>1 DEF ScreenInv, NothingStale
<1>6. QED BY <1>3, <1>4, <1>5 DEF ScreenInv

\* A step that is not about what the surfaces wait for or show.
Alike(b, c) == /\ b.open = c.open /\ b.waiting = c.waiting
               /\ b.status = c.status /\ b.live = c.live
               /\ b.shown = c.shown /\ b.said = c.said
LEMMA OthersKeep ==
  ASSUME TypeOK, ScreenInv, UNCHANGED <<cut, opening>>,
         \A s \in Surface : Alike(box'[s], box[s]),
         \A p \in Parses : /\ Begun(p)' <=> Begun(p)
                           /\ parse'[p].from = parse[p].from
                           /\ parse'[p].opening = parse[p].opening
                           /\ parse'[p].answer = parse[p].answer
  PROVE  ScreenInv'
<1>1. \A p \in Parses : InFlight(p)' <=> InFlight(p)
  BY DEF InFlight
<1>2. cut \subseteq Parses
  BY DEF TypeOK
<1>3. LiveInv'
  BY <1>1, <1>2, ParseIsTyped, LiveIsParse DEF ScreenInv, LiveInv, Alike
<1>4. SpinnerIsAlive'
  BY <1>1, LiveIsParse DEF ScreenInv, SpinnerIsAlive, Alike
<1>5. NothingStale'
  BY <1>1, LiveIsParse DEF ScreenInv, NothingStale, Alike
<1>6. QED BY <1>3, <1>4, <1>5 DEF ScreenInv
LEMMA StartingKeeps ==
  ASSUME TypeOK, ScreenInv, NEW s \in Surface, NEW p \in Parses,
         StartParse(s, p), UNCHANGED opening
  PROVE  ScreenInv'
<1>1. /\ parse' = [parse EXCEPT ![p] =
                    [from |-> s, opening |-> opening,
                     server |-> "arriving", answer |-> "open"]]
      /\ parse \in [Parses -> Parse] /\ box \in [Surface -> Box]
      /\ cut \subseteq Parses
  BY DEF StartParse, TypeOK
<1>2. /\ Begun(p)' /\ parse'[p].from = s /\ parse'[p].opening = opening
      /\ parse'[p].answer = "open"
      /\ \A q \in Parses \ {p} : parse'[q] = parse[q]
  BY <1>1 DEF Begun
<1>3. /\ box'[s].live = p /\ box'[s].shown = None /\ box'[s].said = None
      /\ box'[s].status = "loading" /\ box'[s].open
      /\ \A t \in Surface \ {s} : box'[t] = box[t]
  <2>1. box[s] \in Box
    BY <1>1
  <2>2. box' = [box EXCEPT ![s] =
                 [@ EXCEPT !.waiting = TRUE, !.status = "loading",
                           !.live = p, !.shown = None, !.said = None]]
    BY DEF StartParse
  <2>3. box'[s] = [box[s] EXCEPT !.waiting = TRUE, !.status = "loading",
                                 !.live = p, !.shown = None, !.said = None]
    BY <1>1, <2>2
  <2>4. QED BY <1>1, <2>1, <2>2, <2>3 DEF Box, StartParse
<1>4. ~Begun(p)
  BY DEF StartParse, Fresh, NotStarted, Begun
<1>5. \A t \in Surface : box[t].live # p
  BY <1>4, LiveIsParse DEF ScreenInv, LiveInv, None, Parses
<1>6. p \notin cut'
  BY <1>4, <1>5 DEF StartParse, Abort, ScreenInv, LiveInv
<1>7. InFlight(p)'
  BY <1>2, <1>6 DEF InFlight
<1>8. \A t \in Surface \ {s} : box[t].live # None =>
        /\ box[t].live \in Parses \ {p} /\ box[t].live # box[s].live
        /\ InFlight(box[t].live)' <=> InFlight(box[t].live)
  <2>1. \A t \in Surface \ {s} : box[t].live # None =>
          box[t].live \in Parses \ {p} /\ box[t].live # box[s].live
    BY <1>5, LiveIsParse DEF ScreenInv, LiveInv
  <2>2. QED BY <1>2, <2>1 DEF StartParse, Abort, InFlight
<1>9. LiveInv'
  <2>1. \A q \in cut' : Begun(q)'
    <3>1. \A q \in cut' : q \in Parses \ {p} /\ Begun(q)
      BY <1>1, <1>6, LiveIsParse DEF StartParse, Abort, ScreenInv, LiveInv
    <3>2. QED BY <1>2, <3>1 DEF Begun
  <2>2. \A q \in Parses : InFlight(q)' => box'[parse'[q].from].live = q
    <3>1. SUFFICES ASSUME NEW q \in Parses \ {p}, InFlight(q)'
                   PROVE  box'[parse[q].from].live = q
      BY <1>2, <1>3
    <3>2. InFlight(q) /\ q \notin {box[s].live} \ {None}
      BY <1>2, <3>1 DEF InFlight, StartParse, Abort
    <3>3. box[parse[q].from].live = q /\ q # None
      BY <3>2 DEF ScreenInv, LiveInv, Parses, None
    <3>4. QED BY <1>3, <3>2, <3>3, ParseIsTyped
  <2>3. \A t \in Surface :
          /\ box'[t].live # None =>
               /\ parse'[box'[t].live].server # "none"
               /\ parse'[box'[t].live].from = t
          /\ ~box'[t].open => box'[t].live = None
    <3>1. \A t \in Surface \ {s} :
            /\ box[t].live # None =>
                 /\ parse'[box[t].live].server # "none"
                 /\ parse'[box[t].live].from = t
            /\ ~box[t].open => box[t].live = None
      <4>1. SUFFICES ASSUME NEW t \in Surface \ {s}, box[t].live # None
                     PROVE  /\ parse'[box[t].live].server # "none"
                            /\ parse'[box[t].live].from = t
        BY <1>3 DEF ScreenInv, LiveInv, Begun
      <4>2. parse'[box[t].live] = parse[box[t].live]
        BY <1>2, <1>8, <4>1
      <4>3. QED BY <4>1, <4>2 DEF ScreenInv, LiveInv, Begun
    <3>2. p # None
      BY DEF None, Parses
    <3>3. \A t \in Surface \ {s} : box'[t] = box[t]
      BY <1>3
    <3>4. QED BY <1>2, <1>3, <3>1, <3>3 DEF Begun
  <2>4. QED BY <2>1, <2>2, <2>3 DEF LiveInv, Begun
<1>10. SpinnerIsAlive'
  <2>1. p # None
    BY DEF None, Parses
  <2>2. QED BY <1>3, <1>7, <1>8, <2>1 DEF ScreenInv, SpinnerIsAlive
<1>11. NothingStale'
  <2>1. \A t \in Surface \ {s} : box[t].live # None =>
          parse'[box[t].live] = parse[box[t].live]
    BY <1>2, <1>8
  <2>2. QED BY <1>2, <1>3, <1>8, <2>1 DEF ScreenInv, NothingStale
<1>12. QED BY <1>9, <1>10, <1>11 DEF ScreenInv

\* The answer to a parse in flight reaches the surface that waits for it
\* and no other.
LEMMA HeardIsLive ==
  ASSUME TypeOK, ScreenInv, NEW p \in Parses, Heard(p)
  PROVE  /\ InFlight(p)
         /\ box[parse[p].from].live = p
         /\ box[parse[p].from].open
         /\ p # None
         /\ \A t \in Surface \ {parse[p].from} : box[t].live # p
<1>1. InFlight(p) /\ p # None
  BY DEF Heard, InFlight, Parses, None
<1>2. QED BY <1>1, ParseIsTyped DEF ScreenInv, LiveInv

LEMMA CommentaryKeeps ==
  ASSUME TypeOK, ScreenInv, NEW p \in Parses, Commentary(p)
  PROVE  ScreenInv'
<1> DEFINE s == parse[p].from
<1>1. s \in Surface /\ box[s] \in Box /\ UNCHANGED <<parse, cut, opening>>
  BY ParseIsTyped DEF TypeOK, Commentary, form
<1>2. /\ box'[s] = [box[s] EXCEPT !.said = p]
      /\ \A t \in Surface \ {s} : box'[t] = box[t]
  BY <1>1 DEF Commentary, TypeOK
<1>3. /\ box'[s].said = p /\ box'[s].live = p /\ box[s].live = p
      /\ box'[s].open /\ box'[s].waiting = box[s].waiting
      /\ box'[s].shown = box[s].shown /\ box'[s].status = box[s].status
  BY <1>1, <1>2, HeardIsLive DEF Commentary, Box
<1>4. \A q : InFlight(q)' <=> InFlight(q)
  BY <1>1 DEF InFlight
<1>5. \A t \in Surface : box'[t].live = box[t].live
  BY <1>2, <1>3
<1>6. box[s].open
  BY HeardIsLive DEF Commentary
<1>7. LiveInv'
  BY <1>1, <1>2, <1>3, <1>4, <1>5, ParseIsTyped
     DEF ScreenInv, LiveInv, Begun
<1>8. SpinnerIsAlive'
  BY <1>2, <1>3, <1>4, <1>5, <1>6 DEF ScreenInv, SpinnerIsAlive
<1>9. NothingStale'
  <2>1. \A t \in Surface : t # s /\ box'[t].open =>
          {box'[t].shown, box'[t].said} \subseteq {None, box'[t].live}
    BY <1>2 DEF ScreenInv, NothingStale
  <2>2. {box'[s].shown, box'[s].said} \subseteq {None, box'[s].live}
    BY <1>1, <1>3, <1>6 DEF ScreenInv, NothingStale
  <2>3. \A t \in Surface : box'[t].open => box[t].open
    BY <1>2, <1>6
  <2>4. \A t \in Surface : box'[t].status = box[t].status
    BY <1>2, <1>3
  <2>5. QED BY <1>1, <1>4, <1>5, <2>1, <2>2, <2>3, <2>4
            DEF ScreenInv, NothingStale
<1>10. QED BY <1>7, <1>8, <1>9 DEF ScreenInv

\* The last answer of a parse, good or bad, ends its spinner.
LEMMA AnswerKeeps ==
  ASSUME TypeOK, ScreenInv, NEW p \in Parses,
         ParseComplete(p) \/ ParseFails(p)
  PROVE  ScreenInv'
<1> DEFINE s == parse[p].from
<1>1. /\ s \in Surface /\ box[s] \in Box /\ UNCHANGED <<cut, opening>>
      /\ Heard(p) /\ Handled(p)
      /\ parse \in [Parses -> Parse] /\ parse[p] \in Parse
  BY ParseIsTyped DEF TypeOK, ParseComplete, ParseFails, form
<1>2. /\ \A t \in Surface \ {s} : box'[t] = box[t]
      /\ ~box'[s].waiting /\ box'[s].live = p /\ box'[s].open
      /\ box[s].live = p /\ box[s].open
      /\ box'[s].shown \in {p, box[s].shown}
      /\ box'[s].said \in {None, box[s].said}
  <2>1. CASE ParseComplete(p)
    <3>1. box' = [box EXCEPT ![s] = [box[s] EXCEPT !.waiting = FALSE,
                                       !.status = "ready", !.shown = p]]
      BY <2>1 DEF ParseComplete
    <3>2. /\ box'[s] = [box[s] EXCEPT !.waiting = FALSE,
                                      !.status = "ready", !.shown = p]
          /\ \A t \in Surface \ {s} : box'[t] = box[t]
      BY <1>1, <3>1 DEF TypeOK
    <3>3. QED BY <1>1, <3>2, HeardIsLive DEF Box
  <2>2. CASE ParseFails(p)
    <3>1. /\ box'[s] = ErrorBox(box[s])
          /\ \A t \in Surface \ {s} : box'[t] = box[t]
      BY <1>1, <2>2 DEF ParseFails, TypeOK
    <3>2. QED BY <1>1, <3>1, HeardIsLive DEF Box, ErrorBox
  <2>3. QED BY <2>1, <2>2
<1>3. /\ \A q \in Parses \ {p} : parse'[q] = parse[q]
      /\ parse'[p] = [parse[p] EXCEPT !.answer = "handled"]
  BY <1>1 DEF Handled
<1>4. /\ parse'[p].answer = "handled" /\ parse'[p].from = s
      /\ parse'[p].opening = parse[p].opening
      /\ parse'[p].server = parse[p].server
  BY <1>1, <1>3 DEF Parse
<1>5. /\ ~InFlight(p)'
      /\ \A q \in Parses \ {p} : InFlight(q)' <=> InFlight(q)
  BY <1>1, <1>3, <1>4 DEF InFlight
<1>6. \A q \in Parses : /\ Begun(q)' <=> Begun(q)
                        /\ parse'[q].from = parse[q].from
                        /\ parse'[q].opening = parse[q].opening
  BY <1>3, <1>4 DEF Begun
<1>7. \A t \in Surface : box'[t].live = box[t].live
  BY <1>2
<1>8. \A t \in Surface : box[t].live # None => box[t].live \in Parses
  BY LiveIsParse
<1>9. \A t \in Surface \ {s} : box[t].live # p
  BY <1>1, HeardIsLive
<1>10. LiveInv'
  <2>1. \A q \in cut' : Begun(q)'
    <3>1. \A q \in cut : q \in Parses /\ Begun(q)
      BY DEF ScreenInv, LiveInv, TypeOK
    <3>2. QED BY <1>1, <1>6, <3>1 DEF Begun
  <2>2. QED BY <1>2, <1>5, <1>6, <1>7, <1>8, <2>1, ParseIsTyped
            DEF ScreenInv, LiveInv, Begun
<1>11. SpinnerIsAlive'
  BY <1>2, <1>5, <1>8, <1>9 DEF ScreenInv, SpinnerIsAlive
<1>12. NothingStale'
  <2>1. \A t \in Surface : box[t].open /\ box'[t].open =>
          {box'[t].shown, box'[t].said} \subseteq {None, box'[t].live}
    <3>1. \A t \in Surface : box[t].open =>
            {box[t].shown, box[t].said} \subseteq {None, box[t].live}
      BY DEF ScreenInv, NothingStale
    <3>2. QED BY <1>2, <3>1
  <2>2. \A t \in Surface : box'[t].open => box[t].open
    BY <1>2
  <2>3. p # None
    BY <1>1, HeardIsLive
  <2>4. \A t \in Surface : box'[t].open /\ box'[t].status = "error" =>
          box'[t].live # None /\ ~InFlight(box[t].live)'
    BY <1>1, <1>2, <1>5, <1>8, <1>9, <2>3 DEF ScreenInv, NothingStale
  <2>5. \A t \in Surface : t = "modal" /\ box[t].open /\ box[t].live # None =>
          parse'[box[t].live].opening = opening'
    BY <1>1, <1>6, <1>8 DEF ScreenInv, NothingStale
  <2>6. \A t \in Surface : box'[t].open =>
          /\ {box'[t].shown, box'[t].said} \subseteq {None, box'[t].live}
          /\ box'[t].status = "error" =>
               box'[t].live # None /\ ~InFlight(box[t].live)'
          /\ t = "modal" /\ box'[t].live # None =>
               parse'[box'[t].live].opening = opening'
    BY <1>7, <2>1, <2>2, <2>4, <2>5
  <2>7. QED BY <2>6 DEF NothingStale
<1>13. QED BY <1>10, <1>11, <1>12 DEF ScreenInv
\* A modal whose parent closed it.
LEMMA ShutModalKeeps ==
  ASSUME TypeOK, ScreenInv,
         Dismiss \/ CloseBackdrop \/ \E c \in Creates : CreateSucceeds(c)
  PROVE  ScreenInv'
<1>1. /\ "modal" \in Surface /\ box["modal"] \in Box
      /\ box \in [Surface -> Box]
  BY DEF TypeOK, Surface
<1>2. Shut(box["modal"]).open = FALSE /\ Shut(box["modal"]).live = None
  BY <1>1 DEF Shut, Box
<1>3. \A t \in Surface \ {"modal"} : box'[t] = box[t]
  BY <1>1 DEF Dismiss, CloseBackdrop, CreateSucceeds
<1>4. ~box'["modal"].open /\ box'["modal"].live = None
  <2>1. CASE Dismiss \/ CloseBackdrop
    BY <1>1, <1>2, <2>1 DEF Dismiss, CloseBackdrop
  <2>2. ASSUME NEW c \in Creates, CreateSucceeds(c)
        PROVE  ~box'["modal"].open /\ box'["modal"].live = None
    <3>1. Shut(box["modal"]) \in Box
      BY <1>1, ResetsAreTyped
    <3>2. \/ box'["modal"] = Shut(box["modal"])
          \/ box'["modal"] = [Shut(box["modal"]) EXCEPT
                !.text = FALSE, !.shown = None, !.status = "placeholder"]
      BY <1>1, <2>2 DEF CreateSucceeds
    <3>3. QED BY <1>2, <3>1, <3>2 DEF Box
  <2>3. QED BY <2>1, <2>2
<1>5. cut' = Abort("modal") /\ UNCHANGED <<parse, opening>>
  BY DEF Dismiss, CloseBackdrop, CreateSucceeds, form
<1>6. QED BY <1>1, <1>3, <1>4, <1>5, LeavingKeeps

LEMMA ClearedFields ==
  ASSUME NEW b \in Box
  PROVE  /\ Cleared(b).open = b.open /\ Cleared(b).live = b.live
         /\ Cleared(b).waiting = FALSE /\ Cleared(b).status = "placeholder"
         /\ Cleared(b).shown = None /\ Cleared(b).said = None
BY DEF Cleared, Box

LEMMA ShutFields ==
  ASSUME NEW b \in Box
  PROVE  /\ Shut(b).open = FALSE /\ Shut(b).live = None
         /\ Shut(b).shown = b.shown
BY DEF Shut, Box

LEMMA LeaveDemoKeeps ==
  ASSUME TypeOK, ScreenInv, ResetSandbox \/ LeaveSandbox
  PROVE  ScreenInv'
<1>1. "sandbox" \in Surface /\ box["sandbox"] \in Box
  BY DEF TypeOK, Surface
<1>2. \/ box' = [box EXCEPT !["sandbox"] = Closed]
      \/ box' = [box EXCEPT !["sandbox"] = [Cleared(@) EXCEPT !.live = None]]
  BY DEF ResetSandbox, LeaveSandbox
<1>3. \A t \in Surface \ {"sandbox"} : box'[t] = box[t]
  BY <1>1, <1>2 DEF TypeOK
<1>4. \/ box'["sandbox"] = Closed
      \/ box'["sandbox"] = [Cleared(box["sandbox"]) EXCEPT !.live = None]
  BY <1>1, <1>2 DEF TypeOK
<1>5. Cleared(box["sandbox"]) \in Box
  BY <1>1, ResetsAreTyped
<1>6. /\ box'["sandbox"].live = None /\ ~box'["sandbox"].waiting
      /\ box'["sandbox"].status # "error"
      /\ box'["sandbox"].shown = None /\ box'["sandbox"].said = None
  <2>1. CASE box'["sandbox"] = Closed
    BY <2>1 DEF Closed
  <2>2. CASE box'["sandbox"] = [Cleared(box["sandbox"]) EXCEPT !.live = None]
    BY <1>1, <1>5, <2>2, ClearedFields DEF Box
  <2>3. QED BY <1>4, <2>1, <2>2
<1>7. cut' = Abort("sandbox") /\ UNCHANGED <<parse, opening>>
  BY DEF ResetSandbox, LeaveSandbox, form
<1>8. QED BY <1>1, <1>3, <1>6, <1>7, LeavingKeeps

\* the resets that leave the controller alone
LEMMA ResetModalKeeps ==
  ASSUME TypeOK, ScreenInv, Open \/ ResetTimer \/ Discard
  PROVE  ScreenInv'
<1>1. /\ "modal" \in Surface /\ box["modal"] \in Box
      /\ Cleared(box["modal"]) \in Box
  BY ResetsAreTyped DEF TypeOK, Surface
<1>2. UNCHANGED <<parse, cut>>
  BY DEF Open, ResetTimer, Discard
<1>3. \A t \in Surface \ {"modal"} : box'[t] = box[t]
  BY <1>1 DEF TypeOK, Open, ResetTimer, Discard
<1>4. CASE Open
  <2>1. box'["modal"] = [Cleared(box["modal"]) EXCEPT !.open = TRUE]
    BY <1>1, <1>4 DEF TypeOK, Open
  <2>2. /\ box'["modal"].live = box["modal"].live
        /\ box'["modal"].shown = None /\ box'["modal"].said = None
        /\ box'["modal"].status # "error" /\ ~box'["modal"].waiting
        /\ box'["modal"].open
    BY <1>1, <2>1, ClearedFields DEF Box
  <2>3. ~box["modal"].open
    BY <1>4 DEF Open
  <2>4. QED BY <1>1, <1>2, <1>3, <2>2, <2>3, ForgettingKeeps
<1>5. CASE ResetTimer
  <2>1. box'["modal"] = Cleared(box["modal"]) /\ opening' = opening
    BY <1>1, <1>5 DEF TypeOK, ResetTimer
  <2>2. /\ box'["modal"].live = box["modal"].live
        /\ box'["modal"].shown = None /\ box'["modal"].said = None
        /\ box'["modal"].status # "error" /\ ~box'["modal"].waiting
        /\ box'["modal"].open = box["modal"].open
    BY <1>1, <2>1, ClearedFields
  <2>3. QED BY <1>1, <1>2, <1>3, <2>1, <2>2, ForgettingKeeps
<1>6. CASE Discard
  <2>1. /\ box'["modal"] = [box["modal"] EXCEPT
                  !.text = FALSE, !.status = "placeholder",
                  !.shown = None, !.said = None]
        /\ box["modal"].open /\ opening' = opening
    BY <1>1, <1>6 DEF TypeOK, Discard, Previewing, form
  <2>2. /\ box'["modal"].live = box["modal"].live
        /\ box'["modal"].shown = None /\ box'["modal"].said = None
        /\ box'["modal"].status # "error"
        /\ box'["modal"].waiting = box["modal"].waiting
        /\ box'["modal"].open
    BY <1>1, <2>1 DEF Box
  <2>3. QED BY <1>1, <1>2, <1>3, <2>1, <2>2, ForgettingKeeps
<1>7. QED BY <1>4, <1>5, <1>6

\* The demo starts from nothing whenever the dashboard is entered.
LEMMA EnterDemoKeeps ==
  ASSUME TypeOK, ScreenInv, KeptInv, EnterSandbox
  PROVE  ScreenInv'
<1>1. "sandbox" \in Surface /\ box["sandbox"] = Closed
  BY DEF EnterSandbox, KeptInv, Surface
<1>2. /\ \A t \in Surface \ {"sandbox"} : box'[t] = box[t]
      /\ box'["sandbox"] = [Closed EXCEPT !.open = TRUE]
  BY <1>1 DEF EnterSandbox, TypeOK
<1>3. /\ box'["sandbox"].live = box["sandbox"].live
      /\ box'["sandbox"].shown = None /\ box'["sandbox"].said = None
      /\ box'["sandbox"].status # "error" /\ ~box'["sandbox"].waiting
      /\ box'["sandbox"].open
  BY <1>1, <1>2 DEF Closed
<1>4. UNCHANGED <<parse, cut, opening>>
  BY DEF EnterSandbox, form
<1>5. QED BY <1>1, <1>2, <1>3, <1>4, ForgettingKeeps

\* the steps of the server, of the other controls and of the requests
LEMMA OtherStepsKeep ==
  ASSUME TypeOK, ScreenInv,
         \/ ChooseGroup \/ SwitchMode \/ JoinGroup \/ TypeText \/ TypeSandbox
         \/ \E p \in Parses : ReadUsage(p) \/ InsertUsage(p)
         \/ \E c \in Creates : \/ ConfirmPreview(c) \/ SubmitManual(c)
                               \/ ServeCreate(c) \/ CreateFails(c)
  PROVE  ScreenInv'
<1>1. box \in [Surface -> Box]
  BY DEF TypeOK
<1>2. CASE TypeText \/ TypeSandbox
  <2>1. PICK s \in Surface : Typed(s)
    BY <1>2 DEF TypeText, TypeSandbox, Surface
  <2>2. /\ box'[s] = [box[s] EXCEPT !.text = TRUE]
        /\ \A t \in Surface \ {s} : box'[t] = box[t]
    BY <1>1, <2>1 DEF Typed
  <2>3. \A t \in Surface : Alike(box'[t], box[t])
    BY <1>1, <2>2 DEF Alike, Box
  <2>4. UNCHANGED <<cut, opening, parse>>
    BY <2>1 DEF Typed, form
  <2>5. QED BY <2>3, <2>4, OthersKeep DEF Begun
<1>3. ASSUME NEW p \in Parses, ReadUsage(p) \/ InsertUsage(p)
      PROVE  ScreenInv'
  <2>1. parse[p] \in Parse /\ parse \in [Parses -> Parse]
    BY DEF TypeOK
  <2>2. \E v \in {"first", "reserved", "refused"} :
          parse' = [parse EXCEPT ![p].server = v]
    BY <1>3 DEF ReadUsage, InsertUsage, Reserve
  <2>3. parse[p].server \in {"arriving", "first"}
    BY <1>3 DEF ReadUsage, InsertUsage
  <2>4. \A q \in Parses : /\ Begun(q)' <=> Begun(q)
                          /\ parse'[q].from = parse[q].from
                          /\ parse'[q].opening = parse[q].opening
                          /\ parse'[q].answer = parse[q].answer
    BY <2>1, <2>2, <2>3 DEF Begun, Parse
  <2>5. UNCHANGED <<box, cut, opening>>
    BY <1>3 DEF ReadUsage, InsertUsage, form
  <2>6. QED BY <2>4, <2>5, OthersKeep DEF Alike
<1>4. CASE \/ ChooseGroup \/ SwitchMode \/ JoinGroup
           \/ \E c \in Creates : \/ ConfirmPreview(c) \/ SubmitManual(c)
                                 \/ ServeCreate(c) \/ CreateFails(c)
  <2>1. UNCHANGED <<box, cut, opening, parse>>
    BY <1>4 DEF ChooseGroup, SwitchMode, JoinGroup, ConfirmPreview,
                SubmitManual, ServeCreate, CreateFails, form
  <2>2. QED BY <2>1, OthersKeep DEF Alike, Begun
<1>5. QED BY <1>2, <1>3, <1>4

LEMMA ScreenStep ==
  TypeOK /\ ScreenInv /\ KeptInv /\ [Next]_vars => ScreenInv'
<1>1. CASE UNCHANGED vars
  BY <1>1, OthersKeep DEF vars, Alike, Begun
<1>2. ASSUME TypeOK, ScreenInv, NEW p \in Parses,
             SmartSubmit(p) \/ TrySandbox(p)
      PROVE  ScreenInv'
  BY <1>2, StartingKeeps DEF SmartSubmit, TrySandbox, form, Surface
<1>3. CASE Next
  BY <1>2, <1>3, ShutModalKeeps, LeaveDemoKeeps, ResetModalKeeps,
     EnterDemoKeeps, OtherStepsKeep, CommentaryKeeps, AnswerKeeps DEF Next
<1>4. QED BY <1>1, <1>3
-----------------------------------------------------------------------------
(* What is kept of the parses.                                             *)

\* A parse that was answered stays begun and answered: Fresh gives every
\* parse a number of its own.
Answered(p) == Begun(p) /\ parse[p].answer = "handled"

LEMMA AnswersStay ==
  ASSUME TypeOK, [Next]_vars
  PROVE  \A p \in Parses : Answered(p) => Answered(p)'
<1>1. parse \in [Parses -> Parse]
  BY DEF TypeOK
<1>2. ASSUME NEW q \in Parses, SmartSubmit(q) \/ TrySandbox(q)
      PROVE  \A p \in Parses : Answered(p) => Answered(p)'
  <2>1. PICK s : StartParse(s, q)
    BY <1>2 DEF SmartSubmit, TrySandbox
  <2>2. ~Begun(q)
    BY <2>1 DEF StartParse, Fresh, NotStarted, Begun
  <2>3. \A p \in Parses \ {q} : parse'[p] = parse[p]
    BY <1>1, <2>1 DEF StartParse
  <2>4. QED BY <2>2, <2>3 DEF Answered, Begun
<1>3. ASSUME NEW q \in Parses, ParseComplete(q) \/ ParseFails(q)
      PROVE  \A p \in Parses : Answered(p) => Answered(p)'
  <2>1. parse' = [parse EXCEPT ![q].answer = "handled"]
    BY <1>3 DEF ParseComplete, ParseFails, Handled
  <2>2. QED BY <1>1, <2>1 DEF Answered, Begun, Parse
<1>4. ASSUME NEW q \in Parses, ReadUsage(q) \/ InsertUsage(q)
      PROVE  \A p \in Parses : Answered(p) => Answered(p)'
  <2>1. \E v \in {"first", "reserved", "refused"} :
          parse' = [parse EXCEPT ![q].server = v]
    BY <1>4 DEF ReadUsage, InsertUsage, Reserve
  <2>2. QED BY <1>1, <2>1 DEF Answered, Begun, Parse
<1>5. CASE UNCHANGED parse
  BY <1>5 DEF Answered, Begun
<1>6. QED
  BY <1>2, <1>3, <1>4, <1>5
     DEF Next, vars, Open, Dismiss, CloseBackdrop, ResetTimer, ChooseGroup,
         SwitchMode, Discard, ResetSandbox, LeaveSandbox, EnterSandbox,
         JoinGroup, TypeText, TypeSandbox, Typed, Commentary, ConfirmPreview,
         SubmitManual, ServeCreate, CreateSucceeds, CreateFails

\* A surface comes to show a parse only when that parse completes.
ShowsOld(s) == box'[s].shown \in {None, box[s].shown}
ShowsNew(s) ==
  \E p \in Parses : ParseComplete(p) /\ parse[p].from = s /\ box'[s].shown = p

LEMMA ShownComes ==
  ASSUME TypeOK, [Next]_vars
  PROVE  \A s \in Surface : ShowsOld(s) \/ ShowsNew(s)
<1>1. /\ "modal" \in Surface /\ "sandbox" \in Surface
      /\ box \in [Surface -> Box]
      /\ box["modal"] \in Box /\ box["sandbox"] \in Box
  BY DEF TypeOK, Surface
<1>2. /\ Cleared(box["modal"]) \in Box /\ Cleared(box["sandbox"]) \in Box
      /\ Shut(box["modal"]) \in Box /\ Closed \in Box
      /\ Cleared(box["modal"]).shown = None
      /\ Cleared(box["sandbox"]).shown = None
      /\ Shut(box["modal"]).shown = box["modal"].shown
  BY <1>1, ResetsAreTyped, NothingIsTyped, ClearedFields, ShutFields
<1>3. CASE UNCHANGED box
  BY <1>3 DEF ShowsOld
<1>4. CASE Open \/ Dismiss \/ CloseBackdrop \/ ResetTimer \/ Discard
  <2>1. \/ box' = [box EXCEPT !["modal"] = [Cleared(@) EXCEPT !.open = TRUE]]
        \/ box' = [box EXCEPT !["modal"] = Shut(@)]
        \/ box' = [box EXCEPT !["modal"] = Cleared(@)]
        \/ box' = [box EXCEPT !["modal"] =
                     [@ EXCEPT !.text = FALSE, !.status = "placeholder",
                               !.shown = None, !.said = None]]
    BY <1>4 DEF Open, Dismiss, CloseBackdrop, ResetTimer, Discard
  <2>2. /\ \A t \in Surface \ {"modal"} : box'[t] = box[t]
        /\ \/ box'["modal"] = [Cleared(box["modal"]) EXCEPT !.open = TRUE]
           \/ box'["modal"] = Shut(box["modal"])
           \/ box'["modal"] = Cleared(box["modal"])
           \/ box'["modal"] = [box["modal"] EXCEPT
                 !.text = FALSE, !.status = "placeholder",
                 !.shown = None, !.said = None]
    BY <1>1, <2>1
  <2>3. /\ [Cleared(box["modal"]) EXCEPT !.open = TRUE].shown = None
        /\ [box["modal"] EXCEPT !.text = FALSE, !.status = "placeholder",
                                !.shown = None, !.said = None].shown = None
    BY <1>1, <1>2 DEF Box
  <2>4. QED BY <1>2, <2>2, <2>3 DEF ShowsOld
<1>5. ASSUME NEW c \in Creates, CreateSucceeds(c)
      PROVE  \A s \in Surface : ShowsOld(s)
  <2>1. \/ box' = [box EXCEPT !["modal"] = Shut(@)]
        \/ box' = [box EXCEPT !["modal"] =
                     [Shut(@) EXCEPT !.text = FALSE, !.shown = None,
                                     !.status = "placeholder"]]
    BY <1>5 DEF CreateSucceeds
  <2>2. [Shut(box["modal"]) EXCEPT !.text = FALSE, !.shown = None,
                                   !.status = "placeholder"].shown = None
    BY <1>2 DEF Box
  <2>3. QED BY <1>1, <1>2, <2>1, <2>2 DEF ShowsOld
<1>6. CASE ResetSandbox \/ LeaveSandbox \/ EnterSandbox
  <2>1. \/ box' = [box EXCEPT !["sandbox"] = Closed]
        \/ box' = [box EXCEPT !["sandbox"] =
                     [Cleared(@) EXCEPT !.live = None]]
        \/ box' = [box EXCEPT !["sandbox"].open = TRUE]
    BY <1>6 DEF ResetSandbox, LeaveSandbox, EnterSandbox
  <2>2. /\ [Cleared(box["sandbox"]) EXCEPT !.live = None].shown = None
        /\ [box["sandbox"] EXCEPT !.open = TRUE].shown = box["sandbox"].shown
        /\ Closed.shown = None
    BY <1>1, <1>2 DEF Box, Closed
  <2>3. QED BY <1>1, <2>1, <2>2 DEF ShowsOld
<1>7. ASSUME NEW t \in Surface, NEW p \in Parses,
             StartParse(t, p)
      PROVE  \A s \in Surface : ShowsOld(s)
  <2>1. box' = [box EXCEPT ![t] =
                 [@ EXCEPT !.waiting = TRUE, !.status = "loading",
                           !.live = p, !.shown = None, !.said = None]]
    BY <1>7 DEF StartParse
  <2>2. box[t] \in Box
    BY <1>1
  <2>3. [box[t] EXCEPT !.waiting = TRUE, !.status = "loading",
                       !.live = p, !.shown = None, !.said = None].shown = None
    BY <2>2 DEF Box
  <2>4. QED BY <1>1, <2>1, <2>3 DEF ShowsOld
<1>8. ASSUME NEW t \in Surface, Typed(t)
      PROVE  \A s \in Surface : ShowsOld(s)
  <2>1. box' = [box EXCEPT ![t].text = TRUE]
    BY <1>8 DEF Typed
  <2>2. QED BY <1>1, <2>1 DEF ShowsOld, Box
<1>9. ASSUME NEW p \in Parses,
             Commentary(p) \/ ParseComplete(p) \/ ParseFails(p)
      PROVE  \A s \in Surface : ShowsOld(s) \/ ShowsNew(s)
  <2>1. parse[p].from \in Surface /\ box[parse[p].from] \in Box
    BY ParseIsTyped DEF TypeOK
  <2>2. CASE Commentary(p)
    BY <1>1, <2>1, <2>2 DEF Commentary, ShowsOld, Box
  <2>3. CASE ParseFails(p)
    BY <1>1, <2>1, <2>3 DEF ParseFails, ErrorBox, ShowsOld, Box
  <2>4. CASE ParseComplete(p)
    <3>1. /\ box'[parse[p].from].shown = p
          /\ \A s \in Surface \ {parse[p].from} : box'[s] = box[s]
      BY <1>1, <2>1, <2>4 DEF ParseComplete, Box
    <3>2. QED BY <2>4, <3>1 DEF ShowsOld, ShowsNew
  <2>5. QED BY <1>9, <2>2, <2>3, <2>4
<1>10. QED
  BY <1>1, <1>3, <1>4, <1>5, <1>6, <1>7, <1>8, <1>9
     DEF Next, vars, ChooseGroup, SwitchMode, JoinGroup, TypeText,
         TypeSandbox, SmartSubmit, TrySandbox, ReadUsage, InsertUsage,
         ConfirmPreview, SubmitManual, ServeCreate, CreateFails
LEMMA KeptStep == TypeOK /\ ScreenInv /\ KeptInv /\ [Next]_vars => KeptInv'
<1>1. SUFFICES ASSUME TypeOK, ScreenInv, KeptInv, [Next]_vars PROVE KeptInv'
  OBVIOUS
<1>2. ASSUME NEW s \in Surface, box'[s].shown # None
      PROVE  parse'[box'[s].shown].server # "none"
             /\ parse'[box'[s].shown].answer = "handled"
  <2>1. CASE ShowsOld(s)
    <3>1. box'[s].shown = box[s].shown /\ box[s].shown \in Parses
      BY <1>1, <1>2, <2>1, LiveIsParse DEF ShowsOld
    <3>2. Answered(box[s].shown)
      BY <1>1, <3>1, <1>2 DEF KeptInv, Answered
    <3>3. QED BY <1>1, <3>1, <3>2, AnswersStay DEF Answered, Begun
  <2>2. CASE ShowsNew(s)
    <3>1. PICK p \in Parses :
            ParseComplete(p) /\ parse[p].from = s /\ box'[s].shown = p
      BY <2>2 DEF ShowsNew
    <3>2. parse' = [parse EXCEPT ![p].answer = "handled"]
          /\ parse[p].server = "reserved"
      BY <3>1 DEF ParseComplete, Handled
    <3>3. parse[p] \in Parse /\ parse \in [Parses -> Parse]
      BY <1>1 DEF TypeOK
    <3>4. QED BY <3>1, <3>2, <3>3 DEF Parse
  <2>3. QED BY <1>1, <1>2, <2>1, <2>2, ShownComes
<1>3. ~box'["sandbox"].open => box'["sandbox"] = Closed
  <2>1. /\ "modal" \in Surface /\ "sandbox" \in Surface
        /\ box \in [Surface -> Box] /\ box["sandbox"] \in Box
        /\ box["sandbox"].open \in BOOLEAN
    BY <1>1 DEF TypeOK, Surface, Box
  <2>2. CASE box'["sandbox"] = box["sandbox"]
    BY <1>1, <2>2 DEF KeptInv
  <2>3. CASE LeaveSandbox
    BY <2>1, <2>3 DEF LeaveSandbox
  <2>4. CASE ResetSandbox
    <3>1. /\ box'["sandbox"] = [Cleared(box["sandbox"]) EXCEPT !.live = None]
          /\ box["sandbox"].open
      BY <2>1, <2>4 DEF ResetSandbox, DemoShown
    <3>2. Cleared(box["sandbox"]) \in Box
      BY <2>1, ResetsAreTyped
    <3>3. QED BY <2>1, <3>1, <3>2, ClearedFields DEF Box
  <2>5. CASE EnterSandbox
    BY <2>1, <2>5 DEF EnterSandbox, Box
  <2>6. CASE TypeSandbox
    BY <2>1, <2>6 DEF TypeSandbox, Typed, Box
  <2>7. ASSUME NEW p \in Parses, TrySandbox(p)
        PROVE  box'["sandbox"].open
    <3>1. /\ box' = [box EXCEPT !["sandbox"] =
                       [@ EXCEPT !.waiting = TRUE, !.status = "loading",
                           !.live = p, !.shown = None, !.said = None]]
          /\ box["sandbox"].open
      BY <2>7 DEF TrySandbox, StartParse
    <3>2. QED BY <2>1, <3>1 DEF Box
  <2>8. ASSUME NEW p \in Parses,
               Commentary(p) \/ ParseComplete(p) \/ ParseFails(p),
               box'["sandbox"] # box["sandbox"]
        PROVE  box'["sandbox"].open
    <3>1. parse[p].from = "sandbox"
      BY <1>1, <2>1, <2>8, ParseIsTyped
         DEF Commentary, ParseComplete, ParseFails
    <3>2. box["sandbox"].open
      BY <1>1, <2>8, <3>1, HeardIsLive
         DEF Commentary, ParseComplete, ParseFails
    <3>3. ErrorBox(box["sandbox"]).open = box["sandbox"].open
      BY <2>1 DEF ErrorBox, Box
    <3>4. \/ box'["sandbox"] = [box["sandbox"] EXCEPT !.said = p]
          \/ box'["sandbox"] = [box["sandbox"] EXCEPT !.waiting = FALSE,
                                   !.status = "ready", !.shown = p]
          \/ box'["sandbox"] = ErrorBox(box["sandbox"])
      BY <2>1, <2>8, <3>1 DEF Commentary, ParseComplete, ParseFails
    <3>5. QED BY <2>1, <3>2, <3>3, <3>4 DEF Box
  <2>9. QED
    BY <1>1, <2>1, <2>2, <2>3, <2>4, <2>5, <2>6, <2>7, <2>8
       DEF Next, vars, Open, Dismiss, CloseBackdrop, ResetTimer, Discard,
           ChooseGroup, SwitchMode, JoinGroup, TypeText, Typed, SmartSubmit,
           StartParse, ReadUsage, InsertUsage, ConfirmPreview, SubmitManual,
           ServeCreate, CreateSucceeds, CreateFails
<1>4. QED BY <1>2, <1>3 DEF KeptInv, Begun
-----------------------------------------------------------------------------
(* The requests.                                                           *)

\* A step on the requests is the form's leaving, a new request of a form
\* that waits for none, or what becomes of one request.
Sends(c) ==
  /\ sending = None
  /\ UNCHANGED <<box, parse>>
  /\ \/ Send(c, None)
     \/ Send(c, box["modal"].shown) /\ box["modal"].shown # None
LEMMA CreateSteps ==
  ASSUME [Next]_vars
  PROVE  \/ UNCHANGED <<create, sending>>
         \/ Unmount
         \/ \E c \in Creates : \/ Sends(c) \/ ServeCreate(c)
                               \/ CreateSucceeds(c) \/ CreateFails(c)
<1>1. ASSUME NEW c \in Creates, ConfirmPreview(c) \/ SubmitManual(c)
      PROVE  Sends(c)
  BY <1>1 DEF ConfirmPreview, Confirmable, Previewing, SubmitManual, Sends
<1>2. QED
  BY <1>1 DEF Next, vars, Open, Dismiss, CloseBackdrop, ResetTimer, Discard,
       ChooseGroup, SwitchMode, JoinGroup, TypeText, TypeSandbox, Typed,
       ResetSandbox, LeaveSandbox, EnterSandbox, SmartSubmit, TrySandbox,
       Commentary, ParseComplete, ParseFails, ReadUsage, InsertUsage, KeepForm

\* The five things that can happen to one request.
Kept(c) == create'[c] = create[c]
Left(c) == /\ create'[c].of = create[c].of
           /\ create'[c].state = create[c].state /\ create'[c].orphan
Goes(c, state) == /\ create'[c].of = create[c].of
                  /\ create'[c].orphan = create[c].orphan
                  /\ create'[c].state = state

LEMMA MoveGoes ==
  ASSUME TypeOK, NEW c \in Creates, NEW state, Move(c, state)
  PROVE  Goes(c, state) /\ \A d \in Creates \ {c} : Kept(d)
<1>1. create \in [Creates -> Create] /\ create[c] \in Create
  BY DEF TypeOK
<1>2. create'[c] = [create[c] EXCEPT !.state = state]
      /\ \A d \in Creates \ {c} : create'[d] = create[d]
  BY <1>1 DEF Move
<1>3. QED BY <1>1, <1>2 DEF Goes, Kept, Create

LEMMA OrphanedLeaves ==
  ASSUME TypeOK
  PROVE  \A c \in Creates :
           /\ c # sending => Orphaned(create)[c] = create[c]
           /\ c = sending => /\ Orphaned(create)[c].of = create[c].of
                             /\ Orphaned(create)[c].state = create[c].state
                             /\ Orphaned(create)[c].orphan
<1>1. \A c \in Creates : create[c] \in Create
  BY DEF TypeOK
<1>2. QED BY <1>1 DEF Orphaned, Create

LEMMA UnmountLeaves ==
  ASSUME TypeOK, Unmount
  PROVE  /\ sending' = None
         /\ \A c \in Creates : IF c = sending THEN Left(c) ELSE Kept(c)
BY OrphanedLeaves DEF Unmount, Left, Kept

LEMMA SucceedsGoes ==
  ASSUME TypeOK, NEW c \in Creates, CreateSucceeds(c)
  PROVE  /\ create[c].state = "stored" /\ Goes(c, "ok") /\ sending' = None
         /\ \A d \in Creates \ {c} : IF d = sending THEN Left(d) ELSE Kept(d)
         /\ create[c].of # None => box'["modal"].shown = None
<1>1. create[c] \in Create
  BY DEF TypeOK
<1>2. /\ create'[c] = [create[c] EXCEPT !.state = "ok"]
      /\ \A d \in Creates \ {c} : create'[d] = Orphaned(create)[d]
  BY DEF CreateSucceeds, Orphaned
<1>3. create[c].of # None => box'["modal"].shown = None
  <2>1. box \in [Surface -> Box] /\ "modal" \in Surface
    BY DEF TypeOK, Surface
  <2>2. Shut(box["modal"]) \in Box
    BY <2>1, ResetsAreTyped
  <2>3. create[c].of # None => box'["modal"] =
          [Shut(box["modal"]) EXCEPT !.text = FALSE, !.shown = None,
                                     !.status = "placeholder"]
    BY <2>1 DEF CreateSucceeds
  <2>4. QED BY <2>2, <2>3 DEF Box
<1>4. QED BY <1>1, <1>2, <1>3, OrphanedLeaves
          DEF CreateSucceeds, Goes, Left, Kept, Create

LEMMA SendsNew ==
  ASSUME TypeOK, NEW c \in Creates, Sends(c)
  PROVE  /\ create[c] = NotSent /\ sending = None /\ sending' = c
         /\ create'[c].state = "sent" /\ ~create'[c].orphan
         /\ create'[c].of \in {None, box["modal"].shown}
         /\ UNCHANGED <<box, parse>>
         /\ \A d \in Creates \ {c} : Kept(d)
BY DEF TypeOK, Sends, Send, Unsent, Kept

LEMMA FailsGoes ==
  ASSUME TypeOK, NEW c \in Creates, CreateFails(c)
  PROVE  /\ Waited(c) /\ (Goes(c, "failed") \/ Goes(c, "lost"))
         /\ sending' = IF sending = c THEN None ELSE sending
         /\ \A d \in Creates \ {c} : Kept(d)
BY MoveGoes DEF CreateFails, Waited

LEMMA ServeGoes ==
  ASSUME TypeOK, NEW c \in Creates, ServeCreate(c)
  PROVE  /\ create[c].state = "sent" /\ UNCHANGED sending
         /\ Goes(c, "stored") \/ Goes(c, "refused")
         /\ \A d \in Creates \ {c} : Kept(d)
BY MoveGoes DEF ServeCreate
\* Every request keeps its record, is orphaned, sent, served or answered.
Changes(c) ==
  \/ Kept(c)
  \/ Left(c)
  \/ Sends(c)
  \/ create[c].state = "sent" /\ (Goes(c, "stored") \/ Goes(c, "refused"))
  \/ CreateSucceeds(c) /\ create[c].state = "stored" /\ Goes(c, "ok")
  \/ Waited(c) /\ (Goes(c, "failed") \/ Goes(c, "lost"))
LEMMA RequestsChange ==
  ASSUME TypeOK, [Next]_vars
  PROVE  \A c \in Creates : Changes(c)
<1>1. SUFFICES ASSUME NEW c \in Creates PROVE Changes(c)
  OBVIOUS
<1>2. CASE UNCHANGED <<create, sending>> \/ Unmount
  BY <1>2, UnmountLeaves DEF Changes, Kept
<1>3. ASSUME NEW d \in Creates, Sends(d) PROVE Changes(c)
  BY <1>3, SendsNew DEF Changes, Kept
<1>4. ASSUME NEW d \in Creates, ServeCreate(d) PROVE Changes(c)
  BY <1>4, ServeGoes DEF Changes, Kept
<1>5. ASSUME NEW d \in Creates, CreateSucceeds(d) PROVE Changes(c)
  <2>1. CASE c = d
    BY <1>5, <2>1, SucceedsGoes DEF Changes
  <2>2. CASE c # d
    BY <1>5, <2>2, SucceedsGoes DEF Changes, Kept, Left
  <2>3. QED BY <2>1, <2>2
<1>6. ASSUME NEW d \in Creates, CreateFails(d) PROVE Changes(c)
  BY <1>6, FailsGoes DEF Changes, Kept
<1>7. QED BY <1>2, <1>3, <1>4, <1>5, <1>6, CreateSteps

\* The request that a form waits for is known to it until it is answered.
LEMMA WaitsForOne ==
  ASSUME TypeOK, SendInv, [Next]_vars
  PROVE  \A c \in Creates :
           create'[c].state \in {"sent", "stored", "refused"}
           /\ ~create'[c].orphan => sending' = c
<1>1. \A c \in Creates : c # None
  BY DEF Creates, None
<1>2. \A c \in Creates : Waited(c) /\ ~create[c].orphan => sending = c
  BY DEF SendInv
<1>3. CASE UNCHANGED <<create, sending>>
  BY <1>2, <1>3 DEF Waited
<1>4. CASE Unmount
  BY <1>2, <1>4, UnmountLeaves DEF Waited, Left, Kept
<1>5. ASSUME NEW d \in Creates, Sends(d)
      PROVE  \A c \in Creates :
               create'[c].state \in {"sent", "stored", "refused"}
               /\ ~create'[c].orphan => sending' = c
  BY <1>1, <1>2, <1>5, SendsNew DEF Waited, Kept
<1>6. ASSUME NEW d \in Creates, ServeCreate(d)
      PROVE  \A c \in Creates :
               create'[c].state \in {"sent", "stored", "refused"}
               /\ ~create'[c].orphan => sending' = c
  BY <1>2, <1>6, ServeGoes DEF Waited, Kept, Goes
<1>7. ASSUME NEW d \in Creates, CreateSucceeds(d)
      PROVE  \A c \in Creates :
               create'[c].state \in {"sent", "stored", "refused"}
               /\ ~create'[c].orphan => sending' = c
  BY <1>2, <1>7, SucceedsGoes DEF Waited, Kept, Left, Goes
<1>8. ASSUME NEW d \in Creates, CreateFails(d)
      PROVE  \A c \in Creates :
               create'[c].state \in {"sent", "stored", "refused"}
               /\ ~create'[c].orphan => sending' = c
  BY <1>2, <1>8, FailsGoes DEF Waited, Kept, Goes
<1>9. QED BY <1>3, <1>4, <1>5, <1>6, <1>7, <1>8, CreateSteps

\* A request's preview was answered.
LEMMA PreviewsWereAnswered ==
  ASSUME TypeOK, KeptInv, SendInv, [Next]_vars
  PROVE  \A c \in Creates : create'[c].of # None =>
           /\ parse'[create'[c].of].server # "none"
           /\ parse'[create'[c].of].answer = "handled"
<1>1. SUFFICES ASSUME NEW c \in Creates, create'[c].of # None
               PROVE  /\ parse'[create'[c].of].server # "none"
                      /\ parse'[create'[c].of].answer = "handled"
  OBVIOUS
<1>2. create[c] \in Create /\ create[c].of \in 0..MaxParses
  BY DEF TypeOK, Create
<1>3. create[c].of # None => create[c].of \in Parses
  BY <1>2, BoundsAreNumbers DEF None, Parses
<1>4. CASE create'[c].of = create[c].of
  <2>1. Answered(create[c].of)
    BY <1>1, <1>4 DEF SendInv, Answered
  <2>2. QED BY <1>1, <1>3, <1>4, <2>1, AnswersStay DEF Answered, Begun
<1>5. CASE Sends(c)
  <2>1. create'[c].of = box["modal"].shown /\ parse' = parse
    BY <1>1, <1>5, SendsNew
  <2>2. QED BY <1>1, <2>1 DEF KeptInv, Surface, Begun
<1>6. QED BY <1>4, <1>5, RequestsChange DEF Changes, Kept, Left, Goes

\* A preview that became an expense cannot become another one.
LEMMA SpentStaysSpent ==
  ASSUME TypeOK, ScreenInv, SendInv, [Next]_vars, NEW c \in Creates,
         Spent(c), ~create'[c].orphan
  PROVE  /\ box'["modal"].shown # create[c].of
         /\ \A d \in Creates :
              d # c /\ create'[d].of = create[c].of /\ ~create'[d].orphan =>
                create'[d].state \in {"failed", "lost"}
<1>1. /\ box["modal"].shown # create[c].of /\ create[c].of # None
      /\ \A d \in Creates :
           d # c /\ create[d].of = create[c].of /\ ~create[d].orphan =>
             create[d].state \in {"failed", "lost"}
      /\ Answered(create[c].of)
  BY DEF SendInv, Spent, Answered
<1>2. box'["modal"].shown # create[c].of
  <2>1. ASSUME NEW p \in Parses, ParseComplete(p) PROVE p # create[c].of
    BY <1>1, <2>1 DEF ParseComplete, Heard, Answered
  <2>2. QED BY <1>1, <2>1, ShownComes DEF ShowsOld, ShowsNew, Surface
<1>3. ASSUME NEW d \in Creates, d # c, create'[d].of = create[c].of,
             ~create'[d].orphan
      PROVE  create'[d].state \in {"failed", "lost"}
  <2>1. ~Sends(d)
    BY <1>1, <1>3, SendsNew
  <2>2. \/ Kept(d) \/ Goes(d, "failed") \/ Goes(d, "lost")
        \/ /\ create[d].state \in {"sent", "stored", "refused"}
           /\ create'[d].orphan = create[d].orphan
           /\ create'[d].of = create[d].of
    <3>1. Changes(d)
      BY RequestsChange
    <3>2. QED BY <1>3, <2>1, <3>1 DEF Changes, Left, Goes
  <2>3. QED BY <1>1, <1>3, <2>2 DEF Kept, Goes
<1>4. QED BY <1>2, <1>3

\* The request whose answer makes the preview an expense is the only one of
\* that preview that counts.
LEMMA SpendingIsAlone ==
  ASSUME TypeOK, SendInv, NEW c \in Creates, CreateSucceeds(c),
         create[c].of # None, ~create[c].orphan
  PROVE  /\ box'["modal"].shown # create[c].of
         /\ \A d \in Creates :
              d # c /\ create'[d].of = create[c].of /\ ~create'[d].orphan =>
                create'[d].state \in {"failed", "lost"}
<1>1. /\ create[c].state = "stored" /\ box'["modal"].shown = None
      /\ \A d \in Creates \ {c} : IF d = sending THEN Left(d) ELSE Kept(d)
  BY SucceedsGoes
<1>2. ASSUME NEW d \in Creates, d # c, create'[d].of = create[c].of,
             ~create'[d].orphan
      PROVE  create'[d].state \in {"failed", "lost"}
  <2>1. d # sending /\ Kept(d)
    BY <1>1, <1>2 DEF Left
  <2>2. create[d].of = create[c].of /\ ~create[d].orphan
    BY <1>2, <2>1 DEF Kept
  <2>3. create[d].state # "none"
    BY <2>2 DEF SendInv
  <2>4. ~Waited(d)
    BY <2>1, <2>2 DEF SendInv
  <2>5. create[d].state # "ok"
    BY <1>1, <1>2, <2>2 DEF SendInv, Spent
  <2>6. create[d].state \in {"failed", "lost"}
    BY <2>3, <2>4, <2>5 DEF TypeOK, Create, Waited
  <2>7. QED BY <2>1, <2>6 DEF Kept
<1>3. QED BY <1>1, <1>2

LEMMA SendStep ==
  TypeOK /\ ScreenInv /\ KeptInv /\ SendInv /\ [Next]_vars => SendInv'
<1>1. SUFFICES ASSUME TypeOK, ScreenInv, KeptInv, SendInv, [Next]_vars
               PROVE  SendInv'
  OBVIOUS
<1>2. ASSUME NEW c \in Creates, create'[c].state = "none"
      PROVE  create'[c].of = None
  <2>1. Kept(c) \/ Left(c)
    BY <1>1, <1>2, RequestsChange, SendsNew DEF Changes, Goes
  <2>2. QED BY <1>1, <1>2, <2>1 DEF SendInv, Kept, Left
<1>3. ASSUME NEW c \in Creates, create'[c].state = "ok",
             ~create'[c].orphan, create'[c].of # None
      PROVE  /\ box'["modal"].shown # create'[c].of
             /\ \A d \in Creates :
                  d # c /\ create'[d].of = create'[c].of
                        /\ ~create'[d].orphan =>
                    create'[d].state \in {"failed", "lost"}
  <2>1. Kept(c) \/ (CreateSucceeds(c) /\ Goes(c, "ok"))
    <3>1. Changes(c) /\ ~Sends(c)
      BY <1>1, <1>3, RequestsChange, SendsNew
    <3>2. QED BY <1>3, <3>1 DEF Changes, Left, Goes, Kept
  <2>2. CASE Kept(c)
    BY <1>1, <1>3, <2>2, SpentStaysSpent DEF Kept, Spent
  <2>3. CASE CreateSucceeds(c) /\ Goes(c, "ok")
    BY <1>1, <1>3, <2>3, SpendingIsAlone DEF Goes
  <2>4. QED BY <2>1, <2>2, <2>3
<1>4. \A c \in Creates : Waited(c)' /\ ~create'[c].orphan => sending' = c
  BY <1>1, WaitsForOne DEF Waited
<1>5. QED BY <1>1, <1>2, <1>3, <1>4, PreviewsWereAnswered
          DEF SendInv, Spent, Begun
-----------------------------------------------------------------------------
(* The count of the month.                                                 *)

Served == {p \in Parses : parse[p].server = "reserved"}

LEMMA ServedIsFinite ==
  IsFiniteSet(Served) /\ Cardinality(Served) \in Nat
<1>1. IsFiniteSet(Parses)
  BY BoundsAreNumbers, FS_Interval DEF Parses
<1>2. QED BY <1>1, FS_Subset, FS_CardinalityType DEF Served

\* A reservation adds one to the count and one to the parses that reach the
\* model, in the same step.
LEMMA ReserveCounts ==
  ASSUME TypeOK, EveryParseCounted, NEW p \in Parses,
         parse[p].server \in {"arriving", "first"},
         NEW n \in 0..Quota, n = Cardinality(Served), Reserve(p, n)
  PROVE  EveryParseCounted'
<1>1. parse \in [Parses -> Parse] /\ p \notin Served
  BY DEF TypeOK, Served
<1>2. CASE usage' = {n + 1} /\ parse' = [parse EXCEPT ![p].server = "reserved"]
           /\ n < Quota
  <2>1. Served' = Served \cup {p}
    BY <1>1, <1>2 DEF Served, Parse
  <2>2. Cardinality(Served') = n + 1
    BY <1>1, <2>1, ServedIsFinite, FS_AddElement
  <2>3. n + 1 <= Quota /\ n + 1 # 0
    BY <1>2, BoundsAreNumbers
  <2>4. QED BY <1>2, <2>2, <2>3 DEF EveryParseCounted, Served
<1>3. CASE parse' = [parse EXCEPT ![p].server = "refused"] /\ usage' = usage
  <2>1. Served' = Served
    BY <1>1, <1>3 DEF Served, Parse
  <2>2. QED BY <1>3, <2>1 DEF EveryParseCounted, Served
<1>4. QED BY <1>2, <1>3 DEF Reserve

LEMMA CountStep ==
  TypeOK /\ EveryParseCounted /\ [Next]_vars => EveryParseCounted'
<1>1. SUFFICES ASSUME TypeOK, EveryParseCounted, [Next]_vars
               PROVE  EveryParseCounted'
  OBVIOUS
<1>2. parse \in [Parses -> Parse]
  BY <1>1 DEF TypeOK
<1>3. CASE usage' = usage /\ Served' = Served
  BY <1>1, <1>3 DEF EveryParseCounted, Served
<1>4. CASE UNCHANGED <<usage, parse>>
  BY <1>3, <1>4 DEF Served
<1>5. ASSUME NEW p \in Parses, SmartSubmit(p) \/ TrySandbox(p)
      PROVE  EveryParseCounted'
  <2>1. PICK s : StartParse(s, p)
    BY <1>5 DEF SmartSubmit, TrySandbox
  <2>2. parse[p].server # "reserved"
    BY <2>1 DEF StartParse, Fresh, NotStarted
  <2>3. Served' = Served
    BY <1>2, <2>1, <2>2 DEF StartParse, Served
  <2>4. QED BY <1>3, <1>5, <2>3 DEF SmartSubmit, TrySandbox
<1>6. ASSUME NEW p \in Parses, ParseComplete(p) \/ ParseFails(p)
      PROVE  EveryParseCounted'
  <2>1. parse' = [parse EXCEPT ![p].answer = "handled"]
    BY <1>6 DEF ParseComplete, ParseFails, Handled
  <2>2. Served' = Served
    BY <1>2, <2>1 DEF Served, Parse
  <2>3. QED BY <1>3, <1>6, <2>2 DEF ParseComplete, ParseFails
<1>7. ASSUME NEW p \in Parses, ReadUsage(p)
      PROVE  EveryParseCounted'
  <2>1. CASE parse' = [parse EXCEPT ![p].server = "first"] /\ usage' = usage
    <3>1. Served' = Served
      BY <1>2, <1>7, <2>1 DEF ReadUsage, Served, Parse
    <3>2. QED BY <1>3, <2>1, <3>1
  <2>2. ASSUME NEW n \in usage, Reserve(p, n)
        PROVE  EveryParseCounted'
    <3>1. n \in 0..Quota /\ n = Cardinality(Served)
      BY <1>1, <2>2, CountIsTyped DEF EveryParseCounted, Served
    <3>2. QED BY <1>1, <1>7, <2>2, <3>1, ReserveCounts DEF ReadUsage
  <2>3. QED BY <1>7, <2>1, <2>2 DEF ReadUsage
<1>8. ASSUME NEW p \in Parses, InsertUsage(p)
      PROVE  EveryParseCounted'
  <2>1. CountOnInsert \in 0..Quota
    BY <1>1, CountIsTyped
  <2>2. CountOnInsert = Cardinality(Served)
    <3>1. CASE usage = {}
      BY <1>1, <3>1 DEF CountOnInsert, EveryParseCounted, Served
    <3>2. CASE usage # {}
      BY <1>1, <3>2, CountIsTyped DEF EveryParseCounted, Served
    <3>3. QED BY <3>1, <3>2
  <2>3. QED BY <1>1, <1>8, <2>1, <2>2, ReserveCounts DEF InsertUsage
<1>9. QED
  BY <1>1, <1>4, <1>5, <1>6, <1>7, <1>8
     DEF Next, vars, Open, Dismiss, CloseBackdrop, ResetTimer, ChooseGroup,
         SwitchMode, Discard, ResetSandbox, LeaveSandbox, EnterSandbox,
         JoinGroup, TypeText, TypeSandbox, Typed, Commentary, ConfirmPreview,
         SubmitManual, ServeCreate, CreateSucceeds, CreateFails

-----------------------------------------------------------------------------
(* The invariant, and what follows from it.                                *)

LEMMA InitInv == Init => IInv
<1>1. SUFFICES ASSUME Init PROVE IInv
  OBVIOUS
<1>2. TypeOK
  BY <1>1, InitTypes
<1>3. LiveInv /\ KeptInv /\ SpinnerIsAlive /\ NothingStale
  <2>1. \A t \in Surface : box[t] = Closed
    BY <1>1 DEF Init
  <2>2. \A p \in Parses : ~InFlight(p)
    BY <1>1 DEF Init, NotStarted, InFlight
  <2>3. cut = {}
    BY <1>1 DEF Init
  <2>4. LiveInv /\ KeptInv
    BY <2>1, <2>2, <2>3 DEF LiveInv, KeptInv, Closed, Surface
  <2>5. SpinnerIsAlive /\ NothingStale
    BY <2>1 DEF SpinnerIsAlive, NothingStale, Closed
  <2>6. QED BY <2>4, <2>5
<1>4. SendInv
  BY <1>1 DEF Init, SendInv, Waited, Spent, NotSent
<1>5. EveryParseCounted
  <2>1. Served = {}
    BY <1>1 DEF Init, Served, NotStarted
  <2>2. Cardinality(Served) = 0
    BY <2>1, FS_EmptySet
  <2>3. QED BY <1>1, <2>2, BoundsAreNumbers DEF Init, EveryParseCounted, Served
<1>6. QED BY <1>2, <1>3, <1>4, <1>5 DEF IInv

LEMMA NextInv == IInv /\ [Next]_vars => IInv'
BY NextTypes, ScreenStep, KeptStep, SendStep, CountStep DEF IInv, ScreenInv

LEMMA Invariance == Spec => []IInv
BY InitInv, NextInv, PTL DEF Spec

\* Every variable keeps its type, whatever the bounds.
THEOREM TypeCorrect == Spec => []TypeOK
<1>1. IInv => TypeOK
  BY DEF IInv
<1>2. QED BY <1>1, Invariance, PTL

\* A visible spinner always belongs to a parse that is still on its way, so
\* that no order of closes, reopenings and backdrop timers leaves the submit
\* button disabled for good.
THEOREM SpinnerHasAParse == Spec => []SpinnerIsAlive
<1>1. IInv => SpinnerIsAlive
  BY DEF IInv
<1>2. QED BY <1>1, Invariance, PTL

\* A surface never waits for two parses: abortRef is aborted before it is
\* overwritten, even where a timer has reset the spinner early.
THEOREM OneParseEach == Spec => []OneLiveParse
<1>1. LiveInv => OneLiveParse
  BY DEF LiveInv, OneLiveParse
<1>2. IInv => OneLiveParse
  BY <1>1 DEF IInv
<1>3. QED BY <1>2, Invariance, PTL

\* What the modal and the demo show comes from the last parse they started
\* in this opening.
THEOREM ShownIsCurrent == Spec => []NothingStale
<1>1. IInv => NothingStale
  BY DEF IInv
<1>2. QED BY <1>1, Invariance, PTL

\* The row of consume_free_parse counts exactly the parses that were let
\* through, and lets none through beyond the quota.
THEOREM QuotaIsExact == Spec => []EveryParseCounted
<1>1. IInv => EveryParseCounted
  BY DEF IInv
<1>2. QED BY <1>1, Invariance, PTL

\* Of the requests that made an expense of one preview, all but one were
\* left by their form or lost their answer.
LEMMA AtMostOneClean ==
  ASSUME TypeOK, SendInv, NEW p \in Parses,
         NEW c \in Made(p), ~create[c].orphan, create[c].state # "lost",
         NEW d \in Made(p), ~create[d].orphan, create[d].state # "lost"
  PROVE  c = d
<1>1. /\ c \in Creates /\ d \in Creates /\ p # None
      /\ create[c].of = p /\ create[d].of = p
      /\ create[c].state \in {"stored", "ok"}
      /\ create[d].state \in {"stored", "ok"}
  BY DEF Made, Parses, None
<1>2. CASE create[c].state = "ok" \/ create[d].state = "ok"
  BY <1>1, <1>2 DEF SendInv, Spent
<1>3. CASE create[c].state = "stored" /\ create[d].state = "stored"
  BY <1>1, <1>3 DEF SendInv, Waited
<1>4. QED BY <1>1, <1>2, <1>3

\* Confirming a preview makes one expense of it: further ones only out of
\* requests whose form was left or whose answer was lost.
THEOREM OneExpenseEach == Spec => []OneExpensePerPreview
<1>1. TypeOK /\ SendInv => OneExpensePerPreview
  <2>1. SUFFICES ASSUME TypeOK, SendInv, NEW p \in Parses
                 PROVE  Cardinality(Made(p)) <= 1 + Cardinality(
                          {c \in Creates : create[c].of = p
                             /\ (create[c].orphan \/ create[c].state = "lost")})
    BY DEF OneExpensePerPreview
  <2> DEFINE Excused == {c \in Creates : create[c].of = p
                          /\ (create[c].orphan \/ create[c].state = "lost")}
             Clean == Made(p) \ Excused
  <2>2. IsFiniteSet(Creates)
    BY BoundsAreNumbers, FS_Interval DEF Creates
  <2>3. IsFiniteSet(Excused) /\ Cardinality(Excused) \in Nat
    BY <2>2, FS_Subset, FS_CardinalityType
  <2>4. \A c, d \in Clean : c = d
    BY <2>1, AtMostOneClean DEF Made
  <2>5. PICK x : Clean \subseteq {x}
    BY <2>4
  <2>6. Made(p) \subseteq Excused \cup {x}
    BY <2>5
  <2>7. /\ IsFiniteSet(Excused \cup {x})
        /\ Cardinality(Excused \cup {x}) <= Cardinality(Excused) + 1
    BY <2>3, FS_AddElement
  <2>8. /\ Cardinality(Made(p)) <= Cardinality(Excused \cup {x})
        /\ Cardinality(Made(p)) \in Nat
        /\ Cardinality(Excused \cup {x}) \in Nat
    BY <2>6, <2>7, FS_Subset, FS_CardinalityType
  <2>9. QED BY <2>3, <2>7, <2>8
<1>2. IInv => OneExpensePerPreview
  BY <1>1 DEF IInv
<1>3. QED BY <1>2, Invariance, PTL
=============================================================================
