----------------------------- MODULE ProfileForm -----------------------------
(* The profile form of the settings page (UserInformation.tsx): it starts    *)
(* from the cached user, sends the fields that differ from the cached user   *)
(* of that moment, and keeps its first values as the ones Cancel returns to. *)
(* The same user changes the profile on another device meanwhile.            *)
EXTENDS Integers, FiniteSets

CONSTANTS Fields, Values,
          MaxChanges           \* bound: changes made on the other device

VARIABLES server,    \* the user's row
          cache,     \* the cached currentUser
          fetch,     \* its fetch: Idle, Asked, or the answer on its way
          form,      \* the mounted form, or NoForm
          patch,     \* the request under way, or NoPatch; known is history: what
                     \* the user typed into or the page had read anew when it was sent
          changes,   \* how often the other device changed something
          typed,     \* history: the fields typed into since the form was opened
                     \* or reset
          moved      \* history: the fields whose cached value changed under the form

vars == <<server, cache, fetch, form, patch, changes, typed, moved>>

Profile == [Fields -> Values]
Idle    == [is |-> "idle"]
Asked   == [is |-> "asked"]
Answer(p) == [is |-> "answer", user |-> p]
NoForm  == [open |-> FALSE]
NoPatch == [state |-> "none"]

Fresh(p) == [open |-> TRUE, defaults |-> p, values |-> p, edit |-> FALSE]

\* Slip: everything in the form is sent.
Everything(values, user) == Fields

\* onSubmit: the fields that differ from the cached user.
Changed(values, user) == {f \in Fields : values[f] # user[f]}

\* Slip: the fields that were not sent are written back as the form has them.
WholeRow(row, values, fs) == values

\* PATCH /me
Applied(row, values, fs) == [f \in Fields |-> IF f \in fs THEN values[f] ELSE row[f]]

Pending == patch # NoPatch /\ patch.mine
Dirty   == form.values # form.defaults

-----------------------------------------------------------------------------
Init ==
  /\ server \in Profile
  /\ cache = server
  /\ fetch = Idle
  /\ form = NoForm
  /\ patch = NoPatch
  /\ changes = 0
  /\ typed = {}
  /\ moved = {}

\* The other device saves a field.
OtherDevice(f, v) ==
  /\ changes < MaxChanges
  /\ v # server[f]
  /\ server' = [server EXCEPT ![f] = v]
  /\ changes' = changes + 1
  /\ UNCHANGED <<cache, fetch, form, patch, typed, moved>>

\* The page opens: a form with the cached user, who is asked for again.
OpenForm ==
  /\ ~form.open
  /\ form' = Fresh(cache)
  /\ fetch' = IF fetch = Idle THEN Asked ELSE fetch
  /\ typed' = {} /\ moved' = {}
  /\ UNCHANGED <<server, cache, patch, changes>>

\* Slip: the request goes on as the next form's.
StillMine == patch

Disowned == IF patch = NoPatch THEN NoPatch ELSE [patch EXCEPT !.mine = FALSE]

\* Another tab or page: the form is gone, its request goes on.
CloseForm ==
  /\ form.open
  /\ form' = NoForm
  /\ patch' = Disowned
  /\ UNCHANGED <<server, cache, fetch, changes, typed, moved>>

Edit ==
  /\ form.open /\ ~form.edit
  /\ form' = [form EXCEPT !.edit = TRUE]
  /\ UNCHANGED <<server, cache, fetch, patch, changes, typed, moved>>

Type(f, v) ==
  /\ form.open /\ form.edit
  /\ v # form.values[f]
  /\ form' = [form EXCEPT !.values[f] = v]
  /\ typed' = typed \cup {f}
  /\ UNCHANGED <<server, cache, fetch, patch, changes, moved>>

\* The first values return; the button is off while a request is under way.
Cancel ==
  /\ form.open /\ form.edit /\ ~Pending
  /\ form' = [form EXCEPT !.values = form.defaults, !.edit = FALSE]
  /\ typed' = {}
  /\ UNCHANGED <<server, cache, fetch, patch, changes, moved>>

Submit ==
  /\ form.open /\ form.edit /\ Dirty /\ patch = NoPatch
  /\ patch' = [state |-> "sent", values |-> form.values,
               fields |-> Changed(form.values, cache), mine |-> TRUE,
               known |-> typed \cup moved]
  /\ UNCHANGED <<server, cache, fetch, form, changes, typed, moved>>

\* The server writes the fields it was sent.
Commit ==
  /\ patch # NoPatch /\ patch.state = "sent"
  /\ server' = Applied(server, patch.values, patch.fields)
  /\ patch' = [patch EXCEPT !.state = "done"]
  /\ UNCHANGED <<cache, fetch, form, changes, typed, moved>>

\* onSettled: every query is invalidated, the user's fetch starts over.
Settled ==
  /\ patch' = NoPatch
  /\ fetch' = Asked
  /\ UNCHANGED <<server, cache, changes, moved>>

\* onSuccess: edit mode is toggled, the form's values stay.
Saved ==
  /\ patch # NoPatch /\ patch.state = "done"
  /\ form' = IF Pending THEN [form EXCEPT !.edit = ~form.edit] ELSE form
  /\ Settled
  /\ UNCHANGED typed

\* A refusal, a lost request or a lost answer.
Failed ==
  /\ patch # NoPatch
  /\ Settled
  /\ UNCHANGED <<form, typed>>

Focus ==
  /\ fetch = Idle
  /\ fetch' = Asked
  /\ UNCHANGED <<server, cache, form, patch, changes, typed, moved>>

Serve ==
  /\ fetch = Asked
  /\ fetch' = Answer(server)
  /\ UNCHANGED <<server, cache, form, patch, changes, typed, moved>>

Arrive ==
  /\ fetch.is = "answer"
  /\ cache' = fetch.user
  /\ fetch' = Idle
  /\ moved' = moved \cup {f \in Fields : fetch.user[f] # cache[f]}
  /\ UNCHANGED <<server, form, patch, changes, typed>>

FetchFails ==
  /\ fetch # Idle
  /\ fetch' = Idle
  /\ UNCHANGED <<server, cache, form, patch, changes, typed, moved>>

Next ==
  \/ \E f \in Fields, v \in Values : OtherDevice(f, v) \/ Type(f, v)
  \/ OpenForm
  \/ CloseForm
  \/ Edit
  \/ Cancel
  \/ Submit
  \/ Commit
  \/ Saved
  \/ Failed
  \/ Focus
  \/ Serve
  \/ Arrive
  \/ FetchFails

Spec == Init /\ [][Next]_vars

-----------------------------------------------------------------------------
\* The types of the state: a request is the form's own only while the form is open.
TypeOK ==
  /\ server \in Profile /\ cache \in Profile
  /\ fetch \in {Idle, Asked} \cup {Answer(p) : p \in Profile}
  /\ form = NoForm \/ (form.defaults \in Profile /\ form.values \in Profile /\ form.edit \in BOOLEAN)
  /\ patch # NoPatch => patch.fields \subseteq Fields /\ (patch.mine => form.open)
  /\ changes \in 0 .. MaxChanges
  /\ typed \subseteq Fields /\ moved \subseteq Fields

\* The other device's change is undone by a save only if the user typed into the
\* field since the form was opened or reset, or the page had read another value of it.
KeepsUnread ==
  Commit => \A f \in Fields : server'[f] # server[f] => f \in patch.known
UnreadChangesStay == [][KeepsUnread]_vars

\* UserInformation.tsx:67: "only include fields that have changed": a field the user
\* has not typed into, since the form was opened or reset, is not sent.
SendsOnlyTyped == Submit => Changed(form.values, cache) \subseteq typed
OnlyTypedIsSent == [][SendsOnlyTyped]_vars
=============================================================================
