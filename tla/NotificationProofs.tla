------------------------- MODULE NotificationProofs -------------------------
(***************************************************************************)
(* What module NotificationSettings guarantees for any number of tabs,     *)
(* overlapping changes, subscriptions and devices, proved with TLAPS.      *)
(***************************************************************************)
EXTENDS NotificationSettings, TLAPS

-----------------------------------------------------------------------------
(* Type correctness.                                                       *)

LEMMA DefaultIsPrefs == Default \in Prefs
BY NotificationAssumption DEF Default, Prefs

LEMMA NoneIsTyped == NoEndpoint \in 0..MaxEndpoints
BY NotificationAssumption DEF NoEndpoint

LEMMA PutsIsUpdate ==
  ASSUME NEW fields \in SUBSET Field, NEW to \in Prefs, NEW t \in Tab
  PROVE  [Puts(fields, to) EXCEPT !.by = t] \in Update
BY DefaultIsPrefs, NoneIsTyped DEF Puts, Update, NoEndpoint

\* A change in its three stages: made, on its way, over.
LEMMA StartsIsTyped ==
  ASSUME TypeOK, NEW c \in Change, NEW t \in Tab, NEW u,
         [u EXCEPT !.by = t] \in Update, Starts(c, t, u)
  PROVE  change' \in [Change -> Update]
BY DEF TypeOK, Starts

\* the screens' reads
LEMMA ReadTypes ==
  ASSUME TypeOK, NEW t \in Tab,
         Refetch(t) \/ ServeRead(t) \/ ServeMake(t) \/ Loaded(t)
  PROVE  TypeOK'
<1>1. tab[t] \in Screen
  BY DEF TypeOK
<1>2. CASE Refetch(t)
  BY <1>1, <1>2 DEF TypeOK, Refetch, Screen, browser, delivery
<1>3. CASE ServeRead(t)
  BY <1>1, <1>3 DEF TypeOK, ServeRead, Screen, browser, delivery
<1>4. CASE ServeMake(t)
  BY <1>1, <1>4, DefaultIsPrefs DEF TypeOK, ServeMake, Screen, browser, delivery
<1>5. CASE Loaded(t)
  BY <1>1, <1>5, DefaultIsPrefs DEF TypeOK, Loaded, Screen, browser, delivery
<1>6. QED BY <1>2, <1>3, <1>4, <1>5

\* the controls of the form
LEMMA SwitchTypes ==
  ASSUME TypeOK, NEW c \in Change, NEW t \in Tab,
         \/ SwitchNudges(c, t) \/ SwitchEmail(c, t) \/ SetQuietHours(c, t)
         \/ SwitchPushOn(c, t) \/ SwitchPushOff(c, t)
  PROVE  TypeOK'
<1>1. Shown(t) \in Prefs
  BY DEF TypeOK, Screen, Shown
<1>2. \A u : [u EXCEPT !.by = t] \in Update /\ Starts(c, t, u) =>
        change' \in [Change -> Update]
  BY StartsIsTyped
<1>3. \A b \in BOOLEAN : /\ [Default EXCEPT !.nudges = b] \in Prefs
                         /\ [Default EXCEPT !.email = b] \in Prefs
                         /\ [Default EXCEPT !.push = b] \in Prefs
  BY DefaultIsPrefs DEF Prefs
<1>4. /\ \A h \in Hour : /\ [Default EXCEPT !.start = h] \in Prefs
                         /\ [Default EXCEPT !.end = h] \in Prefs
      /\ [Default EXCEPT !.start = NoHour, !.end = NoHour] \in Prefs
  BY DefaultIsPrefs DEF Prefs
<1>5. CASE SwitchNudges(c, t)
  <2>1. [Default EXCEPT !.nudges = ~Shown(t).nudges] \in Prefs
    BY <1>1, <1>3 DEF Prefs
  <2>2. QED BY <1>2, <1>5, <2>1, PutsIsUpdate
            DEF SwitchNudges, TypeOK, server, delivery, Field
<1>6. CASE SwitchEmail(c, t)
  <2>1. [Default EXCEPT !.email = ~Shown(t).email] \in Prefs
    BY <1>1, <1>3 DEF Prefs
  <2>2. QED BY <1>2, <1>6, <2>1, PutsIsUpdate
            DEF SwitchEmail, TypeOK, server, delivery, Field
<1>7. CASE SetQuietHours(c, t)
  <2>1. PICK fields \in SUBSET Field, to \in Prefs : Starts(c, t, Puts(fields, to))
    BY <1>4, <1>7, DefaultIsPrefs DEF SetQuietHours, Field
  <2>2. change' \in [Change -> Update]
    BY <1>2, <2>1, PutsIsUpdate
  <2>3. QED BY <1>7, <2>2 DEF SetQuietHours, TypeOK, server, delivery
<1>8. \A b \in BOOLEAN : [PushPut(b) EXCEPT !.by = t] \in Update
  <2> TAKE b \in BOOLEAN
  <2>1. [Default EXCEPT !.push = b] \in Prefs
    BY <1>3
  <2>2. QED BY <2>1, DefaultIsPrefs, NoneIsTyped DEF PushPut, Puts, Update, Field
<1>9. CASE SwitchPushOn(c, t)
  BY <1>2, <1>8, <1>9 DEF SwitchPushOn, TypeOK, server, delivery
<1>10. CASE SwitchPushOff(c, t)
  <2>1. [Default EXCEPT !.push = FALSE] \in Prefs /\ device \in 0..MaxEndpoints
    BY <1>3 DEF TypeOK
  <2>2. [Leaving EXCEPT !.by = t] \in Update
    BY <2>1, DefaultIsPrefs DEF Leaving, PushPut, Puts, Update, Field
  <2>3. QED BY <1>2, <1>10, <2>2 DEF SwitchPushOff, TypeOK, server, delivery
<1>11. QED BY <1>5, <1>6, <1>7, <1>9, <1>10

\* Endpoints are numbered as the browser makes them.  A registration or a
\* clean-up names one, and a clean-up never the one in use.
Numbered(c) ==
  /\ change[c].endpoint <= endpoints
  /\ change[c].post \in {"register", "refreshing", "inserting", "delete"} =>
       change[c].endpoint # NoEndpoint
  /\ change[c].post = "delete" => change[c].endpoint # device
Endpoints == device <= endpoints /\ \A c \in Change : Numbered(c)

LEMMA StoredRowIsPrefs ==
  ASSUME TypeOK, NEW c \in Change
  PROVE  StoredRow(c) \in Prefs
<1>1. change[c].to \in Prefs /\ change[c].copy \in Prefs /\ row \in Prefs
  BY DEF TypeOK, Update
<1>2. QED BY <1>1 DEF StoredRow, Written, Wanted, Prefs

\* what happens to a change once it is made
LEMMA ChangeTypes ==
  ASSUME TypeOK, Endpoints, NEW c \in Change,
         \/ EnablePrompt(c) \/ Subscribe(c) \/ Unsubscribe(c)
         \/ LockRow(c) \/ StoreRow(c) \/ Answer(c) \/ LosePut(c)
         \/ Register(c) \/ Refresh(c) \/ Insert(c) \/ Delete(c)
         \/ LosePost(c)
  PROVE  TypeOK'
<1>1. change[c] \in Update /\ row \in Prefs /\ StoredRow(c) \in Prefs
  BY StoredRowIsPrefs DEF TypeOK
<1>2. CASE Subscribe(c)
  <2>1. /\ device' \in 0..MaxEndpoints /\ endpoints' \in 0..MaxEndpoints
        /\ permission' \in {"default", "granted", "denied"}
        /\ prompt' \in {"hidden", "offered", "dismissed"}
    BY <1>2, NotificationAssumption DEF TypeOK, Subscribe, AskPermission
  <2>2. change' \in [Change -> Update]
    <3>1. CASE permission' # "granted"
      BY <1>1, <1>2, <3>1 DEF TypeOK, Subscribe, Update
    <3>2. CASE permission' = "granted"
      <4>1. [change[c] EXCEPT !.put = IF FromPrompt(c) THEN "ended" ELSE "sent",
                              !.post = "register",
                              !.endpoint = device'] \in Update
        BY <1>1, <2>1 DEF Update
      <4>2. QED BY <1>2, <3>2, <4>1 DEF TypeOK, Subscribe
    <3>3. QED BY <3>1, <3>2
  <2>3. QED BY <1>2, <2>1, <2>2 DEF TypeOK, Subscribe, server, delivery
<1>3. CASE Unsubscribe(c)
  <2>1. change' \in [Change -> Update]
    BY <1>1, <1>3 DEF TypeOK, Unsubscribe, Update
  <2>2. QED BY <1>3, <2>1, NotificationAssumption
            DEF TypeOK, Unsubscribe, server, delivery, NoEndpoint
<1>4. CASE LockRow(c)
  BY <1>1, <1>4 DEF TypeOK, LockRow, Update, server, delivery
<1>5. CASE StoreRow(c)
  BY <1>1, <1>5 DEF TypeOK, StoreRow, Update, browser, delivery
<1>6. CASE Answer(c)
  <2>1. change' \in [Change -> Update]
    BY <1>1, <1>6 DEF TypeOK, Answer, Update
  <2>2. tab' \in [Tab -> Screen]
    BY <1>1, <1>6 DEF TypeOK, Answer, Update, Screen
  <2>3. QED BY <1>6, <2>1, <2>2 DEF TypeOK, Answer, server, delivery
<1>7. CASE LosePut(c)
  BY <1>1, <1>7 DEF TypeOK, LosePut, Update, server, delivery
<1>8. CASE Register(c)
  BY <1>1, <1>8 DEF TypeOK, Register, Update, server, delivery
<1>9. CASE Refresh(c) \/ Insert(c) \/ Delete(c)
  <2>1. change' \in [Change -> Update]
    BY <1>1, <1>9 DEF TypeOK, Refresh, Insert, Delete, Update
  <2>2. change[c].post = "inserting" => change[c].endpoint \in Endpoint
    BY <1>1 DEF Endpoints, Numbered, Endpoint, Update, NoEndpoint
  <2>3. registered' \subseteq Endpoint /\ elsewhere' \subseteq Endpoint
    BY <1>9, <2>2 DEF TypeOK, Refresh, Insert, Delete
  <2>4. QED BY <1>9, <2>1, <2>3 DEF TypeOK, Refresh, Insert, Delete, delivery
<1>10. CASE LosePost(c)
  BY <1>1, <1>10 DEF TypeOK, LosePost, Update, server, delivery
<1>11. CASE EnablePrompt(c)
  <2>1. [Default EXCEPT !.push = TRUE] \in Prefs
    BY DefaultIsPrefs DEF Prefs
  <2>2. [PushPut(TRUE) EXCEPT !.by = change[c].by, !.fields = {}] \in Update
    BY <1>1, <2>1, DefaultIsPrefs, NoneIsTyped DEF PushPut, Puts, Update, Field
  <2>3. QED BY <1>11, <2>2 DEF TypeOK, EnablePrompt, server, delivery
<1>12. QED BY <1>2, <1>3, <1>4, <1>5, <1>6, <1>7, <1>8, <1>9, <1>10, <1>11

LEMMA TypesInductive ==
  ASSUME TypeOK, Endpoints, [Next]_vars
  PROVE  TypeOK'
<1>1. CASE \E t \in Tab : Refetch(t) \/ ServeRead(t) \/ ServeMake(t) \/ Loaded(t)
  BY <1>1, ReadTypes
<1>2. CASE \E c \in Change, t \in Tab :
             \/ SwitchNudges(c, t) \/ SwitchEmail(c, t) \/ SetQuietHours(c, t)
             \/ SwitchPushOn(c, t) \/ SwitchPushOff(c, t)
  BY <1>2, SwitchTypes
<1>3. CASE \E c \in Change : \/ EnablePrompt(c) \/ Subscribe(c)
                             \/ Unsubscribe(c) \/ LockRow(c) \/ StoreRow(c)
                             \/ Answer(c) \/ LosePut(c) \/ Register(c)
                             \/ Refresh(c) \/ Insert(c) \/ Delete(c)
                             \/ LosePost(c)
  BY <1>3, ChangeTypes
<1>4. CASE SetPermission
  BY <1>4, NoneIsTyped DEF SetPermission, TypeOK, server, delivery
<1>5. CASE Deliver \/ DropExpired \/ OfferPrompt \/ DismissPrompt
  BY <1>5 DEF Deliver, DropExpired, OfferPrompt, DismissPrompt, server, delivery,
              TypeOK
<1>6. CASE \E e \in Endpoint : PushTo(e)
  BY <1>6 DEF PushTo, TypeOK
<1>7. CASE UNCHANGED vars
  BY <1>7 DEF TypeOK, vars
<1>8. QED BY <1>1, <1>2, <1>3, <1>4, <1>5, <1>6, <1>7 DEF Next

-----------------------------------------------------------------------------
(* What the controls do to a change.                                       *)

LEMMA SwitchEffect ==
  ASSUME TypeOK, NEW c \in Change, NEW t \in Tab,
         \/ SwitchNudges(c, t) \/ SwitchEmail(c, t) \/ SetQuietHours(c, t)
         \/ SwitchPushOn(c, t) \/ SwitchPushOff(c, t)
  PROVE  /\ UNCHANGED <<tab, server, permission, device, endpoints>>
         /\ tab[t].loaded /\ change[c].put = "none"
         /\ change'[c].put \in {"waiting", "sent"}
         /\ change'[c].post \in {"none", "leaving"}
         /\ change'[c].endpoint \in {NoEndpoint, device}
         /\ \A d \in Change \ {c} : change'[d] = change[d]
<1> DEFINE Begun(u) == /\ u.put \in {"waiting", "sent"}
                       /\ u.post \in {"none", "leaving"}
                       /\ u.endpoint \in {NoEndpoint, device}
<1>1. ASSUME NEW u, Starts(c, t, u), Begun([u EXCEPT !.by = t])
      PROVE  /\ tab[t].loaded /\ change[c].put = "none"
             /\ Begun(change'[c])
             /\ \A d \in Change \ {c} : change'[d] = change[d]
  BY <1>1 DEF Starts, TypeOK
<1>2. \A fields, to : Begun([Puts(fields, to) EXCEPT !.by = t])
  BY DEF Puts
<1>3. \A on : Begun([PushPut(on) EXCEPT !.by = t])
  BY DEF Puts, PushPut
<1>4. Begun([Leaving EXCEPT !.by = t])
  BY DEF Puts, PushPut, Leaving
<1> HIDE DEF Begun
<1>5. CASE SwitchNudges(c, t)
  BY <1>1, <1>2, <1>5 DEF SwitchNudges, Begun
<1>6. CASE SwitchEmail(c, t)
  BY <1>1, <1>2, <1>6 DEF SwitchEmail, Begun
<1>7. CASE SetQuietHours(c, t)
  BY <1>1, <1>2, <1>7 DEF SetQuietHours, Begun
<1>8. CASE SwitchPushOn(c, t)
  BY <1>1, <1>3, <1>8 DEF SwitchPushOn, Begun
<1>9. CASE SwitchPushOff(c, t)
  BY <1>1, <1>4, <1>9 DEF SwitchPushOff, Begun
<1>10. QED BY <1>5, <1>6, <1>7, <1>8, <1>9

\* "Remind me" begins a change without fields
LEMMA EnableEffect ==
  ASSUME TypeOK, NEW c \in Change, EnablePrompt(c)
  PROVE  /\ UNCHANGED <<tab, server, permission, device, endpoints>>
         /\ change'[c].put = "waiting" /\ FromPrompt(c)' /\ change'[c].to.push
         /\ change'[c].post = "none"
         /\ change'[c].endpoint = NoEndpoint
         /\ \A d \in Change \ {c} : change'[d] = change[d]
<1>1. change'[c] = [PushPut(TRUE) EXCEPT !.by = change[c].by, !.fields = {}]
  BY DEF EnablePrompt, TypeOK
<1>2. QED BY <1>1 DEF EnablePrompt, TypeOK, PushPut, Puts, FromPrompt, Default

-----------------------------------------------------------------------------
(* Endpoints.                                                              *)

LEMMA UnsubscribeKeepsEndpoints ==
  ASSUME TypeOK, Endpoints, NEW c \in Change, Unsubscribe(c)
  PROVE  Endpoints'
<1>1. /\ device \in Nat /\ endpoints \in Nat /\ device <= endpoints
      /\ \A d \in Change : /\ change[d] \in Update /\ change[d].endpoint \in Nat
                          /\ Numbered(d)
  BY NotificationAssumption DEF TypeOK, Endpoints, Update
<1>2. /\ device' = IF change[c].endpoint = device THEN NoEndpoint ELSE device
      /\ endpoints' = endpoints
  BY DEF Unsubscribe
<1>3. /\ change'[c].endpoint = change[c].endpoint
      /\ change'[c].post = "delete" => change[c].endpoint # NoEndpoint
      /\ change'[c].post \in {"delete", "ended"}
      /\ \A d \in Change \ {c} : change'[d] = change[d]
  BY <1>1 DEF Unsubscribe, TypeOK, Update
<1>4. device' <= endpoints'
  BY <1>1, <1>2 DEF NoEndpoint
<1>5. Numbered(c)'
  BY <1>1, <1>2, <1>3 DEF Numbered, NoEndpoint
<1>6. \A d \in Change \ {c} : Numbered(d)'
  BY <1>1, <1>2, <1>3 DEF Numbered, NoEndpoint
<1>7. QED BY <1>4, <1>5, <1>6 DEF Endpoints

LEMMA EndpointsInductive ==
  ASSUME TypeOK, Endpoints, [Next]_vars
  PROVE  Endpoints'
<1> USE DEF Endpoints, Numbered, TypeOK
<1>0. /\ device \in Nat /\ endpoints \in Nat
      /\ \A c \in Change : change[c] \in Update /\ change[c].endpoint \in Nat
  BY NotificationAssumption DEF Update
<1>1. CASE \E t \in Tab : Refetch(t) \/ ServeRead(t) \/ ServeMake(t) \/ Loaded(t)
  BY <1>1 DEF Refetch, ServeRead, ServeMake, Loaded, browser
<1>2. CASE \E c \in Change, t \in Tab :
             \/ SwitchNudges(c, t) \/ SwitchEmail(c, t) \/ SetQuietHours(c, t)
             \/ SwitchPushOn(c, t) \/ SwitchPushOff(c, t)
  <2>1. PICK c \in Change, t \in Tab :
             \/ SwitchNudges(c, t) \/ SwitchEmail(c, t) \/ SetQuietHours(c, t)
             \/ SwitchPushOn(c, t) \/ SwitchPushOff(c, t)
    BY <1>2
  <2>2. QED BY <1>0, <2>1, SwitchEffect DEF NoEndpoint
<1>3. CASE \E c \in Change : Subscribe(c)
  <2>1. PICK c \in Change : Subscribe(c)
    BY <1>3
  <2>2. CASE permission' # "granted"
    BY <1>0, <2>1, <2>2 DEF Subscribe, Update
  <2>3. CASE permission' = "granted"
    <3>1. /\ change' = [change EXCEPT ![c] = [@ EXCEPT
               !.put = IF FromPrompt(c) THEN "ended" ELSE "sent",
               !.post = "register", !.endpoint = device']]
          /\ device' # NoEndpoint
          /\ \/ device' = device /\ endpoints' = endpoints
             \/ endpoints' = endpoints + 1 /\ device' = endpoints'
      BY <1>0, <2>1, <2>3 DEF Subscribe, NoEndpoint
    <3>2. /\ change'[c].endpoint = device' /\ change'[c].post = "register"
          /\ \A d \in Change \ {c} : change'[d] = change[d]
      BY <1>0, <3>1 DEF Update
    <3>3. QED BY <1>0, <3>1, <3>2
  <2>4. QED BY <2>2, <2>3
<1>4. CASE \E c \in Change : Unsubscribe(c)
  BY <1>4, UnsubscribeKeepsEndpoints
<1>5. CASE \E c \in Change : \/ LockRow(c) \/ StoreRow(c) \/ Answer(c)
                             \/ LosePut(c) \/ Register(c) \/ Refresh(c)
                             \/ Insert(c) \/ Delete(c) \/ LosePost(c)
  <2>1. PICK c \in Change : \/ LockRow(c) \/ StoreRow(c) \/ Answer(c)
                           \/ LosePut(c) \/ Register(c) \/ Refresh(c)
                           \/ Insert(c) \/ Delete(c) \/ LosePost(c)
    BY <1>5
  <2>2. device' = device /\ endpoints' = endpoints
    BY <2>1 DEF LockRow, StoreRow, Answer, LosePut, Register, Refresh, Insert,
                Delete, LosePost, browser
  <2>3. /\ change'[c].endpoint = change[c].endpoint
        /\ \/ change'[c].post \in {change[c].post, "ended"}
           \/ change[c].post = "register" /\ change'[c].post # "delete"
        /\ \A d \in Change \ {c} : change'[d] = change[d]
    <3>1. CASE LockRow(c) \/ StoreRow(c)
      <4>1. PICK st, copy : change' = [change EXCEPT ![c] =
                              [@ EXCEPT !.put = st, !.copy = copy]]
        BY <3>1 DEF LockRow, StoreRow
      <4>2. QED BY <1>0, <4>1 DEF Update
    <3>2. CASE Answer(c) \/ LosePut(c)
      BY <1>0, <3>2 DEF Answer, LosePut, Update
    <3>3. CASE Register(c)
      BY <1>0, <3>3 DEF Register, Update
    <3>4. CASE Refresh(c) \/ Insert(c) \/ Delete(c) \/ LosePost(c)
      BY <1>0, <3>4 DEF Refresh, Insert, Delete, LosePost, Update
    <3>5. QED BY <2>1, <3>1, <3>2, <3>3, <3>4
  <2>4. QED BY <1>0, <2>2, <2>3
<1>6. CASE SetPermission
  BY <1>0, <1>6 DEF SetPermission, server, NoEndpoint
<1>7. CASE \/ Deliver \/ DropExpired \/ OfferPrompt \/ DismissPrompt
           \/ (\E e \in Endpoint : PushTo(e)) \/ UNCHANGED vars
  BY <1>7 DEF Deliver, DropExpired, PushTo, OfferPrompt, DismissPrompt, vars
<1>8. CASE \E c \in Change : EnablePrompt(c)
  <2>1. PICK c \in Change : EnablePrompt(c)
    BY <1>8
  <2>2. QED BY <1>0, <2>1, EnableEffect DEF NoEndpoint
<1>9. QED BY <1>1, <1>2, <1>3, <1>4, <1>5, <1>6, <1>7, <1>8 DEF Next

\* Every row, and every endpoint of a delivery, is of a subscription that was
\* made; the one in use is not among those found gone.
Rows ==
  /\ \A e \in registered \cup elsewhere \cup todo \cup dead : e <= endpoints
  /\ device \notin dead

LEMMA RowsInductive ==
  ASSUME TypeOK, Endpoints, Rows, [Next]_vars
  PROVE  Rows'
<1>0. /\ device \in Nat /\ endpoints \in Nat
      /\ \A c \in Change : change[c].endpoint <= endpoints
      /\ \A e \in registered \cup elsewhere \cup todo \cup dead :
           e \in Nat /\ e # NoEndpoint
  BY NotificationAssumption DEF TypeOK, Endpoints, Numbered, Endpoint, NoEndpoint
<1>1. CASE \E t \in Tab : Refetch(t) \/ ServeRead(t) \/ ServeMake(t) \/ Loaded(t)
  BY <1>1 DEF Rows, Refetch, ServeRead, ServeMake, Loaded, browser, delivery
<1>2. CASE \E c \in Change, t \in Tab :
             \/ SwitchNudges(c, t) \/ SwitchEmail(c, t) \/ SetQuietHours(c, t)
             \/ SwitchPushOn(c, t) \/ SwitchPushOff(c, t)
  BY <1>2, SwitchEffect DEF Rows, server, delivery
<1>3. CASE \E c \in Change : Subscribe(c)
  <2>1. /\ UNCHANGED <<registered, elsewhere, todo, dead>>
        /\ \/ device' = device /\ endpoints' = endpoints
           \/ device' = endpoints' /\ endpoints' = endpoints + 1
    BY <1>3 DEF Subscribe, server, delivery
  <2>2. QED BY <1>0, <2>1 DEF Rows
<1>4. CASE \E c \in Change : Unsubscribe(c)
  BY <1>0, <1>4 DEF Rows, Unsubscribe, server, delivery
<1>5. CASE SetPermission
  BY <1>0, <1>5 DEF Rows, SetPermission, server, delivery
<1>6. CASE \E c \in Change : \/ EnablePrompt(c) \/ LockRow(c) \/ StoreRow(c)
                             \/ Answer(c) \/ LosePut(c) \/ Register(c)
                             \/ LosePost(c)
  BY <1>6 DEF Rows, EnablePrompt, LockRow, StoreRow, Answer, LosePut, Register,
              LosePost, browser, server, delivery
<1>7. CASE \E c \in Change : Refresh(c) \/ Insert(c) \/ Delete(c)
  <2>1. /\ UNCHANGED <<device, endpoints, todo, dead>>
        /\ elsewhere' \subseteq elsewhere
        /\ \E c \in Change :
             registered' \subseteq registered \cup {change[c].endpoint}
    BY <1>7 DEF Refresh, Insert, Delete, delivery
  <2>2. QED BY <1>0, <2>1 DEF Rows
<1>8. CASE \E e \in Endpoint : PushTo(e)
  BY <1>8 DEF Rows, PushTo, Expired
<1>9. CASE Deliver \/ DropExpired
  BY <1>9 DEF Rows, Deliver, DropExpired
<1>10. CASE OfferPrompt \/ DismissPrompt \/ UNCHANGED vars
  BY <1>10 DEF Rows, OfferPrompt, DismissPrompt, server, delivery, vars
<1>11. QED BY <1>1, <1>2, <1>3, <1>4, <1>5, <1>6, <1>7, <1>8, <1>9, <1>10
           DEF Next

LEMMA LiveStays ==
  ASSUME TypeOK, Endpoints, Rows, [Next]_vars, device \in registered
  PROVE  device \in registered'
<1>1. CASE \E c \in Change : Delete(c)
  BY <1>1 DEF Delete, Endpoints, Numbered
<1>2. CASE \E c \in Change : Refresh(c) \/ Insert(c)
  BY <1>2 DEF Refresh, Insert
<1>3. CASE DropExpired
  BY <1>3 DEF DropExpired, Rows
<1>4. CASE registered' = registered
  BY <1>4
<1>5. CASE \E t \in Tab : Refetch(t) \/ ServeRead(t) \/ ServeMake(t) \/ Loaded(t)
  BY <1>4, <1>5 DEF Refetch, ServeRead, ServeMake, Loaded, browser
<1>6. CASE \E c \in Change, t \in Tab :
             \/ SwitchNudges(c, t) \/ SwitchEmail(c, t) \/ SetQuietHours(c, t)
             \/ SwitchPushOn(c, t) \/ SwitchPushOff(c, t)
  BY <1>4, <1>6 DEF SwitchNudges, SwitchEmail, SetQuietHours, SwitchPushOn,
                    SwitchPushOff, server
<1>7. CASE \E c \in Change : \/ EnablePrompt(c) \/ Subscribe(c)
                             \/ Unsubscribe(c) \/ LockRow(c) \/ StoreRow(c)
                             \/ Answer(c) \/ LosePut(c) \/ Register(c)
                             \/ LosePost(c)
  BY <1>4, <1>7 DEF EnablePrompt, Subscribe, Unsubscribe, LockRow, StoreRow,
                    Answer, LosePut, Register, LosePost, server, browser
<1>8. CASE \/ SetPermission \/ OfferPrompt \/ DismissPrompt \/ Deliver
           \/ (\E e \in Endpoint : PushTo(e)) \/ UNCHANGED vars
  BY <1>4, <1>8 DEF SetPermission, OfferPrompt, DismissPrompt, Deliver, PushTo,
                    server, vars
<1>9. QED BY <1>1, <1>2, <1>3, <1>5, <1>6, <1>7, <1>8 DEF Next

-----------------------------------------------------------------------------
(* The lock.                                                               *)

\* Who holds the lock has read the row as it is, nobody else holds it, and
\* the row was made before anybody could change it; what the offer on the
\* Dashboard begins never gets as far.
RowIsLocked ==
  /\ \A t \in Tab : tab[t].loaded \/ tab[t].fetch = "arrived" => made
  /\ \A c \in Change :
       change[c].put \notin {"none", "ended"} =>
         \/ made
         \/ change[c].put = "waiting" /\ FromPrompt(c) /\ change[c].to.push
  /\ \A c, d \in Change :
       change[c].put = "locked" /\ change[d].put = "locked" => c = d
  /\ \A c \in Change : change[c].put = "locked" => change[c].copy = row

LEMMA LockInductive ==
  ASSUME TypeOK, RowIsLocked, [Next]_vars
  PROVE  RowIsLocked'
<1> USE DEF RowIsLocked, TypeOK, FromPrompt
<1>0. /\ \A t \in Tab : tab[t] \in Screen
      /\ \A c \in Change : change[c] \in Update
  OBVIOUS
<1>1. CASE \E t \in Tab : Refetch(t) \/ ServeRead(t) \/ Loaded(t)
  BY <1>0, <1>1 DEF Refetch, ServeRead, Loaded, browser, Screen
<1>2. CASE \E t \in Tab : ServeMake(t)
  <2>1. PICK t \in Tab : ServeMake(t)
    BY <1>2
  <2>2. made' /\ change' = change /\ (made => row' = row)
    BY <2>1 DEF ServeMake
  <2>3. QED BY <2>2
<1>3. CASE \E c \in Change, t \in Tab :
             \/ SwitchNudges(c, t) \/ SwitchEmail(c, t) \/ SetQuietHours(c, t)
             \/ SwitchPushOn(c, t) \/ SwitchPushOff(c, t)
  <2>1. PICK c \in Change, t \in Tab :
             \/ SwitchNudges(c, t) \/ SwitchEmail(c, t) \/ SetQuietHours(c, t)
             \/ SwitchPushOn(c, t) \/ SwitchPushOff(c, t)
    BY <1>3
  <2>2. QED BY <2>1, SwitchEffect DEF server
<1>4. CASE \E c \in Change : \/ Subscribe(c) \/ Unsubscribe(c) \/ LosePut(c)
                             \/ Register(c) \/ Refresh(c) \/ Insert(c)
                             \/ Delete(c) \/ LosePost(c) \/ Answer(c)
  <2>1. PICK c \in Change : \/ Subscribe(c) \/ Unsubscribe(c) \/ LosePut(c)
                           \/ Register(c) \/ Refresh(c) \/ Insert(c)
                           \/ Delete(c) \/ LosePost(c) \/ Answer(c)
    BY <1>4
  <2>2. made' = made /\ row' = row
    BY <2>1 DEF Subscribe, Unsubscribe, LosePut, Register, Refresh, Insert,
                Delete, LosePost, Answer, server
  <2>3. \A t \in Tab : tab'[t].loaded = tab[t].loaded
                       /\ tab'[t].fetch = tab[t].fetch
    BY <1>0, <2>1 DEF Subscribe, Unsubscribe, LosePut, Register, Refresh,
                      Insert, Delete, LosePost, Answer, Screen, Update
  <2>4. /\ change'[c].copy = change[c].copy
        /\ change'[c].put = "locked" => change[c].put = "locked"
        /\ \/ change'[c].put = "ended"
           \/ /\ change'[c].put = "sent" /\ change[c].put = "waiting"
              /\ ~(FromPrompt(c) /\ change[c].to.push)
           \/ /\ change'[c].put = change[c].put /\ change'[c].to = change[c].to
              /\ change'[c].fields = change[c].fields
        /\ \A d \in Change \ {c} : change'[d] = change[d]
    <3>1. CASE Subscribe(c)
      <4>1. change[c].put = "waiting"
        BY <3>1 DEF Subscribe
      <4>2. PICK put, post, e :
              /\ put = "ended" \/ (put = "sent" /\ ~FromPrompt(c))
              /\ change' = [change EXCEPT ![c] = [@ EXCEPT
                   !.put = put, !.post = post, !.endpoint = e]]
        <5>1. CASE change' = [change EXCEPT ![c].put = "ended"]
          <6>1. [change[c] EXCEPT !.put = "ended"] =
                [change[c] EXCEPT !.put = "ended", !.post = change[c].post,
                                  !.endpoint = change[c].endpoint]
            BY <1>0 DEF Update
          <6>2. change' = [change EXCEPT ![c] = [change[c] EXCEPT !.put = "ended"]]
            BY <5>1
          <6>3. change' = [change EXCEPT ![c] = [@ EXCEPT
                   !.put = "ended", !.post = change[c].post,
                   !.endpoint = change[c].endpoint]]
            BY <6>1, <6>2
          <6>4. WITNESS "ended", change[c].post, change[c].endpoint
          <6>5. QED BY <6>3
        <5>2. CASE change' = [change EXCEPT ![c] = [@ EXCEPT
                  !.put = IF FromPrompt(c) THEN "ended" ELSE "sent",
                  !.post = "register", !.endpoint = device']]
          <6> DEFINE put == IF FromPrompt(c) THEN "ended" ELSE "sent"
          <6>1. put = "ended" \/ (put = "sent" /\ ~FromPrompt(c))
            OBVIOUS
          <6>2. change' = [change EXCEPT ![c] = [@ EXCEPT
                   !.put = put, !.post = "register", !.endpoint = device']]
            BY <5>2
          <6> HIDE DEF put
          <6>3. QED BY <6>1, <6>2
        <5>3. QED BY <3>1, <5>1, <5>2 DEF Subscribe
      <4>3. /\ change'[c].put = put /\ change'[c].copy = change[c].copy
            /\ \A d \in Change \ {c} : change'[d] = change[d]
        BY <1>0, <4>2 DEF Update
      <4>4. QED BY <4>1, <4>2, <4>3
    <3>2. CASE Unsubscribe(c)
      BY <1>0, <3>2 DEF Unsubscribe, Update
    <3>3. CASE Answer(c) \/ LosePut(c)
      BY <1>0, <3>3 DEF Answer, LosePut, Update
    <3>4. CASE Register(c)
      BY <1>0, <3>4 DEF Register, Update
    <3>5. CASE Refresh(c) \/ Insert(c) \/ Delete(c) \/ LosePost(c)
      BY <1>0, <3>5 DEF Refresh, Insert, Delete, LosePost, Update
    <3>6. QED BY <2>1, <3>1, <3>2, <3>3, <3>4, <3>5
  <2>5. QED BY <2>2, <2>3, <2>4
<1>5. CASE \E c \in Change : LockRow(c)
  <2>1. PICK c \in Change : LockRow(c)
    BY <1>5
  <2>2. /\ change'[c].put = "locked" /\ change'[c].copy = row
        /\ \A d \in Change \ {c} : change'[d] = change[d]
                                   /\ change[d].put # "locked"
    BY <1>0, <2>1 DEF LockRow, RowIsFree, Update
  <2>3. made /\ made' = made /\ row' = row /\ tab' = tab
    BY <2>1 DEF LockRow, server
  <2>4. QED BY <2>2, <2>3
<1>6. CASE \E c \in Change : StoreRow(c)
  <2>1. PICK c \in Change : StoreRow(c)
    BY <1>6
  <2>2. /\ change'[c].put = "stored"
        /\ \A d \in Change \ {c} : change'[d] = change[d]
                                   /\ change[d].put # "locked"
    BY <1>0, <2>1 DEF StoreRow, Update
  <2>3. made /\ made' = made /\ tab' = tab
    BY <2>1 DEF StoreRow
  <2>4. QED BY <2>2, <2>3
<1>7. CASE \/ SetPermission \/ Deliver \/ DropExpired \/ OfferPrompt
           \/ DismissPrompt \/ (\E e \in Endpoint : PushTo(e))
           \/ UNCHANGED vars
  BY <1>7 DEF SetPermission, Deliver, DropExpired, PushTo, OfferPrompt,
              DismissPrompt, server, vars, FromPrompt
<1>8. CASE \E c \in Change : EnablePrompt(c)
  <2>1. PICK c \in Change : EnablePrompt(c)
    BY <1>8
  <2>2. made' = made /\ row' = row /\ tab' = tab
    BY <2>1 DEF EnablePrompt, server
  <2>3. QED BY <2>1, <2>2, EnableEffect DEF FromPrompt
<1>9. QED BY <1>1, <1>2, <1>3, <1>4, <1>5, <1>6, <1>7, <1>8 DEF Next

\* Under the lock, writing only what differs from the copy is writing the
\* update into the row.
LEMMA StoreIsUpdate ==
  ASSUME TypeOK, RowIsLocked, NEW c \in Change, StoreRow(c), NEW f \in Field
  PROVE  row'[f] = IF f \in change[c].fields THEN change[c].to[f] ELSE row[f]
<1>1. change[c].copy = row
  BY DEF StoreRow, RowIsLocked
<1>2. StoredRow(c)[f] = Written(c, f)
  BY DEF StoredRow, Field
<1>3. QED BY <1>1, <1>2 DEF StoreRow, Written, Wanted

\* who writes the row
LEMMA OnlyStoresWrite ==
  ASSUME TypeOK, RowIsLocked, [Next]_vars, made
  PROVE  row' = row \/ \E c \in Change : StoreRow(c)
<1>1. CASE \E t \in Tab : Refetch(t) \/ ServeRead(t) \/ ServeMake(t) \/ Loaded(t)
  BY <1>1 DEF Refetch, ServeRead, ServeMake, Loaded
<1>2. CASE \E c \in Change, t \in Tab :
             \/ SwitchNudges(c, t) \/ SwitchEmail(c, t) \/ SetQuietHours(c, t)
             \/ SwitchPushOn(c, t) \/ SwitchPushOff(c, t)
  BY <1>2, SwitchEffect DEF server
<1>3. CASE \E c \in Change : \/ EnablePrompt(c) \/ Subscribe(c)
                             \/ Unsubscribe(c) \/ LockRow(c) \/ StoreRow(c)
                             \/ Answer(c) \/ LosePut(c) \/ Register(c)
                             \/ Refresh(c) \/ Insert(c) \/ Delete(c)
                             \/ LosePost(c)
  BY <1>3 DEF EnablePrompt, Subscribe, Unsubscribe, LockRow, Answer, LosePut,
              Register, Refresh, Insert, Delete, LosePost, server
<1>4. CASE \/ SetPermission \/ Deliver \/ DropExpired \/ OfferPrompt
           \/ DismissPrompt \/ (\E e \in Endpoint : PushTo(e))
           \/ UNCHANGED vars
  BY <1>4 DEF SetPermission, Deliver, DropExpired, PushTo, OfferPrompt,
              DismissPrompt, server, vars
<1>5. QED BY <1>1, <1>2, <1>3, <1>4 DEF Next

-----------------------------------------------------------------------------
(* The theorems.                                                           *)

IInv == TypeOK /\ Endpoints /\ Rows /\ RowIsLocked

LEMMA InitIInv == Init => IInv
<1> SUFFICES ASSUME Init PROVE IInv
  OBVIOUS
<1>0. MaxEndpoints # 0 => 1 \in 0..MaxEndpoints /\ 1 \in Endpoint
  BY NotificationAssumption DEF Endpoint
<1>1. PICK t \in Tab : change = [c \in Change |-> Unmade(t)]
  BY DEF Init
<1>2. Unmade(t) \in Update /\ Opened \in Screen
  BY DefaultIsPrefs, NoneIsTyped DEF Unmade, Update, Opened, Screen
<1>3. TypeOK
  BY <1>0, <1>1, <1>2, DefaultIsPrefs, NoneIsTyped DEF Init, TypeOK, NoEndpoint
<1>4. Endpoints
  BY <1>1 DEF Init, Endpoints, Numbered, Unmade, NoEndpoint
<1>5. RowIsLocked
  BY <1>1 DEF Init, RowIsLocked, Unmade, Opened
<1>6. Rows
  BY DEF Init, Rows, NoEndpoint
<1>7. QED BY <1>3, <1>4, <1>5, <1>6 DEF IInv

LEMMA Invariant == Spec => []IInv
<1>1. IInv /\ [Next]_vars => IInv'
  BY TypesInductive, EndpointsInductive, RowsInductive, LockInductive
     DEF IInv
<1>2. QED BY InitIInv, <1>1, PTL DEF Spec

\* Type correctness of the row, the screens, the changes and the endpoints.
THEOREM TypeCorrect == Spec => []TypeOK
BY Invariant, PTL DEF IInv

\* update_my_preferences: partial updates that race do not lose each other;
\* it rests on the row lock, under which the copy read is the row.
THEOREM UpdatesAreKept == Spec => NoSettingLost
<1>1. IInv /\ [Next]_vars =>
        [/\ made => (row' = row \/ \E c \in Change : StoreRow(c))
         /\ \A c \in Change :
              StoreRow(c) => \A f \in Field :
                row'[f] = IF f \in change[c].fields THEN change[c].to[f]
                          ELSE row[f]]_vars
  BY StoreIsUpdate, OnlyStoresWrite DEF IInv
<1>2. QED BY <1>1, Invariant, PTL DEF Spec, NoSettingLost

\* unsubscribeFromPush, delete_push_subscription and _deliver_push: no
\* clean-up removes the registration of the subscription in use.
THEOREM LiveRegistrationKept == Spec => LiveRegistrationStays
<1>1. IInv /\ [Next]_vars =>
        [(device \in registered) => (device \in registered')]_vars
  BY LiveStays DEF IInv
<1>2. QED BY <1>1, Invariant, PTL DEF Spec, LiveRegistrationStays
=============================================================================
