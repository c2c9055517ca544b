------------------------ MODULE NotificationSettings ------------------------
(***************************************************************************)
(* The notification settings: NotificationSettings.tsx in several tabs of  *)
(* one browser, the user's preferences row behind it, and the browser's    *)
(* push subscription with the rows the server keeps of it.                 *)
(*                                                                         *)
(* No control is disabled while a change is under way, and the handler of  *)
(* the push switch awaits the browser before it sends anything: changes of *)
(* one tab overlap like those of two.  Every change is a partial update,   *)
(* a read-modify-write of the one row on the server.                       *)
(*                                                                         *)
(* The first read of the preferences makes the row, and the controls       *)
(* appear after it, so an update always finds one.  The offer on the       *)
(* Dashboard subscribes too, and sends no update.  One delivery is under   *)
(* way at a time, and another account only leaves a row behind.  Mute and  *)
(* snooze of a single balance are left out.                                *)
(***************************************************************************)
EXTENDS Naturals, FiniteSets

CONSTANTS
  Tab,
  Change,        \* bound: the changes made
  MaxEndpoints,  \* bound: how often the browser subscribes
  MaxDevices,    \* MAX_SUBSCRIPTIONS_PER_USER
  Hour,          \* bound: the hours of the quiet-hours selects
  NoHour,        \* a null hour
  Evening, Morning  \* 22 and 8, the default window

ASSUME NotificationAssumption ==
  /\ MaxEndpoints \in Nat
  /\ MaxDevices \in Nat \ {0}
  /\ NoHour \notin Hour
  /\ {Evening, Morning} \subseteq Hour

VARIABLES
  made,        \* the user has a preferences row
  row,         \* that row
  tab,         \* the screens
  change,      \* the changes made on them
  permission,  \* Notification.permission
  device,      \* endpoint of the browser's push subscription
  endpoints,   \* how many endpoints the browser has had
  registered,  \* endpoints of the user's push_subscription rows
  elsewhere,   \* endpoints of rows that another account left here
  todo, dead,  \* endpoints a delivery has yet to push to, has found gone
  prompt       \* the reminder offer on the Dashboard

delivery == <<todo, dead>>
vars == <<made, row, tab, change, permission, device, endpoints, registered,
          elsewhere, todo, dead, prompt>>
browser == <<permission, device, endpoints, registered, elsewhere, delivery,
             prompt>>
server == <<made, row, registered, elsewhere, delivery>>

NoEndpoint == 0
Endpoint == 1..MaxEndpoints
Field == {"nudges", "push", "email", "start", "end"}
Prefs == [nudges : BOOLEAN, push : BOOLEAN, email : BOOLEAN,
          start : Hour \cup {NoHour}, end : Hour \cup {NoHour}]
Default == [nudges |-> TRUE, push |-> TRUE, email |-> TRUE,
            start |-> Evening, end |-> Morning]

Screen == [fetch : {"idle", "asked", "making", "arrived"}, got : Prefs,
           loaded : BOOLEAN, shown : Prefs]
Opened == [fetch |-> "asked", got |-> Default, loaded |-> FALSE,
           shown |-> Default]

\* fields: what the PUT mentions, to: the values; endpoint, post: the
\* subscription that a push switch registers or deletes
Update == [by : Tab, fields : SUBSET Field, to : Prefs, copy : Prefs,
           put : {"none", "waiting", "sent", "locked", "stored", "ended"},
           post : {"none", "register", "refreshing", "inserting", "leaving",
                 "delete", "ended"},
           endpoint : 0..MaxEndpoints]
Unmade(t) == [by |-> t, fields |-> {}, to |-> Default, copy |-> Default,
              put |-> "none", post |-> "none", endpoint |-> NoEndpoint]

TypeOK ==
  /\ made \in BOOLEAN
  /\ row \in Prefs
  /\ tab \in [Tab -> Screen]
  /\ change \in [Change -> Update]
  /\ permission \in {"default", "granted", "denied"}
  /\ device \in 0..MaxEndpoints
  /\ endpoints \in 0..MaxEndpoints
  /\ registered \subseteq Endpoint /\ elsewhere \subseteq Endpoint
  /\ todo \subseteq Endpoint /\ dead \subseteq Endpoint
  /\ prompt \in {"hidden", "offered", "dismissed"}

\* The browser may be subscribed from an earlier visit, the user's or that of
\* somebody else.
Init ==
  /\ made = FALSE
  /\ row = Default
  /\ tab = [t \in Tab |-> Opened]
  /\ prompt \in {"hidden", "dismissed"}
  /\ \E t \in Tab : change = [c \in Change |-> Unmade(t)]
  /\ \/ /\ permission \in {"default", "granted", "denied"}
        /\ device = NoEndpoint /\ endpoints = 0
        /\ registered = {} /\ elsewhere = {}
     \/ /\ permission = "granted" /\ MaxEndpoints # 0
        /\ device = 1 /\ endpoints = 1
        /\ \/ registered = {1} /\ elsewhere = {}
           \/ registered = {} /\ elsewhere = {1}
  /\ todo = {} /\ dead = {}

-----------------------------------------------------------------------------
(* Reading the preferences.                                                *)

\* the tab gets the focus: the query is read again, the controls stay, and
\* the permission is read from the browser
Refetch(t) ==
  /\ tab[t].fetch = "idle"
  /\ tab' = [tab EXCEPT ![t].fetch = "asked"]
  /\ UNCHANGED <<made, row, change, browser>>

\* get_or_create_preferences finds the row, or none
ServeRead(t) ==
  /\ tab[t].fetch = "asked"
  /\ tab' = [tab EXCEPT ![t] =
       IF made THEN [@ EXCEPT !.fetch = "arrived", !.got = row]
               ELSE [@ EXCEPT !.fetch = "making"]]
  /\ UNCHANGED <<made, row, change, browser>>

\* the insert; a row that another request has made meanwhile breaks
\* uq_notification_preference_user, and the query is sent again
ServeMake(t) ==
  /\ tab[t].fetch = "making"
  /\ made' = TRUE
  /\ row' = IF made THEN row ELSE Default
  /\ tab' = [tab EXCEPT ![t] =
       IF made THEN [@ EXCEPT !.fetch = "asked"]
               ELSE [@ EXCEPT !.fetch = "arrived", !.got = Default]]
  /\ UNCHANGED <<change, browser>>

Loaded(t) ==
  /\ tab[t].fetch = "arrived"
  /\ tab' = [tab EXCEPT ![t] = [fetch |-> "idle", got |-> Default,
                                loaded |-> TRUE, shown |-> tab[t].got]]
  /\ UNCHANGED <<made, row, change, browser>>

-----------------------------------------------------------------------------
(* Changing them.                                                          *)

Shown(t) == tab[t].shown

\* a fresh change of tab t
Starts(c, t, update) ==
  /\ tab[t].loaded
  /\ change[c].put = "none"
  /\ change' = [change EXCEPT ![c] = [update EXCEPT !.by = t]]

Puts(fields, to) ==
  [by |-> CHOOSE t \in Tab : TRUE, fields |-> fields, to |-> to,
   copy |-> Default, put |-> "sent", post |-> "none", endpoint |-> NoEndpoint]

\* the stop control and the email box; the rest of the form is disabled while
\* reminders are off
SwitchNudges(c, t) ==
  /\ Starts(c, t, Puts({"nudges"},
                       [Default EXCEPT !.nudges = ~Shown(t).nudges]))
  /\ UNCHANGED <<tab, server, permission, device, endpoints, prompt>>

SwitchEmail(c, t) ==
  /\ Shown(t).nudges
  /\ Starts(c, t, Puts({"email"}, [Default EXCEPT !.email = ~Shown(t).email]))
  /\ UNCHANGED <<tab, server, permission, device, endpoints, prompt>>

QuietHoursOn(prefs) == prefs.start # NoHour /\ prefs.end # NoHour

\* one of the two selects, "Remove", or "Set quiet hours"
SetQuietHours(c, t) ==
  /\ Shown(t).nudges
  /\ \/ /\ QuietHoursOn(Shown(t))
        /\ \E h \in Hour :
             \/ Starts(c, t, Puts({"start"}, [Default EXCEPT !.start = h]))
             \/ Starts(c, t, Puts({"end"}, [Default EXCEPT !.end = h]))
     \/ /\ QuietHoursOn(Shown(t))
        /\ Starts(c, t, Puts({"start", "end"},
                             [Default EXCEPT !.start = NoHour, !.end = NoHour]))
     \/ /\ ~QuietHoursOn(Shown(t))
        /\ Starts(c, t, Puts({"start", "end"}, Default))
  /\ UNCHANGED <<tab, server, permission, device, endpoints, prompt>>

PushShown(t) == Shown(t).push /\ permission = "granted"

PushPut(on) ==
  [Puts({"push"}, [Default EXCEPT !.push = on]) EXCEPT !.put = "waiting"]

\* The offer on the Dashboard, made once: to a user with an open balance who
\* has not been asked.  It keeps the permission it was made under.
OfferPrompt ==
  /\ prompt = "hidden" /\ permission = "default"
  /\ prompt' = "offered"
  /\ UNCHANGED <<tab, change, server, permission, device, endpoints>>

\* "Not now"
PromptShown == prompt = "offered"
DismissPrompt ==
  /\ PromptShown
  /\ prompt' = "dismissed"
  /\ UNCHANGED <<tab, change, server, permission, device, endpoints>>

\* "Remind me": subscribes and registers like the push switch, and changes no
\* preference; it stays clickable while the browser is asked
FromPrompt(c) == change[c].fields = {}
EnablePrompt(c) ==
  /\ PromptShown
  /\ change[c].put = "none"
  /\ change' = [change EXCEPT ![c] = [PushPut(TRUE) EXCEPT
                                       !.by = change[c].by, !.fields = {}]]
  /\ UNCHANGED <<tab, server, permission, device, endpoints, prompt>>

\* handlePushToggle(true) awaits subscribeToPush
SwitchPushOn(c, t) ==
  /\ Shown(t).nudges /\ ~PushShown(t)
  /\ Starts(c, t, PushPut(TRUE))
  /\ UNCHANGED <<tab, server, permission, device, endpoints, prompt>>

\* the permission prompt is answered, or was before; an existing subscription
\* is reused
AskPermission(answer) ==
  /\ permission' = IF permission = "default" THEN answer ELSE permission

Subscribe(c) ==
  /\ change[c].put = "waiting" /\ change[c].to.push
  /\ \E answer \in {"default", "granted", "denied"} : AskPermission(answer)
  /\ \/ /\ permission' # "granted"
        /\ change' = [change EXCEPT ![c].put = "ended"]
        /\ UNCHANGED <<device, endpoints>>
     \/ /\ permission' = "granted"
        /\ \/ /\ device # NoEndpoint
              /\ UNCHANGED <<device, endpoints>>
           \/ /\ device = NoEndpoint
              /\ endpoints < MaxEndpoints
              /\ endpoints' = endpoints + 1
              /\ device' = endpoints'
        /\ change' = [change EXCEPT ![c] = [@ EXCEPT
             !.put = IF FromPrompt(c) THEN "ended" ELSE "sent",
             !.post = "register", !.endpoint = device']]
  /\ prompt' = IF FromPrompt(c) THEN "dismissed" ELSE prompt
  /\ UNCHANGED <<tab, server>>

\* handlePushToggle(false) awaits unsubscribeFromPush, which reads the
\* subscription and then ends it
Leaving == [PushPut(FALSE) EXCEPT !.post = "leaving", !.endpoint = device]
SwitchPushOff(c, t) ==
  /\ Shown(t).nudges /\ PushShown(t)
  /\ Starts(c, t, Leaving)
  /\ UNCHANGED <<tab, server, permission, device, endpoints, prompt>>

Unsubscribe(c) ==
  /\ change[c].put = "waiting" /\ ~change[c].to.push
  /\ device' = IF change[c].endpoint = device THEN NoEndpoint ELSE device
  /\ change' = [change EXCEPT ![c] = [@ EXCEPT
       !.put = "sent",
       !.post = IF @ = "leaving" /\ change[c].endpoint # NoEndpoint
                THEN "delete" ELSE "ended"]]
  /\ UNCHANGED <<tab, server, permission, endpoints, prompt>>

\* the user changes the permission in the browser's own settings; taking it
\* back ends the subscription
SetPermission ==
  /\ \E p \in {"granted", "denied"} : permission # p /\ permission' = p
  /\ device' = IF permission' = "granted" THEN device ELSE NoEndpoint
  /\ UNCHANGED <<tab, change, server, endpoints, prompt>>

-----------------------------------------------------------------------------
(* The server.                                                             *)

\* SELECT ... FOR UPDATE
\* Slip: the row is read without a lock
NoLock == TRUE
RowIsFree == \A c \in Change : change[c].put # "locked"

LockRow(c) ==
  /\ change[c].put = "sent" /\ RowIsFree
  /\ change' = [change EXCEPT ![c] = [@ EXCEPT !.put = "locked", !.copy = row]]
  /\ UNCHANGED <<tab, server, permission, device, endpoints, prompt>>

\* the session writes the columns that differ from what it has read
Wanted(c, f) == IF f \in change[c].fields THEN change[c].to[f]
                ELSE change[c].copy[f]
Written(c, f) == IF Wanted(c, f) # change[c].copy[f] THEN Wanted(c, f)
                 ELSE row[f]
StoredRow(c) == [nudges |-> Written(c, "nudges"), push |-> Written(c, "push"),
                 email |-> Written(c, "email"), start |-> Written(c, "start"),
                 end |-> Written(c, "end")]

StoreRow(c) ==
  /\ change[c].put = "locked"
  /\ row' = StoredRow(c)
  /\ change' = [change EXCEPT ![c] = [@ EXCEPT !.put = "stored",
                                               !.copy = StoredRow(c)]]
  /\ UNCHANGED <<made, tab, browser>>

\* the answer replaces what the tab shows, or it is lost
Answer(c) ==
  /\ change[c].put = "stored"
  /\ change' = [change EXCEPT ![c].put = "ended"]
  /\ \/ tab' = [tab EXCEPT ![change[c].by].shown = change[c].copy]
     \/ UNCHANGED tab
  /\ UNCHANGED <<server, permission, device, endpoints, prompt>>

\* a PUT that never reaches the server
LosePut(c) ==
  /\ change[c].put = "sent"
  /\ change' = [change EXCEPT ![c].put = "ended"]
  /\ UNCHANGED <<tab, server, permission, device, endpoints, prompt>>

\* register_push_subscription looks for the endpoint, whoever has it, and
\* counts the user's devices only when it is new; nothing is locked.
AtLimit == Cardinality(registered) >= MaxDevices
Register(c) ==
  /\ change[c].post = "register"
  /\ LET known == change[c].endpoint \in registered \cup elsewhere
     IN change' = [change EXCEPT ![c].post = IF known THEN "refreshing"
                                             ELSE IF AtLimit THEN "ended"
                                             ELSE "inserting"]
  /\ UNCHANGED <<tab, server, permission, device, endpoints, prompt>>

\* the row is made the user's, unless it was dropped meanwhile
Refresh(c) ==
  /\ change[c].post = "refreshing"
  /\ change' = [change EXCEPT ![c].post = "ended"]
  /\ registered' = registered \cup ({change[c].endpoint} \cap elsewhere)
  /\ elsewhere' = elsewhere \ {change[c].endpoint}
  /\ UNCHANGED <<made, row, tab, permission, device, endpoints, delivery, prompt>>

\* a new row; uq_push_subscription_endpoint refuses a second one
Insert(c) ==
  /\ change[c].post = "inserting"
  /\ change' = [change EXCEPT ![c].post = "ended"]
  /\ registered' = registered \cup ({change[c].endpoint} \ elsewhere)
  /\ UNCHANGED <<made, row, tab, permission, device, endpoints, elsewhere,
                 delivery, prompt>>

\* delete_push_subscription: a row of the user's
Delete(c) ==
  /\ change[c].post = "delete"
  /\ change' = [change EXCEPT ![c].post = "ended"]
  /\ registered' = registered \ {change[c].endpoint}
  /\ UNCHANGED <<made, row, tab, permission, device, endpoints, elsewhere,
                 delivery, prompt>>

LosePost(c) ==
  /\ change[c].post \in {"register", "delete"}
  /\ change' = [change EXCEPT ![c].post = "ended"]
  /\ UNCHANGED <<tab, server, permission, device, endpoints, prompt>>

\* _deliver_push reads the rows once and then pushes to one after the other
Deliver ==
  /\ row.nudges /\ row.push
  /\ todo = {} /\ dead = {}
  /\ registered # {}
  /\ todo' = registered
  /\ UNCHANGED <<made, row, tab, change, permission, device, endpoints,
                 registered, elsewhere, dead, prompt>>

\* The push service may answer 404 or 410 for an endpoint that is gone.
\* Slip: any failure of the push service counts as gone
Failing(e) == TRUE
Expired(e) == e # device
PushTo(e) ==
  /\ e \in todo
  /\ todo' = todo \ {e}
  /\ \/ UNCHANGED dead
     \/ Expired(e) /\ dead' = dead \cup {e}
  /\ UNCHANGED <<made, row, tab, change, permission, device, endpoints,
                 registered, elsewhere, prompt>>

\* The commit, after the last push: it drops the rows of the endpoints found
\* gone, all, none when it fails, or those that were not made anew meanwhile.
DropExpired ==
  /\ todo = {} /\ dead # {}
  /\ dead' = {}
  /\ \E gone \in SUBSET dead : registered' = registered \ gone
  /\ UNCHANGED <<made, row, tab, change, permission, device, endpoints,
                 elsewhere, todo, prompt>>

Next ==
  \/ \E t \in Tab : Refetch(t) \/ ServeRead(t) \/ ServeMake(t) \/ Loaded(t)
  \/ \E c \in Change, t \in Tab :
       \/ SwitchNudges(c, t) \/ SwitchEmail(c, t) \/ SetQuietHours(c, t)
       \/ SwitchPushOn(c, t) \/ SwitchPushOff(c, t)
  \/ \E c \in Change : \/ EnablePrompt(c) \/ Subscribe(c) \/ Unsubscribe(c)
                       \/ LockRow(c) \/ StoreRow(c) \/ Answer(c) \/ LosePut(c)
                       \/ Register(c) \/ Refresh(c) \/ Insert(c) \/ Delete(c)
                       \/ LosePost(c)
  \/ \E e \in Endpoint : PushTo(e)
  \/ SetPermission \/ Deliver \/ DropExpired \/ OfferPrompt \/ DismissPrompt

Spec == Init /\ [][Next]_vars

-----------------------------------------------------------------------------
(* Properties.                                                             *)

\* "two settings changes racing from the same account must not lose each
\* other" (update_my_preferences).  When a change is stored, the fields it
\* names get its values and every other keeps what the last change made it;
\* no other step touches the row.
NoSettingLost ==
  [][/\ made => (row' = row \/ \E c \in Change : StoreRow(c))
     /\ \A c \in Change :
          StoreRow(c) => \A f \in Field :
            row'[f] = IF f \in change[c].fields THEN change[c].to[f]
                      ELSE row[f]]_vars

\* A switch flicked off and on leaves clean-ups of older subscriptions under
\* way, and a delivery drops what it found dead some steps ago.  Neither
\* removes the registration of the subscription that the browser has now.
LiveRegistrationStays ==
  [][(device \in registered) => (device \in registered')]_vars

\* "You can register up to 10 devices for notifications"
\* (register_push_subscription).
DeviceLimitHolds == Cardinality(registered) <= MaxDevices
=============================================================================
