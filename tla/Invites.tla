------------------------------ MODULE Invites ------------------------------
(***************************************************************************)
(* A group is made with CreateGroupForm, and grows by invite links: the    *)
(* owner makes and revokes them with GenerateInviteButton, and users       *)
(* accept them, perhaps at the same moment and perhaps twice (SignIn       *)
(* models how they come to).  The name, the currency and the template of   *)
(* the group make no difference here, nor would a second group.            *)
(*                                                                         *)
(* accept_invite re-reads the invite FOR UPDATE, but the session already   *)
(* holds the object that _get_valid_invite loaded and SQLAlchemy does not  *)
(* overwrite it: what is checked and counted under the lock is the copy    *)
(* read before.  Only the columns that changed are written back.           *)
(*                                                                         *)
(* Expiry after 30 days is left out: it closes a link as a revocation does.*)
(***************************************************************************)
EXTENDS Naturals, FiniteSets

CONSTANTS
  User,
  Link,       \* bound: the links made
  Accept,     \* bound: the accept requests that reach the server
  MaxUses,    \* max_uses of a link
  Nobody,     \* the user of an accept that was not sent
  NoLink

ASSUME InvitesAssumption ==
  /\ MaxUses \in Nat \ {0}
  /\ Nobody \notin User
  /\ NoLink \notin Link

VARIABLES
  founded,    \* the group's rows exist, its owner's group_member row included
  founding,   \* the POST /expense-groups of CreateGroupForm
  dialog,     \* the groups page shows the form
  listed,     \* the page's list shows the group
  invite,     \* the rows of group_invite
  member,     \* users with a row in group_member
  accept,     \* the accept requests
  button      \* GenerateInviteButton on the owner's screen

groups == <<founded, founding, dialog, listed>>
vars == <<groups, invite, member, accept, button>>

Invite == [made : BOOLEAN, revoked : BOOLEAN, uses : Nat]
NotMade == [made |-> FALSE, revoked |-> FALSE, uses |-> 0]
Done == {"refused", "already", "joined", "crashed"}
AcceptRequest == [user : User \cup {Nobody}, link : Link \cup {NoLink},
                  state : {"unsent", "sent", "looked"} \cup Done,
                  copy : Invite]
Unsent == [user |-> Nobody, link |-> NoLink, state |-> "unsent", copy |-> NotMade]

Button == [phase : {"offer", "making", "made", "shown", "revoking", "revoked"},
           link : Link \cup {NoLink}]
Offer == [phase |-> "offer", link |-> NoLink]

TypeOK ==
  /\ {founded, dialog, listed} \subseteq BOOLEAN
  /\ founding \in {"none", "sent", "stored"}
  /\ invite \in [Link -> Invite]
  /\ member \subseteq User
  /\ accept \in [Accept -> AcceptRequest]
  /\ button \in Button
  /\ button.link = NoLink <=> button.phase \in {"offer", "making"}

Init ==
  /\ founded = FALSE /\ founding = "none"
  /\ dialog = FALSE /\ listed = FALSE
  /\ invite = [l \in Link |-> NotMade]
  /\ member = {}
  /\ accept = [a \in Accept |-> Unsent]
  /\ button = Offer

-----------------------------------------------------------------------------
(* The group.                                                              *)

KeepInvites == UNCHANGED <<invite, member, accept, button>>

\* "Create Group", "Create your first group", and Escape, which unmounts a
\* form that may be waiting
ToggleDialog ==
  /\ dialog' = ~dialog
  /\ UNCHANGED <<founded, founding, listed>> /\ KeepInvites

\* the fields and the button are disabled while the request is pending
FormReady == dialog /\ founding = "none"

SubmitGroup ==
  /\ FormReady /\ ~founded
  /\ founding' = "sent"
  /\ UNCHANGED <<founded, dialog, listed>> /\ KeepInvites

\* create_group: the group, its owner as a member, its settings, one commit
ServeGroup ==
  /\ founding = "sent"
  /\ founding' = "stored" /\ founded' = TRUE
  /\ UNCHANGED <<dialog, listed>> /\ KeepInvites

\* useUserGroups: the list is read, at any time
ReadGroups ==
  /\ listed' = founded
  /\ UNCHANGED <<founded, founding, dialog>> /\ KeepInvites

\* the answer: the list is read again, and the dialog closed, also when it is
\* one that was opened since
GroupMade ==
  /\ founding = "stored"
  /\ founding' = "none" /\ dialog' = FALSE /\ listed' = TRUE
  /\ UNCHANGED founded /\ KeepInvites

\* refused, or lost on either way: the form stays, with the error
GroupFails ==
  /\ founding # "none"
  /\ founding' = "none"
  /\ UNCHANGED <<founded, dialog, listed>> /\ KeepInvites

Founding == \/ ToggleDialog \/ SubmitGroup \/ ServeGroup \/ ReadGroups
            \/ GroupMade \/ GroupFails

-----------------------------------------------------------------------------
(* The owner's links.                                                      *)

Turns(phase) == button' = [button EXCEPT !.phase = phase]
KeepRows == UNCHANGED <<groups, invite, member, accept>>

\* on the group's screen, which the list leads to
PressGenerate ==
  /\ listed
  /\ button.phase = "offer"
  /\ Turns("making") /\ KeepRows

ServeMake(l) ==
  /\ button.phase = "making" /\ ~invite[l].made
  /\ invite' = [invite EXCEPT ![l].made = TRUE]
  /\ button' = [phase |-> "made", link |-> l]
  /\ UNCHANGED <<groups, member, accept>>

\* the answer sets the component's state
Made ==
  /\ button.phase = "made"
  /\ Turns("shown") /\ KeepRows

\* "Revoke"; disabled while the request runs
PressRevoke ==
  /\ button.phase = "shown"
  /\ Turns("revoking") /\ KeepRows

ServeRevoke ==
  /\ button.phase = "revoking"
  /\ invite' = [invite EXCEPT ![button.link].revoked = TRUE]
  /\ Turns("revoked")
  /\ UNCHANGED <<groups, member, accept>>

\* a request or an answer is lost
RevokeFails ==
  /\ button.phase \in {"revoking", "revoked"}
  /\ Turns("shown") /\ KeepRows

\* The link is forgotten: revoked, never heard of because the answer to
\* Generate was lost, or the owner has left the screen.
\* Slip: the state is cleared in part
HideLink == [button EXCEPT !.phase = "offer"]
Forgotten == Offer
Forget ==
  /\ button.phase # "offer"
  /\ button' = Forgotten /\ KeepRows

-----------------------------------------------------------------------------
(* Accepting.                                                              *)

\* an authenticated POST arrives
SendAccept(a, u, l) ==
  /\ accept[a].state = "unsent"
  /\ accept' = [accept EXCEPT ![a] =
                  [@ EXCEPT !.user = u, !.link = l, !.state = "sent"]]
  /\ UNCHANGED <<groups, invite, member, button>>

Valid(i) == i.made /\ ~i.revoked /\ i.uses < MaxUses
Row(a) == invite[accept[a].link]

\* _get_valid_invite, then the member check, neither under a lock
LookUp(a) ==
  /\ accept[a].state = "sent"
  /\ accept' = [accept EXCEPT ![a] =
       [@ EXCEPT !.state = IF ~Valid(Row(a)) THEN "refused"
                           ELSE IF accept[a].user \in member THEN "already"
                           ELSE "looked",
                 !.copy = Row(a)]]
  /\ UNCHANGED <<groups, invite, member, button>>

\* what the session writes of the copy it holds: the changed column
\* Slip: the whole row
WholeRow(a) == [accept[a].copy EXCEPT !.uses = @ + 1]
Written(a) == [Row(a) EXCEPT !.uses = accept[a].copy.uses + 1]

\* the lock, the check of the copy, the count, the new row, the commit; a
\* second row for one user breaks uq_group_member_group_user and rolls the
\* count back
JoinGroup(a) ==
  /\ accept[a].state = "looked"
  /\ Valid(accept[a].copy)
  /\ \/ /\ accept[a].user \notin member
        /\ invite' = [invite EXCEPT ![accept[a].link] = Written(a)]
        /\ member' = member \cup {accept[a].user}
        /\ accept' = [accept EXCEPT ![a].state = "joined"]
     \/ /\ accept[a].user \in member
        /\ accept' = [accept EXCEPT ![a].state = "crashed"]
        /\ UNCHANGED <<invite, member>>
  /\ UNCHANGED <<groups, button>>

Next ==
  \/ Founding
  \/ PressGenerate \/ Made \/ PressRevoke \/ ServeRevoke \/ RevokeFails
  \/ Forget
  \/ \E l \in Link : ServeMake(l)
  \/ \E a \in Accept, u \in User, l \in Link : SendAccept(a, u, l)
  \/ \E a \in Accept : LookUp(a) \/ JoinGroup(a)

Spec == Init /\ [][Next]_vars

-----------------------------------------------------------------------------
(* Properties.                                                             *)

\* "The link stops working immediately" (revoke_invite).  No accept that was
\* already under way writes its older copy over a revocation, however the
\* owner's request and those of the users interleave.
RevocationSticks ==
  [][\A l \in Link : invite[l].revoked => invite'[l].revoked]_vars

\* "concurrent accepts can't blow past max_uses" (accept_invite)
Joined(l) == {a \in Accept : accept[a].state = "joined" /\ accept[a].link = l}
MaxUsesHolds == \A l \in Link : Cardinality(Joined(l)) <= MaxUses
=============================================================================
