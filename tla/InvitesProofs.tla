--------------------------- MODULE InvitesProofs ---------------------------
(***************************************************************************)
(* Type correctness of the invite links, and that a revocation is never    *)
(* undone, for any users, links, requests and max_uses.  The copy an      *)
(* accept holds is a row only if the accept names a link, so types and     *)
(* addresses are invariant together; RevocationSticks is a fact about      *)
(* every step from such a state.                                           *)
(***************************************************************************)
EXTENDS Invites, TLAPS

LEMMA Rows ==
  /\ NotMade \in Invite
  /\ Unsent \in AcceptRequest
  /\ Offer \in Button
BY InvitesAssumption DEF NotMade, Invite, Unsent, AcceptRequest, Offer, Button

LEMMA InitTypeOK == Init => TypeOK
<1> SUFFICES ASSUME Init PROVE TypeOK
  OBVIOUS
<1>1. {founded, dialog, listed} \subseteq BOOLEAN /\ founding = "none"
  BY DEF Init
<1>2. QED BY <1>1, Rows DEF Init, TypeOK, Offer

\* GenerateInviteButton: what the owner does changes the button, and one
\* column of one row.
LEMMA OwnerKeepsTypes ==
  ASSUME TypeOK,
         \/ PressGenerate \/ Made \/ PressRevoke \/ ServeRevoke \/ RevokeFails
         \/ Forget
         \/ \E l \in Link : ServeMake(l)
  PROVE  TypeOK'
<1>1. CASE PressGenerate
  BY <1>1 DEF TypeOK, groups, PressGenerate, Turns, KeepRows, Button
<1>2. CASE Made
  BY <1>2 DEF TypeOK, groups, Made, Turns, KeepRows, Button
<1>3. CASE PressRevoke
  BY <1>3 DEF TypeOK, groups, PressRevoke, Turns, KeepRows, Button
<1>4. CASE ServeRevoke
  <2>1. invite' \in [Link -> Invite]
    BY <1>4 DEF TypeOK, groups, ServeRevoke, Invite
  <2>2. QED BY <1>4, <2>1 DEF TypeOK, groups, ServeRevoke, Turns, Button
<1>5. CASE RevokeFails
  BY <1>5 DEF TypeOK, groups, RevokeFails, Turns, KeepRows, Button
<1>6. CASE Forget
  BY <1>6, Rows DEF TypeOK, groups, Forget, Forgotten, Offer, KeepRows
<1>7. CASE \E l \in Link : ServeMake(l)
  <2>1. PICK l \in Link : ServeMake(l)
    BY <1>7
  <2>2. invite' \in [Link -> Invite]
    BY <2>1 DEF TypeOK, groups, ServeMake, Invite
  <2>3. button' \in Button /\ button'.link # NoLink
    BY <2>1, InvitesAssumption DEF ServeMake, Button
  <2>4. QED BY <2>1, <2>2, <2>3 DEF TypeOK, groups, ServeMake
<1>8. QED BY <1>1, <1>2, <1>3, <1>4, <1>5, <1>6, <1>7

LEMMA FoundingKeepsTypes ==
  ASSUME TypeOK, Founding
  PROVE  TypeOK' /\ KeepInvites
BY DEF TypeOK, Founding, ToggleDialog, SubmitGroup, ServeGroup, ReadGroups,
       GroupMade, GroupFails, KeepInvites

\* An accept that was sent names its user and its link.
Addressed ==
  \A a \in Accept : accept[a].state # "unsent" =>
    accept[a].user \in User /\ accept[a].link \in Link

\* the three statements of an accept
LEMMA AcceptKeepsTypes ==
  ASSUME TypeOK, Addressed, NEW a \in Accept,
         \/ \E u \in User, l \in Link : SendAccept(a, u, l)
         \/ LookUp(a) \/ JoinGroup(a)
  PROVE  TypeOK' /\ Addressed'
<1>1. accept \in [Accept -> AcceptRequest] /\ accept[a] \in AcceptRequest
  BY DEF TypeOK
<1>2. CASE \E u \in User, l \in Link : SendAccept(a, u, l)
  <2>1. PICK u \in User, l \in Link : SendAccept(a, u, l)
    BY <1>2
  <2>2. accept' \in [Accept -> AcceptRequest]
    BY <1>1, <2>1 DEF SendAccept, AcceptRequest
  <2>3. Addressed'
    BY <1>1, <2>1 DEF Addressed, SendAccept, AcceptRequest
  <2>4. QED BY <2>1, <2>2, <2>3 DEF TypeOK, groups, SendAccept
<1>3. CASE LookUp(a)
  <2>1. Row(a) \in Invite
    BY <1>3 DEF LookUp, Addressed, Row, TypeOK
  <2>2. PICK st \in Done \cup {"looked"} :
          accept' = [accept EXCEPT ![a] = [@ EXCEPT !.state = st,
                                                    !.copy = Row(a)]]
    BY <1>3 DEF LookUp, Done
  <2>3. accept' \in [Accept -> AcceptRequest]
    BY <1>1, <2>1, <2>2 DEF AcceptRequest
  <2>4. Addressed'
    BY <1>1, <1>3, <2>2 DEF Addressed, LookUp, AcceptRequest
  <2>5. QED BY <1>3, <2>3, <2>4 DEF TypeOK, groups, LookUp
<1>4. CASE JoinGroup(a)
  <2>1. PICK st \in Done : accept' = [accept EXCEPT ![a].state = st]
    BY <1>4 DEF JoinGroup, Done
  <2>2. accept' \in [Accept -> AcceptRequest]
    BY <1>1, <2>1 DEF AcceptRequest
  <2>3. Addressed'
    BY <1>1, <1>4, <2>1 DEF Addressed, JoinGroup, AcceptRequest
  <2>4. accept[a].user \in User /\ accept[a].link \in Link
    BY <1>4 DEF JoinGroup, Addressed
  <2>5. Written(a) \in Invite
    BY <1>1, <2>4 DEF Written, Row, TypeOK, Invite, AcceptRequest
  <2>6. invite' \in [Link -> Invite] /\ member' \subseteq User
    BY <1>4, <2>4, <2>5 DEF JoinGroup, TypeOK
  <2>7. QED BY <1>4, <2>2, <2>3, <2>6 DEF TypeOK, groups, JoinGroup
<1>5. QED BY <1>2, <1>3, <1>4

IInv == TypeOK /\ Addressed

LEMMA Inductive == IInv /\ [Next]_vars => IInv'
<1> SUFFICES ASSUME IInv, [Next]_vars PROVE IInv'
  OBVIOUS
<1>1. CASE \/ PressGenerate \/ Made \/ PressRevoke \/ ServeRevoke
           \/ RevokeFails \/ Forget
           \/ \E l \in Link : ServeMake(l)
  <2>1. accept' = accept
    BY <1>1 DEF PressGenerate, Made, PressRevoke, ServeRevoke, RevokeFails,
                Forget, ServeMake, KeepRows
  <2>2. QED BY <1>1, <2>1, OwnerKeepsTypes DEF IInv, Addressed
<1>2. CASE \E a \in Accept : \/ \E u \in User, l \in Link : SendAccept(a, u, l)
                             \/ LookUp(a) \/ JoinGroup(a)
  BY <1>2, AcceptKeepsTypes DEF IInv
<1>3. CASE Founding
  BY <1>3, FoundingKeepsTypes DEF IInv, Addressed, KeepInvites
<1>4. CASE UNCHANGED vars
  BY <1>4 DEF IInv, TypeOK, Addressed, vars, groups
<1>5. QED BY <1>1, <1>2, <1>3, <1>4 DEF Next

LEMMA Invariant == Spec => []IInv
<1>1. Init => IInv
  BY InitTypeOK DEF Init, IInv, Addressed, Unsent
<1>2. QED BY <1>1, Inductive, PTL DEF Spec

\* Type correctness of the links, the requests and the owner's button.
THEOREM TypeCorrect == Spec => []TypeOK
BY Invariant, PTL DEF IInv

\* revoke_invite and accept_invite: a link once revoked stays revoked,
\* whatever older copy of its row an accept under way writes from.
THEOREM RevocationIsFinal == Spec => RevocationSticks
<1>1. IInv /\ [Next]_vars =>
        [\A l \in Link : invite[l].revoked => invite'[l].revoked]_vars
  <2> SUFFICES ASSUME IInv, Next, NEW l \in Link, invite[l].revoked
               PROVE  invite'[l].revoked
    BY DEF vars
  <2>1. invite \in [Link -> Invite]
    BY DEF IInv, TypeOK
  <2>2. CASE \/ PressGenerate \/ Made \/ PressRevoke \/ RevokeFails \/ Forget
             \/ \E a \in Accept, u \in User, k \in Link : SendAccept(a, u, k)
             \/ \E a \in Accept : LookUp(a)
    BY <2>2 DEF PressGenerate, Made, PressRevoke, RevokeFails, Forget,
                SendAccept, LookUp, KeepRows
  <2>3. CASE ServeRevoke
    BY <2>1, <2>3 DEF ServeRevoke, Invite
  <2>4. CASE \E k \in Link : ServeMake(k)
    BY <2>1, <2>4 DEF ServeMake, Invite
  <2>5. CASE \E a \in Accept : JoinGroup(a)
    <3>1. PICK a \in Accept : JoinGroup(a)
      BY <2>5
    <3>2. Row(a) \in Invite /\ Written(a).revoked = Row(a).revoked
      BY <3>1, <2>1 DEF JoinGroup, IInv, Addressed, Row, Written, Invite
    <3>3. QED BY <2>1, <3>1, <3>2 DEF JoinGroup, Row
  <2>6. CASE Founding
    BY <2>6, FoundingKeepsTypes DEF IInv, KeepInvites
  <2>7. QED BY <2>2, <2>3, <2>4, <2>5, <2>6 DEF Next
<1>2. QED BY <1>1, Invariant, PTL DEF Spec, RevocationSticks
=============================================================================
