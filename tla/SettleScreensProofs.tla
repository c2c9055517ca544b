-------------------------- MODULE SettleScreensProofs --------------------------
(***************************************************************************)
(* Proofs about SettleScreens, for every set of shares and claims and any  *)
(* number of requests: its types, that an undone "Mark Paid" is never      *)
(* sent, that no claim vanishes from its reviewer, and that an offered     *)
(* share can be claimed.                                                   *)
(***************************************************************************)
EXTENDS SettleScreens, FiniteSetTheorems, WellFoundedInduction, TLAPS

-----------------------------------------------------------------------------
(* The inductive invariant.                                                *)

Answer == {"confirm", "reject"}
Open == {s \in Mine : toast[s].state # "none"}

\* What a request is about
CallsInv ==
  \A i \in Calls : /\ call[i].what = "mark" => call[i].of \in Mine
                   /\ call[i].what \in Answer => call[i].of \in Claim

\* An answer the server carried out has decided its claim
DoneInv ==
  \A i \in Calls : call[i].what \in Answer /\ call[i].state = "done"
                     => claim[call[i].of].status \notin {"none", "pending"}

\* A claim that waits can be answered or is being answered, on screen or off
ReviewInv ==
  \A c \in Claim :
    /\ claim[c].status = "none" => Answerable(c)
    /\ claim[c].status = "pending" => Answerable(c) \/ Flying(c)

\* A list never shows a claim before it is filed
ListsInv ==
  \A c \in Claim : c \in cache["ups"] \cup cache["review"]
                     => claim[c].status # "none"

\* Every toast that may send a claim finds a request to send it with
RoomInv == Cardinality(Open) <= Cardinality(Free)

\* Who covers what
ClaimInv ==
  \A c \in Claim : claim[c].status # "none" =>
    /\ claim[c].by \in Party
    /\ claim[c].by = "they" /\ ~claim[c].pair => claim[c].covers \cap Mine = {}
    /\ claim[c].status = "confirmed" => claim[c].covers \subseteq settled

IInv == /\ TypeOK
        /\ CallsInv
        /\ DoneInv
        /\ ReviewInv
        /\ ListsInv
        /\ RoomInv
        /\ ClaimInv

-----------------------------------------------------------------------------
(* Choosing the next row and the next request.                             *)

\* A set of numbers that is not empty has a least one
LEMMA LeastExists ==
  ASSUME NEW S \in SUBSET Nat, S # {}
  PROVE  \E c \in S : \A d \in S : c <= d
<1>1. \E c \in S : \A d \in S : ~(<<d, c>> \in OpToRel(<, Nat))
  BY NatLessThanWellFounded, WFMin
<1>2. PICK c \in S : \A d \in S : ~(<<d, c>> \in OpToRel(<, Nat))
  BY <1>1
<1>3. ASSUME NEW d \in S PROVE c <= d
  <2>1. c \in Nat /\ d \in Nat
    OBVIOUS
  <2>2. <<d, c>> \in OpToRel(<, Nat) <=> d < c
    BY <2>1 DEF OpToRel
  <2>3. ~(d < c)
    BY <1>2, <2>2, Zenon
  <2> QED BY <2>1, <2>3
<1> QED BY <1>3

LEMMA NextRowIsFree == SettleScreensAssumption /\ Room # {} => NextRow \in Room
<1> SUFFICES ASSUME SettleScreensAssumption, Room # {} PROVE NextRow \in Room
  OBVIOUS
<1>1. Room \in SUBSET Nat
  BY DEF SettleScreensAssumption, Room
<1>2. \E c \in Room : \A d \in Room : c <= d
  BY <1>1, LeastExists
<1> QED BY <1>2 DEF NextRow

\* The record of a request that has just been sent
Request(what, of, seen) ==
  [NoCall EXCEPT !.what = what, !.of = of, !.state = "sent", !.seen = seen]

LEMMA RequestIsCall ==
  ASSUME NEW what \in {"mark", "up", "confirm", "reject"},
         NEW of \in Split \cup Claim \cup {0}, NEW seen \in BOOLEAN
  PROVE  /\ Request(what, of, seen) \in Call
         /\ Request(what, of, seen).what = what
         /\ Request(what, of, seen).of = of
         /\ Request(what, of, seen).state = "sent"
         /\ Request(what, of, seen).seen = seen
  BY DEF Request, NoCall, Call

\* The request that Sent uses up
Fresh == CHOOSE i \in Free : \A j \in Free : i <= j

LEMMA FreshIsFree == SettleScreensAssumption /\ Free # {} => Fresh \in Free
<1> SUFFICES ASSUME SettleScreensAssumption, Free # {} PROVE Fresh \in Free
  OBVIOUS
<1>1. Free \in SUBSET Nat
  BY DEF SettleScreensAssumption, Free, Calls
<1>2. \E i \in Free : \A j \in Free : i <= j
  BY <1>1, LeastExists
<1> QED BY <1>2 DEF Fresh

LEMMA UnseenIsCall ==
  ASSUME NEW r \in Call
  PROVE  /\ Unseen(r) \in Call
         /\ Unseen(r).state # "none" <=> r.state # "none"
         /\ Unseen(r).state = "sent" <=> r.state = "sent"
         /\ Unseen(r).state = "done" <=> r.state = "done"
         /\ Unseen(r).what = "mark" => r.what = "mark" /\ Unseen(r).of = r.of
         /\ Unseen(r).what \in Answer => r.what = Unseen(r).what
                                         /\ Unseen(r).of = r.of
<1>1. CASE r.state = "ok"
  BY <1>1 DEF Unseen, Over, NoCall, Call, Answer
<1>2. CASE r.state # "ok"
  <2>1. Unseen(r) = [r EXCEPT !.seen = FALSE]
    BY <1>2 DEF Unseen
  <2> QED BY <2>1 DEF Call, Answer
<1> QED BY <1>1, <1>2

LEMMA Finiteness ==
  SettleScreensAssumption => /\ IsFiniteSet(Mine)
                             /\ IsFiniteSet(Calls)
                             /\ IsFiniteSet(Open)
                             /\ IsFiniteSet(Free)
                             /\ IsFiniteSet(Open')
                             /\ IsFiniteSet(Free')
<1> SUFFICES ASSUME SettleScreensAssumption
             PROVE  /\ IsFiniteSet(Mine) /\ IsFiniteSet(Calls)
                    /\ IsFiniteSet(Open) /\ IsFiniteSet(Free)
                    /\ IsFiniteSet(Open') /\ IsFiniteSet(Free')
  OBVIOUS
<1>1. IsFiniteSet(Mine)
  BY FS_Subset DEF SettleScreensAssumption
<1>2. IsFiniteSet(Calls)
  BY FS_Interval DEF SettleScreensAssumption, Calls
<1>3. Open \subseteq Mine /\ Open' \subseteq Mine
  BY DEF Open
<1>4. Free \subseteq Calls /\ Free' \subseteq Calls
  BY DEF Free
<1> QED BY <1>1, <1>2, <1>3, <1>4, FS_Subset

\* No toast more and no request less: there is still room
LEMMA RoomKept ==
  SettleScreensAssumption /\ RoomInv /\ Open' \subseteq Open /\ Free' = Free
    => RoomInv'
<1> SUFFICES ASSUME SettleScreensAssumption, RoomInv, Open' \subseteq Open,
                    Free' = Free
             PROVE  RoomInv'
  OBVIOUS
<1>1. Cardinality(Open') <= Cardinality(Open)
  BY Finiteness, FS_Subset
<1>2. /\ Cardinality(Open') \in Nat
      /\ Cardinality(Open) \in Nat
      /\ Cardinality(Free) \in Nat
  BY Finiteness, FS_CardinalityType
<1>3. Cardinality(Free') = Cardinality(Free)
  OBVIOUS
<1> QED BY <1>1, <1>2, <1>3 DEF RoomInv

\* A request is used up where more were left than toasts are open
LEMMA RoomUsed ==
  ASSUME SettleScreensAssumption, Cardinality(Free) > Cardinality(Open),
         Open' \subseteq Open, NEW n \in Free, Free' = Free \ {n}
  PROVE  RoomInv'
<1>1. Cardinality(Open') <= Cardinality(Open)
  BY Finiteness, FS_Subset
<1>2. /\ Cardinality(Open') \in Nat
      /\ Cardinality(Open) \in Nat
      /\ Cardinality(Free) \in Nat
  BY Finiteness, FS_CardinalityType
<1>3. Cardinality(Free \ {n}) = Cardinality(Free) - 1
  BY Finiteness, FS_RemoveElement
<1>4. Cardinality(Free') = Cardinality(Free) - 1
  BY <1>3
<1> QED BY <1>1, <1>2, <1>4 DEF RoomInv
-----------------------------------------------------------------------------
(* The initial state.                                                      *)

LEMMA ReadsTyped ==
  ASSUME SettleScreensAssumption, claim \in [Claim -> Claims], NEW q \in Query
  PROVE  Reads(q) \in SUBSET (Split \cup Claim)
<1>1. CASE q = "ledger"
  BY <1>1 DEF Reads, MySplits, SettleScreensAssumption
<1>2. CASE q = "mine"
  <2>1. Reads(q) = UNION {claim[c].covers : c \in Single("me")}
    BY <1>2 DEF Reads
  <2>2. \A c \in Single("me") : claim[c].covers \in SUBSET Split
    BY DEF Single, Pending, Claims
  <2> QED BY <2>1, <2>2
<1>3. CASE q = "ups"
  BY <1>3 DEF Reads, Pending
<1>4. CASE q = "net"
  BY <1>4 DEF Reads, Balances
<1>5. CASE q = "review"
  BY <1>5 DEF Reads, Single, Pending
<1> QED BY <1>1, <1>2, <1>3, <1>4, <1>5 DEF Query

\* What is listed is pending, hence filed
LEMMA ReadsFiled ==
  \A c \in Claim : c \in Reads("ups") \cup Reads("review")
                     => claim[c].status = "pending"
  BY DEF Reads, Single, Pending

LEMMA InitIInv == SettleScreensAssumption /\ Init => IInv
<1> SUFFICES ASSUME SettleScreensAssumption, Init PROVE IInv
  OBVIOUS
<1>1. claim \in [Claim -> Claims]
  BY DEF Init, NoClaim, Claims
<1>2. cache \in [Query -> SUBSET (Split \cup Claim)]
  BY <1>1, ReadsTyped DEF Init
<1>3. TypeOK
  <2>1. settled \subseteq Split /\ here \in BOOLEAN /\ fetching \subseteq Query
    BY DEF Init
  <2>2. card \in [Mine -> Card] /\ toast \in [Mine -> Toast]
    BY DEF Init, NewCard, Card, NoToast, Toast
  <2>3. review \in [Claim -> Review]
    BY DEF Init, NewReview, Review
  <2>4. call \in [Calls -> Call]
    BY DEF Init, NoCall, Call
  <2> QED BY <1>1, <1>2, <2>1, <2>2, <2>3, <2>4 DEF TypeOK
<1>4. \A i \in Calls : call[i].what = "none" /\ call[i].state = "none"
  BY DEF Init, NoCall
<1>5. CallsInv /\ DoneInv
  BY <1>4 DEF CallsInv, DoneInv, Answer
<1>6. \A c \in Claim : claim[c].status = "none" /\ Answerable(c)
  BY DEF Init, NoClaim, NewReview, Answerable
<1>7. ReviewInv /\ ClaimInv
  BY <1>6 DEF ReviewInv, ClaimInv
<1>8. ListsInv
  <2>1. cache["ups"] = Reads("ups") /\ cache["review"] = Reads("review")
    BY DEF Init, Query
  <2> QED BY <2>1, <1>6, ReadsFiled DEF ListsInv
<1>9. RoomInv
  <2>1. Open = {}
    BY DEF Init, Open, NoToast
  <2>2. Cardinality(Open) = 0
    BY <2>1, FS_EmptySet
  <2>3. Cardinality(Free) \in Nat
    BY Finiteness, FS_CardinalityType
  <2> QED BY <2>2, <2>3 DEF RoomInv
<1> QED BY <1>3, <1>5, <1>7, <1>8, <1>9 DEF IInv

-----------------------------------------------------------------------------
(* The server.                                                             *)

\* One step of the server on claim c: it is left alone, filed or decided
Moves(c) ==
  \/ claim'[c] = claim[c]
  \/ /\ claim[c].status = "none" /\ claim'[c].status = "pending"
     /\ claim'[c].by \in Party
     /\ claim'[c].by = "they" /\ ~claim'[c].pair => claim'[c].covers \cap Mine = {}
  \/ /\ claim[c].status = "pending"
     /\ claim'[c].status \in {"confirmed", "rejected"}
     /\ claim'[c].by = claim[c].by /\ claim'[c].pair = claim[c].pair
     /\ claim'[c].covers = claim[c].covers
     /\ claim'[c].status = "confirmed" => claim[c].covers \subseteq settled'

ServerStep ==
  /\ settled \subseteq settled' /\ settled' \subseteq Split
  /\ claim' \in [Claim -> Claims]
  /\ \A c \in Claim : Moves(c)

LEMMA FileMoves ==
  ASSUME SettleScreensAssumption, TypeOK,
         NEW u \in Party, NEW pair \in BOOLEAN, NEW S \in SUBSET Split,
         u = "they" /\ ~pair => S \cap Mine = {}, File(u, pair, S)
  PROVE  ServerStep /\ NextRow \in Claim
<1> DEFINE row == [by |-> u, pair |-> pair, covers |-> S, status |-> "pending"]
<1>1. NextRow \in Room
  BY NextRowIsFree DEF File
<1>2. NextRow \in Claim /\ claim[NextRow].status = "none"
  BY <1>1 DEF Room
<1>3. claim' = [claim EXCEPT ![NextRow] = row] /\ settled' = settled
  BY DEF File
<1>4. row \in Claims
  BY DEF Claims
<1>5. claim' \in [Claim -> Claims]
  BY <1>2, <1>3, <1>4 DEF TypeOK
<1>6. ASSUME NEW c \in Claim PROVE Moves(c)
  <2>1. CASE c = NextRow
    <3>1. claim'[c] = row
      BY <2>1, <1>2, <1>3 DEF TypeOK
    <3> QED BY <3>1, <2>1, <1>2 DEF Moves
  <2>2. CASE c # NextRow
    BY <2>2, <1>3 DEF TypeOK, Moves
  <2> QED BY <2>1, <2>2
<1> QED BY <1>2, <1>3, <1>5, <1>6 DEF ServerStep, TypeOK

LEMMA DecideMoves ==
  ASSUME TypeOK, NEW c \in Pending, NEW st \in {"confirmed", "rejected"},
         Decide(c, st)
  PROVE  ServerStep /\ claim'[c].status = st
<1>1. c \in Claim /\ claim[c].status = "pending" /\ claim[c] \in Claims
  BY DEF Pending, TypeOK
<1>2. claim' = [claim EXCEPT ![c].status = st]
  BY DEF Decide
<1>3. claim'[c] = [claim[c] EXCEPT !.status = st]
  BY <1>1, <1>2 DEF TypeOK
<1>4. /\ claim'[c] \in Claims /\ claim'[c].status = st
      /\ claim'[c].by = claim[c].by /\ claim'[c].pair = claim[c].pair
      /\ claim'[c].covers = claim[c].covers
  BY <1>1, <1>3 DEF Claims
<1>5. \A d \in Claim \ {c} : claim'[d] = claim[d]
  BY <1>2 DEF TypeOK
<1>6. claim' \in [Claim -> Claims]
  BY <1>2, <1>3, <1>4 DEF TypeOK
<1>7. settled \subseteq settled' /\ settled' \subseteq Split
      /\ (st = "confirmed" => claim[c].covers \subseteq settled')
  BY <1>1 DEF Decide, TypeOK, Claims
<1>8. \A d \in Claim : Moves(d)
  BY <1>1, <1>4, <1>5, <1>7 DEF Moves
<1> QED BY <1>4, <1>6, <1>7, <1>8 DEF ServerStep

\* What a step of the server keeps when the screen stays as it is: every
\* request keeps what it is about, and every answer on its way stays so
LEMMA ServerKeeps ==
  ASSUME SettleScreensAssumption, IInv, ServerStep,
         call' \in [Calls -> Call], Free' = Free,
         \A i \in Calls : call'[i].what = call[i].what /\ call'[i].of = call[i].of,
         \A i \in Calls : call'[i].what \in Answer /\ call'[i].state = "done"
           => call[i].state = "done"
              \/ claim'[call[i].of].status \in {"confirmed", "rejected"},
         \A c \in Claim : Flying(c) => Flying(c)',
         UNCHANGED <<here, cache, fetching, card, toast, review>>
  PROVE  IInv'
<1>1. TypeOK'
  BY DEF IInv, TypeOK, ServerStep
<1>2. CallsInv'
  BY DEF IInv, CallsInv
<1>3. \A c \in Claim : claim[c].status \notin {"none", "pending"}
        => claim'[c].status \notin {"none", "pending"}
  BY DEF ServerStep, Moves
<1>4. DoneInv'
  <2> SUFFICES ASSUME NEW i \in Calls, call'[i].what \in Answer,
                      call'[i].state = "done"
               PROVE  claim'[call'[i].of].status \notin {"none", "pending"}
    BY DEF DoneInv
  <2>1. call[i].of \in Claim /\ call'[i].of = call[i].of /\ call[i].what \in Answer
    BY DEF IInv, CallsInv
  <2>2. CASE call[i].state = "done"
    BY <2>1, <2>2, <1>3 DEF IInv, DoneInv
  <2>3. CASE claim'[call[i].of].status \in {"confirmed", "rejected"}
    BY <2>1, <2>3
  <2> QED BY <2>2, <2>3
<1>5. ReviewInv'
  <2> SUFFICES ASSUME NEW c \in Claim
               PROVE  /\ claim'[c].status = "none" => Answerable(c)'
                      /\ claim'[c].status = "pending"
                           => Answerable(c)' \/ Flying(c)'
    BY DEF ReviewInv
  <2>1. Answerable(c)' <=> Answerable(c)
    BY DEF Answerable
  <2>2. claim'[c].status = "none" => claim[c].status = "none"
    BY DEF ServerStep, Moves
  <2>3. claim'[c].status = "pending" => claim[c].status \in {"none", "pending"}
    BY DEF ServerStep, Moves
  <2> QED BY <2>1, <2>2, <2>3 DEF IInv, ReviewInv
<1>6. ListsInv'
  BY DEF IInv, ListsInv, ServerStep, Moves
<1>7. RoomInv'
  <2>1. Open' = Open
    BY DEF Open
  <2> QED BY <2>1, RoomKept DEF IInv
<1>8. ClaimInv'
  <2> SUFFICES ASSUME NEW c \in Claim, claim'[c].status # "none"
               PROVE  /\ claim'[c].by \in Party
                      /\ claim'[c].by = "they" /\ ~claim'[c].pair
                           => claim'[c].covers \cap Mine = {}
                      /\ claim'[c].status = "confirmed"
                           => claim'[c].covers \subseteq settled'
    BY DEF ClaimInv
  <2>1. CASE claim'[c] = claim[c]
    BY <2>1 DEF IInv, ClaimInv, ServerStep
  <2>2. CASE claim'[c] # claim[c]
    BY <2>2 DEF IInv, ClaimInv, ServerStep, Moves
  <2> QED BY <2>1, <2>2
<1> QED BY <1>1, <1>2, <1>4, <1>5, <1>6, <1>7, <1>8 DEF IInv

LEMMA MarkCoversTyped ==
  ASSUME NEW s \in Split
  PROVE  MarkCovers(s) \in SUBSET Split /\ MarkCovers(s) \subseteq {s}
  BY DEF MarkCovers

LEMMA UpCoversTyped == \A u : UpCovers(u) \in SUBSET Split
  BY DEF UpCovers

\* The request of mine that arrives
LEMMA ServeGood ==
  ASSUME SettleScreensAssumption, IInv, NEW i \in Calls, Serve(i)
  PROVE  IInv'
<1>1. call \in [Calls -> Call] /\ call[i] \in Call /\ call[i].state = "sent"
  BY DEF IInv, TypeOK, Serve
<1>2. /\ call' \in [Calls -> Call]
      /\ call'[i].what = call[i].what /\ call'[i].of = call[i].of
      /\ call'[i].seen = call[i].seen /\ call'[i].state \in {"done", "refused"}
      /\ \A j \in Calls \ {i} : call'[j] = call[j]
  <2>1. CASE call[i].what = "mark" /\ MarkCovers(call[i].of) # {}
    <3>1. File("me", FALSE, MarkCovers(call[i].of))
          /\ call' = [call EXCEPT ![i].state = "done", ![i].filed = NextRow]
      BY <2>1, <1>1 DEF Serve
    <3>2. NextRow \in Claim
      BY <3>1, NextRowIsFree DEF File, Room
    <3>3. call' = [call EXCEPT ![i] = [call[i] EXCEPT !.state = "done",
                                                      !.filed = NextRow]]
      BY <3>1
    <3>4. [call[i] EXCEPT !.state = "done", !.filed = NextRow] \in Call
      BY <1>1, <3>2 DEF Call
    <3>5. call'[i] = [call[i] EXCEPT !.state = "done", !.filed = NextRow]
      BY <3>3, <1>1
    <3> QED BY <1>1, <3>3, <3>4, <3>5 DEF Call
  <2>2. CASE ~(call[i].what = "mark" /\ MarkCovers(call[i].of) # {})
    <3>1. PICK st \in {"done", "refused"} : call' = [call EXCEPT ![i].state = st]
      BY <2>2 DEF Serve
    <3>2. [call[i] EXCEPT !.state = st] \in Call
      BY <1>1 DEF Call
    <3>3. call'[i] = [call[i] EXCEPT !.state = st]
      BY <3>1, <1>1
    <3> QED BY <1>1, <3>1, <3>2, <3>3 DEF Call
  <2> QED BY <2>1, <2>2
<1>3. \A j \in Calls : call'[j].what = call[j].what /\ call'[j].of = call[j].of
  BY <1>2
<1>4. Free' = Free
  BY <1>1, <1>2 DEF Free
<1>5. \A c \in Claim : Flying(c) => Flying(c)'
  <2> SUFFICES ASSUME NEW c \in Claim, NEW j \in Calls,
                      call[j].what \in {"confirm", "reject"}, call[j].of = c,
                      call[j].seen, call[j].state \in {"sent", "done", "refused"}
               PROVE  /\ call'[j].what \in {"confirm", "reject"}
                      /\ call'[j].of = c /\ call'[j].seen
                      /\ call'[j].state \in {"sent", "done", "refused"}
    BY DEF Flying
  <2> QED BY <1>2
<1>6. UNCHANGED <<here, cache, fetching, card, toast, review>>
  BY DEF Serve
<1>7. ServerStep /\ (call'[i].what \in Answer /\ call'[i].state = "done"
                       => claim'[call[i].of].status \in {"confirmed", "rejected"})
  <2>1. CASE call[i].what = "mark" /\ MarkCovers(call[i].of) # {}
    <3>1. call[i].of \in Split
      BY <2>1 DEF IInv, CallsInv, SettleScreensAssumption
    <3>2. File("me", FALSE, MarkCovers(call[i].of))
      BY <2>1, <1>1 DEF Serve
    <3>3. ServerStep
      BY <3>1, <3>2, MarkCoversTyped, FileMoves DEF IInv, Party
    <3> QED BY <3>3, <1>2, <2>1 DEF Answer
  <2>2. CASE call[i].what = "up" /\ UpCovers("me") # {}
    <3>1. File("me", TRUE, UpCovers("me"))
      BY <2>2 DEF Serve
    <3>2. ServerStep
      BY <3>1, UpCoversTyped, FileMoves DEF IInv, Party
    <3> QED BY <3>2, <1>2, <2>2 DEF Answer
  <2>3. CASE call[i].what \in Answer /\ call[i].of \in Pending
    <3>1. PICK st \in {"confirmed", "rejected"} : Decide(call[i].of, st)
      BY <2>3 DEF Serve, Answer
    <3> QED BY <3>1, <2>3, DecideMoves DEF IInv
  <2>4. CASE \/ call[i].what = "mark" /\ MarkCovers(call[i].of) = {}
             \/ call[i].what = "up" /\ UpCovers("me") = {}
             \/ call[i].what \in Answer /\ call[i].of \notin Pending
    <3>1. claim' = claim /\ settled' = settled
      BY <2>4 DEF Serve, server, Answer
    <3>2. ServerStep
      BY <3>1 DEF ServerStep, Moves, IInv, TypeOK
    <3>3. call' = [call EXCEPT ![i].state = "refused"]
      BY <2>4 DEF Serve, Answer
    <3>4. call'[i].state = "refused"
      BY <3>3, <1>1 DEF Call
    <3> QED BY <3>2, <3>4
  <2> QED BY <2>1, <2>2, <2>3, <2>4 DEF Serve, Answer
<1>8. \A j \in Calls : call'[j].what \in Answer /\ call'[j].state = "done"
        => call[j].state = "done"
           \/ claim'[call[j].of].status \in {"confirmed", "rejected"}
  BY <1>2, <1>7
<1> QED BY <1>2, <1>3, <1>4, <1>5, <1>6, <1>7, <1>8, ServerKeeps

\* The other side files or decides
LEMMA TheirStepGood ==
  ASSUME SettleScreensAssumption, IInv, TheyFile \/ TheyDecide
  PROVE  IInv'
<1>1. UNCHANGED <<here, cache, fetching, card, toast, review, call>>
  BY DEF TheyFile, TheyDecide
<1>2. ServerStep
  <2>1. ASSUME NEW s \in Split \ Mine, File("they", FALSE, MarkCovers(s))
        PROVE  ServerStep
    <3>1. MarkCovers(s) \in SUBSET Split /\ MarkCovers(s) \cap Mine = {}
      BY MarkCoversTyped
    <3> QED BY <2>1, <3>1, FileMoves DEF IInv, Party
  <2>2. CASE File("they", TRUE, UpCovers("they"))
    BY <2>2, UpCoversTyped, FileMoves DEF IInv, Party
  <2>3. CASE TheyDecide
    <3>1. PICK c \in Pending, st \in {"confirmed", "rejected"} : Decide(c, st)
      BY <2>3 DEF TheyDecide
    <3> QED BY <3>1, DecideMoves DEF IInv
  <2> QED BY <2>1, <2>2, <2>3 DEF TheyFile
<1>3. Free' = Free /\ (\A c \in Claim : Flying(c) => Flying(c)')
  BY <1>1 DEF Free, Flying
<1>4. call' \in [Calls -> Call]
  BY <1>1 DEF IInv, TypeOK
<1> QED BY <1>1, <1>2, <1>3, <1>4, ServerKeeps

-----------------------------------------------------------------------------
(* The answers that arrive.                                                *)

LEMMA ServerAtRest ==
  IInv /\ UNCHANGED server => /\ ClaimInv'
                              /\ claim' \in [Claim -> Claims]
                              /\ settled' \subseteq Split
                              /\ UNCHANGED cache => ListsInv'
  BY DEF IInv, server, ClaimInv, ListsInv, TypeOK

LEMMA SucceedsGood ==
  ASSUME SettleScreensAssumption, IInv, NEW i \in Calls, Succeeds(i)
  PROVE  IInv'
<1>1. call \in [Calls -> Call] /\ call[i] \in Call /\ call[i].state = "done"
  BY DEF IInv, TypeOK, Succeeds
<1>2. /\ UNCHANGED <<claim, settled, here, cache, toast, review>>
      /\ UNCHANGED server
  BY DEF Succeeds, server
<1> DEFINE new == IF call[i].what = "mark" /\ call[i].seen
                  THEN [call[i] EXCEPT !.state = "ok"] ELSE Over
<1>3. call' = [call EXCEPT ![i] = new]
  BY DEF Succeeds
<1>4. /\ new \in Call /\ new.state \in {"ok", "over"}
      /\ new.what \notin Answer
      /\ new.what = "mark" => call[i].what = "mark" /\ new.of = call[i].of
  <2>1. CASE call[i].what = "mark" /\ call[i].seen
    BY <1>1, <2>1 DEF Call, Answer
  <2>2. CASE ~(call[i].what = "mark" /\ call[i].seen)
    BY <2>2 DEF Call, Answer, Over, NoCall
  <2> QED BY <2>1, <2>2
<1> HIDE DEF new
<1>5. call'[i] = new /\ \A j \in Calls \ {i} : call'[j] = call[j]
  BY <1>1, <1>3
<1>6. call' \in [Calls -> Call]
  BY <1>1, <1>3, <1>4
<1>7. TypeOK'
  <2>1. fetching' \subseteq Query
    BY DEF Succeeds, Invalidate, Invalidated, AfterMark, AfterUp, Query, IInv, TypeOK
  <2>2. card' \in [Mine -> Card]
    <3>1. CASE call[i].what = "mark" /\ call[i].seen
      <4>1. card' = [card EXCEPT ![call[i].of].status = "success"]
        BY <3>1 DEF Succeeds
      <4> QED BY <4>1 DEF IInv, TypeOK, Card
    <3>2. CASE ~(call[i].what = "mark" /\ call[i].seen)
      BY <3>2 DEF Succeeds, IInv, TypeOK
    <3> QED BY <3>1, <3>2
  <2> QED BY <1>2, <1>6, <2>1, <2>2 DEF IInv, TypeOK
<1>8. CallsInv' /\ DoneInv'
  <2>1. \A j \in Calls : call'[j].what = "mark" => call'[j].of \in Mine
    BY <1>4, <1>5 DEF IInv, CallsInv
  <2>2. \A j \in Calls : call'[j].what \in Answer => call'[j] = call[j]
    BY <1>4, <1>5
  <2>3. \A j \in Calls : call'[j].what \in Answer => call'[j].of \in Claim
    BY <2>2 DEF IInv, CallsInv
  <2>4. DoneInv'
    BY <2>2, <1>2 DEF IInv, DoneInv
  <2> QED BY <2>1, <2>3, <2>4 DEF CallsInv
<1>9. ReviewInv'
  <2> SUFFICES ASSUME NEW c \in Claim
               PROVE  /\ claim'[c].status = "none" => Answerable(c)'
                      /\ claim'[c].status = "pending"
                           => Answerable(c)' \/ Flying(c)'
    BY DEF ReviewInv
  <2>1. (Answerable(c)' <=> Answerable(c)) /\ claim'[c] = claim[c]
    BY <1>2 DEF Answerable
  <2>2. ASSUME claim[c].status = "pending", Flying(c) PROVE Flying(c)'
    <3>1. PICK j \in Calls : /\ call[j].what \in {"confirm", "reject"}
                             /\ call[j].of = c /\ call[j].seen
                             /\ call[j].state \in {"sent", "done", "refused"}
      BY <2>2 DEF Flying
    <3>2. j # i
      BY <3>1, <2>2, <1>1 DEF IInv, DoneInv, Answer
    <3>3. call'[j] = call[j]
      BY <3>2, <1>5
    <3> QED BY <3>1, <3>3 DEF Flying
  <2> QED BY <2>1, <2>2 DEF IInv, ReviewInv
<1>10. RoomInv'
  <2>1. Open' = Open
    BY <1>2 DEF Open
  <2>2. Free' = Free
    BY <1>1, <1>4, <1>5 DEF Free
  <2> QED BY <2>1, <2>2, RoomKept DEF IInv
<1> QED BY <1>2, <1>7, <1>8, <1>9, <1>10, ServerAtRest DEF IInv

LEMMA FailsGood ==
  ASSUME SettleScreensAssumption, IInv, NEW i \in Calls, Fails(i)
  PROVE  IInv'
<1>1. call \in [Calls -> Call] /\ call[i] \in Call
      /\ call[i].state \in {"sent", "done", "refused"}
  BY DEF IInv, TypeOK, Fails
<1>2. /\ UNCHANGED <<claim, settled, here, cache, fetching, toast>>
      /\ UNCHANGED server
  BY DEF Fails, server
<1>3. call' = [call EXCEPT ![i] = Over]
  BY DEF Fails
<1>4. Over \in Call /\ Over.state = "over" /\ Over.what = "none"
  BY DEF Over, NoCall, Call
<1>5. call'[i] = Over /\ \A j \in Calls \ {i} : call'[j] = call[j]
  BY <1>1, <1>3
<1>6. call' \in [Calls -> Call]
  BY <1>1, <1>3, <1>4
<1>7. \A c \in Claim : review'[c] \in Review
                       /\ (review'[c] = review[c] \/ Answerable(c)')
  <2>1. CASE call[i].what \in Answer /\ call[i].seen
    <3>1. call[i].of \in Claim
      BY <2>1 DEF IInv, CallsInv
    <3>2. review' = [review EXCEPT ![call[i].of] = Reverted(review[call[i].of])]
      BY <2>1 DEF Fails, Answer
    <3>3. \A c \in Claim : review'[c] = IF c = call[i].of THEN Reverted(review[c])
                                                          ELSE review[c]
      BY <3>1, <3>2 DEF IInv, TypeOK
    <3>4. \A rv \in Review : /\ Reverted(rv) \in Review
                             /\ Reverted(rv).shown = "pending"
                             /\ ~Reverted(rv).removing
      BY DEF Reverted, Review
    <3>5. \A c \in Claim : review[c] \in Review
      BY DEF IInv, TypeOK
    <3> QED BY <3>3, <3>4, <3>5 DEF Answerable
  <2>2. CASE ~(call[i].what \in Answer /\ call[i].seen)
    <3>1. review' = review
      BY <2>2 DEF Fails, Answer
    <3> QED BY <3>1 DEF IInv, TypeOK
  <2> QED BY <2>1, <2>2
<1>8. review' \in [Claim -> Review]
  <2>1. \E f : review' = [review EXCEPT ![call[i].of] = f] \/ review' = review
    BY DEF Fails
  <2> QED BY <2>1, <1>7 DEF IInv, TypeOK
<1>9. TypeOK'
  <2>1. card' \in [Mine -> Card]
    <3>1. CASE call[i].what = "mark" /\ call[i].seen
      <4>1. card' = [card EXCEPT ![call[i].of] =
                       [awaiting |-> FALSE, status |-> "error"]]
        BY <3>1 DEF Fails
      <4> QED BY <4>1 DEF IInv, TypeOK, Card
    <3>2. CASE ~(call[i].what = "mark" /\ call[i].seen)
      BY <3>2 DEF Fails, IInv, TypeOK
    <3> QED BY <3>1, <3>2
  <2> QED BY <1>2, <1>6, <1>8, <2>1 DEF IInv, TypeOK
<1>10. CallsInv' /\ DoneInv'
  <2>1. \A j \in Calls : call'[j].what \in Answer \cup {"mark"}
                           => call'[j] = call[j]
    BY <1>4, <1>5 DEF Answer
  <2> QED BY <2>1, <1>2 DEF IInv, CallsInv, DoneInv
<1>11. ReviewInv'
  <2> SUFFICES ASSUME NEW c \in Claim
               PROVE  /\ claim'[c].status = "none" => Answerable(c)'
                      /\ claim'[c].status = "pending"
                           => Answerable(c)' \/ Flying(c)'
    BY DEF ReviewInv
  <2>1. Answerable(c) => Answerable(c)'
    BY <1>7 DEF Answerable
  <2>2. ASSUME Flying(c) PROVE Answerable(c)' \/ Flying(c)'
    <3>1. PICK j \in Calls : /\ call[j].what \in {"confirm", "reject"}
                             /\ call[j].of = c /\ call[j].seen
                             /\ call[j].state \in {"sent", "done", "refused"}
      BY <2>2 DEF Flying
    <3>2. CASE j = i
      <4>1. review' = [review EXCEPT ![c] = Reverted(review[c])]
        BY <3>1, <3>2 DEF Fails
      <4>2. review'[c] = Reverted(review[c])
        BY <4>1 DEF IInv, TypeOK
      <4>3. review[c] \in Review
        BY DEF IInv, TypeOK
      <4> QED BY <4>2, <4>3 DEF Answerable, Reverted, Review
    <3>3. CASE j # i
      <4>1. call'[j] = call[j]
        BY <3>3, <1>5
      <4> QED BY <3>1, <4>1 DEF Flying
    <3> QED BY <3>2, <3>3
  <2>3. claim'[c] = claim[c]
    BY <1>2
  <2> QED BY <2>1, <2>2, <2>3 DEF IInv, ReviewInv
<1>12. RoomInv'
  <2>1. Open' = Open
    BY <1>2 DEF Open
  <2>2. Free' = Free
    BY <1>1, <1>4, <1>5 DEF Free
  <2> QED BY <2>1, <2>2, RoomKept DEF IInv
<1> QED BY <1>2, <1>9, <1>10, <1>11, <1>12, ServerAtRest DEF IInv

-----------------------------------------------------------------------------
(* Mark Paid and its toast.                                                *)

\* Requests and reviews that stay as they are keep their invariants
LEMMA CallsAtRest ==
  IInv /\ UNCHANGED <<claim, call>> => CallsInv' /\ DoneInv' /\ Free' = Free
  BY DEF IInv, CallsInv, DoneInv, Free

LEMMA ReviewAtRest ==
  ASSUME IInv, claim' = claim, review' = review,
         \A c \in Claim : Flying(c) => Flying(c)'
  PROVE  ReviewInv'
<1> SUFFICES ASSUME NEW c \in Claim
             PROVE  /\ claim'[c].status = "none" => Answerable(c)'
                    /\ claim'[c].status = "pending" => Answerable(c)' \/ Flying(c)'
  BY DEF ReviewInv
<1>1. Answerable(c)' <=> Answerable(c)
  BY DEF Answerable
<1>2. claim'[c] = claim[c]
  OBVIOUS
<1> QED BY <1>1, <1>2 DEF IInv, ReviewInv

LEMMA FlyingAtRest == call' = call => \A c \in Claim : Flying(c) => Flying(c)'
  BY DEF Flying

LEMMA MarkPaidGood ==
  ASSUME SettleScreensAssumption, IInv, NEW s \in Mine, MarkPaid(s)
  PROVE  IInv'
<1>1. UNCHANGED <<claim, settled, here, cache, fetching, review, call>>
      /\ UNCHANGED server
  BY DEF MarkPaid, server
<1>2. PICK st \in {"open", toast[s].state} \ {"none"} :
        toast' = [toast EXCEPT ![s] = [state |-> st, undone |-> FALSE, own |-> TRUE]]
  BY DEF MarkPaid
<1>3. toast[s] \in Toast /\ card[s] \in Card
  BY DEF IInv, TypeOK
<1>4. /\ toast' \in [Mine -> Toast]
      /\ toast'[s].state = st
      /\ \A t \in Mine \ {s} : toast'[t] = toast[t]
  BY <1>2, <1>3 DEF IInv, TypeOK, Toast
<1>5. card' \in [Mine -> Card]
  <2>1. card' = [card EXCEPT ![s].awaiting = (card[s].status # "error")]
    BY DEF MarkPaid
  <2> DEFINE b == card[s].status # "error"
  <2>2. b \in BOOLEAN
    OBVIOUS
  <2>3. card' = [card EXCEPT ![s].awaiting = b]
    BY <2>1
  <2> HIDE DEF b
  <2>4. [card[s] EXCEPT !.awaiting = b] \in Card
    BY <1>3, <2>2 DEF Card
  <2> QED BY <2>3, <2>4 DEF IInv, TypeOK
<1>6. TypeOK'
  BY <1>1, <1>4, <1>5 DEF IInv, TypeOK
<1>7. RoomInv'
  <2>1. Free' = Free
    BY <1>1 DEF Free
  <2>2. CASE toast[s].state # "none"
    <3>1. Open' \subseteq Open
      BY <1>4, <2>2 DEF Open
    <3> QED BY <2>1, <3>1, RoomKept DEF IInv
  <2>3. CASE toast[s].state = "none"
    <3>1. Cardinality(Free) > Cardinality(Open)
      BY <2>3 DEF MarkPaid, MaySend, Open
    <3>2. Open' = Open \cup {s} /\ s \notin Open
      BY <1>4, <2>3 DEF Open
    <3>3. Cardinality(Open') = Cardinality(Open) + 1
      BY <3>2, Finiteness, FS_AddElement
    <3>4. Cardinality(Open) \in Nat /\ Cardinality(Free) \in Nat
      BY Finiteness, FS_CardinalityType
    <3>5. Cardinality(Free') = Cardinality(Free)
      BY <2>1
    <3> QED BY <3>1, <3>3, <3>4, <3>5 DEF RoomInv
  <2> QED BY <2>2, <2>3
<1>8. ReviewInv'
  BY <1>1, FlyingAtRest, ReviewAtRest
<1> QED BY <1>1, <1>6, <1>7, <1>8, CallsAtRest, ServerAtRest DEF IInv

\* Undo, the close button, and the end of the exit animation
LEMMA ToastStepGood ==
  ASSUME SettleScreensAssumption, IInv, NEW s \in Mine,
         Undo(s) \/ CloseToast(s) \/ ToastGone(s)
  PROVE  IInv'
<1>1. UNCHANGED <<claim, settled, here, cache, fetching, review, call>>
      /\ UNCHANGED server
  BY DEF Undo, CloseToast, ToastGone, server
<1>2. toast[s] \in Toast /\ toast[s].state # "none"
  BY DEF IInv, TypeOK, Undo, CloseToast, ToastGone
<1>3. /\ toast' \in [Mine -> Toast]
      /\ \A t \in Mine \ {s} : toast'[t] = toast[t]
  <2>1. CASE Undo(s)
    <3>1. toast' = [toast EXCEPT ![s] = [[toast[s] EXCEPT !.state = "leaving"]
                                           EXCEPT !.undone = TRUE]]
      BY <2>1 DEF Undo, IInv, TypeOK
    <3>2. [[toast[s] EXCEPT !.state = "leaving"] EXCEPT !.undone = TRUE] \in Toast
      BY <1>2 DEF Toast
    <3> QED BY <3>1, <3>2 DEF IInv, TypeOK
  <2>2. CASE CloseToast(s)
    <3>1. [toast[s] EXCEPT !.state = "leaving"] \in Toast
      BY <1>2 DEF Toast
    <3> QED BY <2>2, <3>1 DEF CloseToast, IInv, TypeOK
  <2>3. CASE ToastGone(s)
    <3>1. NoToast \in Toast
      BY DEF NoToast, Toast
    <3> QED BY <2>3, <3>1 DEF ToastGone, IInv, TypeOK
  <2> QED BY <2>1, <2>2, <2>3
<1>4. card' \in [Mine -> Card]
  <2>1. card' = card \/ card' = [card EXCEPT ![s].awaiting = FALSE]
    BY DEF Undo, CloseToast, ToastGone
  <2>2. card[s] \in Card /\ [card[s] EXCEPT !.awaiting = FALSE] \in Card
    BY DEF IInv, TypeOK, Card
  <2> QED BY <2>1, <2>2 DEF IInv, TypeOK
<1>5. TypeOK'
  BY <1>1, <1>3, <1>4 DEF IInv, TypeOK
<1>6. RoomInv'
  <2>1. Open' \subseteq Open
    BY <1>2, <1>3 DEF Open
  <2>2. Free' = Free
    BY <1>1 DEF Free
  <2> QED BY <2>1, <2>2, RoomKept DEF IInv
<1>7. ReviewInv'
  BY <1>1, FlyingAtRest, ReviewAtRest
<1> QED BY <1>1, <1>5, <1>6, <1>7, CallsAtRest, ServerAtRest DEF IInv

\* What AutoClose leaves of the earlier requests of the same card
Left(s) == [i \in Calls |-> IF call[i].what = "mark" /\ call[i].of = s
                               /\ toast[s].own
                            THEN Unseen(call[i]) ELSE call[i]]

LEMMA LeftIsCalls ==
  ASSUME TypeOK, NEW s
  PROVE  /\ Left(s) \in [Calls -> Call]
         /\ \A i \in Calls :
              /\ Left(s)[i].state # "none" <=> call[i].state # "none"
              /\ Left(s)[i].state = "sent" <=> call[i].state = "sent"
              /\ Left(s)[i].what = "mark" => call[i].what = "mark"
                                              /\ Left(s)[i].of = call[i].of
              /\ Left(s)[i].what \in Answer => Left(s)[i] = call[i]
              /\ call[i].what \in Answer => Left(s)[i] = call[i]
<1>1. \A i \in Calls : call[i] \in Call
  BY DEF TypeOK
<1>2. ASSUME NEW i \in Calls
      PROVE  /\ Left(s)[i] \in Call
             /\ Left(s)[i].state # "none" <=> call[i].state # "none"
             /\ Left(s)[i].state = "sent" <=> call[i].state = "sent"
             /\ Left(s)[i].what = "mark" => call[i].what = "mark"
                                             /\ Left(s)[i].of = call[i].of
             /\ Left(s)[i].what \in Answer => Left(s)[i] = call[i]
             /\ call[i].what \in Answer => Left(s)[i] = call[i]
  <2>1. CASE call[i].what = "mark" /\ call[i].of = s /\ toast[s].own
    <3>1. Left(s)[i] = Unseen(call[i])
      BY <2>1 DEF Left
    <3> QED BY <1>1, <2>1, <3>1, UnseenIsCall DEF Answer
  <2>2. CASE ~(call[i].what = "mark" /\ call[i].of = s /\ toast[s].own)
    <3>1. Left(s)[i] = call[i]
      BY <2>2 DEF Left
    <3> QED BY <1>1, <3>1
  <2> QED BY <2>1, <2>2
<1>3. Left(s) \in [Calls -> Call]
  BY <1>2 DEF Left
<1> QED BY <1>2, <1>3

\* The requests h are those of call, up to what no invariant reads
LikeCall(h) ==
  \A i \in Calls :
    /\ h[i].state # "none" <=> call[i].state # "none"
    /\ h[i].what = "mark" => call[i].what = "mark" /\ h[i].of = call[i].of
    /\ h[i].what \in Answer => h[i] = call[i]
    /\ call[i].what \in Answer => h[i] = call[i]

\* A request is sent, from h, which is call up to what no one sees
LEMMA SendKeeps ==
  ASSUME IInv, UNCHANGED server, NEW n \in Free,
         NEW h \in [Calls -> Call],
         NEW what \in {"mark", "up", "confirm", "reject"},
         NEW of \in Split \cup Claim \cup {0}, NEW seen \in BOOLEAN,
         what = "mark" => of \in Mine, what \in Answer => of \in Claim,
         call' = [h EXCEPT ![n] = Request(what, of, seen)],
         LikeCall(h)
  PROVE  /\ call' \in [Calls -> Call]
         /\ call'[n] = Request(what, of, seen)
         /\ Free' = Free \ {n}
         /\ CallsInv' /\ DoneInv'
         /\ \A c \in Claim : Flying(c) => Flying(c)'
<1> DEFINE new == Request(what, of, seen)
<1>1. /\ new \in Call /\ new.what = what /\ new.of = of /\ new.state = "sent"
  BY RequestIsCall
<1> HIDE DEF new
<1>2. n \in Calls /\ call[n].state = "none"
  BY DEF Free
<1>3. /\ call' \in [Calls -> Call] /\ call'[n] = new
      /\ \A i \in Calls \ {n} : call'[i] = h[i]
  <2>1. call' = [h EXCEPT ![n] = new]
    BY DEF new
  <2> QED BY <1>1, <1>2, <2>1
<1>4. Free' = Free \ {n}
  BY <1>1, <1>2, <1>3 DEF Free, LikeCall
<1>5. CallsInv'
  <2> SUFFICES ASSUME NEW i \in Calls
               PROVE  /\ call'[i].what = "mark" => call'[i].of \in Mine
                      /\ call'[i].what \in Answer => call'[i].of \in Claim
    BY DEF CallsInv
  <2>1. CASE i = n
    BY <1>1, <1>3, <2>1
  <2>2. CASE i # n
    BY <1>3, <2>2 DEF IInv, CallsInv, LikeCall
  <2> QED BY <2>1, <2>2
<1>6. DoneInv'
  <2> SUFFICES ASSUME NEW i \in Calls, call'[i].what \in Answer,
                      call'[i].state = "done"
               PROVE  claim'[call'[i].of].status \notin {"none", "pending"}
    BY DEF DoneInv
  <2>1. i # n
    BY <1>1, <1>3
  <2>2. call'[i] = call[i] /\ claim' = claim
    BY <1>3, <2>1 DEF server, LikeCall
  <2> QED BY <2>2 DEF IInv, DoneInv
<1>7. ASSUME NEW c \in Claim, Flying(c) PROVE Flying(c)'
  <2>1. PICK i \in Calls : /\ call[i].what \in {"confirm", "reject"}
                           /\ call[i].of = c /\ call[i].seen
                           /\ call[i].state \in {"sent", "done", "refused"}
    BY <1>7 DEF Flying
  <2>2. i # n
    BY <2>1, <1>2
  <2>3. call'[i] = call[i]
    BY <2>1, <2>2, <1>3 DEF Answer, LikeCall
  <2> QED BY <2>1, <2>3 DEF Flying
<1> QED BY <1>3, <1>4, <1>5, <1>6, <1>7 DEF new

\* The step of a toast that sends the claim: what it sends, and from where
LEMMA AutoCloseSends ==
  ASSUME SettleScreensAssumption, IInv, NEW s \in Mine, AutoClose(s), StillWanted(s)
  PROVE  \E n \in Free : call' = [Left(s) EXCEPT ![n] = Request("mark", s, toast[s].own)]
<1>1. s \in Open
  BY DEF AutoClose, Open
<1>2. Cardinality(Open) \in Nat /\ Cardinality(Open) # 0
  BY <1>1, Finiteness, FS_CardinalityType, FS_EmptySet
<1>3. Cardinality(Free) \in Nat /\ (Free = {} => Cardinality(Free) = 0)
  BY Finiteness, FS_CardinalityType, FS_EmptySet
<1>4. Free # {}
  BY <1>2, <1>3 DEF IInv, RoomInv
<1>5. call' = Sent(Left(s), "mark", s, toast[s].own)
  BY DEF AutoClose, Left
<1>6. call' = [Left(s) EXCEPT ![Fresh] = Request("mark", s, toast[s].own)]
  BY <1>5 DEF Sent, Fresh, Request
<1> QED BY <1>4, <1>6, FreshIsFree

LEMMA AutoCloseGood ==
  ASSUME SettleScreensAssumption, IInv, NEW s \in Mine, AutoClose(s)
  PROVE  IInv'
<1>1. UNCHANGED <<claim, settled, here, cache, fetching, review>>
      /\ UNCHANGED server
  BY DEF AutoClose, server
<1>2. s \in Open /\ s \in Split
  BY DEF AutoClose, Open, SettleScreensAssumption
<1>3. /\ toast' \in [Mine -> Toast]
      /\ toast'[s].state = "none"
      /\ \A t \in Mine \ {s} : toast'[t] = toast[t]
  BY DEF AutoClose, IInv, TypeOK, NoToast, Toast
<1>4. Open' = Open \ {s}
  BY <1>2, <1>3 DEF Open
<1>5. card' \in [Mine -> Card]
  <2>1. card' = card \/ card' = [card EXCEPT ![s].status = "pending"]
    BY DEF AutoClose
  <2>2. card[s] \in Card /\ [card[s] EXCEPT !.status = "pending"] \in Card
    BY DEF IInv, TypeOK, Card
  <2> QED BY <2>1, <2>2 DEF IInv, TypeOK
<1>6. CASE StillWanted(s)
  <2>1. PICK n \in Free :
          call' = [Left(s) EXCEPT ![n] = Request("mark", s, toast[s].own)]
    BY <1>6, AutoCloseSends
  <2>2. toast[s].own \in BOOLEAN
    BY DEF IInv, TypeOK, Toast
  <2>3. Left(s) \in [Calls -> Call] /\ LikeCall(Left(s))
    BY LeftIsCalls DEF IInv, LikeCall
  <2>4. "mark" \notin Answer
    BY DEF Answer
  <2>5. /\ call' \in [Calls -> Call]
        /\ Free' = Free \ {n}
        /\ CallsInv' /\ DoneInv'
        /\ \A c \in Claim : Flying(c) => Flying(c)'
    BY <1>1, <1>2, <2>1, <2>2, <2>3, <2>4, SendKeeps
  <2>6. TypeOK'
    BY <1>1, <1>3, <1>5, <2>5 DEF IInv, TypeOK
  <2>7. RoomInv'
    <3>1. Cardinality(Open \ {s}) = Cardinality(Open) - 1
      BY <1>2, Finiteness, FS_RemoveElement
    <3>2. Cardinality(Free \ {n}) = Cardinality(Free) - 1
      BY <2>1, Finiteness, FS_RemoveElement
    <3>3. Cardinality(Open) \in Nat /\ Cardinality(Free) \in Nat
      BY Finiteness, FS_CardinalityType
    <3>4. Cardinality(Open') = Cardinality(Open) - 1
      BY <1>4, <3>1
    <3>5. Cardinality(Free') = Cardinality(Free) - 1
      BY <2>5, <3>2
    <3> QED BY <3>3, <3>4, <3>5 DEF IInv, RoomInv
  <2>8. ReviewInv'
    BY <1>1, <2>5, ReviewAtRest
  <2> QED BY <1>1, <2>5, <2>6, <2>7, <2>8, ServerAtRest DEF IInv
<1>7. CASE ~StillWanted(s)
  <2>1. call' = call
    BY <1>7 DEF AutoClose
  <2>2. TypeOK'
    BY <1>1, <1>3, <1>5, <2>1 DEF IInv, TypeOK
  <2>3. ReviewInv'
    BY <1>1, <2>1, FlyingAtRest, ReviewAtRest
  <2>4. Open' \subseteq Open /\ Free' = Free
    BY <1>4, <2>1 DEF Free
  <2>5. RoomInv'
    BY <2>4, RoomKept DEF IInv
  <2> QED BY <1>1, <2>1, <2>2, <2>3, <2>5, CallsAtRest, ServerAtRest DEF IInv
<1> QED BY <1>6, <1>7

-----------------------------------------------------------------------------
(* Settling up, and reviewing.                                             *)

\* A request that a press sends at once
LEMMA PressSends ==
  ASSUME SettleScreensAssumption, IInv, UNCHANGED <<server, here, cache, toast>>,
         Cardinality(Free) > Cardinality(Open),
         NEW what \in {"mark", "up", "confirm", "reject"},
         NEW of \in Split \cup Claim \cup {0},
         what = "mark" => of \in Mine, what \in Answer => of \in Claim,
         call' = Sent(call, what, of, TRUE)
  PROVE  /\ call' \in [Calls -> Call]
         /\ CallsInv' /\ DoneInv' /\ RoomInv' /\ ListsInv' /\ ClaimInv'
         /\ \E n \in Free : call' = [call EXCEPT ![n] = Request(what, of, TRUE)]
         /\ \A c \in Claim : Flying(c) => Flying(c)'
<1>1. Cardinality(Open) \in Nat /\ Cardinality(Free) \in Nat
  BY Finiteness, FS_CardinalityType
<1>2. Free # {}
  BY <1>1, FS_EmptySet
<1>3. call \in [Calls -> Call]
  BY DEF IInv, TypeOK
<1>4. PICK n \in Free : call' = [call EXCEPT ![n] = Request(what, of, TRUE)]
  <2>1. call' = [call EXCEPT ![Fresh] = Request(what, of, TRUE)]
    BY DEF Sent, Fresh, Request
  <2> QED BY <1>2, <2>1, FreshIsFree
<1>5. /\ call' \in [Calls -> Call]
      /\ Free' = Free \ {n}
      /\ CallsInv' /\ DoneInv'
      /\ \A c \in Claim : Flying(c) => Flying(c)'
  <2>1. UNCHANGED server
    OBVIOUS
  <2>2. LikeCall(call)
    BY DEF LikeCall
  <2> QED BY <1>3, <1>4, <2>1, <2>2, SendKeeps
<1>6. Open' \subseteq Open
  BY DEF Open
<1>7. RoomInv'
  BY <1>4, <1>5, <1>6, RoomUsed
<1> QED BY <1>4, <1>5, <1>7, ServerAtRest

LEMMA SettleUpGood ==
  ASSUME SettleScreensAssumption, IInv, SettleUp
  PROVE  IInv'
<1>1. /\ UNCHANGED <<server, here, cache, fetching, card, toast, review>>
      /\ Cardinality(Free) > Cardinality(Open)
      /\ call' = Sent(call, "up", 0, TRUE)
  BY DEF SettleUp, MaySend, Open
<1>2. "up" \notin Answer
  BY DEF Answer
<1>3. /\ call' \in [Calls -> Call]
      /\ CallsInv' /\ DoneInv' /\ RoomInv' /\ ListsInv' /\ ClaimInv'
      /\ \A c \in Claim : Flying(c) => Flying(c)'
  BY <1>1, <1>2, PressSends
<1>4. TypeOK'
  BY <1>1, <1>3 DEF IInv, TypeOK, server
<1>5. ReviewInv'
  BY <1>1, <1>3, ReviewAtRest DEF server
<1> QED BY <1>3, <1>4, <1>5 DEF IInv

LEMMA RespondGood ==
  ASSUME SettleScreensAssumption, IInv, NEW c \in Claim,
         NEW what \in {"confirm", "reject"}, Respond(c, what)
  PROVE  IInv'
<1> DEFINE st == IF what = "confirm" THEN "confirmed" ELSE "rejected"
<1>1. /\ UNCHANGED <<server, here, cache, fetching, card, toast>>
      /\ Cardinality(Free) > Cardinality(Open)
      /\ call' = Sent(call, what, c, TRUE)
      /\ review' = [review EXCEPT ![c].shown = st]
  BY DEF Respond, Open
<1>2. what \in Answer /\ what # "mark"
  BY DEF Answer
<1>3. /\ call' \in [Calls -> Call]
      /\ CallsInv' /\ DoneInv' /\ RoomInv' /\ ListsInv' /\ ClaimInv'
      /\ \E n \in Free : call' = [call EXCEPT ![n] = Request(what, c, TRUE)]
      /\ \A d \in Claim : Flying(d) => Flying(d)'
  BY <1>1, <1>2, PressSends
<1>4. /\ review' \in [Claim -> Review]
      /\ \A d \in Claim \ {c} : review'[d] = review[d]
  <2>1. st \in {"confirmed", "rejected"}
    OBVIOUS
  <2> HIDE DEF st
  <2>2. [review[c] EXCEPT !.shown = st] \in Review
    BY <2>1 DEF IInv, TypeOK, Review
  <2> QED BY <1>1, <2>2 DEF IInv, TypeOK
<1>5. TypeOK'
  BY <1>1, <1>3, <1>4 DEF IInv, TypeOK, server
<1>6. Flying(c)'
  <2>1. PICK n \in Free : call' = [call EXCEPT ![n] = Request(what, c, TRUE)]
    BY <1>3
  <2>2. n \in Calls /\ call'[n] = Request(what, c, TRUE)
    BY <2>1 DEF Free, IInv, TypeOK
  <2>3. /\ Request(what, c, TRUE).what = what /\ Request(what, c, TRUE).of = c
        /\ Request(what, c, TRUE).state = "sent" /\ Request(what, c, TRUE).seen
    BY DEF Request, NoCall
  <2>4. /\ call'[n].what \in {"confirm", "reject"} /\ call'[n].of = c
        /\ call'[n].seen /\ call'[n].state = "sent"
    BY <2>2, <2>3
  <2> QED BY <2>2, <2>4 DEF Flying
<1>7. claim[c].status # "none"
  BY DEF Respond, Listed, IInv, ListsInv
<1>8. ReviewInv'
  <2> SUFFICES ASSUME NEW d \in Claim
               PROVE  /\ claim'[d].status = "none" => Answerable(d)'
                      /\ claim'[d].status = "pending"
                           => Answerable(d)' \/ Flying(d)'
    BY DEF ReviewInv
  <2>1. claim'[d] = claim[d]
    BY <1>1 DEF server
  <2>2. CASE d = c
    BY <2>1, <2>2, <1>6, <1>7
  <2>3. CASE d # c
    <3>1. Answerable(d)' <=> Answerable(d)
      BY <1>4, <2>3 DEF Answerable
    <3> QED BY <2>1, <3>1, <1>3 DEF IInv, ReviewInv
  <2> QED BY <2>2, <2>3
<1> QED BY <1>3, <1>5, <1>8 DEF IInv

LEMMA GlowEndsGood ==
  ASSUME SettleScreensAssumption, IInv, NEW c \in Claim, GlowEnds(c)
  PROVE  IInv'
<1>1. /\ UNCHANGED <<claim, settled, here, cache, fetching, card, toast, call>>
      /\ UNCHANGED server
      /\ review' = [review EXCEPT ![c].removing = TRUE]
      /\ review[c].shown = "confirmed"
  BY DEF GlowEnds, server
<1>2. review[c] \in Review /\ [review[c] EXCEPT !.removing = TRUE] \in Review
  BY DEF IInv, TypeOK, Review
<1>3. /\ review' \in [Claim -> Review]
      /\ \A d \in Claim \ {c} : review'[d] = review[d]
  BY <1>1, <1>2 DEF IInv, TypeOK
<1>4. TypeOK'
  BY <1>1, <1>3 DEF IInv, TypeOK
<1>5. \A d \in Claim : Answerable(d) => Answerable(d)'
  BY <1>1, <1>3 DEF Answerable
<1>6. \A d \in Claim : Flying(d) => Flying(d)'
  BY <1>1, FlyingAtRest
<1>7. ReviewInv'
  BY <1>1, <1>5, <1>6 DEF IInv, ReviewInv
<1>8. RoomInv'
  <2>1. Open' = Open /\ Free' = Free
    BY <1>1 DEF Open, Free
  <2> QED BY <2>1, RoomKept DEF IInv
<1> QED BY <1>1, <1>4, <1>7, <1>8, CallsAtRest, ServerAtRest DEF IInv

-----------------------------------------------------------------------------
(* The caches and the screen.                                              *)

\* What is left when cards S and reviews R stay mounted
LEMMA ForgetGood ==
  ASSUME SettleScreensAssumption, IInv, UNCHANGED server,
         NEW S, NEW R,
         card' = [s \in Mine |-> IF s \in S THEN card[s] ELSE NewCard],
         toast' = [s \in Mine |-> IF s \in S THEN toast[s]
                                  ELSE [toast[s] EXCEPT !.own = FALSE]],
         review' = [c \in Claim |-> IF c \in R THEN review[c] ELSE NewReview],
         call' = [i \in Calls |->
           IF \/ call[i].what = "mark" /\ call[i].of \notin S
              \/ call[i].what \in {"confirm", "reject"} /\ call[i].of \notin R
           THEN Unseen(call[i]) ELSE call[i]]
  PROVE  /\ card' \in [Mine -> Card] /\ toast' \in [Mine -> Toast]
         /\ review' \in [Claim -> Review] /\ call' \in [Calls -> Call]
         /\ CallsInv' /\ DoneInv' /\ ReviewInv' /\ RoomInv'
<1>1. card' \in [Mine -> Card]
  BY DEF IInv, TypeOK, NewCard, Card
<1>2. \A s \in Mine : toast[s] \in Toast /\ [toast[s] EXCEPT !.own = FALSE] \in Toast
                      /\ [toast[s] EXCEPT !.own = FALSE].state = toast[s].state
  BY DEF IInv, TypeOK, Toast
<1>3. /\ toast' \in [Mine -> Toast]
      /\ \A s \in Mine : toast'[s].state = toast[s].state
  BY <1>2
<1>4. review' \in [Claim -> Review]
  BY DEF IInv, TypeOK, NewReview, Review
<1>5. \A i \in Calls : call[i] \in Call
  BY DEF IInv, TypeOK
<1>6. \A i \in Calls :
        /\ call'[i] \in Call
        /\ call'[i].state # "none" <=> call[i].state # "none"
        /\ call'[i].state = "done" <=> call[i].state = "done"
        /\ call'[i].what = "mark" => call[i].what = "mark" /\ call'[i].of = call[i].of
        /\ call'[i].what \in Answer => call[i].what = call'[i].what
                                        /\ call'[i].of = call[i].of
  BY <1>5, UnseenIsCall
<1>7. call' \in [Calls -> Call]
  BY <1>6
<1>8. CallsInv'
  BY <1>6 DEF IInv, CallsInv
<1>9. DoneInv'
  BY <1>6 DEF IInv, DoneInv, server
<1>10. RoomInv'
  <2>1. Open' = Open
    BY <1>3 DEF Open
  <2>2. Free' = Free
    BY <1>6 DEF Free
  <2> QED BY <2>1, <2>2, RoomKept DEF IInv
<1>11. ReviewInv'
  <2> SUFFICES ASSUME NEW c \in Claim
               PROVE  /\ claim'[c].status = "none" => Answerable(c)'
                      /\ claim'[c].status = "pending"
                           => Answerable(c)' \/ Flying(c)'
    BY DEF ReviewInv
  <2>1. claim'[c] = claim[c]
    BY DEF server
  <2>2. CASE c \notin R
    <3>1. review'[c] = NewReview
      BY <2>2
    <3>2. Answerable(c)'
      BY <3>1 DEF Answerable, NewReview
    <3> QED BY <3>2
  <2>3. CASE c \in R
    <3>1. Answerable(c)' <=> Answerable(c)
      BY <2>3 DEF Answerable
    <3>2. ASSUME Flying(c) PROVE Flying(c)'
      <4>1. PICK i \in Calls : /\ call[i].what \in {"confirm", "reject"}
                               /\ call[i].of = c /\ call[i].seen
                               /\ call[i].state \in {"sent", "done", "refused"}
        BY <3>2 DEF Flying
      <4>2. call'[i] = call[i]
        BY <4>1, <2>3
      <4> QED BY <4>1, <4>2 DEF Flying
    <3> QED BY <2>1, <3>1, <3>2 DEF IInv, ReviewInv
  <2> QED BY <2>2, <2>3
<1> QED BY <1>1, <1>3, <1>4, <1>7, <1>8, <1>9, <1>10, <1>11

LEMMA FetchGood ==
  ASSUME SettleScreensAssumption, IInv, NEW q \in Query, Fetch(q)
  PROVE  IInv'
<1>1. /\ UNCHANGED <<server, here>>
      /\ cache' = [cache EXCEPT ![q] = Reads(q)]
      /\ fetching' = fetching \ {q}
  BY DEF Fetch
<1>2. PICK S, R : S = Ready(cache') /\ R = Listed(cache')
  OBVIOUS
<1>3. /\ card' \in [Mine -> Card] /\ toast' \in [Mine -> Toast]
      /\ review' \in [Claim -> Review] /\ call' \in [Calls -> Call]
      /\ CallsInv' /\ DoneInv' /\ ReviewInv' /\ RoomInv'
  <2>1. /\ card' = [s \in Mine |-> IF s \in S THEN card[s] ELSE NewCard]
        /\ toast' = [s \in Mine |-> IF s \in S THEN toast[s]
                                    ELSE [toast[s] EXCEPT !.own = FALSE]]
        /\ review' = [c \in Claim |-> IF c \in R THEN review[c] ELSE NewReview]
        /\ call' = [i \in Calls |->
             IF \/ call[i].what = "mark" /\ call[i].of \notin S
                \/ call[i].what \in {"confirm", "reject"} /\ call[i].of \notin R
             THEN Unseen(call[i]) ELSE call[i]]
    BY <1>2 DEF Fetch, Forget
  <2>2. UNCHANGED server
    BY <1>1
  <2> QED BY <2>1, <2>2, ForgetGood
<1>4. cache' \in [Query -> SUBSET (Split \cup Claim)]
  BY <1>1, ReadsTyped DEF IInv, TypeOK
<1>5. TypeOK'
  BY <1>1, <1>3, <1>4 DEF IInv, TypeOK, server
<1>6. ListsInv'
  <2> SUFFICES ASSUME NEW c \in Claim, c \in cache'["ups"] \cup cache'["review"]
               PROVE  claim'[c].status # "none"
    BY DEF ListsInv
  <2>1. claim' = claim
    BY <1>1 DEF server
  <2>2. "ups" \in Query /\ "review" \in Query
    BY DEF Query
  <2>3. cache'["ups"] \in {cache["ups"], Reads("ups")}
        /\ cache'["review"] \in {cache["review"], Reads("review")}
    BY <1>1, <2>2 DEF IInv, TypeOK
  <2>4. c \in cache["ups"] \cup cache["review"]
        \/ c \in Reads("ups") \cup Reads("review")
    BY <2>3
  <2> QED BY <2>1, <2>4, ReadsFiled DEF IInv, ListsInv
<1> QED BY <1>1, <1>3, <1>5, <1>6, ServerAtRest DEF IInv

LEMMA LeaveGood ==
  ASSUME SettleScreensAssumption, IInv, Leave
  PROVE  IInv'
<1>1. /\ UNCHANGED <<server, cache>> /\ UNCHANGED server
      /\ here' = FALSE /\ fetching' = {}
      /\ review' = [c \in Claim |-> NewReview]
      /\ call' = [i \in Calls |-> Unseen(call[i])]
  BY DEF Leave
<1>2. card' \in [Mine -> Card] /\ review' \in [Claim -> Review]
  BY DEF Leave, NewCard, Card, NewReview, Review
<1>3. \A s \in Mine : toast[s] \in Toast /\ [toast[s] EXCEPT !.own = FALSE] \in Toast
                      /\ [toast[s] EXCEPT !.own = FALSE].state = toast[s].state
  BY DEF IInv, TypeOK, Toast
<1>4. toast' \in [Mine -> Toast] /\ \A s \in Mine : toast'[s].state = toast[s].state
  BY <1>3 DEF Leave
<1>5. \A i \in Calls :
        /\ call'[i] \in Call
        /\ call'[i].state # "none" <=> call[i].state # "none"
        /\ call'[i].state = "done" <=> call[i].state = "done"
        /\ call'[i].what = "mark" => call[i].what = "mark" /\ call'[i].of = call[i].of
        /\ call'[i].what \in Answer => call[i].what = call'[i].what
                                        /\ call'[i].of = call[i].of
  BY <1>1, UnseenIsCall DEF IInv, TypeOK
<1>6. call' \in [Calls -> Call]
  BY <1>1, <1>5
<1>7. TypeOK'
  BY <1>1, <1>2, <1>4, <1>6 DEF IInv, TypeOK, server
<1>8. CallsInv' /\ DoneInv'
  BY <1>1, <1>5 DEF IInv, CallsInv, DoneInv, server
<1>9. ReviewInv'
  BY <1>1 DEF ReviewInv, Answerable, NewReview
<1>10. RoomInv'
  <2>1. Open' = Open
    BY <1>4 DEF Open
  <2>2. Free' = Free
    BY <1>5 DEF Free
  <2> QED BY <2>1, <2>2, RoomKept DEF IInv
<1> QED BY <1>1, <1>7, <1>8, <1>9, <1>10, ServerAtRest DEF IInv

\* Coming back, or to the front, only starts fetches
LEMMA FocusReturnGood ==
  ASSUME SettleScreensAssumption, IInv, Focus \/ Return
  PROVE  IInv'
<1>1. /\ UNCHANGED <<claim, settled, cache, card, toast, review, call>>
      /\ UNCHANGED server
      /\ here' \in BOOLEAN /\ fetching' = Query
  BY DEF Focus, Return, server, IInv, TypeOK
<1>2. TypeOK'
  BY <1>1 DEF IInv, TypeOK
<1>3. ReviewInv'
  BY <1>1, FlyingAtRest, ReviewAtRest
<1>4. RoomInv'
  <2>1. Open' = Open /\ Free' = Free
    BY <1>1 DEF Open, Free
  <2> QED BY <2>1, RoomKept DEF IInv
<1> QED BY <1>1, <1>2, <1>3, <1>4, CallsAtRest, ServerAtRest DEF IInv

-----------------------------------------------------------------------------
(* The invariant holds.                                                    *)

LEMMA NextIInv ==
  ASSUME SettleScreensAssumption, IInv, Next
  PROVE  IInv'
<1>1. ASSUME NEW s \in Mine,
             \/ MarkPaid(s) \/ Undo(s) \/ CloseToast(s) \/ ToastGone(s) \/ AutoClose(s)
      PROVE  IInv'
  BY <1>1, MarkPaidGood, ToastStepGood, AutoCloseGood
<1>2. CASE SettleUp
  BY <1>2, SettleUpGood
<1>3. ASSUME NEW c \in Claim, NEW what \in {"confirm", "reject"}, Respond(c, what)
      PROVE  IInv'
  BY <1>3, RespondGood
<1>4. ASSUME NEW c \in Claim, GlowEnds(c) PROVE IInv'
  BY <1>4, GlowEndsGood
<1>5. ASSUME NEW i \in Calls, Serve(i) \/ Succeeds(i) \/ Fails(i) PROVE IInv'
  BY <1>5, ServeGood, SucceedsGood, FailsGood
<1>6. ASSUME NEW q \in Query, Fetch(q) PROVE IInv'
  BY <1>6, FetchGood
<1>7. CASE Focus \/ Return
  BY <1>7, FocusReturnGood
<1>8. CASE Leave
  BY <1>8, LeaveGood
<1>9. CASE TheyFile \/ TheyDecide
  BY <1>9, TheirStepGood
<1> QED BY <1>1, <1>2, <1>3, <1>4, <1>5, <1>6, <1>7, <1>8, <1>9 DEF Next

LEMMA StutterIInv ==
  ASSUME IInv, UNCHANGED vars
  PROVE  IInv'
<1>1. UNCHANGED <<settled, claim, here, cache, fetching, card, toast, review, call>>
  BY DEF vars
<1>2. TypeOK' /\ CallsInv' /\ DoneInv' /\ ListsInv' /\ ClaimInv'
  BY <1>1 DEF IInv, TypeOK, CallsInv, DoneInv, ListsInv, ClaimInv
<1>3. ReviewInv'
  BY <1>1, FlyingAtRest, ReviewAtRest
<1>4. Open' = Open /\ Free' = Free
  BY <1>1 DEF Open, Free
<1>5. RoomInv'
  BY <1>4 DEF IInv, RoomInv
<1> QED BY <1>2, <1>3, <1>5 DEF IInv

\* The invariant of the screen and what it talks to: whatever is pressed,
\* answered, lost or refetched, requests, cards, lists and claims fit.
THEOREM Inductive == Spec => []IInv
<1>1. Init => IInv
  BY SettleScreensAssumption, InitIInv
<1>2. IInv /\ [Next]_vars => IInv'
  BY SettleScreensAssumption, NextIInv, StutterIInv
<1> QED BY <1>1, <1>2, PTL DEF Spec

\* Every variable keeps its type: in particular a request filed for a share
\* names a row that was free.
THEOREM TypeCorrect == Spec => []TypeOK
<1>1. IInv => TypeOK
  BY DEF IInv
<1> QED BY <1>1, Inductive, PTL

\* No claim vanishes from its reviewer (SettlementClaimCard and
\* AggregateClaimCard): a claim that waits and is listed can be answered, or
\* the answer is on its way, also after a card that glowed away came back.
THEOREM NoClaimIsLost == Spec => []NoClaimVanishes
<1>1. IInv => NoClaimVanishes
  BY DEF IInv, ReviewInv, NoClaimVanishes, Pending
<1> QED BY <1>1, Inductive, PTL

\* On an up-to-date screen a share offered for "Mark Paid" can be claimed,
\* unless a settle-up of the other side already nets it (readyToSettle).
THEOREM OffersAreHonest == Spec => []OfferIsHonest
<1>1. ASSUME IInv PROVE OfferIsHonest
  <2> SUFFICES ASSUME UpToDate, NEW s \in Ready(cache), Taken(s)
               PROVE  \E c \in Pending : /\ claim[c].by = "they" /\ claim[c].pair
                                         /\ s \in claim[c].covers
    BY DEF OfferIsHonest
  <2>1. PICK c \in Claim : /\ s \in claim[c].covers
                           /\ \/ claim[c].status = "pending"
                              \/ claim[c].status = "confirmed" /\ ~claim[c].pair
    BY DEF Taken
  <2>2. /\ cache["ledger"] = MySplits
        /\ cache["mine"] = UNION {claim[d].covers : d \in Single("me")}
        /\ cache["ups"] = {d \in Pending : claim[d].pair}
    BY DEF UpToDate, Query, Reads
  <2>3. s \in Mine /\ s \notin settled
    BY <2>2 DEF Ready, MySplits
  <2>4. claim[c].status = "pending"
    BY <2>1, <2>3, <1>1 DEF IInv, ClaimInv
  <2>5. c \in Pending
    BY <2>4 DEF Pending
  <2>6. claim[c].by \in Party
    BY <2>4, <1>1 DEF IInv, ClaimInv
  <2>7. ~(claim[c].by = "me" /\ claim[c].pair)
    BY <2>2, <2>5 DEF Ready, MyUps
  <2>8. ~(claim[c].by = "me" /\ ~claim[c].pair)
    <3>1. SUFFICES ASSUME claim[c].by = "me", ~claim[c].pair PROVE FALSE
      OBVIOUS
    <3>2. c \in Single("me")
      BY <3>1, <2>5 DEF Single
    <3>3. s \in cache["mine"]
      BY <3>2, <2>1, <2>2
    <3> QED BY <3>3 DEF Ready, Filed
  <2>9. claim[c].by = "they"
    BY <2>6, <2>7, <2>8, <1>1 DEF Party, IInv, TypeOK, Claims
  <2>10. claim[c].pair
    BY <2>1, <2>3, <2>4, <2>9, <1>1 DEF IInv, ClaimInv
  <2> QED BY <2>1, <2>5, <2>9, <2>10
<1> QED BY <1>1, Inductive, PTL

\* A request that appears is the one that is sent
LEMMA SentOnly ==
  ASSUME NEW h \in [Calls -> Call], NEW n \in Free, NEW r,
         call' = [h EXCEPT ![n] = r],
         \A i \in Calls : h[i].state = "sent" <=> call[i].state = "sent",
         NEW j \in Calls, call[j].state = "none", call'[j].state = "sent"
  PROVE  call'[j] = r
<1>1. j = n
  <2>1. j # n => call'[j] = h[j]
    OBVIOUS
  <2> QED BY <2>1
<1> QED BY <1>1

\* Undo is the last word (the isUndone flag of handleMarkPaid): while the
\* toast of a share was undone no step sends its claim, not even the timer
\* that fires during the exit animation.
THEOREM UndoIsFinal == Spec => UndoneIsNotSent
<1>1. ASSUME IInv, [Next]_vars PROVE UndoneStep
  <2> SUFFICES ASSUME NEW s \in Mine, toast[s].undone, NEW j \in Calls,
                      call[j].state = "none", call'[j].state = "sent",
                      call'[j].what = "mark", call'[j].of = s
               PROVE  FALSE
    BY DEF UndoneStep
  <2>1. CASE call' = call
    BY <2>1
  <2>2. ASSUME NEW t \in Mine, AutoClose(t), StillWanted(t) PROVE FALSE
    <3>1. PICK n \in Free :
            call' = [Left(t) EXCEPT ![n] = Request("mark", t, toast[t].own)]
      BY <1>1, <2>2, SettleScreensAssumption, AutoCloseSends
    <3>2. /\ Left(t) \in [Calls -> Call]
          /\ \A i \in Calls : Left(t)[i].state = "sent" <=> call[i].state = "sent"
      BY <1>1, LeftIsCalls DEF IInv
    <3>3. PICK r : r = Request("mark", t, toast[t].own)
      OBVIOUS
    <3>4. call' = [Left(t) EXCEPT ![n] = r]
      BY <3>1, <3>3
    <3>5. call'[j] = r
      BY <3>2, <3>4, SentOnly
    <3>6. call'[j].of = t
      BY <3>3, <3>5 DEF Request, NoCall
    <3> QED BY <3>6, <2>2 DEF StillWanted
  <2>3. ASSUME NEW what \in {"up", "confirm", "reject"},
               NEW of \in Claim \cup {0},
               call' = Sent(call, what, of, TRUE),
               Cardinality(Free) > Cardinality(Open),
               what \in Answer => of \in Claim,
               UNCHANGED <<server, here, cache, toast>>
        PROVE  FALSE
    <3>1. PICK n \in Free : call' = [call EXCEPT ![n] = Request(what, of, TRUE)]
      BY <1>1, <2>3, SettleScreensAssumption, PressSends
    <3>2. call \in [Calls -> Call]
      BY <1>1 DEF IInv, TypeOK
    <3>3. PICK r : r = Request(what, of, TRUE)
      OBVIOUS
    <3>4. call' = [call EXCEPT ![n] = r]
      BY <3>1, <3>3
    <3>5. call'[j] = r
      BY <3>2, <3>4, SentOnly
    <3>6. call'[j].what = what
      BY <3>3, <3>5 DEF Request, NoCall
    <3> QED BY <3>6
  <2>4. ASSUME NEW i \in Calls, Serve(i) \/ Succeeds(i) \/ Fails(i) PROVE FALSE
    <3>1. call[i].state # "none"
      BY <2>4 DEF Serve, Succeeds, Fails
    <3>2. \A k \in Calls \ {i} : call'[k] = call[k]
      BY <2>4, <1>1 DEF Serve, Succeeds, Fails, IInv, TypeOK
    <3> QED BY <3>1, <3>2
  <2>5. ASSUME \A k \in Calls : call'[k] \in {call[k], Unseen(call[k])} PROVE FALSE
    <3>1. Unseen(call[j]).state = "sent" <=> call[j].state = "sent"
      BY <1>1, UnseenIsCall DEF IInv, TypeOK
    <3> QED BY <2>5, <3>1
  <2>6. CASE SettleUp
    <3>1. call' = Sent(call, "up", 0, TRUE)
          /\ Cardinality(Free) > Cardinality(Open)
          /\ UNCHANGED <<server, here, cache, toast>>
      BY <2>6 DEF SettleUp, MaySend, Open
    <3> QED BY <3>1, <2>3 DEF Answer
  <2>7. ASSUME NEW c \in Claim, NEW what \in {"confirm", "reject"}, Respond(c, what)
        PROVE  FALSE
    <3>1. call' = Sent(call, what, c, TRUE)
          /\ Cardinality(Free) > Cardinality(Open)
          /\ UNCHANGED <<server, here, cache, toast>>
      BY <2>7 DEF Respond, Open
    <3> QED BY <3>1, <2>3 DEF Answer
  <2>8. ASSUME NEW q \in Query, Fetch(q) PROVE FALSE
    BY <2>8, <2>5 DEF Fetch, Forget
  <2>9. CASE Leave
    BY <2>9, <2>5 DEF Leave
  <2>10. CASE UNCHANGED vars
    BY <2>10, <2>1 DEF vars
  <2>11. CASE Next
    <3>1. ASSUME NEW t \in Mine,
                 MarkPaid(t) \/ Undo(t) \/ CloseToast(t) \/ ToastGone(t)
          PROVE  FALSE
      BY <3>1, <2>1 DEF MarkPaid, Undo, CloseToast, ToastGone
    <3>2. ASSUME NEW t \in Mine, AutoClose(t) PROVE FALSE
      BY <3>2, <2>1, <2>2 DEF AutoClose
    <3>3. ASSUME NEW c \in Claim, GlowEnds(c) PROVE FALSE
      BY <3>3, <2>1 DEF GlowEnds
    <3>4. CASE Focus \/ Return \/ TheyFile \/ TheyDecide
      BY <3>4, <2>1 DEF Focus, Return, TheyFile, TheyDecide
    <3> QED BY <2>11, <3>1, <3>2, <3>3, <3>4, <2>4, <2>6, <2>7, <2>8, <2>9 DEF Next
  <2> QED BY <1>1, <2>10, <2>11
<1> QED BY <1>1, Inductive, PTL DEF Spec, UndoneIsNotSent
=============================================================================
