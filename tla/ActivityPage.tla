---------------------------- MODULE ActivityPage ----------------------------
(* The activity page (routes/_layout/activity.tsx): one loader per group of  *)
(* the user reads the first page of that group's audit rows, and an effect   *)
(* of each loader adds what it read to one list, sorted by time, of which a  *)
(* growing number is shown.                                                  *)
(*                                                                           *)
(* Audit rows are numbered in the order they are written, over all groups,   *)
(* so the number of a row is its time; the list, sorted and without          *)
(* duplicates after every merge, is the set of its rows.                     *)
EXTENDS Naturals, Sequences, FiniteSets

CONSTANTS Groups,      \* the groups there are
          Page,        \* PAGE_SIZE
          MaxRows      \* bound: audit rows of all groups

VARIABLES trail,       \* server: the group of each audit row
          mine,        \* server: the groups the user is a member of
          known,       \* query cache: the last list of groups, or Unread
          cache,       \* query cache: the last answer for a group, or Unread
          asking,      \* the groups whose rows are being fetched, with the rows at the start
          asked,       \* the groups there were when the list was asked for, or Unread
          open,        \* the page is shown
          feed         \* its state: list, loaded, display

vars == <<trail, mine, known, cache, asking, asked, open, feed>>

Unread == {0}                 \* no answer: 0 is neither a row nor a group
Fresh  == [list |-> {}, loaded |-> {}, display |-> Page]

Top(n, s) == {r \in s : Cardinality({q \in s : q > r}) < n}

\* Slip: the query reads the newest rows of all groups.
AnyRows(g, n) == Top(Page, 1 .. n)

\* The first page of a group when n rows were written.
FirstPage(g, n) == Top(Page, {r \in 1 .. n : trail[r] = g})

Read(g)   == cache[g] # Unread
Shown     == IF known = Unread THEN {} ELSE known
Mounted   == open /\ Shown # {}
Skeleton  == Cardinality(feed.loaded) < Cardinality(known) /\ feed.list = {}
Visible   == Top(feed.display, feed.list)

\* Slip: the last answer is the list.
Replaced(f, g, rs) == [f EXCEPT !.list = rs, !.loaded = @ \cup {g}]

\* handleGroupLogs: what is not in the list yet is added.
Merged(f, g, rs) == [f EXCEPT !.list = @ \cup rs, !.loaded = @ \cup {g}]

\* The loaders that mount with an answer in the cache add it at once.
MountedWith(gs) ==
  [Fresh EXCEPT !.list = UNION {cache[g] : g \in {h \in gs : Read(h)}},
                !.loaded = {g \in gs : Read(g)}]

\* The fetches that start when the loaders of gs mount.
Ask(gs) ==
  asking' = [g \in DOMAIN asking \cup gs |->
               IF g \in DOMAIN asking THEN asking[g] ELSE Len(trail)]

-----------------------------------------------------------------------------
Init ==
  /\ trail = <<>>
  /\ mine \in SUBSET Groups
  /\ known = Unread
  /\ cache = [g \in Groups |-> Unread]
  /\ asking = [g \in {} |-> 0]
  /\ asked = Unread
  /\ open = FALSE
  /\ feed = Fresh

\* An audit row is written by somebody else.
Recorded(g) ==
  /\ Len(trail) < MaxRows
  /\ trail' = Append(trail, g)
  /\ UNCHANGED <<mine, known, cache, asking, asked, open, feed>>

\* The user creates or joins a group in another tab or on the invite page.
JoinGroup(g) ==
  /\ g \notin mine
  /\ mine' = mine \cup {g}
  /\ UNCHANGED <<trail, known, cache, asking, asked, open, feed>>

OpenPage ==
  /\ ~open
  /\ open' = TRUE
  /\ asked' = IF asked = Unread THEN mine ELSE asked
  /\ feed' = MountedWith(Shown)
  /\ Ask(Shown)
  /\ UNCHANGED <<trail, mine, known, cache>>

ClosePage ==
  /\ open
  /\ open' = FALSE
  /\ feed' = Fresh
  /\ UNCHANGED <<trail, mine, known, cache, asking, asked>>

\* The window gets the focus: every observed query is asked for again.
Focus ==
  /\ open
  /\ asked' = IF asked = Unread THEN mine ELSE asked
  /\ Ask(Shown)
  /\ UNCHANGED <<trail, mine, known, cache, open, feed>>

\* The list of groups arrives. A first list mounts the loaders; another list
\* mounts those of the new groups and then resets, last of all, what every
\* loader added: the effects of children run before their parent's.
GroupsArrive(s) ==
  /\ asked # Unread
  /\ asked \subseteq s /\ s \subseteq mine
  /\ asked' = Unread
  /\ known' = s
  /\ feed' = CASE ~open \/ s = Shown -> feed
               [] open /\ s # Shown /\ Shown = {} -> MountedWith(s)
               [] OTHER -> Fresh
  /\ IF open THEN Ask(s \ Shown) ELSE UNCHANGED asking
  /\ UNCHANGED <<trail, mine, cache, open>>

GroupsFail ==
  /\ asked # Unread
  /\ asked' = Unread
  /\ UNCHANGED <<trail, mine, known, cache, asking, open, feed>>

Done(g) == asking' = [h \in DOMAIN asking \ {g} |-> asking[h]]

\* The rows of a group, read at any moment since they were asked for. Only an
\* answer that differs from the cached one runs the effect of the loader.
RowsArrive(g, n) ==
  /\ g \in DOMAIN asking
  /\ n \in asking[g] .. Len(trail)
  /\ Done(g)
  /\ cache' = [cache EXCEPT ![g] = FirstPage(g, n)]
  /\ feed' = IF Mounted /\ g \in known /\ cache[g] # FirstPage(g, n)
             THEN Merged(feed, g, FirstPage(g, n)) ELSE feed
  /\ UNCHANGED <<trail, mine, known, asked, open>>

RowsFail(g) ==
  /\ g \in DOMAIN asking
  /\ Done(g)
  /\ UNCHANGED <<trail, mine, known, cache, asked, open, feed>>

LoadMore ==
  /\ Mounted
  /\ feed.display < Cardinality(feed.list)
  /\ feed' = [feed EXCEPT !.display = @ + Page]
  /\ UNCHANGED <<trail, mine, known, cache, asking, asked, open>>

\* What nobody observes is dropped after the cache time.
CollectRows(g) ==
  /\ Read(g) /\ g \notin DOMAIN asking
  /\ ~open
  /\ cache' = [cache EXCEPT ![g] = Unread]
  /\ UNCHANGED <<trail, mine, known, asking, asked, open, feed>>

Next ==
  \/ \E g \in Groups : \/ Recorded(g)
                       \/ JoinGroup(g)
                       \/ RowsFail(g)
                       \/ CollectRows(g)
                       \/ \E n \in 0 .. MaxRows : RowsArrive(g, n)
  \/ \E s \in SUBSET Groups : GroupsArrive(s)
  \/ OpenPage
  \/ ClosePage
  \/ Focus
  \/ GroupsFail
  \/ LoadMore

Spec == Init /\ [][Next]_vars

-----------------------------------------------------------------------------
\* The types of the state; what is listed was read from a group in the list.
TypeOK ==
  /\ trail \in Seq(Groups)
  /\ mine \in SUBSET Groups
  /\ known \in {Unread} \cup SUBSET mine
  /\ \A g \in Groups : Read(g) => cache[g] \subseteq {r \in 1 .. Len(trail) : trail[r] = g}
  /\ DOMAIN asking \subseteq Groups
  /\ open \in BOOLEAN
  /\ feed.loaded \subseteq Shown /\ {trail[r] : r \in feed.list} \subseteq feed.loaded

\* Merging the newest rows of each group gives the newest rows of all: when every
\* group has been loaded and its answer is the latest, the first PAGE_SIZE rows of
\* the page are the last ones written in any of the user's groups.
NewestShown ==
  (Mounted /\ feed.loaded = known /\ \A g \in known : cache[g] = FirstPage(g, Len(trail))) =>
    Top(Page, Visible) = Top(Page, {r \in DOMAIN trail : trail[r] \in known})

\* activity.tsx:164: "Recent activity across your expense groups": with nothing
\* under way, the page lists what it has read of every group, and no skeleton.
ReadIsListed ==
  (Mounted /\ asking = <<>> /\ asked = Unread) =>
    \A g \in known : Read(g) => cache[g] \subseteq feed.list /\ ~(cache[g] # {} /\ Skeleton)
=============================================================================
