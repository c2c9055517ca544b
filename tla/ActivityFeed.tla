---------------------------- MODULE ActivityFeed ----------------------------
(* The activity feed of a group screen (components/ActivityFeed.tsx): audit  *)
(* rows are asked for a page at a time, newest first, through react-query    *)
(* (useGroupAuditLog), and two effects copy the answers into a list.         *)
(*                                                                           *)
(* The rows of a group are numbered in the order they are written and never  *)
(* change, so an answer is determined by the number of rows there were when  *)
(* it was read: an answer is that number, and two answers with one number    *)
(* are the same object to the effects (structural sharing).                  *)
EXTENDS Integers, Sequences, FiniteSets

CONSTANTS Groups,      \* the groups whose screens are visited
          Page,        \* PAGE_SIZE
          MaxRows,     \* bound: audit rows of one group
          MaxPages     \* bound: pages asked for in one visit

VARIABLES rows,        \* server: how many audit rows a group has
          cache,       \* query cache: the last answer of a key, or Unread
          asking,      \* the fetches under way, with the rows there were at their start
          failed,      \* the keys whose last fetch failed
          open,        \* the group whose screen is shown, or NoGroup
          feed         \* the component's state: list, total, offset, prev

vars == <<rows, cache, asking, failed, open, feed>>

Unread  == -1
NoGroup == "none"
Offsets == {Page * i : i \in 0 .. MaxPages - 1}
Keys    == Groups \X Offsets                  \* ["group-audit-log", groupId, PAGE_SIZE, offset]
Active  == <<open, feed.offset>>              \* the key the component observes
Fresh   == [list |-> <<>>, total |-> 0, offset |-> 0, prev |-> 0]

Least(a, b) == IF a < b THEN a ELSE b

\* Slip: rows numbered from 0.
PageFromZero(g, o, n) ==
  [i \in 1 .. Least(Page, IF n > o THEN n - o ELSE 0) |-> <<g, n - o - i>>]

\* What the server returns for offset o of a group with n rows: the newest first.
PageAt(g, o, n) ==
  [i \in 1 .. Least(Page, IF n > o THEN n - o ELSE 0) |-> <<g, n - o - i + 1>>]

Listed(l) == {l[i] : i \in DOMAIN l}

\* Slip: the append trusts the pages to be disjoint.
EverythingNew(l, new) == new

Unique(l, new) == SelectSeq(new, LAMBDA r : r \notin Listed(l))

\* Slip: a first page that is read again is appended like the others.
MergeAppends(f, g, n) ==
  IF n = Unread THEN f
  ELSE [f EXCEPT !.list = f.list \o Unique(f.list, PageAt(g, f.offset, n)),
                 !.total = n, !.prev = f.offset]

\* The merging effect: the first page replaces the list, a later page is
\* appended the first time its data is there, and not again.
Merge(f, g, n) ==
  CASE n = Unread -> f
    [] n # Unread /\ f.offset = 0 ->
         [f EXCEPT !.list = PageAt(g, 0, n), !.total = n]
    [] n # Unread /\ f.offset # 0 /\ f.offset # f.prev ->
         [f EXCEPT !.list = f.list \o Unique(f.list, PageAt(g, f.offset, n)),
                   !.total = n, !.prev = f.offset]
    [] OTHER -> [f EXCEPT !.total = n]

\* A fetch of a key starts unless one is under way; without data it clears the error.
Ask(ks) ==
  /\ asking' = [k \in DOMAIN asking \cup ks |->
                  IF k \in DOMAIN asking THEN asking[k] ELSE rows[k[1]]]
  /\ failed' = {k \in failed : k \notin ks \/ cache[k] # Unread}

Waiting == cache[Active] = Unread /\ Active \in DOMAIN asking

\* What the component shows, in the order of its returns.
View ==
  CASE Waiting /\ feed.list = <<>>                        -> "loading"
    [] ~(Waiting /\ feed.list = <<>>) /\ Active \in failed -> "error"
    [] ~Waiting /\ Active \notin failed /\ feed.list = <<>> -> "empty"
    [] OTHER                                               -> "list"

HasMore == Len(feed.list) < feed.total

-----------------------------------------------------------------------------
Init ==
  /\ rows \in [Groups -> 0 .. Page]
  /\ cache = [k \in Keys |-> Unread]
  /\ asking = [k \in {} |-> 0]
  /\ failed = {}
  /\ open = NoGroup
  /\ feed = Fresh

\* Somebody else's action writes an audit row; this browser learns of it later.
Recorded(g) ==
  /\ rows[g] < MaxRows
  /\ rows' = [rows EXCEPT ![g] = @ + 1]
  /\ UNCHANGED <<cache, asking, failed, open, feed>>

\* One of my own: its mutation invalidates every "group-audit-log" query, and
\* the observed one is cancelled and asked for again.
RecordedByMe(g) ==
  /\ rows[g] < MaxRows
  /\ rows' = [rows EXCEPT ![g] = @ + 1]
  /\ asking' = IF open = NoGroup THEN asking
               ELSE [k \in DOMAIN asking \cup {Active} |->
                       IF k = Active THEN rows'[open] ELSE asking[k]]
  /\ failed' = IF open = NoGroup THEN failed
               ELSE {k \in failed : k # Active \/ cache[k] # Unread}
  /\ UNCHANGED <<cache, open, feed>>

\* The screen opens: both effects run, the merging one on cached data if there
\* is any, then the one that resets the list for a new group.
Mounted == Fresh

OpenFeed(g) ==
  /\ open = NoGroup
  /\ open' = g
  /\ feed' = Mounted
  /\ Ask({<<g, 0>>})
  /\ UNCHANGED <<rows, cache>>

\* The history leads from one group's screen to another's: the component stays.
\* The reset brings a later offset back to 0, which runs the merging effect again.
\* Slip: no effect resets the list.
KeepList(g) == Merge(feed, g, cache[<<g, feed.offset>>])

AfterReset(g) == IF feed.offset = 0 THEN Fresh ELSE Merge(Fresh, g, cache[<<g, 0>>])

SwitchTo(g) ==
  /\ open \notin {NoGroup, g}
  /\ open' = g
  /\ feed' = AfterReset(g)
  /\ Ask({<<g, feed.offset>>, <<g, 0>>})
  /\ UNCHANGED <<rows, cache>>

CloseFeed ==
  /\ open # NoGroup
  /\ open' = NoGroup
  /\ feed' = Fresh
  /\ UNCHANGED <<rows, cache, asking, failed>>

LoadMore ==
  /\ open # NoGroup
  /\ View = "list"
  /\ HasMore
  /\ ~Waiting
  /\ feed.offset + Page \in Offsets
  /\ LET next == feed.offset + Page
     IN  /\ feed' = Merge([feed EXCEPT !.offset = next], open, cache[<<open, next>>])
         /\ Ask({<<open, next>>})
  /\ UNCHANGED <<rows, cache, open>>

\* The window gets the focus: the observed query is asked for again.
Focus ==
  /\ open # NoGroup
  /\ Active \notin DOMAIN asking
  /\ Ask({Active})
  /\ UNCHANGED <<rows, cache, open, feed>>

Done(k) == asking' = [j \in DOMAIN asking \ {k} |-> asking[j]]

\* An answer read at any moment since the request; new data runs the effect.
Answer(k, n) ==
  /\ k \in DOMAIN asking
  /\ n \in asking[k] .. rows[k[1]]
  /\ Done(k)
  /\ cache' = [cache EXCEPT ![k] = n]
  /\ failed' = failed \ {k}
  /\ feed' = IF open # NoGroup /\ k = Active /\ n # cache[k]
             THEN Merge(feed, open, n) ELSE feed
  /\ UNCHANGED <<rows, open>>

FetchFails(k) ==
  /\ k \in DOMAIN asking
  /\ Done(k)
  /\ failed' = failed \cup {k}
  /\ UNCHANGED <<rows, cache, open, feed>>

\* A key nobody observes is dropped after the cache time.
Collect(k) ==
  /\ cache[k] # Unread \/ k \in failed
  /\ k \notin DOMAIN asking
  /\ open = NoGroup \/ k # Active
  /\ cache' = [cache EXCEPT ![k] = Unread]
  /\ failed' = failed \ {k}
  /\ UNCHANGED <<rows, asking, open, feed>>

Next ==
  \/ \E g \in Groups : \/ Recorded(g)
                       \/ RecordedByMe(g)
                       \/ OpenFeed(g)
                       \/ SwitchTo(g)
  \/ CloseFeed
  \/ LoadMore
  \/ Focus
  \/ \E k \in Keys : \/ \E n \in 0 .. MaxRows : Answer(k, n)
                     \/ FetchFails(k)
                     \/ Collect(k)

Spec == Init /\ [][Next]_vars

-----------------------------------------------------------------------------
\* The types of the state: a list holds rows of the shown group only while its
\* screen is open.
TypeOK ==
  /\ rows \in [Groups -> 0 .. MaxRows]
  /\ cache \in [Keys -> {Unread} \cup 0 .. MaxRows]
  /\ DOMAIN asking \subseteq Keys /\ \A k \in DOMAIN asking : asking[k] \in 0 .. MaxRows
  /\ failed \subseteq Keys
  /\ open \in Groups \cup {NoGroup}
  /\ feed.offset \in Offsets /\ feed.prev \in Offsets /\ feed.total \in 0 .. MaxRows
  /\ Listed(feed.list) \subseteq Groups \X (1 .. MaxRows)

\* A row that slid from one page to the next between the two requests is listed
\* once (the append filters the ids it has).
NoRowTwice ==
  \A i, j \in DOMAIN feed.list : feed.list[i] = feed.list[j] => i = j

\* Whatever is still cached, asked for or answered for the group shown before,
\* the feed lists only the group that is open.
OnlyThisGroup == \A r \in Listed(feed.list) : r[1] = open

\* The list runs from new to old. The exception: rows of a later page that are
\* newer than the whole first page, because more than a page was written between.
NewestFirst ==
  \A i, j \in DOMAIN feed.list :
    i < j => \/ feed.list[i][2] > feed.list[j][2]
             \/ feed.offset # 0 /\ feed.list[j][2] > feed.list[1][2]

\* ActivityFeed.tsx:105-114: the feed, with no fetch under way, says "No activity
\* yet" only when the answer it observes has no rows.
EmptyMeansNothing ==
  (open # NoGroup /\ View = "empty" /\ Active \notin DOMAIN asking) =>
    cache[Active] \in {Unread, 0}

\* ActivityFeed.tsx:33: "When new data arrives, merge it into the accumulated
\* list": what the observed page's answer holds is in the list.
LaterPagesMerge ==
  (open # NoGroup /\ feed.offset # 0 /\ cache[Active] # Unread) =>
    Listed(PageAt(open, feed.offset, cache[Active])) \subseteq Listed(feed.list)
=============================================================================
