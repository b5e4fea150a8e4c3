------------------------------- MODULE NoticeFeed -------------------------------
(***************************************************************************)
(* The notifications of one user (services/notifications.py,               *)
(* repositories/notification.py, repositories/base.py): they are stored,   *)
(* committed and then pushed, marked as read one at a time or all at once, *)
(* and read in pages from the newest on, by offset, while all that goes    *)
(* on.  A notification is named by its created_at: the time at which its   *)
(* transaction began.                                                      *)
(***************************************************************************)
EXTENDS Integers, FiniteSets

CONSTANTS Sender,      \* requests that notify
          Marker,      \* requests that mark as read
          Pager,       \* clients that read the feed
          FeedPage,    \* page_size
          MaxNotices   \* bound on the notifications

ASSUME NoticeAssumption == FeedPage \in Nat \ {0} /\ MaxNotices \in Nat

VARIABLES
  notices,   \* the committed notifications
  unread,    \* those whose read_at is null
  begun,     \* how many were begun
  sender,    \* sender[s]: the notification it stores
  marker,    \* marker[m]: the notifications it marks
  pushed,    \* what the user's channel was told exists
  toldRead,  \* what it was told is read
  feed       \* feed[p]: its page and what it has got; ghosts: what it is owed, and
             \* by how many rows the list outgrew the count that came with the page

noticeVars == <<notices, unread, begun, sender, marker, pushed, toldRead, feed>>

NoSender == [at |-> "idle", notice |-> 0]
NoMarker == [at |-> "idle", notices |-> {}]
NoPager  == [at |-> "idle", unreadOnly |-> FALSE, byTotal |-> FALSE, page |-> 0, total |-> 0,
             got |-> {}, owed |-> {}, grown |-> 0]

NoticeInit ==
  /\ notices = {} /\ unread = {} /\ begun = 0
  /\ sender = [s \in Sender |-> NoSender]
  /\ marker = [m \in Marker |-> NoMarker]
  /\ pushed = {} /\ toldRead = {}
  /\ feed = [p \in Pager |-> NoPager]

-----------------------------------------------------------------------------
(* Notifying *)

CreateNotification(s) ==
  /\ sender[s].at = "idle" /\ begun < MaxNotices
  /\ begun' = begun + 1
  /\ sender' = [sender EXCEPT ![s] = [at |-> "stored", notice |-> begun + 1]]
  /\ UNCHANGED <<notices, unread, marker, pushed, toldRead, feed>>

CommitNotification(s) ==
  /\ sender[s].at = "stored"
  /\ notices' = notices \cup {sender[s].notice}
  /\ unread' = unread \cup {sender[s].notice}
  /\ sender' = [sender EXCEPT ![s].at = "committed"]
  /\ UNCHANGED <<begun, marker, pushed, toldRead, feed>>

FailNotification(s) ==
  /\ sender[s].at = "stored"
  /\ sender' = [sender EXCEPT ![s] = NoSender]
  /\ UNCHANGED <<notices, unread, begun, marker, pushed, toldRead, feed>>

\* Mutant of PushNotification: the push does not wait for the commit
\* (commit_before_publish=False).
PushNotification_Early(s) ==
  /\ sender[s].at # "idle" /\ sender[s].notice \notin pushed
  /\ pushed' = pushed \cup {sender[s].notice}
  /\ sender' = [sender EXCEPT ![s] = IF @.at = "stored" THEN @ ELSE NoSender]
  /\ UNCHANGED <<notices, unread, begun, marker, toldRead, feed>>

\* Who is connected is told.
PushNotification(s) ==
  /\ sender[s].at = "committed"
  /\ pushed' = pushed \cup {sender[s].notice}
  /\ sender' = [sender EXCEPT ![s] = NoSender]
  /\ UNCHANGED <<notices, unread, begun, marker, toldRead, feed>>

-----------------------------------------------------------------------------
(* Marking as read *)

\* One notification is found whether it was read or not, all of them only when
\* they were not; nothing found, nothing is told.
LoadToMark(m, found) ==
  /\ marker[m].at = "idle" /\ found # {}
  /\ marker' = [marker EXCEPT ![m] = [at |-> "loaded", notices |-> found]]
  /\ UNCHANGED <<notices, unread, begun, sender, pushed, toldRead, feed>>

MarkRead(m, n)  == LoadToMark(m, {n})
MarkAllRead(m)  == LoadToMark(m, unread)

\* What is read leaves the feed of unread notifications, and what is behind it
\* moves up: a client in the middle of that feed is owed nothing for sure any more.
CommitRead(m) ==
  /\ marker[m].at = "loaded"
  /\ unread' = unread \ marker[m].notices
  /\ feed' = IF unread' = unread THEN feed
              ELSE [p \in Pager |-> IF feed[p].unreadOnly
                                    THEN [feed[p] EXCEPT !.owed = {}] ELSE feed[p]]
  /\ marker' = [marker EXCEPT ![m].at = "committed"]
  /\ UNCHANGED <<notices, begun, sender, pushed, toldRead>>

PushMark(m) ==
  /\ marker[m].at = "committed"
  /\ toldRead' = toldRead \cup marker[m].notices
  /\ marker' = [marker EXCEPT ![m] = NoMarker]
  /\ UNCHANGED <<notices, unread, begun, sender, pushed, feed>>

-----------------------------------------------------------------------------
(* The feed *)

\* list_paginated: the rows from the newest on, OFFSET as many as the pages before
\* have; how many rows the order puts before a row says on which page it is.
Ahead(rows, n) == Cardinality({m \in rows : m > n})

\* Mutant of OnPage: the offset counts pages from zero.
OnPage_FromZero(rows, page) ==
  {n \in rows : page * FeedPage <= Ahead(rows, n) /\ Ahead(rows, n) < (page + 1) * FeedPage}

OnPage(rows, page) ==
  {n \in rows : (page - 1) * FeedPage <= Ahead(rows, n) /\ Ahead(rows, n) < page * FeedPage}

Listed(p) == IF feed[p].unreadOnly THEN unread ELSE notices

\* A client goes on to as many pages as the last one said there are (total_pages), as
\* those of the frontend do, or until a page comes that is not full.
OpenFeed(p, unreadOnly, byTotal) ==
  /\ feed[p].at = "idle"
  /\ feed' = [feed EXCEPT ![p] =
       [NoPager EXCEPT !.at = "paging", !.unreadOnly = unreadOnly, !.byTotal = byTotal,
                       !.page = 1, !.owed = IF unreadOnly THEN unread ELSE notices]]
  /\ UNCHANGED <<notices, unread, begun, sender, marker, pushed, toldRead>>

\* list_paginated counts the rows in one statement and selects the page in another,
\* each of which sees what is committed by then.  Only the one kind of client keeps
\* the count.
CountFeed(p) ==
  /\ feed[p].at = "paging"
  /\ feed' = [feed EXCEPT ![p].at = "counted",
       ![p].total = IF feed[p].byTotal THEN Cardinality(Listed(p)) ELSE 0]
  /\ UNCHANGED <<notices, unread, begun, sender, marker, pushed, toldRead>>

\* A page is full unless there are fewer rows than the pages up to it hold.
LastPage(f, rows) ==
  IF f.byTotal THEN f.total <= f.page * FeedPage ELSE Cardinality(rows) < f.page * FeedPage

GetFeed(p) ==
  LET rows == Listed(p)
  IN  /\ feed[p].at = "counted"
      /\ feed' = [feed EXCEPT
           ![p].got   = @ \cup OnPage(rows, feed[p].page),
           ![p].page  = @ + 1,
           ![p].total = 0,
           ![p].grown = IF /\ feed[p].byTotal /\ LastPage(feed[p], rows)
                           /\ Cardinality(rows) > feed[p].total
                        THEN Cardinality(rows) - feed[p].total ELSE 0,
           ![p].at    = IF LastPage(feed[p], rows) THEN "done" ELSE "paging"]
      /\ UNCHANGED <<notices, unread, begun, sender, marker, pushed, toldRead>>

CloseFeed(p) ==
  /\ feed[p].at = "done"
  /\ feed' = [feed EXCEPT ![p] = NoPager]
  /\ UNCHANGED <<notices, unread, begun, sender, marker, pushed, toldRead>>

NoticeNext ==
  \/ \E s \in Sender : CreateNotification(s) \/ CommitNotification(s)
                       \/ FailNotification(s) \/ PushNotification(s)
  \/ \E m \in Marker : (\E n \in notices : MarkRead(m, n)) \/ MarkAllRead(m)
                       \/ CommitRead(m) \/ PushMark(m)
  \/ \E p \in Pager : (\E unreadOnly, byTotal \in BOOLEAN : OpenFeed(p, unreadOnly, byTotal))
                      \/ CountFeed(p) \/ GetFeed(p) \/ CloseFeed(p)

NoticeSpec == NoticeInit /\ [][NoticeNext]_noticeVars

-----------------------------------------------------------------------------
(* Properties *)

NoticeTypeOK ==
  /\ notices \subseteq 1..MaxNotices /\ unread \subseteq notices /\ begun \in 0..MaxNotices
  /\ sender \in [Sender -> [at : {"idle", "stored", "committed"}, notice : 0..MaxNotices]]
  /\ marker \in [Marker -> [at : {"idle", "loaded", "committed"}, notices : SUBSET notices]]
  /\ \A p \in Pager : feed[p].got \subseteq notices /\ feed[p].owed \subseteq notices

\* notifications.py, commit_before_publish: a client that is told of a
\* notification finds it, one that is told it is read finds it read.
PushesOnRecord == pushed \subseteq notices /\ toldRead \cap unread = {}

\* base.py list_paginated: a client that goes on until a page is not full has got
\* every notification that was in the feed when it began, though others were stored,
\* begun earlier or later, while it read.  One that trusts the number of pages misses
\* no more of them than were added between the count and the page it stopped at.  Of
\* the unread ones this is said unless one was read meanwhile.
FeedComplete ==
  \A p \in Pager : feed[p].at = "done" =>
    LET missed == feed[p].owed \ feed[p].got
    IN IF feed[p].byTotal THEN Cardinality(missed) <= feed[p].grown ELSE missed = {}

\* PageResult.total_pages: the pages up to the last have everything.
\* The code does not keep this: a claim on record, asked by no run.
TotalPagesSuffice == \A p \in Pager : feed[p].at = "done" => feed[p].owed \subseteq feed[p].got

FeedSound == PushesOnRecord /\ FeedComplete
=============================================================================
