--------------------------- MODULE MessageStatus ---------------------------
(***************************************************************************)
(* Sent, delivered, read; online, offline.                                 *)
(*                                                                         *)
(* The author of the messages of a direct chat has pages that show how far *)
(* each message has got, and whether the reader is online.  A row of the   *)
(* messages table gets its status when it is saved, from what the          *)
(* ConnectionManager knows of the reader; when the reader's user socket    *)
(* connects (websocket_user), and when he opens the chat (websocket_chat). *)
(* Each change is announced on the chat's sockets.  Every step between two *)
(* awaits is an action; coroutines that asyncio.gather and create_task     *)
(* have started wait in the event loop, in order.  A page gets its events  *)
(* in order, and the server does nothing that depends on when: they are    *)
(* taken as they are sent.                                                 *)
(***************************************************************************)
EXTENDS Integers, Sequences, FiniteSets

CONSTANTS
    Pages,        \* the author's, each of a device of its own
    Lines,        \* user sockets opened in the course of a behaviour
    ReadersLines, \* those of the reader; the others are a third user's
    Visits,       \* chat sockets of the reader
    MaxMessages   \* bound: messages saved

ASSUME StatusAssumption == ReadersLines \subseteq Lines /\ MaxMessages \in Nat

\* getStatusRank; 0 for what is not there.
Unknown == 0
Sent == 1
Delivered == 2
Read == 3
Statuses == Sent..Read

VARIABLES
    row,        \* the messages table: the status of each row
    save,       \* the handler of each page, saving and telling
    connected,  \* user_connections
    line,       \* the handler of each user socket
    visit,      \* the handler of each chat socket of the reader
    loop,       \* broadcasts of broadcast_user_status that have not run yet
    page,       \* each page of the author: its handler, what it keeps back and shows
    missed,     \* history: pages and ids an announcement could not reach in time
    late,       \* history: what the saving of each message ran across
    raced       \* history: the reader was back before his absence was announced

readerVars == <<connected, line, visit, loop, raced>>
vars == <<row, save, readerVars, page, missed, late>>

Ids == 1..MaxMessages
Excuses == {"line", "visit", "offline"}
Told == [id : Ids, status : Statuses]

Messages == [type : {"message"}, id : Ids, status : Statuses]

\* pendingMessageStatuses is empty for what is on the screen.
StatusTypeOK ==
    /\ row \in Seq(Statuses) /\ Len(row) <= MaxMessages
    /\ save \in [Pages -> [pc : {"idle", "commit", "refresh", "copies", "tell"},
                           id : 0..MaxMessages, status : Unknown..Read,
                           across : SUBSET Excuses]]
    /\ connected \in SUBSET Lines
    /\ line \in [Lines -> [pc : {"none", "mark", "refresh", "tell", "open"},
                           ids : SUBSET Ids, tell : SUBSET Told]]
    /\ visit \in [Visits -> [pc : {"none", "refresh", "tell", "register", "open", "ended"},
                             ids : SUBSET Ids, tell : SUBSET Told]]
    /\ loop \in Seq([kind : {"task", "send"}, by : Lines, on : BOOLEAN, to : SUBSET Pages])
    /\ page \in [Pages ->
          [pc : {"none", "register", "replay", "live"}, history : Seq(Messages),
           complete : BOOLEAN, kept : Seq(Messages), queue : Seq(Messages),
           shown : [Ids -> Unknown..Read], pending : [Ids -> Unknown..Read],
           dot : {"reader", "other", "none"} \X BOOLEAN]]
    /\ missed \in SUBSET (Pages \X Ids)
    /\ late \in [Ids -> SUBSET Excuses]
    /\ raced \in BOOLEAN
    /\ \A p \in Pages, i \in Ids :
          page[p].shown[i] # Unknown => page[p].pending[i] = Unknown

Idle == [pc |-> "idle", id |-> 0, status |-> Unknown, across |-> {}]
Nothing == [i \in Ids |-> Unknown]
NoHandler == [pc |-> "none", ids |-> {}, tell |-> {}]

StatusInit ==
    /\ row = <<>>
    /\ save = [p \in Pages |-> Idle]
    /\ connected = {}
    /\ line = [l \in Lines |-> NoHandler]
    /\ visit = [v \in Visits |-> NoHandler]
    /\ loop = <<>>
    /\ page = [p \in Pages |->
          [pc |-> "none", history |-> <<>>, complete |-> FALSE,
           kept |-> <<>>, queue |-> <<>>, shown |-> Nothing, pending |-> Nothing,
           dot |-> <<"none", FALSE>>]]
    /\ missed = {}
    /\ late = [i \in Ids |-> {}]
    /\ raced = FALSE

-----------------------------------------------------------------------------
(* The page.                                                               *)

\* Mutant: the last status that arrives is shown.
resolveStatusLast(previous, next) == IF next = Unknown THEN previous ELSE next

resolveStatus(previous, next) == IF next >= previous THEN next ELSE previous

\* updateMessageStatus.
Updated(g, e) ==
    IF g.shown[e.id] = Unknown
    THEN [g EXCEPT !.pending =
             [g.pending EXCEPT ![e.id] = resolveStatus(g.pending[e.id], e.status)]]
    ELSE [g EXCEPT !.shown =
             [g.shown EXCEPT ![e.id] = resolveStatus(g.shown[e.id], e.status)]]

\* sortQueuedMessages: by id, copies of one message in the order of their arrival.
Place(messages, i) ==
    Cardinality({j \in DOMAIN messages :
        messages[j].id < messages[i].id \/ (messages[j].id = messages[i].id /\ j <= i)})

Sorted(messages) ==
    [k \in DOMAIN messages |-> messages[CHOOSE i \in DOMAIN messages : Place(messages, i) = k]]

\* onmessage. A status event, or one of presence, is applied at once.
Received(g, e) ==
    CASE e.type = "presence" ->
            [g EXCEPT !.dot = <<IF e.reader THEN "reader" ELSE "other", e.on>>]
      [] e.type = "status" -> Updated(g, e)
      [] e.type = "complete" ->
            [g EXCEPT !.complete = TRUE, !.queue = g.queue \o Sorted(g.kept), !.kept = <<>>]
      [] e.type = "message" /\ g.complete -> [g EXCEPT !.queue = Append(g.queue, e)]
      [] e.type = "message" /\ ~ g.complete -> [g EXCEPT !.kept = Append(g.kept, e)]

\* Mutant: the status that is waiting for the message stays where it is.
RenderedKeepsPending(g, e) ==
    [g EXCEPT !.shown = [g.shown EXCEPT ![e.id] = resolveStatus(e.status, g.pending[e.id])]]

\* Mutant: a status that came before its message is dropped.
RenderedAsSent(g, e) ==
    [g EXCEPT !.shown = [g.shown EXCEPT ![e.id] = e.status],
              !.pending = [g.pending EXCEPT ![e.id] = Unknown]]

\* renderMessage, of a message that is not there yet.
Rendered(g, e) ==
    [g EXCEPT !.shown = [g.shown EXCEPT ![e.id] = resolveStatus(e.status, g.pending[e.id])],
              !.pending = [g.pending EXCEPT ![e.id] = Unknown]]

Render(p) ==
    LET g == page[p]
        e == Head(g.queue)
        rest == [g EXCEPT !.queue = Tail(g.queue)]
    IN
    /\ g.queue # <<>>
    /\ page' = [page EXCEPT ![p] = IF g.shown[e.id] = Unknown THEN Rendered(rest, e) ELSE rest]
    /\ UNCHANGED <<row, save, readerVars, missed, late>>

-----------------------------------------------------------------------------
(* The ConnectionManager.                                                  *)

is_online == connected \cap ReadersLines # {}
has_chat_user == \E v \in Visits : visit[v].pc = "open"

\* chat_connections, as far as they show a status.
Registered == {p \in Pages : page[p].pc \in {"replay", "live"}}

\* broadcast_chat and notify_chat_device.
Deliver(to, e) == page' = [p \in Pages |-> IF p \in to THEN Received(page[p], e) ELSE page[p]]

\* A page that has read its history and is not registered yet does not get the event.
Announce(t) ==
    /\ Deliver(Registered, [type |-> "status", id |-> t.id, status |-> t.status])
    /\ missed' = missed \cup ({p \in Pages : page[p].pc = "register"} \X {t.id})

OwnersLines(l) == IF l \in ReadersLines THEN ReadersLines ELSE Lines \ ReadersLines

Broadcast(l, on) == [kind |-> "send", by |-> l, on |-> on, to |-> Registered]

\* connect_user: the first socket of a user makes him online.
Connect(l) ==
    LET first == connected \cap OwnersLines(l) = {} IN
    /\ line[l].pc = "none"
    /\ connected' = connected \cup {l}
    /\ line' = [line EXCEPT ![l] = [NoHandler EXCEPT !.pc = "mark"]]
    /\ loop' = IF first THEN Append(loop, Broadcast(l, TRUE)) ELSE loop
    /\ raced' = IF first /\ l \in ReadersLines
                THEN \E k \in DOMAIN loop : loop[k].kind = "task" /\ loop[k].by \in ReadersLines
                ELSE raced
    /\ UNCHANGED <<row, save, visit, page, missed, late>>

\* Mutant: every socket that is closed makes the user offline.
LastOneAlways(l) == TRUE

LastOne(l) == connected \cap OwnersLines(l) = {l}

\* disconnect_user: the handler's, or that of a send that fails. The announcement is a
\* task of its own.
Disconnect(l) ==
    /\ l \in connected
    /\ connected' = connected \ {l}
    /\ IF LastOne(l)
       THEN loop' = Append(loop, [Broadcast(l, FALSE) EXCEPT !.kind = "task"])
       ELSE UNCHANGED loop
    /\ raced' = (raced /\ ~ (LastOne(l) /\ l \in ReadersLines))
    /\ UNCHANGED <<row, save, line, visit, page, missed, late>>

\* The task starts the sends, which wait in turn; a send puts the event on the sockets.
RunLoop ==
    /\ loop # <<>>
    /\ LET b == Head(loop) IN
       IF b.kind = "task"
       THEN loop' = Append(Tail(loop), Broadcast(b.by, b.on)) /\ UNCHANGED page
       ELSE /\ loop' = Tail(loop)
            /\ Deliver(b.to, [type |-> "presence", reader |-> b.by \in ReadersLines,
                              on |-> b.on])
    /\ UNCHANGED <<row, save, connected, line, visit, missed, late, raced>>

-----------------------------------------------------------------------------
(* The reader's sockets.                                                   *)

\* Mutant: a message has to be delivered before it can be read.
BelowByOne(status) == {i \in DOMAIN row : row[i] = status - 1}

Raised(ids, status) == [i \in DOMAIN row |-> IF i \in ids THEN status ELSE row[i]]
Below(status) == {i \in DOMAIN row : row[i] < status}

\* Messages that are being saved meanwhile, and were found undelivered or unread.
Crossed(what, status) ==
    [p \in Pages |->
        IF save[p].pc = "commit" /\ save[p].status < status
        THEN [save[p] EXCEPT !.across = save[p].across \cup {what}] ELSE save[p]]

\* The handler goes on with what is to be told, or, if nothing was marked, with next.
Marked(ids, next) ==
    IF ids = {} THEN [NoHandler EXCEPT !.pc = next]
    ELSE [NoHandler EXCEPT !.pc = "refresh", !.ids = ids]

\* mark_messages_delivered_for_user, after connect_user and what it awaits.
MarkDelivered(l) ==
    /\ line[l].pc = "mark" /\ l \in ReadersLines
    /\ ~ \E k \in DOMAIN loop : loop[k].by = l /\ loop[k].on
    /\ row' = Raised(Below(Delivered), Delivered)
    /\ line' = [line EXCEPT ![l] = Marked(Below(Delivered), "open")]
    /\ save' = Crossed("line", Delivered)
    /\ UNCHANGED <<connected, visit, loop, page, missed, late, raced>>

\* mark_chat_messages_read, when the reader opens the chat.
MarkRead(v) ==
    /\ visit[v].pc = "none"
    /\ row' = Raised(Below(Read), Read)
    /\ visit' = [visit EXCEPT ![v] = Marked(Below(Read), "register")]
    /\ save' = Crossed("visit", Read)
    /\ UNCHANGED <<connected, line, loop, page, missed, late, raced>>

Refreshed(h) == [pc |-> "tell", ids |-> {}, tell |-> {[id |-> i, status |-> row[i]] : i \in h.ids}]

\* db.refresh, then notify_message_status, one message after the other.
RefreshForLine(l) ==
    /\ line[l].pc = "refresh"
    /\ line' = [line EXCEPT ![l] = Refreshed(line[l])]
    /\ UNCHANGED <<row, save, connected, visit, loop, page, missed, late, raced>>

RefreshForVisit(v) ==
    /\ visit[v].pc = "refresh"
    /\ visit' = [visit EXCEPT ![v] = Refreshed(visit[v])]
    /\ UNCHANGED <<row, save, connected, line, loop, page, missed, late, raced>>

Rest(h, t, next) ==
    IF h.tell = {t} THEN [NoHandler EXCEPT !.pc = next] ELSE [h EXCEPT !.tell = h.tell \ {t}]

TellForLine(l) ==
    /\ line[l].pc = "tell"
    /\ \E t \in line[l].tell :
          /\ Announce(t)
          /\ line' = [line EXCEPT ![l] = Rest(line[l], t, "open")]
    /\ UNCHANGED <<row, save, connected, visit, loop, late, raced>>

TellForVisit(v) ==
    /\ visit[v].pc = "tell"
    /\ \E t \in visit[v].tell :
          /\ Announce(t)
          /\ visit' = [visit EXCEPT ![v] = Rest(visit[v], t, "register")]
    /\ UNCHANGED <<row, save, connected, line, loop, late, raced>>

\* connect_chat, after the history has been read.
RegisterVisit(v) ==
    /\ visit[v].pc = "register"
    /\ visit' = [visit EXCEPT ![v] = [NoHandler EXCEPT !.pc = "open"]]
    /\ UNCHANGED <<row, save, connected, line, loop, page, missed, late, raced>>

\* disconnect_chat, when the handler finds the socket closed.
EndVisit(v) ==
    /\ visit[v].pc = "open"
    /\ visit' = [visit EXCEPT ![v] = [NoHandler EXCEPT !.pc = "ended"]]
    /\ UNCHANGED <<row, save, connected, line, loop, page, missed, late, raced>>

-----------------------------------------------------------------------------
(* The author's page is opened.                                            *)

ReadHistory(p) ==
    /\ page[p].pc = "none"
    /\ page' = [page EXCEPT ![p] = [page[p] EXCEPT !.pc = "register",
          !.history = [i \in DOMAIN row |->
                          [type |-> "message", id |-> i, status |-> row[i]]]]]
    /\ UNCHANGED <<row, save, readerVars, missed, late>>

\* connect_chat, and the first event, which says whether the reader is online.
Register(p) ==
    /\ page[p].pc = "register"
    /\ page' = [page EXCEPT ![p] =
          [Received(page[p], [type |-> "presence", reader |-> TRUE, on |-> is_online])
             EXCEPT !.pc = "replay"]]
    /\ UNCHANGED <<row, save, readerVars, missed, late>>

SendHistory(p) ==
    /\ page[p].pc = "replay"
    /\ page' = [page EXCEPT ![p] =
          IF page[p].history = <<>>
          THEN [Received(page[p], [type |-> "complete"]) EXCEPT !.pc = "live"]
          ELSE Received([page[p] EXCEPT !.history = Tail(page[p].history)],
                        Head(page[p].history))]
    /\ UNCHANGED <<row, save, readerVars, missed, late>>

-----------------------------------------------------------------------------
(* A message is sent.                                                      *)

\* Mutant: the reader is looked for among the sockets of the chat only.
StatusInChat == IF has_chat_user THEN Read ELSE Sent

StatusNow == IF ~ is_online THEN Sent ELSE IF has_chat_user THEN Read ELSE Delivered

\* The reader is asked for, in memory; the row is written later.
Check(p) ==
    /\ page[p].complete /\ save[p].pc = "idle"
    /\ save' = [save EXCEPT ![p] =
          [pc |-> "commit", id |-> 0, status |-> StatusNow,
           across |-> (IF has_chat_user /\ ~ is_online THEN {"offline"} ELSE {}) \cup
                      (IF \E v \in Visits : visit[v].pc \in {"refresh", "tell", "register"}
                       THEN {"visit"} ELSE {})]]
    /\ UNCHANGED <<row, readerVars, page, missed, late>>

Commit(p) ==
    LET i == Len(row) + 1 IN
    /\ save[p].pc = "commit" /\ i <= MaxMessages
    /\ row' = Append(row, save[p].status)
    /\ save' = [save EXCEPT ![p] = [Idle EXCEPT !.pc = "refresh", !.id = i]]
    /\ late' = [late EXCEPT ![i] = save[p].across]
    /\ UNCHANGED <<readerVars, page, missed>>

Refresh(p) ==
    /\ save[p].pc = "refresh"
    /\ save' = [save EXCEPT ![p] =
          [Idle EXCEPT !.pc = "copies", !.id = save[p].id, !.status = row[save[p].id]]]
    /\ UNCHANGED <<row, readerVars, page, missed, late>>

\* The copies, for the sending page and those of the author's other devices. One that is
\* connecting gets none, or one before that of the history, with an older status.
SendCopies(p) ==
    /\ save[p].pc = "copies"
    /\ Deliver(Registered \cup {p},
               [type |-> "message", id |-> save[p].id, status |-> save[p].status])
    /\ missed' = missed \cup ({q \in Pages : page[q].pc \in {"register", "replay"}} \X {save[p].id})
    /\ save' = [save EXCEPT ![p] = [save[p] EXCEPT !.pc = "tell"]]
    /\ UNCHANGED <<row, readerVars, late>>

\* Mutant: the status is worked out again, but not written.
TellAnew(p) ==
    /\ save[p].pc = "tell"
    /\ Announce([id |-> save[p].id, status |-> StatusNow])
    /\ save' = [save EXCEPT ![p] = Idle]
    /\ UNCHANGED <<row, readerVars, late>>

\* notify_message_status, with the status the handler has in hand.
Tell(p) ==
    /\ save[p].pc = "tell"
    /\ Announce([id |-> save[p].id, status |-> save[p].status])
    /\ save' = [save EXCEPT ![p] = Idle]
    /\ UNCHANGED <<row, readerVars, late>>

-----------------------------------------------------------------------------
PageStep(p) == Register(p) \/ SendHistory(p) \/ Render(p)
SaveStep(p) == Commit(p) \/ Refresh(p) \/ SendCopies(p) \/ Tell(p)
LineStep(l) == MarkDelivered(l) \/ RefreshForLine(l) \/ TellForLine(l)
VisitStep(v) == RefreshForVisit(v) \/ TellForVisit(v) \/ RegisterVisit(v)

StatusNext ==
    \/ \E p \in Pages : ReadHistory(p) \/ PageStep(p) \/ Check(p) \/ SaveStep(p)
    \/ \E l \in Lines : Connect(l) \/ Disconnect(l) \/ LineStep(l)
    \/ \E v \in Visits : MarkRead(v) \/ VisitStep(v) \/ EndVisit(v)
    \/ RunLoop

\* Coroutines and callbacks that are ready run in the end.
Fairness ==
    /\ \A p \in Pages : WF_vars(PageStep(p)) /\ WF_vars(SaveStep(p))
    /\ \A l \in Lines : WF_vars(LineStep(l))
    /\ \A v \in Visits : WF_vars(VisitStep(v))
    /\ WF_vars(RunLoop)

StatusSpec == StatusInit /\ [][StatusNext]_vars /\ Fairness
-----------------------------------------------------------------------------
(* What the marks beside a message mean.                                   *)

\* On one page a message never goes back from read to delivered or sent, although its
\* announcements come from several handlers in no order, and before or after the message
\* itself (updateMessageStatus, renderMessage).
StatusNeverGoesBack == [][\A p \in Pages, i \in Ids : page'[p].shown[i] >= page[p].shown[i]]_vars

\* A page never claims more than the server knows: no event is ahead of its commit.
ShownIsTrue ==
    \A p \in Pages, i \in Ids :
        page[p].shown[i] # Unknown => i \in DOMAIN row /\ page[p].shown[i] <= row[i]

\* As soon as the handler of an open user socket of the reader has done its work, no message
\* is left undelivered, but one whose saving began before the socket was connected and ended
\* after its query (websocket_user, websocket_chat).
DeliveredWhenOnline ==
    (\E l \in connected \cap ReadersLines : line[l].pc = "open") =>
        \A i \in DOMAIN row : row[i] = Sent => "line" \in late[i]

\* While the reader has the chat open, every message is read, but one whose saving and his
\* opening overlapped, or that was sent when he had no user socket left beside it
\* (websocket_chat).
ReadWhenOpen ==
    has_chat_user =>
        \A i \in DOMAIN row : row[i] < Read => late[i] \cap {"visit", "offline"} # {}

\* When all is quiet, the dot beside the reader's name is right, unless the last event was
\* about somebody else, or he was back before his absence was announced (setUserStatus,
\* broadcast_user_status).
PresenceSettles ==
    \A p \in Pages :
        (loop = <<>> /\ page[p].dot[1] = "reader" /\ ~ raced) =>
            page[p].dot[2] = is_online

\* In the end every open page shows of every message what the server knows, and goes on to
\* do so, but for what was announced or copied to the others while the page was connecting,
\* or to itself before its history (notify_message_status, renderMessage).
StatusReachesPages ==
    \A p \in Pages, i \in Ids :
        <>[](page[p].pc # "none" /\ i \in DOMAIN row =>
                page[p].shown[i] = row[i] \/ <<p, i>> \in missed)
=============================================================================
