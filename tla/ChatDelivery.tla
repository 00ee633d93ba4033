---------------------------- MODULE ChatDelivery ----------------------------
(***************************************************************************)
(* One direct chat on the server, and the pages that have it open.         *)
(*                                                                         *)
(* Each page of the chat holds a websocket; websocket_chat (messages.py)   *)
(* handles it.  The handler reads the history in several queries, then     *)
(* registers the socket with the ConnectionManager                         *)
(* (websocket_manager.py), sends the history, and from then on saves and   *)
(* fans out what the page sends.  Handlers are coroutines: each await is a *)
(* point where the others run, so a handler is modelled as the steps       *)
(* between its awaits.  The page (openChatSocket in messages.js) keeps     *)
(* messages back until the history is complete, then processes them one by *)
(* one.                                                                    *)
(*                                                                         *)
(* A message's content is abstracted to its form: "own" is the payload     *)
(* that was encrypted for the reader's device, "raw" the envelope as the   *)
(* sender posted it, which only legacy clients could read.  A sender has   *)
(* payloads for the devices whose bundles its page has loaded; another     *)
(* device gets the envelope.                                               *)
(***************************************************************************)
EXTENDS Naturals, Sequences, FiniteSets

CONSTANTS
    Users,        \* the two participants
    Sockets,      \* websockets opened in the course of a behaviour
    Devices,      \* active devices of the participants
    DeviceOf,     \* the device of each socket's page
    UserOf,       \* the user of each device
    MaxMessages   \* bound: messages saved

ASSUME DeliveryAssumption ==
    /\ DeviceOf \in [Sockets -> Devices]
    /\ UserOf \in [Devices -> Users]
    /\ MaxMessages \in Nat

VARIABLES
    messages,   \* rows of the messages table, in the order of their ids
    registry,   \* the ConnectionManager's three lists of the chat's sockets
    handler,    \* each socket's handler: where it waits, what it has read
    link,       \* each socket as its page sees it: "none", "open", "closed"
    page        \* each socket's page: events on their way, messages kept back,
                \* messages being processed, ids rendered, messages on screen

vars == <<messages, registry, handler, link, page>>

SenderOf(s) == UserOf[DeviceOf[s]]

Ids == 1..MaxMessages
Forms == {"own", "raw"}
Copies == Ids \X Forms
Lists == {"chat", "user", "device"}

\* named: the devices that the posted content has a payload for. History: the socket the
\* message came by, the sockets registered when it went out to their device, and whether it
\* has gone out to all devices.
MessageRows == [from : Sockets, named : SUBSET Devices, read : BOOLEAN, deleted : BOOLEAN,
                payloads : BOOLEAN, told : SUBSET Sockets, out : BOOLEAN]

Events == [type : {"message"}, id : Ids, form : Forms]
             \cup [type : {"deleted"}, id : Ids]
             \cup [type : {"complete"}]

\* between is history: what had gone out by the registration and is not in the history.
NoHandler == [pc |-> "none", rows |-> {}, history |-> {}, upto |-> 0, between |-> {},
              read |-> FALSE, id |-> 0, left |-> {}]

BlankPage == [inbox |-> <<>>, complete |-> FALSE, kept |-> {}, queue |-> {},
              rendered |-> {}, shown |-> {}]

DeliveryTypeOK ==
    /\ messages \in Seq(MessageRows) /\ Len(messages) <= MaxMessages
    /\ registry \in [Lists -> SUBSET Sockets]
    /\ handler \in [Sockets ->
          [pc : {"none", "rows", "query", "register", "history", "live", "commit",
                 "payloads", "echo", "fanout", "ended"},
           rows : SUBSET Ids, history : SUBSET Copies, upto : 0..MaxMessages,
           between : SUBSET Ids, read : BOOLEAN, id : 0..MaxMessages,
           left : SUBSET Devices]]
    /\ link \in [Sockets -> {"none", "open", "closed"}]
    /\ page \in [Sockets ->
          [inbox : Seq(Events), complete : BOOLEAN, kept : SUBSET Copies,
           queue : SUBSET Copies, rendered : SUBSET Ids, shown : SUBSET Copies]]

-----------------------------------------------------------------------------
(* The ConnectionManager.                                                  *)

connect_chat(s) == registry' = [l \in Lists |-> registry[l] \cup {s}]

\* Fault: the whole entry of the socket's device is dropped.
disconnect_chat_device(s, lists) ==
    registry' = [l \in Lists |->
                   CASE l \notin lists -> registry[l]
                     [] l = "device" -> {x \in registry[l] : DeviceOf[x] # DeviceOf[s]}
                     [] OTHER -> registry[l] \ {s}]

\* disconnect_chat with a user and a device; the callers that leave one of them out
\* leave that list alone.
disconnect_chat(s, lists) ==
    registry' = [l \in Lists |-> IF l \in lists THEN registry[l] \ {s} ELSE registry[l]]

has_chat_user(u) == \E s \in registry["user"] : SenderOf(s) = u

\* What a send leaves in the inboxes of the sockets in to: a closed one gets nothing.
Deliver(to, events) ==
    page' = [s \in Sockets |->
                IF s \in to /\ link[s] = "open"
                THEN [page[s] EXCEPT !.inbox = @ \o events] ELSE page[s]]

-----------------------------------------------------------------------------
(* The page.                                                               *)

\* The page opens the chat: a new socket and an empty screen.
Open(s) ==
    /\ link[s] = "none"
    /\ link' = [link EXCEPT ![s] = "open"]
    /\ UNCHANGED <<messages, registry, handler, page>>

\* The page goes away, or its connection breaks.
Close(s) ==
    /\ link[s] = "open"
    /\ link' = [link EXCEPT ![s] = "closed"]
    /\ page' = [page EXCEPT ![s] = BlankPage]
    /\ UNCHANGED <<messages, registry, handler>>

\* Fault: what was kept back is not processed when the history is complete.
ForgetKept(p) == [p EXCEPT !.complete = TRUE, !.kept = {}]

\* onHistoryComplete: what was kept back goes to the processing queue.
ReleaseKept(p) == [p EXCEPT !.complete = TRUE, !.kept = {}, !.queue = @ \cup p.kept]

(***************************************************************************)
(* onmessage.  A message waits until the history is complete; a deletion   *)
(* is applied at once, to what is on screen.                               *)
(***************************************************************************)
Receive(s) ==
    /\ link[s] = "open" /\ page[s].inbox # <<>>
    /\ LET e == Head(page[s].inbox)
           p == [page[s] EXCEPT !.inbox = Tail(@)]
       IN  \/ /\ e.type = "message" /\ ~ p.complete
              /\ page' = [page EXCEPT ![s] = [p EXCEPT !.kept = @ \cup {<<e.id, e.form>>}]]
           \/ /\ e.type = "message" /\ p.complete
              /\ page' = [page EXCEPT ![s] = [p EXCEPT !.queue = @ \cup {<<e.id, e.form>>}]]
           \/ /\ e.type = "complete"
              /\ page' = [page EXCEPT ![s] = ReleaseKept(p)]
           \/ /\ e.type = "deleted"
              /\ page' = [page EXCEPT ![s] =
                             [p EXCEPT !.shown = {c \in @ : c[1] # e.id}]]
    /\ UNCHANGED <<messages, registry, handler, link>>

(***************************************************************************)
(* processMessage: the next queued message is shown unless its id has been *)
(* rendered before.  The queue is kept in the order of ids: history and    *)
(* kept-back messages are sorted before they are queued.                   *)
(***************************************************************************)
Render(s, c) ==
    /\ link[s] = "open"
    /\ c \in page[s].queue /\ \A x \in page[s].queue : c[1] <= x[1]
    /\ page' = [page EXCEPT
          ![s].queue = @ \ {c},
          ![s].rendered = @ \cup {c[1]},
          ![s].shown = IF c[1] \in page[s].rendered THEN @ ELSE @ \cup {c}]
    /\ UNCHANGED <<messages, registry, handler, link>>

-----------------------------------------------------------------------------
(* websocket_chat until the socket is live.                                *)

At(s, pc) == handler[s].pc = pc

HasPayload(i, d) == messages[i].payloads /\ d \in messages[i].named

\* Message i has been saved and has yet to go out to device d.
Owed(i, d) ==
    \E x \in Sockets : /\ handler[x].id = i
                       /\ \/ handler[x].pc \in {"payloads", "echo"} /\ DeviceOf[x] # d
                          \/ handler[x].pc = "fanout" /\ d \in handler[x].left

\* mark_chat_messages_read: the other participant's messages are read, seen or not.
MarkRead(s) ==
    /\ link[s] # "none" /\ At(s, "none")
    /\ messages' = [i \in DOMAIN messages |->
                      IF SenderOf(messages[i].from) # SenderOf(s)
                      THEN [messages[i] EXCEPT !.read = TRUE] ELSE messages[i]]
    /\ handler' = [handler EXCEPT ![s].pc = "rows"]
    /\ UNCHANGED <<registry, link, page>>

\* load_device_payload_map: the messages that have a payload for this device by now; a row
\* that persist_message_device_payloads filled with the envelope is none.
LoadPayloads(s) ==
    /\ At(s, "rows")
    /\ handler' = [handler EXCEPT ![s].pc = "query",
                      ![s].rows = {i \in DOMAIN messages : HasPayload(i, DeviceOf[s])}]
    /\ UNCHANGED <<messages, registry, link, page>>

\* Fault: a message without a payload for the device is sent with no content.
FormOrNone(rows, i) == IF i \in rows THEN "own" ELSE "none"

\* The payload of the device, or else the content of the message row.
FormIn(rows, i) == IF i \in rows THEN "own" ELSE "raw"

\* The history: every visible message, in the form the payload map gives it.
QueryHistory(s) ==
    /\ At(s, "query")
    /\ handler' = [handler EXCEPT ![s].pc = "register", ![s].upto = Len(messages),
          ![s].history = {<<i, FormIn(handler[s].rows, i)>> :
                             i \in {j \in DOMAIN messages : ~ messages[j].deleted}}]
    /\ UNCHANGED <<messages, registry, link, page>>

\* manager.connect_chat: the socket is accepted and entered in the three lists.
Register(s) ==
    /\ At(s, "register") /\ link[s] = "open"
    /\ connect_chat(s)
    /\ handler' = [handler EXCEPT ![s].pc = "history",
          ![s].between = {i \in DOMAIN messages :
                             i > handler[s].upto /\ ~ Owed(i, DeviceOf[s])}]
    /\ UNCHANGED <<messages, link, page>>

\* The page is gone before its socket is accepted: the handler fails.
AcceptFails(s) ==
    /\ At(s, "register") /\ link[s] = "closed"
    /\ handler' = [handler EXCEPT ![s] = [NoHandler EXCEPT !.pc = "ended"]]
    /\ UNCHANGED <<messages, registry, link, page>>

MessageEvent(c) == [type |-> "message", id |-> c[1], form |-> c[2]]

\* Where a copy comes in the history, which is sorted by id and has one copy of each.
Place(history, c) == Cardinality({d \in history : d[1] <= c[1]})

EventsFor(history) ==
    [k \in 1..Cardinality(history) |->
        MessageEvent(CHOOSE c \in history : Place(history, c) = k)]

\* The history and history_complete are sent.
SendHistory(s) ==
    /\ At(s, "history") /\ link[s] = "open"
    /\ Deliver({s}, Append(EventsFor(handler[s].history), [type |-> "complete"]))
    /\ handler' = [handler EXCEPT ![s].pc = "live"]
    /\ UNCHANGED <<messages, registry, link>>

\* A send of the history raises outside the try block: the socket stays registered.
SendHistoryFails(s) ==
    /\ At(s, "history") /\ link[s] = "closed"
    /\ handler' = [handler EXCEPT ![s] = [NoHandler EXCEPT !.pc = "ended"]]
    /\ UNCHANGED <<messages, registry, link, page>>

-----------------------------------------------------------------------------
(* websocket_chat on a live socket.                                        *)

(***************************************************************************)
(* A message has come in; read_at is decided before the message is saved:  *)
(* the other participant must have the chat open and be online.  Who is    *)
(* online is told by the user sockets, which are not modelled: either can  *)
(* be the case.                                                            *)
(***************************************************************************)
Stamp(s, online) ==
    /\ At(s, "live") /\ link[s] = "open"
    /\ Len(messages) < MaxMessages
    /\ handler' = [handler EXCEPT ![s].pc = "commit",
          ![s].read = online /\ \E u \in Users \ {SenderOf(s)} : has_chat_user(u)]
    /\ UNCHANGED <<messages, registry, link, page>>

\* The message replies to one that was deleted for all meanwhile:
\* resolve_reply_target_id raises, the handler ends and the socket stays registered.
ReplyToDeleted(s) ==
    /\ At(s, "live") /\ link[s] = "open"
    /\ \E i \in DOMAIN messages : messages[i].deleted
    /\ handler' = [handler EXCEPT ![s] = [NoHandler EXCEPT !.pc = "ended"]]
    /\ link' = [link EXCEPT ![s] = "closed"]
    /\ page' = [page EXCEPT ![s] = BlankPage]
    /\ UNCHANGED <<messages, registry>>

\* The message is committed. The page encrypted it for the devices it knew, itself among
\* them (encryptMessageForDevices), or without bundles of any for none.
Commit(s) ==
    /\ At(s, "commit")
    /\ Len(messages) < MaxMessages
    /\ \E named \in SUBSET Devices :
          /\ named = {} \/ DeviceOf[s] \in named
          /\ messages' = Append(messages, [from |-> s, named |-> named,
                                           read |-> handler[s].read, deleted |-> FALSE,
                                           payloads |-> FALSE, told |-> {}, out |-> FALSE])
    /\ handler' = [handler EXCEPT ![s].pc = "payloads", ![s].id = Len(messages) + 1]
    /\ UNCHANGED <<registry, link, page>>

\* persist_message_device_payloads, in a transaction of its own: each active device gets
\* its payload, or the envelope.
PersistPayloads(s) ==
    /\ At(s, "payloads")
    /\ messages' = [messages EXCEPT ![handler[s].id].payloads = TRUE]
    /\ handler' = [handler EXCEPT ![s].pc = "echo"]
    /\ UNCHANGED <<registry, link, page>>

\* The event for a device, with the payload its map has for it.
LiveEvent(i, d) ==
    [type |-> "message", id |-> i, form |-> IF HasPayload(i, d) THEN "own" ELSE "raw"]

\* The sender's own socket; if it has closed, a failed send unregisters it.
Echo(s) ==
    /\ At(s, "echo")
    /\ LET i == handler[s].id
       IN  /\ messages' = [messages EXCEPT ![i].told = @ \cup ({s} \cap registry["device"])]
           /\ Deliver({s}, <<LiveEvent(i, DeviceOf[s])>>)
    /\ \/ UNCHANGED registry
       \/ link[s] = "closed" /\ disconnect_chat(s, Lists)
    /\ handler' = [handler EXCEPT ![s].pc = "fanout", ![s].left = Devices \ {DeviceOf[s]}]
    /\ UNCHANGED link

\* Fault: the event is built from the message row alone.
FanOutContent(s, d) == [LiveEvent(handler[s].id, d) EXCEPT !.form = "raw"]

\* The event sent to a device.
FanOutEvent(s, d) == LiveEvent(handler[s].id, d)

(***************************************************************************)
(* notify_chat_device for one more device: every socket in its list.  A    *)
(* send to a closed socket is either lost or fails; a failure removes the  *)
(* socket from two of the three lists.                                     *)
(***************************************************************************)
FanOut(s, d) ==
    /\ At(s, "fanout") /\ d \in handler[s].left
    /\ LET i == handler[s].id
           to == {x \in registry["device"] : DeviceOf[x] = d}
       IN  /\ messages' = [messages EXCEPT ![i].told = @ \cup to]
           /\ Deliver(to, <<FanOutEvent(s, d)>>)
           /\ \E failed \in SUBSET {x \in to : link[x] = "closed"} :
                 registry' = [registry EXCEPT !["chat"] = @ \ failed,
                                              !["device"] = @ \ failed]
    /\ handler' = [handler EXCEPT ![s].left = @ \ {d}]
    /\ UNCHANGED link

\* Every device has been notified: the handler receives again.
FanOutEnds(s) ==
    /\ At(s, "fanout") /\ handler[s].left = {}
    /\ messages' = [messages EXCEPT ![handler[s].id].out = TRUE]
    /\ handler' = [handler EXCEPT ![s].pc = "live", ![s].id = 0]
    /\ UNCHANGED <<registry, link, page>>

\* receive_text raises WebSocketDisconnect: the socket leaves every list.
Disconnect(s) ==
    /\ At(s, "live") /\ link[s] = "closed"
    /\ disconnect_chat(s, Lists)
    /\ handler' = [handler EXCEPT ![s] = [NoHandler EXCEPT !.pc = "ended"]]
    /\ UNCHANGED <<messages, link, page>>

\* delete_message_for_all by the author, from a page that shows the message; every
\* registered socket of the participants is told.
DeleteForAll(s, i) ==
    /\ link[s] = "open" /\ i \in page[s].rendered
    /\ SenderOf(messages[i].from) = SenderOf(s) /\ ~ messages[i].deleted
    /\ messages' = [messages EXCEPT ![i].deleted = TRUE]
    /\ Deliver(registry["user"], <<[type |-> "deleted", id |-> i]>>)
    /\ UNCHANGED <<registry, handler, link>>

-----------------------------------------------------------------------------
DeliveryInit ==
    /\ messages = <<>>
    /\ registry = [l \in Lists |-> {}]
    /\ handler = [s \in Sockets |-> NoHandler]
    /\ link = [s \in Sockets |-> "none"]
    /\ page = [s \in Sockets |-> BlankPage]

PageStep(s) == Receive(s) \/ \E c \in Copies : Render(s, c)

ConnectStep(s) ==
    \/ MarkRead(s) \/ LoadPayloads(s) \/ QueryHistory(s)
    \/ Register(s) \/ AcceptFails(s) \/ SendHistory(s) \/ SendHistoryFails(s)

SendStep(s) ==
    \/ Commit(s) \/ PersistPayloads(s) \/ Echo(s)
    \/ \E d \in Devices : FanOut(s, d)
    \/ FanOutEnds(s) \/ Disconnect(s)

UserStep(s) ==
    \/ Open(s) \/ Close(s) \/ ReplyToDeleted(s)
    \/ \E online \in BOOLEAN : Stamp(s, online)
    \/ \E i \in DOMAIN messages : DeleteForAll(s, i)

DeliveryNext ==
    \E s \in Sockets : PageStep(s) \/ ConnectStep(s) \/ SendStep(s) \/ UserStep(s)

\* The event loop runs every handler that can go on, and a browser its page's callbacks;
\* what users do is not owed to anyone.
Fairness ==
    \A s \in Sockets : WF_vars(PageStep(s)) /\ WF_vars(ConnectStep(s)) /\ WF_vars(SendStep(s))

DeliverySpec == DeliveryInit /\ [][DeliveryNext]_vars /\ Fairness

-----------------------------------------------------------------------------
\* The page has nothing left to do and its handler is waiting for its next message.
Settled(s) ==
    /\ link[s] = "open" /\ At(s, "live")
    /\ page[s].inbox = <<>> /\ page[s].kept = {} /\ page[s].queue = {}

Shows(s, i) == \E f \in Forms : <<i, f>> \in page[s].shown

\* Messages that have gone out and are still there.
Present == {i \in DOMAIN messages : messages[i].out /\ ~ messages[i].deleted}

SentBeside(s, i) ==
    /\ i > handler[s].upto
    /\ messages[i].from # s /\ DeviceOf[messages[i].from] = DeviceOf[s]

(***************************************************************************)
(* A settled page shows every message that has gone out, but what had gone *)
(* out between the query of its history and its registration, and what     *)
(* another page of its own device sent after that query, which             *)
(* websocket_chat does not send to it (messages.py:1428).  What is in the  *)
(* history and live, too, is not lost, whichever comes first; what arrives *)
(* before the history is complete is kept.                                 *)
(***************************************************************************)
NothingElseIsMissed ==
    \A s \in Sockets : Settled(s) =>
        \A i \in Present :
            Shows(s, i) \/ i \in handler[s].between \/ SentBeside(s, i)

(***************************************************************************)
(* A page shows the raw envelope of a message only if the sender's page    *)
(* had no payload for its device, or if the page's handler had read the    *)
(* payloads for the history before they were saved: a device that is named *)
(* never gets the envelope live.                                           *)
(***************************************************************************)
RawHasCause ==
    \A s \in Sockets : \A i \in Ids :
        <<i, "raw">> \in page[s].shown =>
            \/ DeviceOf[s] \notin messages[i].named
            \/ i \in 1..handler[s].upto /\ i \notin handler[s].rows

(***************************************************************************)
(* As long as a page's socket is open it is in all three lists or in none: *)
(* the failures of sends to other sockets never remove it.                 *)
(***************************************************************************)
OpenSocketsFullyListed ==
    \A s \in Sockets : link[s] = "open" =>
        \A k, l \in Lists : s \in registry[k] <=> s \in registry[l]

(***************************************************************************)
(* A message saved while a socket of another device is registered is       *)
(* shown on its page in the end, if the page stays and the message is not  *)
(* deleted, although the sender may leave as soon as it is saved.          *)
(***************************************************************************)
SavedMessagesArrive ==
    \A s \in Sockets : \A i \in Ids :
        s \in registry["device"] /\ Owed(i, DeviceOf[s])
            ~> \/ Shows(s, i) \/ link[s] = "closed"
               \/ i \in DOMAIN messages /\ messages[i].deleted

(***************************************************************************)
(* Each message arrives live or with the history: a settled page shows     *)
(* every message of the other participant that has gone out.               *)
(***************************************************************************)
LiveOrHistory ==
    \A s \in Sockets : Settled(s) =>
        \A i \in Present : SenderOf(messages[i].from) # SenderOf(s) => Shows(s, i)

(***************************************************************************)
(* A message is saved as read only if the recipient has the chat open: a   *)
(* handler of one of his sockets is running when read_at is decided.       *)
(***************************************************************************)
ReadOnlyByOpenPage ==
    [][\A s \in Sockets :
          At(s, "live") /\ At(s, "commit")' /\ handler'[s].read =>
             \E x \in Sockets : /\ SenderOf(x) # SenderOf(s)
                                /\ handler[x].pc \notin {"none", "ended"}]_vars
=============================================================================
