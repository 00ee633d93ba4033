----------------------------- MODULE GroupKeys -----------------------------
(***************************************************************************)
(* The members of one group chat and the sender keys of their pages.       *)
(*                                                                         *)
(* On the server (messages.py), a request that changes the group reads the *)
(* chat row, reads the participant rows, commits, and announces the change *)
(* on the websockets; requests interleave between these statements.  In a  *)
(* page (messages.js), the events, the replies to the page's own requests  *)
(* and the loading of keys are handlers that interleave at their awaits: a *)
(* handler is a task, the list of the steps it still has to take.  A call  *)
(* of encryptGroupMessage (chatCrypto.js) reads the sender state that is   *)
(* stored for the epoch it was given and saves the next one at its end.    *)
(*                                                                         *)
(* A sender chain is a number; its state is the counter of the next        *)
(* message.  Every message carries the seed of its counter, from which all *)
(* later seeds of the chain follow, so whoever was sent one message of a   *)
(* chain can read the later ones.                                          *)
(***************************************************************************)
EXTENDS Naturals, Sequences, FiniteSets

CONSTANTS
    Users,        \* the group's possible members, one device each
    Pages,        \* the users whose pages are followed
    Founders,     \* bound: the users who may have founded the group
    ChangeKinds,  \* bound: what is asked of the server
    TaskKinds,    \* bound: the handlers that ever run; the others' events never come
    MaxChanges,   \* bound: requests that change the group
    MaxCalls,     \* bound: messages each page sends
    MaxLoads,     \* bound: times each page is loaded
    MaxRunning    \* bound: handlers of a page that wait for something at once

AllChangeKinds == {"add", "remove", "meta"}
AllTaskKinds == {"load", "refresh", "chatUpdated", "userUpdated", "chatMeta", "userMeta",
                 "metadataSaved", "userAdded", "memberRemoved", "chatDeleted", "userDeleted",
                 "hasLeft"}

ASSUME GroupAssumption ==
    /\ ChangeKinds \subseteq AllChangeKinds
    /\ TaskKinds \subseteq AllTaskKinds
    /\ Pages \subseteq Users
    /\ Founders \subseteq Users
    /\ MaxChanges \in Nat /\ MaxCalls \in Nat /\ MaxLoads \in Nat /\ MaxRunning \in Nat

VARIABLES
    group,      \* the chat row and the participant rows
    changes,    \* the requests that change the group
    page,       \* the page of each user: what it knows and its running handlers
    store,      \* the sender states in each page's IndexedDB, by epoch
    calls,      \* the calls of encryptGroupMessage of each page
    messages,   \* the messages the server has accepted
    onStaleRow  \* history: a change of members was committed on a chat row that
                \* had changed since it was read

vars == <<group, changes, page, store, calls, messages, onStaleRow>>

Changes == 1..MaxChanges
Calls == 1..MaxCalls
Epochs == 1..(MaxChanges + 1)
Chains == 1..MaxCalls

NoState == [chain |-> 0, counter |-> 0]
SenderStates == [chain : 0..MaxCalls, counter : 0..MaxCalls]

\* History: leftBy, the change that last took each user out of the group; emptied, nobody
\* was a member at some time; orphaned, an heir had left when he was made the creator.
Groups == [members : SUBSET Users, founder : Users, creator : Users, epoch : Epochs,
           leftBy : [Users -> 0..MaxChanges], emptied : BOOLEAN, orphaned : BOOLEAN]

\* get_participant_user_ids: without any participant row, the chat's founder (user1_id).
Participants(g) == IF g.members = {} THEN {g.founder} ELSE g.members

ChangeStates == [pc : {"none", "check", "commit", "handover", "appoint", "announce", "done"},
                 by : Users, kind : AllChangeKinds, user : Users, epoch : 0..(MaxChanges + 1),
                 creator : Users, participants : SUBSET Users]

\* What each handler of a page does, one step per await.
Script ==
    [load          |-> <<"fetchKeys", "applyKeys", "clear", "listen">>,
     refresh       |-> <<"fetchKeys", "applyKeys">>,
     chatUpdated   |-> <<"clear", "apply", "fetch", "settle">>,
     userUpdated   |-> <<"fetch", "settle", "clear", "apply">>,
     chatMeta      |-> <<"apply", "fetch", "settle">>,
     userMeta      |-> <<"fetch", "settle", "apply">>,
     metadataSaved |-> <<"apply", "fetch", "settle">>,
     userAdded     |-> <<"append", "clear", "apply", "fetch", "settle">>,
     memberRemoved |-> <<"clear", "fetch", "settle", "fetch", "settle">>,
     chatDeleted   |-> <<"clear", "fetch", "settle", "leave">>,
     userDeleted   |-> <<"clear", "fetch", "settle", "leave">>,
     hasLeft       |-> <<"leave">>]

\* `change` is the request that caused the task, with the epoch and user of its event;
\* `got` and `bundles` are what the task's last query returned (0: no access).
Tasks == [kind : AllTaskKinds, left : 0..5, change : 0..MaxChanges, user : Users,
          epoch : 0..(MaxChanges + 1), got : 0..(MaxChanges + 1), bundles : SUBSET Users]

\* History: `handled`, the changes of which some handler has run to its end (removals);
\* `straddled`, a call had a state in hand when the store was last cleared; `wentBack`,
\* the page replaced its epoch by an older one; `refused`, it removed a member and was
\* refused the new epoch, being out of the group itself; `crossed`, two calls ran at once.
PageStates == [open : BOOLEAN, listening : BOOLEAN, loads : 0..MaxLoads,
               epoch : 0..(MaxChanges + 1), bundles : SUBSET Users, tasks : SUBSET Tasks,
               chains : 0..MaxCalls, handled : SUBSET Changes, straddled : BOOLEAN,
               wentBack : BOOLEAN, refused : BOOLEAN, crossed : BOOLEAN]

\* History: `exposed` are the page's chains that, when the call began, had reached a user
\* whose removal the page had handled; `weak`, both defences of FreshAfterRemoval were
\* down when the state was read.
CallStates == [pc : {"none", "read", "create", "encrypt", "send", "done"},
               epoch : 0..(MaxChanges + 1), bundles : SUBSET Users, st : SenderStates,
               exposed : SUBSET Chains, weak : BOOLEAN]

Messages == [sender : Pages, st : SenderStates, readers : SUBSET Users,
             exposed : SUBSET Chains, weak : BOOLEAN]

GroupTypeOK ==
    /\ group \in Groups
    /\ changes \in [Changes -> ChangeStates]
    /\ page \in [Pages -> PageStates]
    /\ store \in [Pages -> [Epochs -> SenderStates]]
    /\ calls \in [Pages -> [Calls -> CallStates]]
    /\ messages \in Seq(Messages)
    /\ onStaleRow \in BOOLEAN

-----------------------------------------------------------------------------
ClosedPage == [open |-> FALSE, listening |-> FALSE, loads |-> 0, epoch |-> 0,
               bundles |-> {}, tasks |-> {}, chains |-> 0, handled |-> {},
               straddled |-> FALSE, wentBack |-> FALSE, refused |-> FALSE, crossed |-> FALSE]

\* A request that is over; which user its fields name does not matter any more.
NoChange(u) == [pc |-> "done", by |-> u, kind |-> "meta", user |-> u, epoch |-> 0,
                creator |-> u, participants |-> {}]

NoCall == [pc |-> "none", epoch |-> 0, bundles |-> {}, st |-> NoState, exposed |-> {},
           weak |-> FALSE]

\* start_group_chat_json: the founder and at least one other user, epoch 1.
GroupInit ==
    /\ \E founder \in Founders, others \in SUBSET Users :
          /\ others \ {founder} # {}
          /\ group = [members |-> others \cup {founder}, founder |-> founder,
                      creator |-> founder, epoch |-> 1, leftBy |-> [u \in Users |-> 0],
                      emptied |-> FALSE, orphaned |-> FALSE]
    /\ changes = [c \in Changes |-> [NoChange(group.founder) EXCEPT !.pc = "none"]]
    /\ page = [p \in Pages |-> ClosedPage]
    /\ store = [p \in Pages |-> [e \in Epochs |-> NoState]]
    /\ calls = [p \in Pages |-> [c \in Calls |-> NoCall]]
    /\ messages = <<>>
    /\ onStaleRow = FALSE

-----------------------------------------------------------------------------
(* Requests that change the group. *)

\* The request reads the chat row.
ChangeStarts(c) ==
    /\ changes[c].pc = "none"
    /\ \A d \in 1..(c - 1) : changes[d].pc # "none"
    /\ changes' = [changes EXCEPT
                      ![c] = [changes[c] EXCEPT !.pc = "check", !.epoch = group.epoch,
                                                !.creator = group.creator]]
    /\ UNCHANGED <<group, page, store, calls, messages, onStaleRow>>

\* What update_group_metadata, add_group_participant and remove_group_participant demand of
\* the rows they have read.
Permitted(creator, by, kind, user) ==
    /\ by \in Participants(group)
    /\ \/ kind = "meta" /\ creator = by
       \/ kind = "add" /\ creator = by /\ user \notin Participants(group)
       \/ /\ kind = "remove" /\ user \in group.members
          /\ by \in {creator, user}
          /\ creator = user => by = user

\* The request reads the participants.  A request that is refused changes nothing; it is
\* left out, and what a request asks for is chosen only here, where it first matters.
ChangeChecks(c, by, kind, user) ==
    /\ changes[c].pc = "check"
    /\ Permitted(changes[c].creator, by, kind, user)
    /\ changes' = [changes EXCEPT
                      ![c] = [changes[c] EXCEPT
                                 !.pc = "commit", !.by = by, !.kind = kind, !.user = user,
                                 !.participants = IF kind = "meta" THEN Participants(group)
                                                  ELSE {}]]
    /\ UNCHANGED <<group, page, store, calls, messages, onStaleRow>>

(***************************************************************************)
(* One transaction writes the participant row and the epoch that was read, *)
(* incremented.  A second row for one user violates the unique constraint; *)
(* deleting a row that is gone already is no error.                        *)
(***************************************************************************)
ChangeCommits(c) ==
    LET ch == changes[c]
        fails == ch.kind = "add" /\ ch.user \in group.members
        leaves == ch.kind = "remove" /\ ch.by = ch.user /\ ch.creator = ch.user
    IN  /\ ch.pc = "commit"
        /\ changes' = [changes EXCEPT ![c] =
                          IF fails THEN NoChange(group.founder)
                          ELSE [ch EXCEPT !.pc = IF leaves THEN "handover" ELSE "announce",
                                          !.epoch = IF ch.kind = "meta" THEN ch.epoch
                                                    ELSE ch.epoch + 1]]
        /\ onStaleRow' = \/ onStaleRow
                         \/ /\ ~ fails /\ ch.kind # "meta"
                            /\ ch.epoch # group.epoch \/ ch.creator # group.creator
        /\ \/ /\ fails \/ ch.kind = "meta"
              /\ UNCHANGED group
           \/ /\ ~ fails /\ ch.kind = "add"
              /\ group' = [group EXCEPT !.members = group.members \cup {ch.user},
                                        !.epoch = ch.epoch + 1]
           \/ /\ ch.kind = "remove"
              /\ group' = [group EXCEPT
                              !.members = group.members \ {ch.user}, !.epoch = ch.epoch + 1,
                              !.leftBy = [group.leftBy EXCEPT ![ch.user] = c],
                              !.emptied = group.emptied \/ group.members \subseteq {ch.user}]
        /\ UNCHANGED <<page, store, calls, messages>>

\* Fault: the creator leaves and stays the creator.
ChangeKeepsCreator(c) ==
    /\ changes[c].pc = "handover"
    /\ changes' = [changes EXCEPT ![c].pc = "announce"]
    /\ UNCHANGED <<group, page, store, calls, messages, onStaleRow>>

\* The creator has left: the remaining participants are read, and one of them, if there is
\* any, is to become the creator.
ChangeHandsOver(c) ==
    /\ changes[c].pc = "handover"
    /\ \/ /\ group.members = {}
          /\ changes' = [changes EXCEPT ![c].pc = "announce"]
       \/ \E heir \in group.members :
             changes' = [changes EXCEPT
                            ![c] = [changes[c] EXCEPT !.pc = "appoint", !.creator = heir]]
    /\ UNCHANGED <<group, page, store, calls, messages, onStaleRow>>

\* The heir is written in a second commit, member or not by now.
ChangeAppoints(c) ==
    /\ changes[c].pc = "appoint"
    /\ group' = [group EXCEPT
                    !.creator = changes[c].creator,
                    !.orphaned = group.orphaned \/ changes[c].creator \notin group.members]
    /\ changes' = [changes EXCEPT ![c].pc = "announce"]
    /\ UNCHANGED <<page, store, calls, messages, onStaleRow>>

Task(kind, c) ==
    [kind |-> kind, left |-> Len(Script[kind]), change |-> c, user |-> changes[c].user,
     epoch |-> changes[c].epoch, got |-> 0, bundles |-> {}]

\* Fault: the participants other than the requester are not told.
ToldRequester(c, p) == p = changes[c].by

\* Whom the change is announced to: those who take part after it; update_group_metadata
\* keeps to the list it read.
Told(c, p) ==
    p \in IF changes[c].kind = "meta" THEN changes[c].participants ELSE Participants(group)

\* The handlers that the announcement and the reply start on a user's page.  A task that
\* has taken no step is an event still on its way; nothing makes it arrive.
Announced(c, p) ==
    LET meta == changes[c].kind = "meta"
        own == p = changes[c].by
        gone == changes[c].kind = "remove" /\ p = changes[c].user
        kinds == {k \in TaskKinds :
            \/ k = "chatUpdated" /\ ~ meta /\ Told(c, p) /\ page[p].listening
            \/ k = "userUpdated" /\ ~ meta /\ Told(c, p)
            \/ k = "chatMeta" /\ meta /\ Told(c, p) /\ page[p].listening
            \/ k = "userMeta" /\ meta /\ Told(c, p)
            \/ k = "chatDeleted" /\ gone /\ page[p].listening
            \/ k = "userDeleted" /\ gone
            \/ k = "userAdded" /\ own /\ changes[c].kind = "add"
            \/ k = "memberRemoved" /\ own /\ changes[c].kind = "remove" /\ ~ gone
            \/ k = "metadataSaved" /\ own /\ meta
            \/ k = "hasLeft" /\ own /\ gone}
    IN  {Task(k, c) : k \in kinds}

\* The change is announced on the chat and user sockets, a removed user's chat sockets are
\* revoked, and the request is answered.
ChangeAnnounces(c) ==
    /\ changes[c].pc = "announce"
    /\ changes' = [changes EXCEPT ![c] = NoChange(group.founder)]
    /\ page' = [p \in Pages |->
                  IF ~ page[p].open THEN page[p]
                  ELSE [page[p] EXCEPT
                          !.tasks = @ \cup Announced(c, p),
                          !.listening = @ /\ ~ (changes[c].kind = "remove" /\ p = changes[c].user)]]
    /\ UNCHANGED <<group, store, calls, messages, onStaleRow>>

-----------------------------------------------------------------------------
(* Pages. *)

LoadTask(kind) ==
    [kind |-> kind, left |-> Len(Script[kind]), change |-> 0, user |-> group.founder,
     epoch |-> 0, got |-> 0, bundles |-> {}]

\* The page is opened on the chat or loaded again; the calls of the page that was left
\* are gone with it.
LoadPage(p) ==
    /\ page[p].loads < MaxLoads
    /\ page' = [page EXCEPT ![p] =
                  [page[p] EXCEPT !.open = TRUE, !.listening = FALSE,
                                  !.loads = page[p].loads + 1, !.epoch = 0, !.bundles = {},
                                  !.tasks = {LoadTask("load")}]]
    /\ calls' = [calls EXCEPT ![p] = [c \in Calls |->
                    IF @[c].pc = "none" THEN NoCall ELSE [NoCall EXCEPT !.pc = "done"]]]
    /\ UNCHANGED <<group, changes, store, messages, onStaleRow>>

Running(t) == t.left < Len(Script[t.kind])

\* A task that has not begun waits while MaxRunning others run.
MayMove(p, t) ==
    Running(t) \/ Cardinality({r \in page[p].tasks : Running(r)}) < MaxRunning

NextStep(t) == Script[t.kind][Len(Script[t.kind]) - t.left + 1]

\* The page takes task t one step on, becoming t2; a handler that has no step left is done.
Moves(pg, t, t2) ==
    LET rest == [t2 EXCEPT !.left = @ - 1]
    IN  [pg EXCEPT !.tasks = (@ \ {t}) \cup (IF rest.left = 0 THEN {} ELSE {rest}),
                   !.handled = IF rest.left = 0 /\ group.leftBy[t.user] = t.change
                               THEN @ \cup ({t.change} \ {0}) ELSE @]

\* Fault: the page counts the changes itself.
CountsEpoch(pg, epoch) == [pg EXCEPT !.epoch = @ + 1, !.wentBack = @ \/ epoch < pg.epoch]

\* applyChatMetaPayload takes over whatever epoch it is given.
WithEpoch(pg, epoch) == [pg EXCEPT !.epoch = epoch, !.wentBack = @ \/ epoch < pg.epoch]

\* Fault: the sender states survive a change of members.
KeepSenderStates(p, t) ==
    /\ NextStep(t) = "clear"
    /\ page' = [page EXCEPT ![p] = [Moves(@, t, t) EXCEPT
                  !.straddled = \E c \in Calls : calls[p][c].pc = "encrypt"]]
    /\ UNCHANGED <<group, changes, store, calls, messages, onStaleRow>>

\* clearGroupSenderStatesForChat; in a load and after a deletion, clearLocalChatState.
ClearSenderStates(p, t) ==
    /\ NextStep(t) = "clear"
    /\ store' = [store EXCEPT ![p] = [e \in Epochs |-> NoState]]
    /\ page' = [page EXCEPT ![p] = [Moves(@, t, t) EXCEPT
                  !.straddled = \E c \in Calls : calls[p][c].pc = "encrypt"]]
    /\ UNCHANGED <<group, changes, calls, messages, onStaleRow>>

\* applyChatMetaPayload with the event's own epoch.
ApplyEvent(p, t) ==
    /\ NextStep(t) = "apply"
    /\ page' = [page EXCEPT ![p] = WithEpoch(Moves(@, t, t), t.epoch)]
    /\ UNCHANGED <<group, changes, store, calls, messages, onStaleRow>>

\* The server answers get_chat_details or get_keys, for participants only.
ServerAnswers(p, t) ==
    /\ NextStep(t) \in {"fetch", "fetchKeys"}
    /\ LET access == p \in Participants(group)
       IN  page' = [page EXCEPT ![p] = Moves(@, t,
                      [t EXCEPT !.got = IF access THEN group.epoch ELSE 0,
                                !.bundles = IF access /\ NextStep(t) = "fetchKeys"
                                            THEN Participants(group) \ {p} ELSE {}])]
    /\ UNCHANGED <<group, changes, store, calls, messages, onStaleRow>>

\* refreshCurrentChatDetails receives its answer.
SettleDetails(p, t) ==
    /\ NextStep(t) = "settle"
    /\ page' = [page EXCEPT ![p] =
          LET moved == Moves(page[p], t, [t EXCEPT !.got = 0])
          IN  IF t.got = 0
              THEN [moved EXCEPT !.refused = \/ moved.refused
                                             \/ t.kind = "memberRemoved" /\ t.left = 1]
              ELSE WithEpoch(moved, t.got)]
    /\ UNCHANGED <<group, changes, store, calls, messages, onStaleRow>>

\* applyChatKeys: the bundles are replaced and the epoch taken over.  Loading ends here
\* without access; otherwise a refresh of the keys follows, once.
ApplyKeys(p, t) ==
    /\ NextStep(t) = "applyKeys"
    /\ page' = [page EXCEPT ![p] =
          LET moved == Moves(page[p], t, [t EXCEPT !.got = 0, !.bundles = {}])
              next == IF t.kind = "load" THEN {"refresh"} \cap TaskKinds ELSE {}
          IN  IF t.got = 0
              THEN [page[p] EXCEPT !.tasks = page[p].tasks \ {t}]
              ELSE [WithEpoch(moved, t.got) EXCEPT
                       !.bundles = t.bundles,
                       !.tasks = moved.tasks \cup {LoadTask(kind) : kind \in next}]]
    /\ UNCHANGED <<group, changes, store, calls, messages, onStaleRow>>

\* websocket_chat registers the page's chat socket, and the history completes.
ListenOnChat(p, t) ==
    /\ NextStep(t) = "listen"
    /\ page' = [page EXCEPT ![p] = [Moves(@, t, t) EXCEPT
                  !.listening = p \in group.members \cup {group.founder}]]
    /\ UNCHANGED <<group, changes, store, calls, messages, onStaleRow>>

\* Only the page that added a user learns the user's bundles.
AppendBundles(p, t) ==
    /\ NextStep(t) = "append"
    /\ page' = [page EXCEPT ![p] = [Moves(@, t, t) EXCEPT
                  !.bundles = page[p].bundles \cup {t.user}]]
    /\ UNCHANGED <<group, changes, store, calls, messages, onStaleRow>>

\* The page goes to the list of chats.
LeavePage(p, t) ==
    /\ NextStep(t) = "leave"
    /\ page' = [page EXCEPT ![p] = [@ EXCEPT !.open = FALSE, !.listening = FALSE, !.epoch = 0,
                                              !.bundles = {}, !.tasks = {}]]
    /\ calls' = [calls EXCEPT ![p] = [c \in Calls |->
                    IF @[c].pc = "none" THEN NoCall ELSE [NoCall EXCEPT !.pc = "done"]]]
    /\ UNCHANGED <<group, changes, store, messages, onStaleRow>>

-----------------------------------------------------------------------------
(* Sending. *)

InFlight(p, c) == calls[p][c].pc \in {"read", "create", "encrypt"}

\* History: the chains of p that a user whose latest removal p has handled was sent.
Exposed(p) ==
    LET out == {u \in Users : u \notin group.members /\ group.leftBy[u] \in page[p].handled}
    IN  {ch \in Chains : \E i \in DOMAIN messages :
            /\ messages[i].sender = p /\ messages[i].st.chain = ch
            /\ messages[i].readers \cap out # {}}

\* sendCurrentMessage reads the epoch and the bundles of the page.
CallStarts(p, c) ==
    /\ page[p].listening
    /\ calls[p][c].pc = "none"
    /\ \A d \in 1..(c - 1) : calls[p][d].pc # "none"
    /\ calls' = [calls EXCEPT ![p][c] =
                    [NoCall EXCEPT !.pc = "read", !.epoch = page[p].epoch,
                                   !.bundles = page[p].bundles,
                                   !.exposed = Exposed(p)]]
    /\ page' = [page EXCEPT ![p].crossed = @ \/ \E d \in Calls : InFlight(p, d)]
    /\ UNCHANGED <<group, changes, store, messages, onStaleRow>>

\* getOrCreateGroupSenderState reads the state stored for the call's epoch.
ReadSenderState(p, c) ==
    LET st == store[p][calls[p][c].epoch]
    IN  /\ calls[p][c].pc = "read"
        /\ calls' = [calls EXCEPT ![p][c] =
              [calls[p][c] EXCEPT
                 !.pc = IF st = NoState THEN "create" ELSE "encrypt", !.st = st,
                 !.weak = /\ calls[p][c].exposed # {} /\ page[p].straddled
                          /\ onStaleRow \/ page[p].wentBack \/ page[p].refused]]
        /\ UNCHANGED <<group, changes, page, store, messages, onStaleRow>>

\* There was none: a chain with a random seed is saved.
CreateSenderState(p, c) ==
    LET st == [chain |-> page[p].chains + 1, counter |-> 0]
    IN  /\ calls[p][c].pc = "create"
        /\ page' = [page EXCEPT ![p].chains = @ + 1]
        /\ store' = [store EXCEPT ![p][calls[p][c].epoch] = st]
        /\ calls' = [calls EXCEPT ![p][c] = [calls[p][c] EXCEPT !.pc = "encrypt", !.st = st]]
        /\ UNCHANGED <<group, changes, messages, onStaleRow>>

\* Fault: the advanced state is not saved.
EncryptWithoutSaving(p, c) ==
    /\ calls[p][c].pc = "encrypt"
    /\ calls' = [calls EXCEPT ![p][c].pc = "send"]
    /\ UNCHANGED <<group, changes, page, store, messages, onStaleRow>>

\* buildGroupSenderWrappedPayloads encrypts with the state in hand and, at its end, saves
\* the advanced one for the epoch the call was given.
SaveSenderState(p, c) ==
    /\ calls[p][c].pc = "encrypt"
    /\ store' = [store EXCEPT ![p][calls[p][c].epoch] =
                    [calls[p][c].st EXCEPT !.counter = calls[p][c].st.counter + 1]]
    /\ calls' = [calls EXCEPT ![p][c] = [@ EXCEPT !.pc = "send", !.epoch = 0]]
    /\ UNCHANGED <<group, changes, page, messages, onStaleRow>>

(***************************************************************************)
(* The message arrives at the handler of the page's socket, which reads    *)
(* the participants and either rejects it or saves it: the participants'   *)
(* devices get the payload made for them, and nobody else gets one.        *)
(***************************************************************************)
MessageArrives(p, c) ==
    LET call == calls[p][c]
        participants == Participants(group)
    IN  /\ call.pc = "send"
        /\ calls' = [calls EXCEPT ![p][c] = [NoCall EXCEPT !.pc = "done"]]
        /\ IF page[p].listening /\ p \in participants
           THEN messages' = Append(messages,
                    [sender |-> p, st |-> call.st,
                     readers |-> (participants \ {p}) \cap call.bundles,
                     exposed |-> call.exposed, weak |-> call.weak])
           ELSE UNCHANGED messages
        /\ page' = [page EXCEPT ![p].listening = @ /\ p \in participants]
        /\ UNCHANGED <<group, changes, store, onStaleRow>>

-----------------------------------------------------------------------------
ChangeStep(c) ==
    \/ ChangeStarts(c)
    \/ \E by, user \in Users, kind \in ChangeKinds : ChangeChecks(c, by, kind, user)
    \/ ChangeCommits(c)
    \/ ChangeHandsOver(c)
    \/ ChangeAppoints(c)
    \/ ChangeAnnounces(c)

TaskStep(p, t) ==
    \/ ClearSenderStates(p, t)
    \/ ApplyEvent(p, t)
    \/ ServerAnswers(p, t)
    \/ SettleDetails(p, t)
    \/ ApplyKeys(p, t)
    \/ ListenOnChat(p, t)
    \/ AppendBundles(p, t)
    \/ LeavePage(p, t)

CallStep(p, c) ==
    \/ CallStarts(p, c)
    \/ ReadSenderState(p, c)
    \/ CreateSenderState(p, c)
    \/ SaveSenderState(p, c)
    \/ MessageArrives(p, c)

GroupNext ==
    \/ \E c \in Changes : ChangeStep(c)
    \/ \E p \in Pages : \/ LoadPage(p)
                        \/ \E t \in page[p].tasks : MayMove(p, t) /\ TaskStep(p, t)
                        \/ \E c \in Calls : CallStep(p, c)

GroupSpec == GroupInit /\ [][GroupNext]_vars

-----------------------------------------------------------------------------
(* Properties. *)

(***************************************************************************)
(* Once a page has run a handler of a user's removal to its end, the       *)
(* messages whose sending begins after that use no sender chain of which   *)
(* the user was sent a message before: clearGroupSenderStatesForChat       *)
(* erases the chains and the epoch separates their names.  Either defence  *)
(* alone is enough.  Only if both fail - a call had its state in hand      *)
(* while the store was cleared, and the epoch came out the same, went back *)
(* or was refused to the page - may an old chain be used.                  *)
(***************************************************************************)
FreshAfterRemoval ==
    \A i \in DOMAIN messages :
        LET m == messages[i]
        IN  m.weak \/ m.st.chain \notin m.exposed

\* As long as the calls of a page do not overlap, no two messages of it carry the same
\* chain and counter, whatever clears its states meanwhile: the state saved at the end of
\* buildGroupSenderWrappedPayloads is ahead of every one used before.
SenderKeyUsedOnce ==
    \A i, j \in DOMAIN messages :
        /\ messages[i].sender = messages[j].sender
        /\ messages[i].st = messages[j].st
        /\ ~ page[messages[i].sender].crossed
        => i = j

(***************************************************************************)
(* The creator, the only one who may add users, remove others or edit the  *)
(* group, is one of its members: remove_group_participant hands the group  *)
(* over when its creator leaves.  Excepted are the time until the heir is  *)
(* written, a group whose heir left between the read of the remaining      *)
(* participants and that commit (it has no creator who could act from then *)
(* on), a group that everybody has left once (its founder still counts as  *)
(* a participant and can add others without being a member), and changes   *)
(* committed on a chat row that was read before another change.            *)
(***************************************************************************)
CreatorIsMember ==
    \/ group.creator \in group.members
    \/ \E c \in Changes : changes[c].pc \in {"handover", "appoint"}
    \/ group.orphaned
    \/ group.emptied
    \/ onStaleRow

\* A page that is on the chat and has processed every event has the epoch of the server,
\* unless an answer overtaken by a newer one put it back or two changes took the same
\* epoch: both sockets and the details that loadChats fetches bring every page along.
PagesSettleOnEpoch ==
    \A p \in Pages :
        /\ page[p].listening /\ page[p].tasks = {}
        /\ \A c \in Changes : changes[c].pc \in {"none", "done"}
        => \/ page[p].epoch = group.epoch
           \/ page[p].wentBack \/ onStaleRow
=============================================================================
