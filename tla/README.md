# Secret Chat: verification models

Secret Chat is a web messenger: a FastAPI server with PostgreSQL and websockets, and a
browser client that encrypts end to end with X3DH and a Double Ratchet per pair of
devices. This directory holds TLA+ models of its core logic, the TLC configurations that
check them, and TLAPS proofs of their main properties. `PROJECT.json` lists every run,
mutant, theorem, finding and hazard, and says which source lines each definition models.

To check a run: `tlc -workers 2 -config ChatDelivery.cfg MCChatDelivery`.
To check a module of proofs: `tlapm ChatDelivery_proofs.tla`.

## The system

| Component | State it keeps | Operations |
|---|---|---|
| Double Ratchet sessions (`doubleRatchet.js`, `x3dh.js`, `chatCrypto.js`, `messagesChatFlow.js`, `messagesHistory.js`) | per chat and device, in IndexedDB: a sending state `<chat>:peer:<device>`, a receiving state `<chat>:from:<device>`; per page: transcript, cached texts | send (encrypt, advance, save, transmit), decrypt, skip keys, reset, replay the transcript |
| Prekeys (`crypto.js`, `auth.py`, `messages.py`, `models.py`) | in IndexedDB: one signed prekey, one-time prekeys with a used mark; in SQL: device rows, one-time key rows per device and per user | create, rotate, replenish, purge, upload, revoke, issue, peek, consume |
| Chat websocket (`messages.py`, `websocket_manager.py`, `messagesSockets.js`, `messages.js`) | in SQL: messages and per-device payloads; in memory: sockets by chat, by user, by device; in the page: kept-back messages, processing queue, screen | open, history, register, send, fan out, delete for all, disconnect |
| Groups (`messages.py`, `chatCrypto.js`, `crypto.js`) | participants, creator, `group_key_epoch`; sender-key states | create, add, remove, leave, encrypt with a sender key |
| Chat lifecycle (`messages.py`) | chat rows, hidden and cleared flags, deleted-message rows | start, delete for self, delete for all |
| Status and presence (`messages.py`, `websocket_manager.py`, `messagesUi.js`, `messages.js`) | `delivered_at`, `read_at`, `user_connections`, waiting broadcasts; on the page: status shown, status waiting for its message, the dot | connect, disconnect, mark delivered, mark read, announce, broadcast |
| Authentication (`auth.py`, `models.py`, `jwt.py`, `csrf.py`, `rate_limit.py`, `authClient.js`) | passwords, refresh tokens, reset links, cookies, login attempts | register, log in, refresh, log out, forgot, reset |
| Cloud backup (`crypto.js`, `auth.py`, the login page) | per browser: a store and the account it is bound to, cookies; per tab: a password, a timer, an upload; in SQL: an encrypted snapshot per user | bind, restore, schedule, sync, fail, reset the store |
| Attachments, verification, search, profile, server plumbing | see `PROJECT.json` | |

How they meet. A page asks the server for the recipient's bundle (prekeys), makes a
session from it (ratchet), and hands the ciphertexts to the chat websocket, which saves
and fans them out; the recipient's page processes the history and live messages one by one
and feeds them to the ratchet, which takes the private prekeys from IndexedDB. A reload of
the page throws the ratchet state away and decrypts the whole history again, so what the
prekeys, the message order and the deletions did meanwhile decides what can still be read.

What is hard here:

* *Interleaving.* Server handlers are coroutines that interleave at every `await`; upload
  and issuing requests are SQL transactions at READ COMMITTED; in the browser, two sends,
  two tabs, or a send and an event run between each other's awaits.
* *Failure.* Sockets close while a handler sends to them; uploads fail or lose their
  reply and are only logged; a page is reloaded at any point, between a change and its
  upload or in the middle of a restoration.
* *Stale reads.* Request handlers run in threads on database sessions of their own: a token,
  a link or a status that was read is written back, deleted or announced after others have
  changed it. Tabs share cookies and a store, and act on the account they were loaded for.
* *Order.* The history is read before the socket is registered; live messages overtake
  it; deletions overtake queued messages; handshakes are erased before they are sent.
* *Bounds.* The skipped-key cap, the batch of one-time keys, retention times.

What makes each component correct:

* Ratchet: a message key encrypts one message; a session's first message carries the
  handshake; a message whose session is intact opens; a failure that asks for no reset
  costs the working session no key.
* Prekeys: what is offered for a device is held by it; a key given out is spent; an
  upload does not bring a consumed key back; two devices' keys are not mixed.
* Chat websocket: a page shows every message once, from the history or live; the three
  socket lists agree; "read" means that somebody had the chat open.
* Groups: a change of members ends the use of the old sender keys.
* Status and presence: a mark is never ahead of the server and never goes back, and pages
  settle on what the server knows; opening a chat leaves nothing unread; presence settles
  on the truth.
* Authentication: a logout or a reset ends a session for good; a reset link works once, and
  only the last one is good.
* Backup: stores of different accounts stay apart; what is made is saved in the end; what is
  restored is a content that one device really had; nobody is locked out without a cause.

## Plan

Modules, in order of importance. The first seven are done.

1. `RatchetSender`, `RatchetSession` (composes a sender and a receiver over the message
   log; implements `RatchetSender`), `RatchetHistory` (adds what was once readable).
2. `PrekeyDirectory`: pages, upload transactions, issuing requests.
3. `ChatDelivery`: handlers, registry, pages of one direct chat.
4. `GroupKeys`: participants, creator, epoch, the handlers of a page and its sender keys.
5. `AccountStore`, what the owner of an account may expect of his store and backup, and
   `CloudBackup`, which implements it for several accounts, tabs and browsers.
6. `MessageStatus`: saving, marking and announcing; the page's marks; presence.
7. `AuthSessions`: logins, refreshes, logouts and resets that overlap.
8. `ChatLifecycle`: start, hide, clear, delete; an abstract specification of what a user
   sees, and the two storage schemes (columns of the chat, participant rows) shown to
   implement it.

Every safety property that the runs of the first seven find to hold is proved;
`ChatLifecycle` is not begun.

## Modules and their correspondence to the code

### RatchetSender

One direction of one session, seen from the sender. Keys are names: a root is the number
of an X3DH secret, a chain the number of a DH key pair, a message key a chain and an index.
A send is split at its awaits: `ReadState` (the checks of `sendCurrentMessage` and the
read of the store), `CreateState` (a new state is saved with its handshake pending),
`SaveChain` (the chain is stepped and saved), `ClearHandshake` (saved again without the
handshake), `Transmit` (`chatSocket.send`, which drops the message on a closed socket).
`LoadPage` is `openChatSocket`, which clears the states. Sends may overlap; the variable
`overlapped` records whether two ever did.

### RatchetSession and RatchetHistory

The sender, the server's log of committed messages, and one receiving device.
`ReceiverLoads` is a page load with all of `initKeysIfNeeded` (rotation, purge, an upload
that may fail) and the history query; `ReceiverRegisters` is the moment the socket is
registered; `ReceiverProcesses` is `processMessage` with `decryptWithRecovery`, its reset,
its replay of the transcript and its second try. Decryption is a function of the state and
the message: it succeeds if the state stands on the sender's chain, or was made from the
same secret, and the message's index is ahead or among the skipped keys. The replay folds
it over the ids of the transcript, in their order. `RecoveryKeepsSession` speaks of the
indices no received message has spent: overlapping sends can use an index twice, and then
the replay of the transcript may stand further ahead than the state it replaces, without a
key that was still to come being lost. And it speaks only of failing messages that ask for no
reset. A failing message with a handshake or with n = 0 does cost the working session: its
reset (`ResetsSession`) is applied in the replay, too, and what is left is a session with a
wrong secret; the messages after it are not `Intact` (`NotInterrupted`).
`RatchetHistory` adds the set of messages that were decrypted on any load so far.

### PrekeyDirectory

Devices, the pages open on them, upload requests, issuing requests, and two kinds of
listing: one per device, and the one on the user row that every device overwrites. A page
walks through `initKeysIfNeeded` (`Load`, `PutSigned`, `Fill`, `Clean`, `Post`,
`ReplyLost`) and through `consumeLocalOneTimePreKey` (`ConsumeRead`, `ConsumePut`), always
writing back the record it read. An upload is a transaction (`UploadBegin`,
`UploadDeletesUser`, `UploadDeletesDevice`, `UploadCommit`, `UploadFail`) with row locks,
as PostgreSQL at READ COMMITTED has them: a delete takes the rows that were committed when
it started, waits for a transaction that has already deleted one of them, and an insert
that meets an existing unique key aborts. An upload that is committed while another one has
begun to delete *passes* it (`passed`): the other does not delete the rows which this one
inserted, and both stay. `Select` and `Give` are the two statements of
`issue_prekey_bundle` and `issue_device_prekey_bundle`.

### ChatDelivery

The three lists of the `ConnectionManager`, one handler per socket, and the page behind
it. The handler's steps are the stretches between its awaits: `MarkRead`, `LoadPayloads`,
`QueryHistory`, `Register`, `SendHistory`, then per message `Stamp`, `Commit`,
`PersistPayloads`, `Echo`, `FanOut` (one per device), `FanOutEnds`. It can die in
`AcceptFails`, `SendHistoryFails` and `ReplyToDeleted`, and ends in `Disconnect`. A send
to a closed socket is lost or fails; a failure removes the socket from two of the three
lists, as `notify_chat_device` does. The page keeps live messages back until the history
is complete (`Receive`, `ReleaseKept`) and renders one at a time (`Render`). A message's
content is only "own" (the payload of the reader's device) or "raw". Each message has the
set of devices its sender's page had payloads for (`named`), which is any set: a device that
is not in it gets the envelope by the history, by the live event and by the echo alike
(`payloads.get(device_id, message.content)`). The fan-out leaves out the sender's device with
all its sockets (line 1428), so a second tab of it learns of the message by its next history
only.

### GroupKeys

One group chat: the chat row with its creator and epoch, the participant rows, the requests that
change them, and the pages of its members. A request is split at its statements: `ChangeStarts`
(reads the chat row), `ChangeChecks` (reads the participants and decides), `ChangeCommits`
(writes the row it deletes or inserts and the epoch it read, plus one), `ChangeHandsOver` (when
the creator has left, the remaining participants are read and one is chosen), `ChangeAppoints`
(the second commit, which makes him the creator, whether or not he is still there) and
`ChangeAnnounces` (the events on the two sockets, and the reply). A page is a set of running
handlers; a handler is the list of the steps it has left, one per stretch between awaits
(`Script`): clearing the sender states, taking over the epoch of the event, asking for the
details, taking over their epoch, and so on. A handler that has taken no step is an event on its
way. Loading a page is such a handler, too. A call of `encryptGroupMessage` takes the epoch and
the recipients from the page (`CallStarts`), reads or makes a sender state (`ReadSenderState`,
`CreateSenderState`), and saves the advanced one at its end (`SaveSenderState`);
`MessageArrives` is the server's handler of the message. A sender state is a chain and a
counter: being sent one message of a chain is being able to read the rest.

### AccountStore and CloudBackup

`AccountStore` is the abstract specification: the contents of one account's store on each
device, the contents that are saved, on their way there, or on their way back. A device
takes over a saved content as a whole, or, if it is interrupted while doing so, a part of
it; what is saved is what one device had. Once two accounts' pages have bound one store
(`shared`), it promises nothing.

`CloudBackup` is the code. Browsers have one store, a binding, and the cookies; tabs have a
page and the password in `sessionStorage`. A page's loading is split at its awaits: `Open`,
`ReadBinding`, `EraseOther` and `PutBinding` (`ensureLocalAccountBinding`: it reads the
binding, deletes the database of another account, for which it waits until other pages of the
browser have let go of it, and writes the binding, in separate transactions), `Fetch` and
`Apply` (`restoreCloudBackupIfNeeded`), `Rebind`, `Fill` (the entries are put back one
transaction each) and `FillEnds`. Between the get and the put of the binding a page of another
account may do the same: both find the store free, and the page whose put comes first goes on
with a store bound to the other. `mixed` has the browsers on which this is so, and `strayed`
the entries that got into such a store. An entry (`MakeEntry`) starts the timer by
`Scheduled`, unless an upload is under way; the upload is `StartUpload`, `TakeSnapshot`,
`Send` or `Refused`, and ends in `UploadEnds` or `UploadFails`; the server's part is
`PutBackup` or `RequestLost`. `Leave`, `Login`, `Logout`, `ResetLocal` and `ResetPassword`
are the users'. `excused`, `trouble` and `strayed` record the exceptions the properties name.

`OwnersStore` is the refinement mapping for one account, `Owner`: a browser's entries count
as the owner's if the browser is bound to him, and a content that is being put back counts
as there already. Other accounts' steps in the same browsers are `Erase`, `Spoil` or
nothing, as long as no store is shared.

### MessageStatus

The author's pages, the reader's user sockets (and a third user's), the reader's visits of
the chat. The rows of the messages table have a status; `Check`, `Commit`, `Refresh`,
`SendCopies` and `Tell` are the stretches of the handler that saves a message, `Connect`,
`MarkDelivered`, `RefreshForLine`, `TellForLine` those of a user socket, `MarkRead`,
`RefreshForVisit`, `TellForVisit`, `RegisterVisit` those of a chat socket. `loop` is the event
loop as far as presence goes: the announcement of an absence is a task that starts sends,
and both wait in turn. The page (`Received`, `Updated`, `Rendered`) merges statuses by
`resolveStatus` and keeps one that comes before its message.

### AuthSessions

The rows of `refresh_tokens` and `password_reset_tokens` of one account, the cookies of its
browsers, and requests under way, each split where it reads, where its statements take
effect, where it commits and where its reply arrives (`LoginVerifies`, `LoginInserts`,
`RefreshReads`, `RefreshExtends`, `RefreshDrops`, `LogoutDeletes`, `ForgotDeletes`,
`ForgotCommits`, `ResetReads`, `ResetDeletes`, `ResetCommits`, `SetCookies`, `DeleteCookies`,
`ReplyLost`). The sessions of `database/session.py` do not flush by themselves, so a DELETE
takes effect where it is written and a changed object only at the commit; the object of the
reset link is deleted before that, and its `used_at` is never written. What spends a link is
that its row goes.

### History variables

Some variables and fields only record history: `overlapped`, `passed`, `unpassed` and `late`
in `PrekeyDirectory` and a handler's `between` in `ChatDelivery`; `leftBy`, `emptied`,
`orphaned`, `handled`, `straddled`, `wentBack`, `crossed`, `exposed`, `weak`, `refused` and
`onStaleRow` in `GroupKeys`; `made`, `excused`, `trouble`, `mixed` and `strayed` in `CloudBackup`;
`missed`, `late` and `raced` in `MessageStatus`; `out`, `raced`, `late`, `spent`, `doubled` and a
call's `before` and a session's `grant` in `AuthSessions`. No guard reads them, but for the bound
on `made`; the properties do.
`excused` is the widest of them: an entry is excused when it is made without a password or
too late for the snapshot under way, when its upload fails, is abandoned or goes to another
account's row, when another device's upload replaces a copy that had it, and when a
restoration (`Apply`) clears a store that has it.

## Runs

| Run | What it asks | Instance |
|---|---|---|
| `ratchet` | key reuse, handshakes, decryption, recovery | 2 calls, 3 messages on the wire, 2 secrets, 2 signed prekeys, 2 one-time keys, 1 skipped key, 1 deletion; calls overlap, or the prekeys change |
| `ratchet_history` | *violated*: history stays readable | 1 call, 1 message, 2 signed prekeys |
| `prekeys` | what is offered is held; when uploads are mixed; which consumed keys come back; rows given out are spent | 2 devices with a page each, in turn, or with their uploads meeting; or one page with 2 uploads and 2 issuing calls that overlap, or that consumes keys meanwhile; batch 1, 3 one-time keys, 2 signed prekeys, 3 commits; 1.0 million states, up to symmetry |
| `prekey_issue` | *violated*: a key is issued once | 1 upload, 2 issuing calls |
| `chat_delivery` | pages miss nothing else; raw forms have a cause; the lists agree; saved messages arrive | 4 sockets, 2 tabs of each of 2 devices, 1 message, the reader's device named or not; 142 thousand states |
| `chat_loss` | *violated*: every message arrives live or with the history | 2 sockets, 1 message |
| `chat_false_read` | *violated*: read only by an open page | 2 sockets, 1 message |
| `group_keys` | no chain a removed user was sent is used after his removal is handled; counters are used once | 3 users, 1 page told of changes by the chat socket, 3 messages, 2 changes of members, calls that do not overlap, one handler at a time; 3.4 million states |
| `group_events` | the creator is a member, but for the named windows; pages settle on the server's epoch | 3 users, 1 page, all requests, events and handlers, 2 changes, two handlers at a time; 2.4 million states |
| `cloud_backup` | stores stay apart; quiet means saved; lockouts have a cause; entries reach the server; `AccountStore` is implemented | 2 accounts, 2 browsers, 3 tabs, 2 passwords, 2 entries, in one of three cases; 262 thousand states |
| `message_status` | marks are true, grow and settle; nothing is left undelivered or unread; the dot settles | 2 pages of the author, 2 user sockets of the reader and 1 of a third user, 1 visit, 2 messages, in one of four cases; 245 thousand states |
| `auth_sessions` | resets end sessions and spend links; what a logout ends stays so | 2 browsers, 2 places, 3 requests at a time, 2 tokens, 2 links, in one of four cases; 265 thousand states, up to symmetry |

Why the bounds are enough. Three messages with one skipped key let a key be skipped, used
late and pushed out; two secrets let a session be replaced and an old message arrive
after; two overlapping sends are the least that conflict. Three one-time keys at batch 1
let one be consumed, one given but not consumed and one fresh; two signed prekeys are one
rotation. Two upload transactions and two issuing calls are the least that conflict, and a
third of a kind meets the same locks. In `ChatDelivery` one message meets every stage of
two receiving sockets of one device, or of a second tab of its sender, which close, reopen and
fail independently; the properties speak of one message at a time, and the code treats messages
alike.

Some runs look at several cases in turn, each small. `CONSTRAINT OneTrouble` (`ratchet`) and
`OneStory` (`prekeys`, `chat_delivery`) keep to states that belong to one of the cases; they
narrow which executions are looked at, and no step. In `prekeys` the cases are `InTurn` (two
devices, nothing overlaps), `Alone` (one device, whose uploads, revocations and purges meet each
other and the issuing calls), `Late` (one device that consumes keys while its uploads are under
way) and `Meeting` (the uploads of two devices). In `chat_delivery` sockets open one after the
other and at most one of them closes; either reader or sender has the second tab; the sender's
own device is always named and the reader's is or is not, but when the reader has two tabs. In
the last
three runs a variable `story` is chosen in the initial state and never changes; it says which
case a behaviour is about, and `Told` or `StoryTold` keeps it there:

* `cloud_backup`: two accounts that share a browser with two tabs, mistyped passwords and
  resets, and one entry; two tabs of one account on one browser; two browsers of one account.
  Two tabs and two browsers are the least that overwrite each other, and two entries the
  least of which one is lost.
* `message_status`: the dot on one page, with all user sockets; two pages and one message;
  two messages and one page; the reader's sockets coming and going around one message. Two
  messages are needed for one status that is announced and one that is in hand.
* `auth_sessions`: one browser that moves, with logins, refreshes and logouts; its sessions
  and a reset; links, with three requests at a time; two browsers, two requests at a time.
  Three requests are a refresh, a reset and a login, or two submissions and a new link.

A liveness property is checked of the behaviours that stay within the constraint of its
run. The constraints above cut off steps of users and the network, none of a callback or of
a handler that is owed, but for the commit of a second message in the cases of
`message_status` that are about one: there the behaviours that count are those in which
the author sends no more.

In `GroupKeys` two changes are the least that overlap or overtake each other, and three users
are a page, one who is removed and one who stays. Three messages are needed: one that the
removed user gets, one in flight while the store is cleared, which files the old chain again,
and one that would use it; with the epoch put back, or taken twice, it does, which is the
exception that `FreshAfterRemoval` names. The exception has a third case, which two changes do
not reach: the search for an inductive invariant found it, and a run with three changes shows
it. A page removes a user while a call has the old chain in hand; its own user leaves before the
page has asked for the details, so that the server refuses them and the page keeps the old
epoch; then he is added again, and the page, which was never told of an epoch since, uses the
old chain under its old name. `refused` records that. `group_keys` runs one handler at a time
against the calls, `group_events` two handlers at a time without calls: events are unordered in
both, as they are before their handlers' first step. `TaskKinds` names the events that come at
all in an instance. `CONSTRAINT NotCrossed` keeps `group_keys` to pages whose calls never
overlapped - every predecessor of such a state is one - and `VIEW WithoutMessages` lets
`group_events` forget who reads messages where none are sent.

Deadlock is not checked: with the bounded counters used up, and every page closed or
settled, each of these systems really stops.

### The violated properties

They are disagreements between the code and what the repository says of it.

* `HistoryStaysReadable`: the signed prekey is overwritten on rotation and the responder
  ignores which one a handshake names, while each opening of the chat decrypts the history
  from its handshakes. The README promises the history after reopening.
* `IssuedOnce`: two issuing calls select the same row before either commits. The endpoint
  tests state that each call gets a key of its own.
* `LiveOrHistory`: a message committed and fanned out between the history query and the
  registration of the socket is in neither. The README lists websocket delivery and
  reconnect/history order as done.
* `ReadOnlyByOpenPage`: a handler that dies outside its `try` leaves its socket registered,
  and from then on messages are stamped as read although nobody has the chat open. The
  websocket tests state that messages sent to an absent recipient are unread.

The passing properties say what does hold around these: `GivenRowIsSpent` (only calls that
overlap can share a row), `NothingElseIsMissed` (that window, and what another tab of a page's
own device sent after its history, are the only ones), `RawHasCause` (an envelope on a screen
comes from a sender who did not know the device, or from a history read between the two commits
of a message), `OpenSocketsFullyListed` (stale registrations never cost an open socket),
`IntactMessagesDecrypt` (what the receiver must still hold for a message to open).

Several passing properties name the race they except, and the models show that the race is
there: a login that has verified the old password while a reset is committed leaves a session
(`ResetEndsSessions`); two submissions of one link that overlap both change the password
(`SpentLinkIsRefused`); a refresh under way brings cookies back after a logout, and if it was
sent with the token of an older login, which the logout does not delete, the browser is logged
in again (`LoggedOutStaysOut`); a message saved while the chat is being opened stays
unread (`ReadWhenOpen`); an absence announced after the reader is back leaves a wrong dot
(`PresenceSettles`); an entry made while an upload is under way waits for the next one
(`QuietMeansSaved`); a tab of another account overwrites a backup (`LockoutHasCause`); pages of
two accounts bind one store, and entries of both get into it (`StoresKeptApart`); a creator
leaves and the heir has left, too, by the time he is written, and the group has no creator who
could act (`CreatorIsMember`); an upload committed while another one runs leaves its keys beside
that one's on the user row (`UserBundleIsOneDevices`); overlapping sends use a key twice
(`NoKeyReuseWithoutOverlap`, `SenderKeyUsedOnce`); a failed handshake costs the working session
(`RecoveryKeepsSession`). These properties do not catch the race that they except: what they
show is that there is no other. The hazards in `PROJECT.json` say of each what is caught.
Nothing in the repository says otherwise of them, so they are hazards and no findings.

## Fairness

Three modules have liveness properties. All assume weak fairness only, of callbacks and
coroutines that asyncio and the browser's event loop run when they are ready, and of the
server's handling of a request that has been sent. Each of these steps waits for its own
socket, request or the database, and is continuously enabled until taken.

* `ChatDelivery`: per socket, of the page's callbacks, of the connecting handler and of the
  sending handler. `SavedMessagesArrive` assumes no fairness of sends: the sender may leave
  at any point after the commit.
* `CloudBackup`: per tab, of the steps of loading and of the upload, and of the requests, each
  of which arrives or is lost. That the upload should succeed is not assumed: an entry may be
  excused (`EntriesReachServer`).
* `MessageStatus`: per page, of the connecting handler with the rendering and of the saving
  handler; per user socket and visit, of its handler; of the event loop. Sockets may close
  at any time.

Opening, closing, typing, deleting, logging in and leaving are the users' and are not owed.

## Proofs

* `RatchetSession_proofs`: `SenderTypeCorrect`, `KeysUsedOnce`, `HandshakeComesFirst`,
  `SessionImplementsSender`, `SessionKeysUsedOnce`, `SessionTypes`, `IntactMessagesOpen` and
  `FailuresKeepTheSession` (of failures that ask for no reset). The sender's two safety
  properties are not inductive: a call's effect on the wire is decided by what it read steps
  before. The invariant `SenderInv` adds, for executions without overlap, that at most one call
  is in flight, that the state it has in hand is the stored one as far as it has been saved,
  that every message on the wire with the stored chain has an index below the stored one (or
  below that of the message still in hand), that other chains are never used again, and that a
  stored state without a pending handshake has put its handshake on the wire, in the message in
  hand, or lost it with a broken link - in which case nothing more of the page gets out.
  `SessionImplementsSender` (every step of the composition is a sender step or leaves its
  variables alone; the published bundle is always a bundle) carries the sender's theorems over
  to it: `SessionKeysUsedOnce`. The receiver's theorems need no such condition; they hold with
  overlapping sends. `SessionInv` has at its heart `After(base, f, p, s)`, which says of a state
  what the set `p` of messages received has made of it: it is on the chain that `p` has opened,
  if there is one, it is on a chain only if `p` has opened it (or `base` was on it already), and
  it has every key that no message of `f` used or pushed out. `SkipKeys` and `TakeKey` say what
  skipping and using a key leave of the others, `Reception` what one decryption with its reset
  does, and `Advance` that `After` passes from `p` to `p` and a later message. Replays need an
  induction over the transcript. The library's induction rules take an operator, which cannot be
  instantiated, but its theorem that `<` is well-founded gives the least element of a set of
  numbers (`LeastExists`): `RebuildIsReplay` presents the fold as a function over the sets of
  ids, and `ReplayAfter` looks at the least id up to which the replay is wrong. `Recovery` puts
  the three attempts of `decryptWithRecovery` together. `SenderFits` gives the receiver what it
  relies on of the sender: index 0 goes out with the handshake, and what a message names exists.
  The proof found that an earlier form of `RecoveryKeepsSession`, about the next index of the
  state, does not hold when two overlapping sends repeat indices - in seven messages, more than
  the runs look at.
* `PrekeyDirectory_proofs`: `DirectoryTypeCorrect`, with a lemma for the pages, for the
  uploads and for the requests; `GivenRowsAreSpent`; for a device whose page loads do
  not overlap, `ListedKeysAreHeld`; and, whatever overlaps, `UserRowIsOneDevices` and
  `ConsumedKeysStayUnlisted`. `SpentInv` says
  that no request names a row version that has not been written, that a listed row named
  by a finished request is used, and that a request names another row than those that were
  finished when it selected. It is needed because rows are deleted and written again
  between the two statements of a request: that a key's new row has a new version, and a
  used row never becomes unused, is what makes the property hold. `HoldInv` follows what a
  device offers to where it comes from: every listing was in an upload, every upload in the
  hands of a page, every page took it from the store, and keys leave the store only as used
  ones - all of this while the page works in turn (`InTurn`), so that nothing it has in hand
  is older than the store. `MixInv` says
  that an upload which has begun to delete and was not passed still deletes every row there is.
  `LateInv` says of every key that is posted, in a request or
  in a page's hand as unused that the device has not consumed it, or that it is in `late`.
* `ChatDelivery_proofs`: `DeliveryTypes` (`TypeInv`, with `HandlerOK`: what a handler has in
  hand at each of its places), `OpenSocketsAreFullyListed`, `NothingIsMissed` and
  `RawHasCauseAlways`. `ListsInv` adds that a socket which was never opened is in no list;
  failed sends and `Disconnect` only ever remove sockets that are closed. `DeliveryInv`
  follows a message to a page: `LinkInv` says of every committed message and every socket
  where it is at each place of the two handlers - in the history that was queried, in the
  devices the sender has still to fan out to, on the link or received - unless it is one of
  the named exceptions, and `PageInv` that what a page has received it shows, keeps back or
  has in its queue, and that a raw form is there only with its cause. `AccountInv` says of every
  message and every registered socket that the socket's history had it, that it was told of it,
  that a handler has still to send it there, or that it is one of the two named exceptions.
* `GroupKeys_proofs`: `CreatorStaysMember`, `GroupTypes`, `SenderKeysUsedOnceAlways`,
  `ChainsAreFreshAfterRemoval` and `PagesSettleAlways`. `CreatorInv` adds that a removal about
  to be committed takes the creator it has read out only on his own request, so that it goes on
  to hand the group over, that a group without members is one that was emptied, so that a
  handover which finds no heir is excused. `TypeInv` takes in the pages, their handlers and
  calls; `TaskEffect`, `CallEffect`, `LoadEffect`, `AnnounceEffect` and `ChangeEffect` say once
  for all proofs what each group of steps does to them. `ChainsInv` and `OnceInv` say that
  chains of different calls are different, that a stored state is ahead of every message sent
  with its chain, and that a call in flight is ahead of the stored state - which clearing the
  store keeps, as it takes the chain away, and saving restores. `FreshInv` is about two defences
  at once: where a removal has been handled, the old chains are erased from the store and from
  the calls (`ErasedOK`), or the epochs that name them are older than the page's (`EpochsOK`),
  or one of the exceptions has been recorded; `RemovalsInv` and `RowsCurrent` say how the epochs
  of the rows, of the events and of the pages lie to each other, and `ApartOK` and `NamedOK`
  that a chain's name belongs to one epoch. Where the epochs do not lie so was a finding about
  the model: the property's exception lacked the case of a refused page (see the bounds).
  `SettleInv` says of every page that is loaded and was not put back by an overtaken answer that
  it is aware or gone (`Settles`): it has the group's epoch, or the change that made it is still
  to be announced, or a handler of the page is about to take it over - `Informs` is an event
  with that epoch, `Unasked` a load whose question is still to come, `Brings` one whose answer
  is right - or the server has refused it, or its removal is announced or waits to be handled. A
  page that is neither a participant nor gone could be left behind: while no request works on a
  stale row this is only a page that has still to ask, or the founder who came back to a group
  that everybody had left and gave that up by adding a user (`FounderOutside`), until the next
  change comes. Which changes can come is what `RowsOrdered` is for: a request that has read the
  epoch which the group still has may do what it was permitted to (`StillPermitted`), and only
  one handover is under way, that of a creator who is out (`OneHandover`, which takes in the
  time until the heir is written). The theorem's hypothesis is that a page handles the three
  events of its user socket; every page of the code does, and leaving kinds of handlers out
  (`TaskKinds`) is a bound for TLC. The chat socket's events, which a page can miss, are not
  needed for it, and neither is `refresh`.
* `MessageStatus_proofs`: `StatusTypes`, `ShownIsTrueAlways`, `StatusOnlyRises`,
  `DeliveredWhenOnlineAlways`, `ReadWhenOpenAlways`, `PresenceSettlesAlways`. `KnowledgeInv`
  says that whatever names a status - an event on its way, a row in hand, a status that waits
  for its message, the page - names at most that of the row. `DeliveredInv` and `ReadInv` say
  that between saving a message and marking it some handler still has to look at it, or its
  race is recorded: the handler that saves has seen the reader absent and a line or a visit
  will query later, or it will mark the message itself. `PresenceInv` says that the last
  announcement in the loop or on its way to a page is the true one, or that a late absence
  is on record.

* `AuthSessions_proofs`: `AuthTypes`, `ResetEndsAllSessions`, `LinkIsSpentOnce`,
  `OnlyLastLink`, `LogoutLasts`. `BoundsInv` says that the counters name every token and link
  there is, so that the bounds are respected. `ResetInv` adds that a reset about to
  commit has seen every session but the late ones, so that what it leaves is excepted.
  `LinkInv` adds that a spent link is not in the table, that a reset about to commit deletes
  its own link if that is still there, that links a call has not seen were asked for at the same
  time as it, and that numbers of links only grow. `OutInv` adds that a logout whose reply is
  under way has deleted its token, that numbers of tokens only grow, so that a later login
  does not bring the old one back, and that a refresh of a browser that has logged out was
  under way when it did, so that its token is among those of `raced`.
* `CloudBackup_proofs`: `BackupTypes` (with `TypeInv`: pages upload only when they are ready and
  have a password), `StoresStayApart`, `LockoutsHaveCause` and `QuietStoresAreSaved`. `KeptInv`
  says of every content, wherever it is - in a store, in a page's hand, on its way, in a row of
  any account - whose it is, and that a page beyond its binding is of the account its browser is
  bound to unless the browser is `mixed`, which holds because the database cannot be deleted
  under an open page and pages about to put their binding are of one account or on record
  (`PutTogether`). `LockInv` says that where there is no trouble, every copy, request and page
  has the account's password. `SavedInv` says that an entry of a store which is not excused is
  covered by the account's copy or by a request under way, or is owed by a page with a timer, an
  upload that has yet to take its snapshot, or one that will start again.
* `AccountStore_proofs`: `BackupImplementsStore`, the refinement, by `KeptInv` and one lemma
  for each group of steps; from the first step that mixes a store on, `shared` is set, and
  `AccountStore` allows every step. `Views` states the refinement mapping element by element;
  `LocalChangesAt` and `LocalUnchanged` turn what a step does to the elements into what
  `AccountStore` says of the whole.

All of them hold for every value of the constants under the named assumptions of the
modules (`BoundsAssumption`, `SessionAssumption`, `DirectoryAssumption`,
`DeliveryAssumption`, `GroupAssumption`, `StatusAssumption`, `AuthAssumption`,
`BackupAssumption`), which say that
bounds are natural numbers, that pages, sockets and devices have owners, and that what
stands for nothing is none of the other values. TLC evaluates the assumptions in every run.

Every safety property that a passing run checks has its theorem. Only model-checked are the
liveness properties `SavedMessagesArrive`, `EntriesReachServer` and `StatusReachesPages`,
since fairness and ENABLED are beyond the prover. The runs that are
expected to find a violation state what does not hold.

## Not modelled, and abstractions

* Cryptography is symbolic: a secret is named by what it is made from. Key derivation,
  MACs, encodings and randomness are taken to work.
* Time is nondeterministic: a signed prekey may be old enough at any load, a used key may
  be old enough to be purged at any time.
* Of a direct chat, one direction of one pair of devices is modelled: the two directions
  use separate stores. The legacy single-bundle path and the sender's own copies are not.
* Identity keys, the first creation of a device's identity and the account binding are
  not in `PrekeyDirectory`; read and write of `cleanupLocalKeyMaterial` are one step.
* `ChatDelivery` leaves out status events and presence (whether the recipient is online is
  a free choice where `read_at` is decided), deletion for oneself, cleared and hidden
  chats, groups, and sockets without a device id. The fan-out to one device is one step.
* `GroupKeys` has one device per user and no legacy payloads; a recipient "reads" a message
  when he gets a payload of its chain. Signatures on the distribution, captions of
  attachments and the raw copies that a newcomer gets from pages that do not know his
  devices are left out. A refused request changes nothing and is left out, too. That the
  founder is a participant of a group everybody has left is modelled, but nothing is
  claimed about such groups.
* `CloudBackup` has entries for what only the store remembers: verification marks and attachment
  keys. Cached messages, last-seen and deleted-message marks, and keys, which other modules
  have, are left out. The put of an entry and its schedule are one step. The timer has no
  length: restarting it is no step. A page that cannot reach the server while it loads is one
  that is left.
* `MessageStatus` has one author and one reader. Events are taken when they are sent: pages
  get them in order, and the server does nothing that depends on when. A broadcast for one
  message is one step. Each page of the author is of a device of its own and is not closed.
  The page ignores whom a presence event is about, so a third user's replaces the dot; the
  property is about dots that stand for the reader. Groups and deletion are left out.
* `AuthSessions` leaves out expiry by time (an expired row is like one that is not there), rate
  limits, registration, and the access token, which is checked by its signature only and
  lasts up to its 30 minutes whatever the session does.
* The chat lifecycle is not modelled: creating, clearing, hiding and deleting are single
  requests; of two at once the unique constraints let one fail, with an error.
* Components without a module are listed with their reasons in `PROJECT.json`. Attachments,
  verification, search, profile pages, mail, logging and templates are input and output
  around single requests.
