---------------------------- MODULE CloudBackup ----------------------------
(***************************************************************************)
(* The local store of a browser and its encrypted copy on the server.      *)
(*                                                                         *)
(* Every page of a browser shares one IndexedDB, bound to an account, and  *)
(* the login cookies; the password that encrypts the backup is kept per    *)
(* tab.  Loading a page reads whom the store is bound to, erases it if     *)
(* that is another account, binds it in another transaction, and replaces  *)
(* its messages store by the backup.  A change starts a timer, the timer   *)
(* an upload of the whole store, and the server keeps the last upload that *)
(* arrives.                                                                *)
(*                                                                         *)
(* An entry stands for what only this store remembers: a verification mark *)
(* or an attachment key.  Cryptography is symbolic: a backup opens with    *)
(* the password it was written with.                                       *)
(***************************************************************************)
EXTENDS Naturals, Sequences, FiniteSets

CONSTANTS
    Accounts, Browsers, Tabs,
    Owner,        \* an account: the one that is looked at as an AccountStore
    BrowserOf,    \* the browser each tab belongs to
    Passwords,    \* what may be typed; two accounts may have the same
    MaxEntries,   \* bound: entries made
    None

Entries == 1..MaxEntries
Backups == [account : Accounts, content : SUBSET Entries, key : Passwords]

ASSUME BackupAssumption ==
    /\ BrowserOf \in [Tabs -> Browsers]
    /\ Owner \in Accounts
    /\ MaxEntries \in Nat
    /\ None \notin Accounts \cup Passwords /\ None \notin Backups

VARIABLES
    made,        \* the account of the page that made each entry
    store,       \* per browser: entries in the messages store
    binding,     \* per browser: account_binding of the keys store
    cookie,      \* per browser: the account it is logged in as
    ended,       \* browsers whose refresh token has been deleted
    password,    \* the accounts' passwords
    backup,      \* encrypted_key_backups, by account
    requests,    \* uploads on their way to the server
    tab,         \* the page in each tab
    excused,     \* history: entries that were never owed to the backup, or lost to it
    trouble,     \* history: accounts with a password reset or mixed up, or another's backup
    mixed,       \* history: browsers on which pages of two accounts bind the store at once
    strayed      \* history: entries that have been put into such a store

serverVars == <<password, backup>>
mixVars == <<mixed, strayed>>
vars == <<made, store, binding, cookie, ended, password, backup, requests, tab,
          excused, trouble, mixed, strayed>>

Requests == [to : Accounts, from : Browsers, account : Accounts,
             content : SUBSET Entries, key : Passwords]

\* cloudBackupSyncPromise, with what the upload has in hand.
NoUpload == [pc |-> "none", account |-> None, content |-> {}, to |-> None]

PageStates ==
    [pc : {"closed", "bind", "erase", "put", "fetch", "apply", "rebind", "fill", "ready",
           "locked"},
     account : Accounts \cup {None},
     key : Passwords \cup {None},          \* sessionStorage
     got : SUBSET Entries,                 \* the snapshot being restored
     timer : BOOLEAN,
     suppressed : BOOLEAN,
     up : [pc : {"none", "started", "taken", "sent"}, account : Accounts \cup {None},
           content : SUBSET Entries, to : Accounts \cup {None}]]

NewPage(key) ==
    [pc |-> "closed", account |-> None, key |-> key, got |-> {}, timer |-> FALSE,
     suppressed |-> FALSE, up |-> NoUpload]

BackupTypeOK ==
    /\ made \in Seq(Accounts) /\ Len(made) <= MaxEntries
    /\ store \in [Browsers -> SUBSET Entries]
    /\ binding \in [Browsers -> Accounts \cup {None}]
    /\ cookie \in [Browsers -> Accounts \cup {None}]
    /\ ended \in SUBSET Browsers
    /\ password \in [Accounts -> Passwords]
    /\ backup \in [Accounts -> Backups \cup {None}]
    /\ requests \in SUBSET Requests
    /\ tab \in [Tabs -> PageStates]
    /\ excused \in SUBSET Entries
    /\ trouble \in SUBSET Accounts
    /\ mixed \in SUBSET Browsers
    /\ strayed \in SUBSET Entries

BackupInit ==
    /\ made = <<>>
    /\ store = [b \in Browsers |-> {}]
    /\ binding = [b \in Browsers |-> None]
    /\ cookie = [b \in Browsers |-> None]
    /\ ended = {}
    /\ password \in [Accounts -> Passwords]
    /\ backup = [a \in Accounts |-> None]
    /\ requests = {}
    /\ tab = [t \in Tabs |-> NewPage(None)]
    /\ excused = {}
    /\ trouble = {}
    /\ mixed = {} /\ strayed = {}

-----------------------------------------------------------------------------
(* The user: logging in and out, leaving pages, resetting the password.    *)

Saved(a) == IF backup[a] # None /\ backup[a].account = a THEN backup[a].content ELSE {}

\* What the page has not sent yet and will not send, now that it is gone.
Unsent(t) ==
    IF tab[t].timer \/ tab[t].up.pc \in {"started", "taken"}
    THEN {c \in store[BrowserOf[t]] : c \notin Saved(made[c])}
    ELSE {}

\* The page is left or reloaded, or the tab closed; its requests are not taken back.
Leave(t) ==
    /\ tab[t].pc # "closed"
    /\ \E key \in {tab[t].key, None} : tab' = [tab EXCEPT ![t] = NewPage(key)]
    /\ excused' = excused \cup Unsent(t)
    /\ UNCHANGED <<made, store, binding, cookie, ended, serverVars, requests, trouble,
                   mixVars>>

\* The login form stores whatever was typed, whether the server accepts it or not.
Login(t, a, typed) ==
    /\ tab[t].pc = "closed"
    /\ tab' = [tab EXCEPT ![t] = NewPage(typed)]
    /\ IF typed = password[a]
       THEN /\ cookie' = [cookie EXCEPT ![BrowserOf[t]] = a]
            /\ ended' = ended \ {BrowserOf[t]}
       ELSE UNCHANGED <<cookie, ended>>
    /\ UNCHANGED <<made, store, binding, serverVars, requests, excused, trouble, mixVars>>

\* POST /logout: the page goes, and the cookies of the whole browser.
Logout(t) ==
    /\ tab[t].pc \in {"ready", "locked"}
    /\ tab' = [tab EXCEPT ![t] = NewPage(tab[t].key)]
    /\ cookie' = [cookie EXCEPT ![BrowserOf[t]] = None]
    /\ excused' = excused \cup Unsent(t)
    /\ UNCHANGED <<made, store, binding, ended, serverVars, requests, trouble, mixVars>>

\* reset_password_submit: every refresh token of the user is deleted; the backup stays.
ResetPassword(a) ==
    /\ \E new \in Passwords \ {password[a]} : password' = [password EXCEPT ![a] = new]
    /\ ended' = ended \cup {b \in Browsers : cookie[b] = a}
    /\ trouble' = trouble \cup {a}
    /\ UNCHANGED <<made, store, binding, cookie, backup, requests, tab, excused, mixVars>>

-----------------------------------------------------------------------------
(* Loading a page.                                                         *)

\* ensureSession and /users/me; without a session the page leads to the login form.
Open(t) ==
    LET a == cookie[BrowserOf[t]] IN
    /\ tab[t].pc = "closed"
    /\ a # None /\ BrowserOf[t] \notin ended
    /\ tab' = [tab EXCEPT ![t] = [NewPage(tab[t].key) EXCEPT !.pc = "bind", !.account = a]]
    /\ trouble' = IF tab[t].key \in {None, password[a]} THEN trouble ELSE trouble \cup {a}
    /\ UNCHANGED <<made, store, binding, cookie, ended, serverVars, requests, excused,
                   mixVars>>

BoundToAnother(t) == binding[BrowserOf[t]] \notin {None, tab[t].account}

\* Another page has the database open, which then cannot be deleted.
HeldOpen(t) ==
    \E s \in Tabs \ {t} :
        BrowserOf[s] = BrowserOf[t] /\ tab[s].pc \notin {"closed", "bind", "erase"}

\* Mutant: whom the store is bound to is not looked at.
ReadBindingOfAny(t) ==
    /\ tab[t].pc = "bind"
    /\ tab' = [tab EXCEPT ![t] = [tab[t] EXCEPT !.pc = "put"]]
    /\ UNCHANGED <<made, store, binding, cookie, ended, serverVars, requests, excused,
                   trouble, mixVars>>

\* A page of another account has read the binding, and not put its own yet.
BindsToo(t) ==
    \E s \in Tabs : /\ BrowserOf[s] = BrowserOf[t] /\ tab[s].pc = "put"
                    /\ tab[s].account # tab[t].account

\* ensureLocalAccountBinding: the binding is read,
ReadBinding(t) ==
    LET to == IF BoundToAnother(t) THEN "erase" ELSE "put" IN
    /\ tab[t].pc = "bind"
    /\ tab' = [tab EXCEPT ![t] = [tab[t] EXCEPT !.pc = to]]
    /\ mixed' = IF to = "put" /\ BindsToo(t) THEN mixed \cup {BrowserOf[t]} ELSE mixed
    /\ UNCHANGED <<made, store, binding, cookie, ended, serverVars, requests, excused,
                   trouble, strayed>>

\* the database deleted (resetLocalCryptoState) as soon as no page has it open,
EraseOther(t) ==
    LET b == BrowserOf[t] IN
    /\ tab[t].pc = "erase" /\ ~ HeldOpen(t)
    /\ store' = [store EXCEPT ![b] = {}]
    /\ binding' = [binding EXCEPT ![b] = None]
    /\ tab' = [tab EXCEPT ![t] = [tab[t] EXCEPT !.pc = "put"]]
    /\ mixed' = mixed \ {b}
    /\ UNCHANGED <<made, cookie, ended, serverVars, requests, excused, trouble, strayed>>

\* and the page's own account put, whatever has been put there since.
PutBinding(t) ==
    /\ tab[t].pc = "put"
    /\ binding' = [binding EXCEPT ![BrowserOf[t]] = tab[t].account]
    /\ tab' = [tab EXCEPT ![t] = [tab[t] EXCEPT !.pc = "fetch"]]
    /\ UNCHANGED <<made, store, cookie, ended, serverVars, requests, excused, trouble,
                   mixVars>>

MayRestore(copy, t) == copy.account = tab[t].account

\* Mutant: the query has no condition.
CopyOfFirst(t) ==
    LET rows == {a \in Accounts : backup[a] # None} IN
    IF cookie[BrowserOf[t]] = None \/ rows = {} THEN None ELSE backup[CHOOSE a \in rows : TRUE]

\* get_key_backup.
CopyFor(t) == IF cookie[BrowserOf[t]] = None THEN None ELSE backup[cookie[BrowserOf[t]]]

\* restoreCloudBackupIfNeeded up to the decrypted snapshot.  A wrong password makes the
\* decryption throw, and nothing that follows on the page is run.
Fetch(t) ==
    LET copy == CopyFor(t)
        skip == tab[t].key = None \/ copy = None
    IN
    /\ tab[t].pc = "fetch"
    /\ tab' = [tab EXCEPT ![t] =
         CASE skip -> [tab[t] EXCEPT !.pc = "ready"]
           [] ~ skip /\ copy.key # tab[t].key -> [tab[t] EXCEPT !.pc = "locked"]
           [] ~ skip /\ copy.key = tab[t].key /\ ~ MayRestore(copy, t) ->
                 [tab[t] EXCEPT !.pc = "ready"]
           [] OTHER -> [tab[t] EXCEPT !.pc = "apply", !.got = copy.content]]
    /\ trouble' = IF cookie[BrowserOf[t]] \in {None, tab[t].account}
                  THEN trouble ELSE trouble \cup {tab[t].account}
    /\ UNCHANGED <<made, store, binding, cookie, ended, serverVars, requests, excused,
                   mixVars>>

\* Mutant: the entries are put back into the store as it is.
ApplyWithoutClearing(t) ==
    /\ tab[t].pc = "apply"
    /\ tab' = [tab EXCEPT ![t] = [tab[t] EXCEPT !.pc = "rebind", !.suppressed = TRUE]]
    /\ UNCHANGED <<made, store, binding, cookie, ended, serverVars, requests, excused,
                   trouble, mixVars>>

\* applyCloudBackupSnapshot: clears the store,
Apply(t) ==
    /\ tab[t].pc = "apply"
    /\ store' = [store EXCEPT ![BrowserOf[t]] = {}]
    /\ tab' = [tab EXCEPT ![t] = [tab[t] EXCEPT !.pc = "rebind", !.suppressed = TRUE]]
    /\ excused' = excused \cup {c \in store[BrowserOf[t]] \ tab[t].got : c \notin Saved(made[c])}
    /\ UNCHANGED <<made, binding, cookie, ended, serverVars, requests, trouble, mixVars>>

\* puts the binding of the snapshot, which is the page's account,
Rebind(t) ==
    /\ tab[t].pc = "rebind"
    /\ binding' = [binding EXCEPT ![BrowserOf[t]] = tab[t].account]
    /\ tab' = [tab EXCEPT ![t] = [tab[t] EXCEPT !.pc = "fill"]]
    /\ UNCHANGED <<made, store, cookie, ended, serverVars, requests, excused, trouble,
                   mixVars>>

Astray(b, c) == IF b \in mixed THEN strayed \cup {c} ELSE strayed

\* and the entries, one by one.
Fill(t) ==
    LET b == BrowserOf[t] IN
    /\ tab[t].pc = "fill"
    /\ \E c \in tab[t].got :
          /\ store' = [store EXCEPT ![b] = store[b] \cup {c}]
          /\ tab' = [tab EXCEPT ![t] = [tab[t] EXCEPT !.got = tab[t].got \ {c}]]
          /\ strayed' = Astray(b, c)
    /\ UNCHANGED <<made, binding, cookie, ended, serverVars, requests, excused, trouble,
                   mixed>>

\* Mutant: the flag is reset only if the restoration fails.
ResumeSuppressed(page) == [page EXCEPT !.pc = "ready"]

Resume(page) == [page EXCEPT !.pc = "ready", !.suppressed = FALSE]

FillEnds(t) ==
    /\ tab[t].pc = "fill" /\ tab[t].got = {}
    /\ tab' = [tab EXCEPT ![t] = Resume(tab[t])]
    /\ UNCHANGED <<made, store, binding, cookie, ended, serverVars, requests, excused,
                   trouble, mixVars>>

-----------------------------------------------------------------------------
(* An entry is made; the upload that follows.                              *)

\* Mutant: a page without a password uploads, too.
ScheduledWithoutPassword(page) ==
    IF page.suppressed \/ page.up.pc # "none" THEN page ELSE [page EXCEPT !.timer = TRUE]

\* Mutant: the old timer is cleared and no new one set.
ScheduledOrCleared(page) ==
    IF page.suppressed \/ page.up.pc # "none" \/ page.key = None
    THEN page
    ELSE [page EXCEPT !.timer = ~ page.timer]

\* scheduleCloudBackupSync: nothing while entries are put back or an upload is under way.
Scheduled(page) ==
    IF page.suppressed \/ page.up.pc # "none" \/ page.key = None
    THEN page
    ELSE [page EXCEPT !.timer = TRUE]

\* saveVerificationStatus, saveAttachmentHistory.
MakeEntry(t) ==
    LET b == BrowserOf[t]
        c == Len(made) + 1
    IN
    /\ tab[t].pc = "ready" /\ c <= MaxEntries
    /\ made' = Append(made, tab[t].account)
    /\ store' = [store EXCEPT ![b] = store[b] \cup {c}]
    /\ tab' = [tab EXCEPT ![t] = Scheduled(tab[t])]
    /\ excused' = IF tab[t].key = None \/ tab[t].up.pc \in {"taken", "sent"}
                  THEN excused \cup {c} ELSE excused
    /\ strayed' = Astray(b, c)
    /\ UNCHANGED <<binding, cookie, ended, serverVars, requests, trouble, mixed>>

\* resetLocalCryptoState by the button of the verification panel, and the reload.
ResetLocal(t) ==
    LET b == BrowserOf[t] IN
    /\ tab[t].pc = "ready" /\ ~ HeldOpen(t)
    /\ store' = [store EXCEPT ![b] = {}]
    /\ binding' = [binding EXCEPT ![b] = None]
    /\ tab' = [tab EXCEPT ![t] = NewPage(tab[t].key)]
    /\ mixed' = mixed \ {b}
    /\ excused' = excused \cup Unsent(t)
    /\ UNCHANGED <<made, cookie, ended, serverVars, requests, trouble, strayed>>

\* The timer: syncCloudBackupNow, which reads whom the store is bound to,
StartUpload(t) ==
    /\ tab[t].timer
    /\ tab' = [tab EXCEPT ![t] =
         [tab[t] EXCEPT !.timer = FALSE,
                           !.up = [NoUpload EXCEPT !.pc = "started",
                                                   !.account = binding[BrowserOf[t]]]]]
    /\ UNCHANGED <<made, store, binding, cookie, ended, serverVars, requests, excused,
                   trouble, mixVars>>

\* and then its entries (buildCloudBackupSnapshot, exportMessageMetadata).
TakeSnapshot(t) ==
    /\ tab[t].up.pc = "started"
    /\ tab' = [tab EXCEPT ![t] =
         [tab[t] EXCEPT !.up = [tab[t].up EXCEPT !.pc = "taken", !.content = store[BrowserOf[t]]]]]
    /\ UNCHANGED <<made, store, binding, cookie, ended, serverVars, requests, excused,
                   trouble, mixVars>>

RequestOf(t, to) ==
    [to |-> to, from |-> BrowserOf[t], account |-> tab[t].up.account,
     content |-> tab[t].up.content, key |-> tab[t].key]

\* The encrypted snapshot is sent, with the cookies the browser has by now.
Send(t) ==
    LET a == cookie[BrowserOf[t]] IN
    /\ tab[t].up.pc = "taken" /\ a # None
    /\ requests' = requests \cup {RequestOf(t, a)}
    /\ tab' = [tab EXCEPT ![t] =
         [tab[t] EXCEPT !.up = [tab[t].up EXCEPT !.pc = "sent", !.to = a]]]
    /\ excused' = IF a = tab[t].up.account THEN excused ELSE excused \cup tab[t].up.content
    /\ trouble' = IF a = tab[t].account THEN trouble ELSE trouble \cup {a}
    /\ UNCHANGED <<made, store, binding, cookie, ended, serverVars, mixVars>>

\* Without a session authFetch returns the refusal, and the upload ends.
Refused(t) ==
    /\ tab[t].up.pc = "taken" /\ cookie[BrowserOf[t]] = None
    /\ tab' = [tab EXCEPT ![t] = [tab[t] EXCEPT !.up = NoUpload]]
    /\ excused' = excused \cup Unsent(t)
    /\ UNCHANGED <<made, store, binding, cookie, ended, serverVars, requests, trouble,
                   mixVars>>

\* put_key_backup.
Replaced(r) ==
    [backup EXCEPT ![r.to] = [account |-> r.account, content |-> r.content, key |-> r.key]]

PutBackup(r) ==
    LET gone == {c \in Saved(r.to) : c \notin r.content}
        own == IF r.to = r.account THEN r.content ELSE {}
    IN
    /\ backup' = Replaced(r)
    /\ requests' = requests \ {r}
    /\ excused' = (excused \ own) \cup gone \cup (r.content \ own)
    /\ UNCHANGED <<made, store, binding, cookie, ended, password, tab, trouble, mixVars>>

RequestLost(r) ==
    /\ requests' = requests \ {r}
    /\ excused' = excused \cup r.content
    /\ UNCHANGED <<made, store, binding, cookie, ended, serverVars, tab, trouble, mixVars>>

Settled(page) == [page EXCEPT !.up = NoUpload]

OnItsWay(t) == tab[t].up.pc = "sent" /\ RequestOf(t, tab[t].up.to) \in requests

\* The reply, good or bad: cloudBackupSyncPromise is null again.
UploadEnds(t) ==
    /\ tab[t].up.pc = "sent" /\ ~ OnItsWay(t)
    /\ tab' = [tab EXCEPT ![t] = Settled(tab[t])]
    /\ UNCHANGED <<made, store, binding, cookie, ended, serverVars, requests, excused,
                   trouble, mixVars>>

\* The upload fails at any stage, the request perhaps still under way; it is not repeated.
UploadFails(t) ==
    /\ tab[t].up.pc \in {"started", "taken"} \/ OnItsWay(t)
    /\ tab' = [tab EXCEPT ![t] = Settled(tab[t])]
    /\ excused' = excused \cup Unsent(t) \cup
         (IF OnItsWay(t) THEN tab[t].up.content ELSE {})
    /\ UNCHANGED <<made, store, binding, cookie, ended, serverVars, requests, trouble,
                   mixVars>>

-----------------------------------------------------------------------------
UserStep ==
    \E t \in Tabs :
        \/ Leave(t) \/ Logout(t) \/ ResetLocal(t) \/ Open(t) \/ MakeEntry(t)
        \/ \E a \in Accounts, typed \in Passwords : Login(t, a, typed)

PageStep(t) ==
    \/ ReadBinding(t) \/ EraseOther(t) \/ PutBinding(t)
    \/ Fetch(t) \/ Apply(t) \/ Rebind(t) \/ Fill(t) \/ FillEnds(t)

UploadStep(t) ==
    StartUpload(t) \/ TakeSnapshot(t) \/ Send(t) \/ Refused(t) \/ UploadEnds(t)

BackupNext ==
    \/ UserStep
    \/ \E a \in Accounts : ResetPassword(a)
    \/ \E t \in Tabs : PageStep(t) \/ UploadStep(t) \/ UploadFails(t)
    \/ \E r \in requests : PutBackup(r) \/ RequestLost(r)

\* Timers fire and callbacks run; the server handles what reaches it.
Fairness ==
    /\ \A t \in Tabs : WF_vars(PageStep(t)) /\ WF_vars(UploadStep(t))
    /\ WF_vars(\E r \in requests : PutBackup(r) \/ RequestLost(r))

BackupSpec == BackupInit /\ [][BackupNext]_vars /\ Fairness
-----------------------------------------------------------------------------
(* What the store and its backup promise.                                  *)

\* A browser's store holds no entry of another account than the one it is bound to, whatever
\* logins, resets and mixed-up uploads happen in its other tabs: the binding, the erasure and
\* the check of the snapshot's binding see to it together (ensureLocalAccountBinding,
\* restoreCloudBackupIfNeeded).  The exception are the entries that have been in a store which
\* pages of two accounts bound at once, each between the other's get and put of the binding
\* (crypto.js:777-786), from then until it is erased; a backup may carry them to other browsers.
StoresKeptApart ==
    \A b \in Browsers : \A c \in store[b] : made[c] = binding[b] \/ c \in strayed

Quiet(b) ==
    /\ \A t \in Tabs : BrowserOf[t] = b => ~ tab[t].timer /\ tab[t].up.pc = "none"
    /\ \A r \in requests : r.from # b

\* When a browser has no upload to come, its entries are on the server, but for those that
\* were made without a password or while a snapshot was under way, whose upload failed, was
\* abandoned or went to another account's row, which another upload or a restoration has
\* dropped, or which are in a store that two accounts have bound (scheduleCloudBackupSync,
\* syncCloudBackupNow, applyCloudBackupSnapshot, put_key_backup).
QuietMeansSaved ==
    \A b \in Browsers : Quiet(b) =>
        \A c \in store[b] : c \in Saved(made[c]) \cup excused \cup strayed

\* A page whose owner cannot open the backup has a cause: the password was reset, a page
\* of the account ran with a password that is not the account's, or another account's page
\* has overwritten the backup (restoreCloudBackupIfNeeded, reset_password_submit).
LockoutHasCause ==
    \A t \in Tabs : tab[t].pc = "locked" => tab[t].account \in trouble

\* An entry reaches the server in the end, or gets one of the excuses just named: it is
\* not repeated after a failure, nor kept over a restoration.
EntriesReachServer ==
    \A c \in Entries :
        c <= Len(made) ~> (\/ c \in excused \cup strayed
                           \/ c <= Len(made) /\ c \in Saved(made[c]))

\* What an owner of an account sees of it. While a page puts entries back, the store has
\* already the content it is going to have.
ComingTo(b) ==
    UNION {tab[t].got : t \in {u \in Tabs : BrowserOf[u] = b /\ tab[u].pc \in {"rebind", "fill"}}}

LocalOf(a) == [b \in Browsers |-> IF binding[b] = a THEN store[b] \cup ComingTo(b) ELSE {}]

\* An uploading page may have left a content in another account's row.
SavedOf(a) ==
    {backup[x].content : x \in {y \in Accounts : backup[y] # None /\ backup[y].account = a}}

WrittenOf(a) ==
    {tab[t].up.content : t \in {u \in Tabs : tab[u].up.account = a
                                          /\ tab[u].up.pc \in {"taken", "sent"}}}
    \cup {r.content : r \in {q \in requests : q.account = a}}

LoadedOf(a) == {tab[t].got : t \in {u \in Tabs : tab[u].account = a /\ tab[u].pc = "apply"}}

AdoptingOf(a) == {b \in Browsers :
    \E t \in Tabs : BrowserOf[t] = b /\ tab[t].account = a /\ tab[t].pc \in {"rebind", "fill"}}

OwnersStore == INSTANCE AccountStore WITH
    local <- LocalOf(Owner), adopting <- AdoptingOf(Owner), saved <- SavedOf(Owner),
    written <- WrittenOf(Owner), loaded <- LoadedOf(Owner),
    shared <- mixed # {} \/ strayed # {}

\* Whatever goes on in other accounts' pages of the same browsers, the owner of an account
\* has an AccountStore: every content that is saved or restored is one that a device of his
\* really had, as a whole, and belongs to him.  It holds as long as no two accounts' pages
\* have bound one store at once.
ImplementsAccountStore == OwnersStore!StoreSpec
=============================================================================
