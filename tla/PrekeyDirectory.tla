-------------------------- MODULE PrekeyDirectory --------------------------
(***************************************************************************)
(* The prekeys of one account: what its devices hold, what the server      *)
(* lists, and what the server gives to other users.                        *)
(*                                                                         *)
(* A page of a device creates and replenishes the device's keys in         *)
(* IndexedDB and uploads the public halves (initKeysIfNeeded in            *)
(* crypto.js); every IndexedDB access is awaited, and several pages of one *)
(* browser share the database.  The server replaces two listings in one    *)
(* transaction: the device's, and the one kept on the user row             *)
(* (upload_x3dh_keys in auth.py).  Other users are given an unused         *)
(* one-time key of a listing (issue_device_prekey_bundle and               *)
(* issue_prekey_bundle in messages.py); some requests only look at it.     *)
(*                                                                         *)
(* Transactions are those of PostgreSQL at READ COMMITTED: a DELETE takes  *)
(* the rows committed when it starts, a row deleted by an open transaction *)
(* makes the next writer wait, and an INSERT that breaks a unique          *)
(* constraint aborts its transaction.                                      *)
(***************************************************************************)
EXTENDS Naturals, FiniteSets, FiniteSetsExt

CONSTANTS
    Devices,     \* the account's devices
    Pages,       \* browser pages that may be open on them
    HomeOf,      \* the device of each page
    Uploads,     \* upload requests that can be at the server at once
    Requests,    \* calls that issue a bundle of a listing
    User,        \* names the listing kept on the user row
    None,
    Batch,       \* PREKEY_BATCH_SIZE: unused one-time keys a device keeps
    MaxKeys,     \* bound: one-time keys created
    MaxSigned,   \* bound: signed prekeys created
    MaxVersions  \* bound: uploads committed

ASSUME DirectoryAssumption ==
    /\ HomeOf \in [Pages -> Devices]
    /\ User \notin Devices
    /\ None \notin Pages \cup Uploads
    /\ Batch \in Nat /\ MaxKeys \in Nat /\ MaxSigned \in Nat /\ MaxVersions \in Nat

Listings == Devices \cup {User}

VARIABLES
    signed,      \* signed prekeys created so far: they are 1..signed; 0 is none
    keys,        \* one-time keys created so far: they are 1..keys
    local,       \* what each device stores: a signed prekey, one-time keys
    page,        \* where each page is in initKeysIfNeeded, and what it has read
    upload,      \* the upload requests at the server
    device,      \* the device row: "none", "active" or "revoked"
    listed,      \* each listing: the signed prekey and the one-time key rows
    version,     \* uploads committed so far: a row is named by its key and this
    uploader,    \* history: the device whose upload last wrote the user row
    request,     \* the calls that issue bundles
    seen,        \* one-time keys some other user has been given
    synced,      \* history: the device's last initialisation was committed
    overlapped,  \* history: two pages, or a page and an upload, were once active
    passed,      \* history: uploads that had begun to delete when another was committed
    unpassed,    \* history: the upload committed last had not been passed
    late         \* history: keys consumed while a request or a page had them as unused

deviceVars == <<signed, keys, local, page>>
serverVars == <<upload, device, listed, version, uploader>>
history == <<passed, unpassed, late>>
vars == <<signed, keys, local, page, upload, device, listed, version, uploader,
          request, seen, synced, overlapped, history>>

SignedPreKeys == 0..MaxSigned
OneTimeKeys == 1..MaxKeys
Rows == [key : OneTimeKeys, version : 1..MaxVersions, used : BOOLEAN]

Closed == [pc |-> "closed", spk |-> 0, unused |-> {}, used |-> {}, sent |-> None]

Open == [Closed EXCEPT !.pc = "open"]

Finished == [pc |-> "done", page |-> None, of |-> None, spk |-> 0, keys |-> {},
             creates |-> FALSE, doomed |-> {}, after |-> {}]

DeviceStores == [spk : SignedPreKeys, unused : SUBSET OneTimeKeys, used : SUBSET OneTimeKeys]

PageStates ==
    [pc : {"closed", "sign", "fill", "clean", "post", "wait", "open", "mark"},
     spk : SignedPreKeys, unused : SUBSET OneTimeKeys, used : SUBSET OneTimeKeys,
     sent : Uploads \cup {None}]

RowNames == Listings \X OneTimeKeys \X (1..MaxVersions)

RunningUploads ==
    [pc : {"sent", "begun", "user", "device"}, page : Pages, of : Devices,
     spk : SignedPreKeys, keys : SUBSET OneTimeKeys, creates : BOOLEAN,
     doomed : SUBSET RowNames, after : SUBSET Uploads]

NoUpload ==
    [pc : {"done"}, page : {None}, of : {None}, spk : {0}, keys : {{}}, creates : {FALSE},
     doomed : {{}}, after : {{}}]

UploadStates == RunningUploads \cup NoUpload

RequestStates ==
    [pc : {"idle", "selected", "given", "failed"}, at : Listings,
     key : 0..MaxKeys, version : 0..MaxVersions, before : SUBSET Requests]

DirectoryTypeOK ==
    /\ signed \in SignedPreKeys
    /\ keys \in 0..MaxKeys
    /\ local \in [Devices -> DeviceStores]
    /\ page \in [Pages -> PageStates]
    /\ upload \in [Uploads -> UploadStates]
    /\ device \in [Devices -> {"none", "active", "revoked"}]
    /\ listed \in [Listings -> [spk : SignedPreKeys, rows : SUBSET Rows]]
    /\ version \in 0..MaxVersions
    /\ uploader \in Devices \cup {None}
    /\ request \in [Requests -> RequestStates]
    /\ seen \in SUBSET OneTimeKeys
    /\ synced \in [Devices -> BOOLEAN]
    /\ overlapped \in BOOLEAN
    /\ passed \in SUBSET Uploads /\ unpassed \in BOOLEAN /\ late \in SUBSET OneTimeKeys

-----------------------------------------------------------------------------
(* Which pages and uploads are active.                                     *)

Active(p) == page[p].pc \notin {"closed", "open"}

AtServer(u) == upload[u].pc # "done"

\* Anyone but page p is using the device's record or changing a listing.
OthersActive(p) ==
    \/ \E q \in Pages \ {p} : HomeOf[q] = HomeOf[p] /\ Active(q)
    \/ \E u \in Uploads : AtServer(u)

(***************************************************************************)
(* The device's page is loaded or reloaded; initKeysIfNeeded reads the     *)
(* records.  What an earlier load of the page was doing is forgotten, but  *)
(* an upload it has sent is not taken back.                                *)
(***************************************************************************)
Load(p) ==
    /\ page' = [page EXCEPT ![p] = [pc |-> "sign", spk |-> local[HomeOf[p]].spk,
                                    unused |-> local[HomeOf[p]].unused,
                                    used |-> local[HomeOf[p]].used, sent |-> None]]
    /\ synced' = [synced EXCEPT ![HomeOf[p]] = FALSE]
    /\ overlapped' = (overlapped \/ OthersActive(p))
    /\ UNCHANGED <<signed, keys, local, serverVars, request, seen, history>>

(***************************************************************************)
(* The signed prekey is put back, normalised, or replaced by a new one if  *)
(* there is none or shouldRotateSignedPreKey says that it is too old.      *)
(***************************************************************************)
PutSigned(p, rotate) ==
    /\ page[p].pc = "sign"
    /\ LET fresh == rotate \/ page[p].spk = 0
           spk == IF fresh THEN signed + 1 ELSE page[p].spk
       IN  /\ fresh => signed < MaxSigned
           /\ signed' = IF fresh THEN spk ELSE signed
           /\ local' = [local EXCEPT ![HomeOf[p]].spk = spk]
           /\ page' = [page EXCEPT ![p].pc = "fill", ![p].spk = spk]
    /\ UNCHANGED <<keys, serverVars, request, seen, synced, overlapped, history>>

\* Missing one-time keys are created; the whole record is written as it was read.
Fill(p) ==
    /\ page[p].pc = "fill"
    /\ LET missing == IF Cardinality(page[p].unused) < Batch
                      THEN Batch - Cardinality(page[p].unused) ELSE 0
           unused == page[p].unused \cup (keys + 1 .. keys + missing)
       IN  /\ keys + missing <= MaxKeys
           /\ keys' = keys + missing
           /\ local' = IF missing = 0 THEN local
                       ELSE [local EXCEPT ![HomeOf[p]].unused = unused,
                                          ![HomeOf[p]].used = page[p].used]
           /\ page' = [page EXCEPT ![p].pc = "clean", ![p].unused = unused]
    /\ UNCHANGED <<signed, serverVars, request, seen, synced, overlapped, history>>

(***************************************************************************)
(* cleanupLocalKeyMaterial reads the one-time record again and drops the   *)
(* used keys that are old (purge); the page goes on with what is left.     *)
(* The signed prekey cannot be old here: it has just been checked.  The    *)
(* read and the write are one step: a page that writes between them counts *)
(* as an overlap in any case.                                              *)
(***************************************************************************)
Clean(p, purge) ==
    /\ page[p].pc = "clean"
    /\ LET d == HomeOf[p]
           kept == local[d].used \ purge
       IN  /\ local' = [local EXCEPT ![d].used = kept]
           /\ page' = [page EXCEPT ![p].pc = "post", ![p].unused = local[d].unused,
                                   ![p].used = kept]
    /\ UNCHANGED <<signed, keys, serverVars, request, seen, synced, overlapped, history>>

\* Fault: every one-time key of the record is posted, the used ones too.
PostedKeysAndUsed(p) == page[p].unused \cup page[p].used

\* The one-time keys of the request body.
PostedKeys(p) == page[p].unused

\* The public halves are posted: the signed prekey and the unused one-time keys.
Post(p, u) ==
    /\ page[p].pc = "post"
    /\ ~ AtServer(u)
    /\ upload' = [upload EXCEPT ![u] = [Finished EXCEPT !.pc = "sent", !.page = p,
                     !.of = HomeOf[p], !.spk = page[p].spk, !.keys = PostedKeys(p)]]
    /\ page' = [page EXCEPT ![p] = [Closed EXCEPT !.pc = "wait", !.sent = u]]
    /\ overlapped' = (overlapped \/ \E w \in Uploads : AtServer(w))
    /\ UNCHANGED <<signed, keys, local, device, listed, version, uploader,
                   request, seen, synced, history>>

\* The request fails on its way back: the page only logs it and goes on.
ReplyLost(p) ==
    /\ page[p].pc = "wait"
    /\ page' = [page EXCEPT ![p] = Open]
    /\ UNCHANGED <<signed, keys, local, serverVars, request, seen, synced, overlapped,
                   history>>

(***************************************************************************)
(* A first message names a one-time key the sender was given:              *)
(* consumeLocalOneTimePreKey reads the record, marks the key and writes    *)
(* the record back.                                                        *)
(***************************************************************************)
ConsumeRead(p) ==
    /\ page[p].pc = "open"
    /\ local[HomeOf[p]].unused \cap seen # {}
    /\ page' = [page EXCEPT ![p].pc = "mark", ![p].unused = local[HomeOf[p]].unused,
                            ![p].used = local[HomeOf[p]].used]
    /\ overlapped' = (overlapped \/ OthersActive(p))
    /\ UNCHANGED <<signed, keys, local, serverVars, request, seen, synced, history>>

\* A request under way, or what another page of the device has read, has the key as unused.
UnusedElsewhere(p, k) ==
    \/ \E q \in Pages \ {p} : HomeOf[q] = HomeOf[p] /\ k \in page[q].unused
    \/ \E u \in Uploads : upload[u].of = HomeOf[p] /\ k \in upload[u].keys

ConsumePut(p, k) ==
    /\ page[p].pc = "mark"
    /\ k \in page[p].unused \cap seen
    /\ late' = late \cup {j \in {k} : UnusedElsewhere(p, j)}
    /\ local' = [local EXCEPT ![HomeOf[p]].unused = page[p].unused \ {k},
                              ![HomeOf[p]].used = page[p].used \cup {k}]
    /\ page' = [page EXCEPT ![p] = Open]
    /\ UNCHANGED <<signed, keys, serverVars, request, seen, synced, overlapped, passed,
                   unpassed>>

-----------------------------------------------------------------------------
(* upload_x3dh_keys: one transaction, in the order of its statements.      *)

RowsOf(l) == {<<l, r.key, r.version>> : r \in listed[l].rows}

\* Transactions whose uncommitted deletes a DELETE on listing l would run into.
Blockers(u, l) ==
    {w \in Uploads \ {u} : AtServer(w) /\ upload[w].doomed \cap RowsOf(l) # {}}

\* A device row with this id has been inserted by a transaction still open.
Creating(d) ==
    \E w \in Uploads : /\ upload[w].pc \in {"user", "device"}
                       /\ upload[w].of = d /\ upload[w].creates

\* get_or_create_device looks for an active row; a revoked one does not count.
UploadBegin(u) ==
    /\ upload[u].pc = "sent"
    /\ upload' = [upload EXCEPT ![u].pc = "begun",
                                ![u].creates = device[upload[u].of] # "active"]
    /\ UNCHANGED <<deviceVars, device, listed, version, uploader, request, seen,
                   synced, overlapped, history>>

\* A new device row is inserted if need be; then DELETE FROM one_time_prekeys starts.
UploadDeletesUser(u) ==
    /\ upload[u].pc = "begun"
    /\ upload[u].creates => device[upload[u].of] = "none" /\ ~ Creating(upload[u].of)
    /\ upload' = [upload EXCEPT ![u].pc = "user", ![u].doomed = RowsOf(User),
                                ![u].after = Blockers(u, User)]
    /\ passed' = passed \ {u}
    /\ UNCHANGED <<deviceVars, device, listed, version, uploader, request, seen,
                   synced, overlapped, unpassed, late>>

\* The first DELETE has gone through; DELETE FROM device_one_time_prekeys starts.
UploadDeletesDevice(u) ==
    /\ upload[u].pc = "user"
    /\ upload[u].after = {}
    /\ LET d == upload[u].of
       IN  upload' = [upload EXCEPT ![u].pc = "device",
                         ![u].doomed = @ \cup RowsOf(d), ![u].after = Blockers(u, d)]
    /\ UNCHANGED <<deviceVars, device, listed, version, uploader, request, seen,
                   synced, overlapped, history>>

\* The transaction ends: nobody waits for it any more, and its page goes on.
End(u) ==
    /\ upload' = [w \in Uploads |->
                     IF w = u THEN Finished
                     ELSE [upload[w] EXCEPT !.after = @ \ {u}]]
    /\ page' = [p \in Pages |->
                  IF page[p].pc = "wait" /\ page[p].sent = u
                  THEN Open
                  ELSE page[p]]

\* Fault: rows are replaced key by key, and keys the device no longer has stay.
SurvivorsUpsert(u, l) == {r \in listed[l].rows : r.key \notin upload[u].keys}

\* The rows of listing l that the transaction has not deleted.
Survivors(u, l) ==
    {r \in listed[l].rows : <<l, r.key, r.version>> \notin upload[u].doomed}

\* Fault: the new rows do not get ids of their own.
NewRowsOldVersion(u) ==
    {[key |-> k, version |-> version, used |-> FALSE] : k \in upload[u].keys}

NewRows(u) ==
    {[key |-> k, version |-> version + 1, used |-> FALSE] : k \in upload[u].keys}

\* The unique constraint on key_id: an insert meets a row that was not deleted.
Conflicts(u) ==
    \E l \in {User, upload[u].of} : \E r \in Survivors(u, l) : r.key \in upload[u].keys

\* The keys of the user and device rows and the new one-time keys are written: commit.
UploadCommit(u) ==
    /\ upload[u].pc = "device"
    /\ upload[u].after = {}
    /\ ~ Conflicts(u)
    /\ version < MaxVersions
    /\ LET d == upload[u].of
       IN  /\ listed' = [l \in Listings |->
                           IF l \in {User, d}
                           THEN [spk |-> upload[u].spk,
                                 rows |-> Survivors(u, l) \cup NewRows(u)]
                           ELSE listed[l]]
           /\ device' = [device EXCEPT ![d] = IF upload[u].creates THEN "active" ELSE @]
           /\ synced' = [synced EXCEPT ![d] = TRUE]
           /\ uploader' = d
    /\ version' = version + 1
    /\ unpassed' = (u \notin passed)
    /\ passed' = (passed \cup {w \in Uploads : upload[w].pc \in {"user", "device"}}) \ {u}
    /\ End(u)
    /\ UNCHANGED <<signed, keys, local, request, seen, overlapped, late>>

\* The transaction is rolled back: a conflict, a second device row, or any other error.
UploadFail(u) ==
    /\ AtServer(u)
    /\ End(u)
    /\ passed' = passed \ {u}
    /\ UNCHANGED <<signed, keys, local, device, listed, version, uploader, request,
                   seen, synced, overlapped, unpassed, late>>

-----------------------------------------------------------------------------
(* Revocation and the calls of other users.                                *)

\* Rows an open transaction has deleted: whoever writes them waits for its end.
Locked == UNION {upload[u].doomed : u \in Uploads}

\* revoke_device; it leaves the user row as it is.
Revoke(d) ==
    /\ device[d] = "active"
    /\ RowsOf(d) \cap Locked = {}
    /\ device' = [device EXCEPT ![d] = "revoked"]
    /\ listed' = [listed EXCEPT ![d].rows = {}]
    /\ UNCHANGED <<deviceVars, upload, version, uploader, request, seen, synced, overlapped,
                   history>>

\* The bundle of a listing is complete and may be given out.
Offered(l) == listed[l].spk # 0 /\ (l \in Devices => device[l] = "active")

Unused(l) == {r \in listed[l].rows : ~ r.used}

\* Fault: the query does not ask for used_at IS NULL.
IsFirstOfAll(l, r) == r \in listed[l].rows /\ \A s \in listed[l].rows : r.key <= s.key

\* The row the query finds: the first unused one by id.
IsFirst(l, r) == r \in Unused(l) /\ \A s \in Unused(l) : r.key <= s.key

\* An issuing call has read the first unused row and waits for its update.
Select(r, l, row) ==
    /\ request[r].pc = "idle"
    /\ Offered(l)
    /\ IsFirst(l, row)
    /\ request' = [request EXCEPT ![r] = [pc |-> "selected", at |-> l, key |-> row.key,
                      version |-> row.version,
                      before |-> {q \in Requests : request[q].pc = "given"}]]
    /\ UNCHANGED <<deviceVars, serverVars, seen, synced, overlapped, history>>

\* The row a call has selected, unless it has been deleted since.
Selected(r) ==
    {row \in listed[request[r].at].rows :
        row.key = request[r].key /\ row.version = request[r].version}

\* used_at is set and committed, whoever else has set it; the key is given out.
Give(r) ==
    /\ request[r].pc = "selected"
    /\ Selected(r) # {}
    /\ <<request[r].at, request[r].key, request[r].version>> \notin Locked
    /\ listed' = [listed EXCEPT ![request[r].at].rows =
                     (@ \ Selected(r)) \cup {[row EXCEPT !.used = TRUE] : row \in Selected(r)}]
    /\ request' = [request EXCEPT ![r].pc = "given"]
    /\ seen' = seen \cup {request[r].key}
    /\ UNCHANGED <<deviceVars, upload, device, version, uploader, synced, overlapped, history>>

\* The row is gone: the update matches nothing and the call fails.
GiveFails(r) ==
    /\ request[r].pc = "selected"
    /\ Selected(r) = {}
    /\ request' = [request EXCEPT ![r].pc = "failed"]
    /\ UNCHANGED <<deviceVars, serverVars, seen, synced, overlapped, history>>

\* peek_prekey_bundle and peek_device_prekey_bundle show the key and leave it unused.
Peek(l, row) ==
    /\ Offered(l)
    /\ IsFirst(l, row)
    /\ row.key \notin seen
    /\ seen' = seen \cup {row.key}
    /\ UNCHANGED <<deviceVars, serverVars, request, synced, overlapped, history>>

\* purge_old_used_prekeys and purge_old_used_device_prekeys, before any of these calls.
Purge(l, row) ==
    /\ Offered(l)
    /\ row \in listed[l].rows /\ row.used
    /\ <<l, row.key, row.version>> \notin Locked
    /\ listed' = [listed EXCEPT ![l].rows = @ \ {row}]
    /\ UNCHANGED <<deviceVars, upload, device, version, uploader, request, seen,
                   synced, overlapped, history>>

-----------------------------------------------------------------------------
DirectoryInit ==
    /\ signed = 0 /\ keys = 0
    /\ local = [d \in Devices |-> [spk |-> 0, unused |-> {}, used |-> {}]]
    /\ page = [p \in Pages |-> Closed]
    /\ upload = [u \in Uploads |-> Finished]
    /\ device = [d \in Devices |-> "none"]
    /\ listed = [l \in Listings |-> [spk |-> 0, rows |-> {}]]
    /\ version = 0
    /\ uploader = None
    /\ request = [r \in Requests |-> [pc |-> "idle", at |-> User, key |-> 0,
                                      version |-> 0, before |-> {}]]
    /\ seen = {}
    /\ synced = [d \in Devices |-> FALSE]
    /\ overlapped = FALSE
    /\ passed = {} /\ unpassed = TRUE /\ late = {}

PageStep(p) ==
    \/ Load(p)
    \/ \E rotate \in BOOLEAN : PutSigned(p, rotate)
    \/ Fill(p)
    \/ \E purge \in SUBSET local[HomeOf[p]].used : Clean(p, purge)
    \/ \E u \in Uploads : Post(p, u)
    \/ ReplyLost(p)
    \/ ConsumeRead(p)
    \/ \E k \in OneTimeKeys : ConsumePut(p, k)

UploadStep(u) ==
    \/ UploadBegin(u) \/ UploadDeletesUser(u) \/ UploadDeletesDevice(u)
    \/ UploadCommit(u) \/ UploadFail(u)

RequestStep ==
    \/ \E l \in Listings : \E row \in listed[l].rows :
          \/ \E r \in Requests : Select(r, l, row)
          \/ Peek(l, row)
          \/ Purge(l, row)
    \/ \E r \in Requests : Give(r) \/ GiveFails(r)

DirectoryNext ==
    \/ \E p \in Pages : PageStep(p)
    \/ \E u \in Uploads : UploadStep(u)
    \/ \E d \in Devices : Revoke(d)
    \/ RequestStep

DirectorySpec == DirectoryInit /\ [][DirectoryNext]_vars

-----------------------------------------------------------------------------
\* Device d holds the private halves of what listing l offers.
Holds(d, l) ==
    /\ listed[l].spk = local[d].spk
    /\ \A r \in Unused(l) : r.key \in local[d].unused \cup local[d].used

(***************************************************************************)
(* As long as the device's pages and uploads do not overlap, once its last *)
(* initialisation has been committed the device holds the private half of  *)
(* the signed prekey and of every one-time key the server may hand out for *)
(* it, whatever was rotated, replenished, consumed or purged meanwhile.    *)
(***************************************************************************)
PublishedKeysHeld ==
    ~ overlapped => \A d \in Devices : synced[d] => Holds(d, d)

(***************************************************************************)
(* The user row, which every device's upload overwrites, offers the keys   *)
(* of one upload, the last, unless another upload was committed between    *)
(* the start of its DELETE and its own commit: the keys of the two are     *)
(* then mixed, until an upload comes that is not passed.  While pages and  *)
(* uploads do not overlap, the device that uploaded last holds these keys. *)
(***************************************************************************)
UserBundleIsOneDevices ==
    /\ unpassed => \A r \in listed[User].rows : r.version = version
    /\ ~ overlapped /\ uploader # None /\ synced[uploader] => Holds(uploader, User)

(***************************************************************************)
(* An upload never lists anew a key that the device has consumed, but for  *)
(* one that was consumed while the request that lists it was under way or  *)
(* while another page of the device still had it as unused: whatever is    *)
(* reloaded, lost, committed late or written back.  A key that was given   *)
(* out and is not consumed may be listed again.                            *)
(***************************************************************************)
ConsumedKeysNotRelisted ==
    [][version' # version =>
          \A d \in Devices : \A r \in listed'[d].rows \ listed[d].rows :
             r.key \in local[d].used => r.key \in late]_vars

\* Two calls were given the same row.
SameRow(r, s) ==
    /\ request[r].pc = "given" /\ request[s].pc = "given"
    /\ request[r].at = request[s].at
    /\ request[r].key = request[s].key /\ request[r].version = request[s].version

(***************************************************************************)
(* A row that has been given out is never given out again to a call that   *)
(* selects afterwards: two calls get one row only if each of them read it  *)
(* before the other committed.                                             *)
(***************************************************************************)
GivenRowIsSpent ==
    \A r, s \in Requests :
        r # s /\ SameRow(r, s) => r \notin request[s].before /\ s \notin request[r].before

\* No one-time key is given to two issuing calls on one listing.
IssuedOnce ==
    \A r, s \in Requests :
        r # s /\ request[r].pc = "given" /\ request[s].pc = "given"
              /\ request[r].at = request[s].at =>
            request[r].key # request[s].key
=============================================================================
